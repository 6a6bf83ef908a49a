----------------------------- MODULE MCUpdater -----------------------------
(* Updater for TLC: the version that runs, one older and two newer ones.   *)
EXTENDS Updater

Running03   == <<0, 3>>
AllVersions == {<<0, 2, 9>>, <<0, 3, 1>>, <<0, 10>>}
=============================================================================
