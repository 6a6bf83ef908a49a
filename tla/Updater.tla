------------------------------- MODULE Updater -------------------------------
(***************************************************************************)
(* Self-update (windows-sender/src/update.rs) and the button and menu      *)
(* entry that drive it (ui/window.rs, ui/tray.rs).                         *)
(*                                                                         *)
(* One mutex guards stage, pending and busy, and is held for one access at *)
(* a time, so a command of the window, the daily check and the worker      *)
(* threads interleave between accesses. A worker reports its outcome after *)
(* it has given busy up, when another may already be at work. The          *)
(* manifest and the installer come from a server that may answer anything. *)
(***************************************************************************)
EXTENDS Integers, Sequences, FiniteSets

CONSTANTS
  Threads,            \* names for the threads at work at one time
  Versions,           \* versions a manifest may name, as sequences of numbers
  VERSION,            \* update.rs:30, the version that is running
  MaxCommands,        \* bound: commands the user gives
  MaxRounds,          \* bound: rounds of the daily check
  MaxSpawnFailures    \* bound: threads that cannot be started

ASSUME UpdaterConstants ==
  /\ Versions \subseteq Seq(Nat) /\ VERSION \in Seq(Nat)
  /\ MaxCommands \in Nat /\ MaxRounds \in Nat /\ MaxSpawnFailures \in Nat

VARIABLES
  stage,      \* State.stage: its kind and, of Available, the version
  pending,    \* State.pending: the version to install, or NoVersion
  busy,       \* State.busy
  worker,     \* what each thread is doing
  ui,         \* the command the window's thread is in
  label,      \* what the update button says
  installer,  \* the file in the temporary directory, per version
  launched,   \* the version whose installer was started, or NoVersion
  app,        \* "running", "quitting" once QUIT is posted, "ended"
  commands, rounds, failures  \* counters of the bounds

vars == <<stage, pending, busy, worker, ui, label, installer, launched, app,
          commands, rounds, failures>>
boundVars == <<commands, rounds, failures>>
uiVars    == <<ui, label>>

NoVersion == <<>>
Stages    == {"Idle", "Checking", "UpToDate", "Available", "Downloading", "Installing", "Failed"}
Stage     == [kind : Stages, version : Versions \union {NoVersion}]
At(kind)  == [kind |-> kind, version |-> NoVersion]
Available(v) == [kind |-> "Available", version |-> v]

(* What a manifest may carry for Windows: a build, none, or one whose      *)
(* digest or address is unusable.                                          *)
Builds   == {"usable", "none", "unusable"}
Contents == {"absent", "partial", "other", "verified"}

Worker == [pc : {"none", "check", "check_now", "install", "download", "verify", "launch",
                 "hand_over", "release", "report"},
           manual : BOOLEAN, version : Versions \union {NoVersion}, outcome : Stage]
NoWorker == [pc |-> "none", manual |-> FALSE, version |-> NoVersion, outcome |-> At("Idle")]

Ui     == [pc : {"idle", "update_ready", "install", "claim", "refresh"},
           version : Versions \union {NoVersion}]
NoCommand == [pc |-> "idle", version |-> NoVersion]

TypeOK ==
  /\ stage \in Stage /\ pending \in Versions \union {NoVersion} /\ busy \in BOOLEAN
  /\ worker \in [Threads -> Worker]
  /\ ui \in Ui /\ label \in {"check", "install", "off"}
  /\ installer \in [Versions -> Contents] /\ launched \in Versions \union {NoVersion}
  /\ app \in {"running", "quitting", "ended"}
  /\ commands \in 0..MaxCommands /\ rounds \in 0..MaxRounds /\ failures \in 0..MaxSpawnFailures

-----------------------------------------------------------------------------
(* Versions *)

Part(v, i) == IF i \in DOMAIN v THEN v[i] ELSE 0

(* The first part that differs decides; a missing part counts as zero.     *)
is_newer(candidate, current) ==
  \E i \in DOMAIN candidate \union DOMAIN current :
    /\ Part(candidate, i) > Part(current, i)
    /\ \A j \in 1..(i - 1) : Part(candidate, j) = Part(current, j)

-----------------------------------------------------------------------------
(* The window's thread *)

Init ==
  /\ stage = At("Idle") /\ pending = NoVersion /\ busy = FALSE
  /\ worker = [t \in Threads |-> NoWorker]
  /\ ui = NoCommand /\ label = "check"
  /\ \E left \in {"absent", "partial", "other"} : installer = [v \in Versions |-> left]
  /\ launched = NoVersion /\ app = "running"
  /\ commands = 0 /\ rounds = 0 /\ failures = 0

Running == app # "ended"

update_ready == stage.kind = "Available"

ButtonLabel_raw == stage.kind \* mutant

ButtonLabel ==
  CASE update_ready -> "install"
    [] stage.kind \in {"Checking", "Downloading", "Installing"} -> "off"
    [] OTHER -> "check"

(* The timer and every change of the stage redraw the button. *)
refresh_status ==
  /\ Running /\ ui.pc = "idle" /\ label # ButtonLabel
  /\ label' = ButtonLabel
  /\ UNCHANGED <<stage, pending, busy, worker, ui, installer, launched, app, boundVars>>

(* The button is pressed, or the tray menu's entry chosen, which is never  *)
(* off.                                                                    *)
press ==
  /\ Running /\ ui.pc = "idle" /\ commands < MaxCommands
  /\ commands' = commands + 1
  /\ ui' = [ui EXCEPT !.pc = "update_ready"]
  /\ UNCHANGED <<stage, pending, busy, worker, label, installer, launched, app, rounds, failures>>

handle_command ==
  /\ Running /\ ui.pc = "update_ready"
  /\ ui' = [ui EXCEPT !.pc = IF update_ready THEN "install" ELSE "claim"]
  /\ UNCHANGED <<stage, pending, busy, worker, label, installer, launched, app, boundVars>>

(* Reads pending; with nothing pending it checks instead. *)
install ==
  /\ Running /\ ui.pc = "install"
  /\ ui' = [ui EXCEPT !.pc = "claim", !.version = pending]
  /\ UNCHANGED <<stage, pending, busy, worker, label, installer, launched, app, boundVars>>

claim_and_spawn_unasked(first) == \* mutant: busy is set, not tested
  /\ busy' = TRUE
  /\ \E t \in Threads : worker[t].pc = "none" /\ worker' = [worker EXCEPT ![t] = first]
  /\ UNCHANGED failures

(* claim() and the spawn: the thread starts, or cannot be started and      *)
(* nothing is undone.                                                      *)
claim_and_spawn(first) ==
  \/ /\ busy
     /\ UNCHANGED <<busy, worker, failures>>
  \/ /\ ~busy /\ busy' = TRUE
     /\ \/ /\ \E t \in Threads :
                /\ worker[t].pc = "none"
                /\ worker' = [worker EXCEPT ![t] = first]
           /\ UNCHANGED failures
        \/ /\ failures < MaxSpawnFailures /\ failures' = failures + 1
           /\ UNCHANGED worker

Checking(manual)   == [NoWorker EXCEPT !.pc = "check", !.manual = manual]
InstallingOf(v)    == [NoWorker EXCEPT !.pc = "install", !.manual = TRUE, !.version = v]

claim ==
  /\ Running /\ ui.pc = "claim"
  /\ claim_and_spawn(IF ui.version = NoVersion THEN Checking(TRUE) ELSE InstallingOf(ui.version))
  /\ ui' = [ui EXCEPT !.pc = "refresh"]
  /\ UNCHANGED <<stage, pending, label, installer, launched, app, commands, rounds>>

refresh ==
  /\ Running /\ ui.pc = "refresh"
  /\ label' = ButtonLabel /\ ui' = NoCommand
  /\ UNCHANGED <<stage, pending, busy, worker, installer, launched, app, boundVars>>

(* A round of the daily check that finds the setting on. *)
auto_check ==
  /\ Running /\ rounds < MaxRounds /\ rounds' = rounds + 1
  /\ claim_and_spawn(Checking(FALSE))
  /\ UNCHANGED <<stage, pending, uiVars, installer, launched, app, commands>>

(* WM_COMMAND QUIT is handled. *)
exit ==
  /\ app = "quitting" /\ ui.pc = "idle"
  /\ app' = "ended"
  /\ UNCHANGED <<stage, pending, busy, worker, uiVars, installer, launched, boundVars>>

-----------------------------------------------------------------------------
(* A checking thread *)

Goto(t, pc) == worker' = [worker EXCEPT ![t].pc = pc]
End(t, s)   == worker' = [worker EXCEPT ![t].pc = "release", ![t].outcome = s]

check_begins(t) ==
  /\ Running /\ worker[t].pc = "check"
  /\ stage' = At("Checking") /\ Goto(t, "check_now")
  /\ UNCHANGED <<pending, busy, uiVars, installer, launched, app, boundVars>>

CheckFailed(t) == IF worker[t].manual THEN At("Failed") ELSE At("Idle")

(* The manifest cannot be had, or is not one. *)
get_fails(t) ==
  /\ Running /\ worker[t].pc = "check_now"
  /\ End(t, CheckFailed(t))
  /\ UNCHANGED <<stage, pending, busy, uiVars, installer, launched, app, boundVars>>

check_now(t) ==
  /\ Running /\ worker[t].pc = "check_now"
  /\ \E v \in Versions, build \in Builds :
       \/ /\ ~is_newer(v, VERSION)
          /\ pending' = NoVersion /\ End(t, At("UpToDate"))
       \/ /\ is_newer(v, VERSION) /\ build # "usable"
          /\ End(t, CheckFailed(t)) /\ UNCHANGED pending
       \/ /\ is_newer(v, VERSION) /\ build = "usable"
          /\ pending' = v /\ End(t, Available(v))
  /\ UNCHANGED <<stage, busy, uiVars, installer, launched, app, boundVars>>

release(t) ==
  /\ Running /\ worker[t].pc = "release"
  /\ busy' = FALSE /\ Goto(t, "report")
  /\ UNCHANGED <<stage, pending, uiVars, installer, launched, app, boundVars>>

report_quiet(t) == \* mutant: an automatic check that fails shows nothing
  /\ Running /\ worker[t].pc = "report"
  /\ stage' = IF worker[t].outcome.kind = "Idle" THEN stage ELSE worker[t].outcome
  /\ worker' = [worker EXCEPT ![t] = NoWorker]
  /\ UNCHANGED <<pending, busy, uiVars, installer, launched, app, boundVars>>

(* The last set_stage of a check, and of an installation that failed. *)
report(t) ==
  /\ Running /\ worker[t].pc = "report"
  /\ stage' = worker[t].outcome
  /\ worker' = [worker EXCEPT ![t] = NoWorker]
  /\ UNCHANGED <<pending, busy, uiVars, installer, launched, app, boundVars>>

-----------------------------------------------------------------------------
(* An installing thread *)

install_begins(t) ==
  /\ Running /\ worker[t].pc = "install"
  /\ stage' = At("Downloading") /\ Goto(t, "download")
  /\ UNCHANGED <<pending, busy, uiVars, installer, launched, app, boundVars>>

InstallFails(t, left) ==
  /\ End(t, At("Failed"))
  /\ installer' = [installer EXCEPT ![worker[t].version] = left]

(* What was left of an earlier attempt is removed before anything else.    *)
(* Refused or claiming too much, nothing is created; too long or cut       *)
(* short, it is removed; an error of the network or the disk leaves it.    *)
download_fails(t) ==
  /\ Running /\ worker[t].pc = "download"
  /\ \E left \in {"absent", "partial"} : InstallFails(t, left)
  /\ UNCHANGED <<stage, pending, busy, uiVars, launched, app, boundVars>>

(* Each percent writes the stage again. *)
download_progress(t) ==
  /\ Running /\ worker[t].pc = "download"
  /\ stage' = At("Downloading")
  /\ installer' = [installer EXCEPT ![worker[t].version] = "partial"]
  /\ UNCHANGED <<pending, busy, worker, uiVars, launched, app, boundVars>>

(* All of it has arrived: what the manifest's digest names, or not. *)
download_ends(t) ==
  /\ Running /\ worker[t].pc = "download"
  /\ \E what \in {"verified", "other"} : installer' = [installer EXCEPT ![worker[t].version] = what]
  /\ Goto(t, "verify")
  /\ UNCHANGED <<stage, pending, busy, uiVars, launched, app, boundVars>>

verify_download_lax(t) == \* mutant: the digest is not compared
  /\ Running /\ worker[t].pc = "verify"
  /\ Goto(t, "launch")
  /\ UNCHANGED <<installer, stage, pending, busy, uiVars, launched, app, boundVars>>

verify_download(t) ==
  /\ Running /\ worker[t].pc = "verify"
  /\ IF installer[worker[t].version] = "verified"
     THEN Goto(t, "launch") /\ UNCHANGED installer
     ELSE InstallFails(t, "absent")
  /\ UNCHANGED <<stage, pending, busy, uiVars, launched, app, boundVars>>

launch_installer(t) ==
  /\ Running /\ worker[t].pc = "launch"
  /\ \/ /\ launched' = worker[t].version
        /\ Goto(t, "hand_over")
     \/ /\ End(t, At("Failed"))
        /\ UNCHANGED launched
  /\ UNCHANGED <<stage, pending, busy, uiVars, installer, app, boundVars>>

hand_over_released(t) == \* mutant: busy is given up
  /\ Running /\ worker[t].pc = "hand_over"
  /\ stage' = At("Installing") /\ app' = "quitting" /\ busy' = FALSE
  /\ worker' = [worker EXCEPT ![t] = NoWorker]
  /\ UNCHANGED <<pending, uiVars, installer, launched, boundVars>>

hand_over_stays(t) == \* mutant: the app is not asked to quit
  /\ Running /\ worker[t].pc = "hand_over"
  /\ stage' = At("Installing")
  /\ worker' = [worker EXCEPT ![t] = NoWorker]
  /\ UNCHANGED <<pending, busy, uiVars, installer, launched, app, boundVars>>

(* Stage Installing, then quit(): busy is kept. *)
hand_over(t) ==
  /\ Running /\ worker[t].pc = "hand_over"
  /\ stage' = At("Installing")
  /\ app' = "quitting"
  /\ worker' = [worker EXCEPT ![t] = NoWorker]
  /\ UNCHANGED <<pending, busy, uiVars, installer, launched, boundVars>>

-----------------------------------------------------------------------------
check_step(t)   == check_begins(t) \/ get_fails(t) \/ check_now(t) \/ release(t) \/ report(t)
install_step(t) == install_begins(t) \/ download_fails(t) \/ download_ends(t) \/ verify_download(t)
                     \/ launch_installer(t) \/ hand_over(t)
ui_step == handle_command \/ install \/ claim \/ refresh \/ exit

Next ==
  \/ refresh_status \/ press \/ auto_check
  \/ ui_step
  \/ \E t \in Threads : check_step(t) \/ install_step(t) \/ download_progress(t)

Spec == Init /\ [][Next]_vars

(* Threads are scheduled, requests end, for every WinHTTP call has a       *)
(* timeout (update.rs:409), and the window's timer goes on.                *)
FairSpec ==
  Spec /\ WF_vars(ui_step) /\ WF_vars(refresh_status) /\ \A t \in Threads : WF_vars(check_step(t) \/ install_step(t))

-----------------------------------------------------------------------------
(* Properties *)

Working(t) == worker[t].pc \notin {"none", "report"}

(* update.rs:231: a check and an installation, asked for by the user or    *)
(* the daily round, never run at once, and busy is not left behind but by  *)
(* a thread that could not be started or an installer that was.            *)
OneWorker ==
  /\ \A t, u \in Threads : Working(t) /\ Working(u) => t = u
  /\ (\E t \in Threads : Working(t)) => busy
  /\ busy => (\E t \in Threads : Working(t)) \/ failures > 0 \/ launched # NoVersion

(* update.rs:275, :279: what is started is a newer release, and the file   *)
(* is and stays the one whose digest was checked, whatever a manifest that *)
(* came in meanwhile says and whatever earlier attempts left behind.       *)
OnlyVerifiedRuns ==
  launched # NoVersion => is_newer(launched, VERSION) /\ installer[launched] = "verified"

(* update.rs:158: although outcomes are reported late and overwrite each   *)
(* other, the window is not left saying that something is going on when    *)
(* nothing is: its button would stay off.                                  *)
StageSettles ==
  stage.kind \in {"Checking", "Downloading"} => \E t \in Threads : worker[t].pc # "none"

(* update.rs:195: once an installer was started no other is.               *)
OneInstaller == [][launched = NoVersion]_launched

(* window.rs:606: a button that was switched off does not stay so: the     *)
(* work ends, its end is stored last, and the timer draws it.              *)
ButtonComesBack == label = "off" ~> (label # "off" \/ app = "ended")
=============================================================================
