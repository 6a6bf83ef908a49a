---------------------------- MODULE UpdaterProofs ----------------------------
(***************************************************************************)
(* Proofs about Updater, for any versions, any number of threads and any   *)
(* bounds. What the properties need beside each other: a thread that       *)
(* installs has a newer version and, at the launch, the file whose digest  *)
(* was checked; once an installer was started, no thread is at work but    *)
(* the one that started it; what a thread will report is not a stage that  *)
(* says something is going on.                                             *)
(***************************************************************************)
EXTENDS Updater, TLAPS

Going == {"Checking", "Downloading"}
Newer(v) == v # NoVersion => is_newer(v, VERSION)
InstallPcs == {"install", "download", "verify", "launch", "hand_over"}

OffersNewer == Newer(pending) /\ Newer(ui.version)

InstallsNewer ==
  \A t \in Threads : worker[t].pc \in InstallPcs =>
    worker[t].version # NoVersion /\ is_newer(worker[t].version, VERSION)

CheckedAtLaunch ==
  \A t \in Threads : worker[t].pc = "launch" => installer[worker[t].version] = "verified"

LastAtWork ==
  launched # NoVersion => busy /\ \A t \in Threads : Working(t) => worker[t].pc = "hand_over"

HandsOverLaunched ==
  \A t \in Threads : worker[t].pc = "hand_over" => launched # NoVersion

OutcomesSettle ==
  \A t \in Threads : worker[t].pc \in {"release", "report"} => worker[t].outcome.kind \notin Going

IInv ==
  /\ TypeOK /\ OneWorker /\ OnlyVerifiedRuns /\ StageSettles
  /\ OffersNewer /\ InstallsNewer /\ CheckedAtLaunch
  /\ LastAtWork /\ HandsOverLaunched /\ OutcomesSettle

-----------------------------------------------------------------------------
(* How the steps of a thread change worker.                                *)

LEMMA Moves ==
  ASSUME TypeOK, NEW t \in Threads, NEW pc \in {"check_now", "download", "verify", "launch", "hand_over", "report"},
         Goto(t, pc)
  PROVE  /\ worker' \in [Threads -> Worker]
         /\ worker'[t].pc = pc /\ worker'[t].version = worker[t].version
         /\ worker'[t].outcome = worker[t].outcome
         /\ \A u \in Threads \ {t} : worker'[u] = worker[u]
BY DEF TypeOK, Goto, Worker

LEMMA Ends ==
  ASSUME TypeOK, NEW t \in Threads, NEW s \in Stage, End(t, s)
  PROVE  /\ worker' \in [Threads -> Worker]
         /\ worker'[t].pc = "release" /\ worker'[t].outcome = s
         /\ \A u \in Threads \ {t} : worker'[u] = worker[u]
BY DEF TypeOK, End, Worker

LEMMA Leaves ==
  ASSUME TypeOK, NEW t \in Threads, worker' = [worker EXCEPT ![t] = NoWorker]
  PROVE  /\ worker' \in [Threads -> Worker]
         /\ worker'[t].pc = "none"
         /\ \A u \in Threads \ {t} : worker'[u] = worker[u]
BY DEF TypeOK, NoWorker, Worker, Stage, Stages, At

LEMMA StagesAreStages ==
  /\ \A kind \in Stages : At(kind) \in Stage /\ At(kind).kind = kind
  /\ \A v \in Versions : Available(v) \in Stage /\ Available(v).kind = "Available"
BY DEF Stage, Stages, At, Available

LEMMA Starts ==
  /\ \A manual \in BOOLEAN : Checking(manual) \in Worker /\ Checking(manual).pc = "check"
  /\ \A v \in Versions :
       InstallingOf(v) \in Worker /\ InstallingOf(v).pc = "install" /\ InstallingOf(v).version = v
BY DEF Checking, InstallingOf, NoWorker, Worker, Stage, Stages, At

-----------------------------------------------------------------------------
(* What the window's thread does that starts no thread. *)

LEMMA WindowKeeps ==
  ASSUME IInv, refresh_status \/ press \/ handle_command \/ install \/ refresh \/ exit
  PROVE  IInv'
<1> USE DEF IInv
<1>1. ui' \in Ui /\ Newer(ui'.version)
  <2>1. CASE refresh_status
    BY <2>1 DEF TypeOK, OffersNewer, refresh_status
  <2>2. CASE press
    BY <2>2 DEF TypeOK, OffersNewer, Newer, press, Ui
  <2>3. CASE handle_command
    BY <2>3 DEF TypeOK, OffersNewer, Newer, handle_command, Ui
  <2>4. CASE install
    BY <2>4 DEF TypeOK, OffersNewer, Newer, install, Ui
  <2>5. CASE refresh
    BY <2>5 DEF Newer, refresh, NoCommand, Ui
  <2>6. CASE exit
    BY <2>6 DEF TypeOK, OffersNewer, exit, uiVars
  <2>7. QED
    BY <2>1, <2>2, <2>3, <2>4, <2>5, <2>6
<1>2. UNCHANGED <<stage, pending, busy, worker, installer, launched, rounds, failures>>
  BY DEF refresh_status, press, handle_command, install, refresh, exit, boundVars, uiVars
<1>3. TypeOK' /\ OffersNewer'
  <2>1. label' \in {"check", "install", "off"}
    BY DEF TypeOK, refresh_status, press, handle_command, install, refresh, exit, ButtonLabel, uiVars
  <2>2. app' \in {"running", "quitting", "ended"}
    BY DEF TypeOK, refresh_status, press, handle_command, install, refresh, exit
  <2>3. commands' \in 0..MaxCommands
    BY UpdaterConstants DEF TypeOK, refresh_status, press, handle_command, install, refresh, exit, boundVars
  <2>4. QED
    BY <1>1, <1>2, <2>1, <2>2, <2>3 DEF TypeOK, OffersNewer, Newer
<1>4. OneWorker' /\ OnlyVerifiedRuns' /\ StageSettles'
  BY <1>2 DEF OneWorker, OnlyVerifiedRuns, StageSettles, Working
<1>5. InstallsNewer' /\ CheckedAtLaunch' /\ LastAtWork' /\ HandsOverLaunched' /\ OutcomesSettle'
  BY <1>2 DEF InstallsNewer, CheckedAtLaunch, LastAtWork, HandsOverLaunched, OutcomesSettle, Working
<1>6. QED
  BY <1>3, <1>4, <1>5

(* The claim, asked for by the user or the daily round, and what becomes   *)
(* of it: a thread that starts on a check or on a newer version.           *)
LEMMA ClaimKeeps ==
  ASSUME IInv, NEW first \in Worker, claim_and_spawn(first),
         first.pc = "check" \/ (first.pc = "install" /\ first.version # NoVersion /\ is_newer(first.version, VERSION)),
         UNCHANGED <<stage, pending, installer, launched>>
  PROVE  /\ busy' \in BOOLEAN /\ worker' \in [Threads -> Worker] /\ failures' \in 0..MaxSpawnFailures
         /\ OneWorker' /\ OnlyVerifiedRuns' /\ StageSettles'
         /\ InstallsNewer' /\ CheckedAtLaunch' /\ LastAtWork' /\ HandsOverLaunched' /\ OutcomesSettle'
<1> USE DEF IInv
<1>1. CASE UNCHANGED <<busy, worker, failures>>
  <2>1. OneWorker' /\ OnlyVerifiedRuns' /\ StageSettles'
    BY <1>1 DEF OneWorker, OnlyVerifiedRuns, StageSettles, Working
  <2>2. InstallsNewer' /\ CheckedAtLaunch' /\ LastAtWork' /\ HandsOverLaunched' /\ OutcomesSettle'
    BY <1>1 DEF InstallsNewer, CheckedAtLaunch, LastAtWork, HandsOverLaunched, OutcomesSettle, Working
  <2>3. QED
    BY <1>1, <2>1, <2>2 DEF TypeOK
<1>2. CASE ~busy /\ busy' = TRUE /\ UNCHANGED worker /\ failures < MaxSpawnFailures /\ failures' = failures + 1
  <2>1. failures' \in 0..MaxSpawnFailures /\ failures' > 0
    BY <1>2, UpdaterConstants DEF TypeOK
  <2>2. OneWorker' /\ OnlyVerifiedRuns' /\ StageSettles'
    BY <1>2, <2>1 DEF OneWorker, OnlyVerifiedRuns, StageSettles, Working
  <2>3. InstallsNewer' /\ CheckedAtLaunch' /\ LastAtWork' /\ HandsOverLaunched' /\ OutcomesSettle'
    BY <1>2 DEF InstallsNewer, CheckedAtLaunch, LastAtWork, HandsOverLaunched, OutcomesSettle, Working
  <2>4. QED
    BY <1>2, <2>1, <2>2, <2>3 DEF TypeOK
<1>3. CASE \E t \in Threads : /\ ~busy /\ busy' = TRUE /\ UNCHANGED failures
                              /\ worker[t].pc = "none" /\ worker' = [worker EXCEPT ![t] = first]
  <2>1. PICK t \in Threads : worker[t].pc = "none" /\ worker' = [worker EXCEPT ![t] = first]
    BY <1>3
  <2>2. /\ worker' \in [Threads -> Worker] /\ worker'[t] = first
        /\ \A u \in Threads \ {t} : worker'[u] = worker[u]
    BY <2>1 DEF TypeOK
  <2>3. \A u \in Threads : ~Working(u)
    BY <1>3 DEF OneWorker
  <2>4. \A u \in Threads \ {t} : ~Working(u)'
    BY <2>2, <2>3 DEF Working
  <2>5. Working(t)'
    BY <2>2 DEF Working
  <2>6. launched = NoVersion
    BY <1>3 DEF LastAtWork
  <2>7. OneWorker' /\ OnlyVerifiedRuns'
    BY <1>3, <2>4, <2>5, <2>6 DEF OneWorker, OnlyVerifiedRuns
  <2>8. StageSettles'
    BY <2>2 DEF StageSettles
  <2>9. InstallsNewer' /\ CheckedAtLaunch' /\ HandsOverLaunched' /\ OutcomesSettle'
    BY <2>2, <2>6 DEF InstallsNewer, CheckedAtLaunch, HandsOverLaunched, OutcomesSettle, InstallPcs
  <2>10. LastAtWork'
    BY <2>6 DEF LastAtWork
  <2>11. QED
    BY <1>3, <2>2, <2>7, <2>8, <2>9, <2>10 DEF TypeOK
<1>4. QED
  BY <1>1, <1>2, <1>3 DEF claim_and_spawn

LEMMA ClaimsKeep ==
  ASSUME IInv, claim \/ auto_check
  PROVE  IInv'
<1> USE DEF IInv
<1>1. CASE claim
  <2> DEFINE first == IF ui.version = NoVersion THEN Checking(TRUE) ELSE InstallingOf(ui.version)
  <2>1. first \in Worker /\ (first.pc = "check" \/ (first.pc = "install" /\ first.version # NoVersion /\ is_newer(first.version, VERSION)))
    <3>1. CASE ui.version = NoVersion
      BY <3>1, Starts
    <3>2. CASE ui.version # NoVersion
      <4>1. ui.version \in Versions /\ is_newer(ui.version, VERSION)
        BY <3>2 DEF TypeOK, Ui, OffersNewer, Newer
      <4>2. QED
        BY <3>2, <4>1, Starts
    <3>3. QED
      BY <3>1, <3>2
  <2>2. claim_and_spawn(first) /\ UNCHANGED <<stage, pending, installer, launched, label, app, commands, rounds>>
    BY <1>1 DEF claim
  <2>3. ui' = [ui EXCEPT !.pc = "refresh"]
    BY <1>1 DEF claim
  <2> HIDE DEF first
  <2>4. /\ busy' \in BOOLEAN /\ worker' \in [Threads -> Worker] /\ failures' \in 0..MaxSpawnFailures
        /\ OneWorker' /\ OnlyVerifiedRuns' /\ StageSettles'
        /\ InstallsNewer' /\ CheckedAtLaunch' /\ LastAtWork' /\ HandsOverLaunched' /\ OutcomesSettle'
    BY <2>1, <2>2, ClaimKeeps
  <2>5. TypeOK'
    BY <2>2, <2>3, <2>4 DEF TypeOK, Ui
  <2>6. OffersNewer'
    BY <2>2, <2>3 DEF TypeOK, Ui, OffersNewer, Newer
  <2>7. QED
    BY <2>4, <2>5, <2>6
<1>2. CASE auto_check
  <2>1. Checking(FALSE) \in Worker /\ Checking(FALSE).pc = "check"
    BY Starts
  <2>2. claim_and_spawn(Checking(FALSE)) /\ UNCHANGED <<stage, pending, installer, launched, ui, label, app, commands>>
    BY <1>2 DEF auto_check, uiVars
  <2>3. /\ busy' \in BOOLEAN /\ worker' \in [Threads -> Worker] /\ failures' \in 0..MaxSpawnFailures
        /\ OneWorker' /\ OnlyVerifiedRuns' /\ StageSettles'
        /\ InstallsNewer' /\ CheckedAtLaunch' /\ LastAtWork' /\ HandsOverLaunched' /\ OutcomesSettle'
    BY <2>1, <2>2, ClaimKeeps
  <2>4. rounds' \in 0..MaxRounds
    BY <1>2, UpdaterConstants DEF TypeOK, auto_check
  <2>5. TypeOK'
    BY <2>2, <2>3, <2>4 DEF TypeOK
  <2>6. OffersNewer'
    BY <2>2 DEF OffersNewer, Newer
  <2>7. QED
    BY <2>3, <2>5, <2>6
<1>3. QED
  BY <1>1, <1>2

-----------------------------------------------------------------------------
(* What a thread does. *)

(* One that goes on working: it was the only one and is, and before the    *)
(* launch nothing was started.                                             *)
LEMMA GoesOn ==
  ASSUME IInv, NEW t \in Threads, Working(t), worker' \in [Threads -> Worker],
         \A u \in Threads \ {t} : worker'[u] = worker[u],
         worker'[t].pc \notin {"none", "report"}, UNCHANGED <<busy, failures>>,
         launched' = launched \/ launched' # NoVersion
  PROVE  /\ OneWorker' /\ busy
         /\ \A u \in Threads \ {t} : worker[u].pc \in {"none", "report"}
         /\ worker[t].pc # "hand_over" => launched = NoVersion
<1> USE DEF IInv
<1>1. Working(t)' /\ \A u \in Threads \ {t} : ~Working(u) /\ ~Working(u)'
  BY DEF OneWorker, Working
<1>2. busy
  BY DEF OneWorker
<1>3. OneWorker'
  BY <1>1, <1>2 DEF OneWorker
<1>4. QED
  BY <1>1, <1>2, <1>3 DEF LastAtWork, Working

(* Steps that change neither the window nor what the bounds count.         *)
LEMMA ThreadTyped ==
  ASSUME TypeOK, UNCHANGED <<uiVars, boundVars>>,
         stage' \in Stage, pending' \in Versions \union {NoVersion}, busy' \in BOOLEAN,
         worker' \in [Threads -> Worker], installer' \in [Versions -> Contents],
         launched' \in Versions \union {NoVersion}, app' \in {"running", "quitting", "ended"}
  PROVE  TypeOK'
BY DEF TypeOK, uiVars, boundVars

LEMMA CheckKeeps ==
  ASSUME IInv, NEW t \in Threads, check_step(t)
  PROVE  IInv'
<1> USE DEF IInv
<1>1. CASE check_begins(t)
  <2>1. worker[t].pc = "check" /\ Goto(t, "check_now") /\ stage' = At("Checking")
        /\ UNCHANGED <<pending, busy, uiVars, installer, launched, app, boundVars>>
    BY <1>1 DEF check_begins
  <2>2. /\ worker' \in [Threads -> Worker] /\ worker'[t].pc = "check_now"
        /\ \A u \in Threads \ {t} : worker'[u] = worker[u]
    BY <2>1, Moves
  <2>3. OneWorker' /\ launched = NoVersion
    BY <2>1, <2>2, GoesOn DEF Working, boundVars
  <2>4. TypeOK'
    BY <2>1, <2>2, StagesAreStages, ThreadTyped DEF TypeOK, Stages
  <2>5. StageSettles'
    BY <2>2 DEF StageSettles
  <2>6. OnlyVerifiedRuns' /\ OffersNewer' /\ LastAtWork'
    BY <2>1, <2>3 DEF OnlyVerifiedRuns, OffersNewer, Newer, LastAtWork, uiVars
  <2>7. InstallsNewer' /\ CheckedAtLaunch' /\ HandsOverLaunched' /\ OutcomesSettle'
    BY <2>1, <2>2 DEF InstallsNewer, CheckedAtLaunch, HandsOverLaunched, OutcomesSettle, InstallPcs
  <2>8. QED
    BY <2>3, <2>4, <2>5, <2>6, <2>7
<1>2. CASE get_fails(t) \/ check_now(t)
  <2>1. CheckFailed(t) \in Stage /\ CheckFailed(t).kind \notin Going
    BY StagesAreStages DEF CheckFailed, Stages, Going
  <2>2. PICK s \in Stage : s.kind \notin Going /\ End(t, s)
    BY <1>2, <2>1, StagesAreStages DEF get_fails, check_now, Stages, Going
  <2>3. /\ worker[t].pc = "check_now" /\ pending' \in Versions \union {NoVersion} /\ Newer(pending')
        /\ UNCHANGED <<stage, busy, uiVars, installer, launched, app, boundVars>>
    BY <1>2 DEF get_fails, check_now, TypeOK, OffersNewer, Newer
  <2>4. /\ worker' \in [Threads -> Worker] /\ worker'[t].pc = "release" /\ worker'[t].outcome = s
        /\ \A u \in Threads \ {t} : worker'[u] = worker[u]
    BY <2>2, Ends
  <2>5. OneWorker' /\ launched = NoVersion
    BY <2>3, <2>4, GoesOn DEF Working, boundVars
  <2>6. TypeOK'
    BY <2>3, <2>4, ThreadTyped DEF TypeOK
  <2>7. StageSettles'
    BY <2>3, <2>4 DEF StageSettles
  <2>8. OnlyVerifiedRuns' /\ OffersNewer' /\ LastAtWork'
    BY <2>3, <2>5 DEF OnlyVerifiedRuns, OffersNewer, Newer, LastAtWork, uiVars
  <2>9. InstallsNewer' /\ CheckedAtLaunch' /\ HandsOverLaunched' /\ OutcomesSettle'
    BY <2>2, <2>3, <2>4 DEF InstallsNewer, CheckedAtLaunch, HandsOverLaunched, OutcomesSettle, InstallPcs
  <2>10. QED
    BY <2>5, <2>6, <2>7, <2>8, <2>9
<1>3. CASE release(t)
  <2>1. worker[t].pc = "release" /\ Goto(t, "report") /\ busy' = FALSE
        /\ UNCHANGED <<stage, pending, uiVars, installer, launched, app, boundVars>>
    BY <1>3 DEF release
  <2>2. /\ worker' \in [Threads -> Worker] /\ worker'[t].pc = "report"
        /\ worker'[t].outcome = worker[t].outcome
        /\ \A u \in Threads \ {t} : worker'[u] = worker[u]
    BY <2>1, Moves
  <2>3. launched = NoVersion /\ \A u \in Threads : ~Working(u)'
    BY <2>1, <2>2 DEF OneWorker, Working, LastAtWork
  <2>4. OneWorker'
    BY <2>1, <2>3 DEF OneWorker
  <2>5. TypeOK'
    BY <2>1, <2>2, ThreadTyped DEF TypeOK
  <2>6. StageSettles'
    BY <2>1, <2>2 DEF StageSettles
  <2>7. OnlyVerifiedRuns' /\ OffersNewer' /\ LastAtWork'
    BY <2>1, <2>3 DEF OnlyVerifiedRuns, OffersNewer, Newer, LastAtWork, uiVars
  <2>8. InstallsNewer' /\ CheckedAtLaunch' /\ HandsOverLaunched' /\ OutcomesSettle'
    BY <2>1, <2>2 DEF InstallsNewer, CheckedAtLaunch, HandsOverLaunched, OutcomesSettle, InstallPcs
  <2>9. QED
    BY <2>4, <2>5, <2>6, <2>7, <2>8
<1>4. CASE report(t)
  <2>1. worker[t].pc = "report" /\ worker' = [worker EXCEPT ![t] = NoWorker] /\ stage' = worker[t].outcome
        /\ UNCHANGED <<pending, busy, uiVars, installer, launched, app, boundVars>>
    BY <1>4 DEF report
  <2>2. /\ worker' \in [Threads -> Worker] /\ worker'[t].pc = "none"
        /\ \A u \in Threads \ {t} : worker'[u] = worker[u]
    BY <2>1, Leaves
  <2>3. stage' \in Stage /\ stage'.kind \notin Going
    BY <2>1 DEF TypeOK, Worker, OutcomesSettle
  <2>4. \A u \in Threads : Working(u)' <=> Working(u)
    BY <2>1, <2>2 DEF Working
  <2>5. OneWorker'
    BY <2>1, <2>4 DEF OneWorker, boundVars
  <2>6. TypeOK'
    BY <2>1, <2>2, <2>3, ThreadTyped DEF TypeOK
  <2>7. StageSettles'
    BY <2>3 DEF StageSettles, Going
  <2>8. OnlyVerifiedRuns' /\ OffersNewer' /\ LastAtWork'
    BY <2>1, <2>2, <2>4 DEF OnlyVerifiedRuns, OffersNewer, Newer, LastAtWork, uiVars, Working
  <2>9. InstallsNewer' /\ CheckedAtLaunch' /\ HandsOverLaunched' /\ OutcomesSettle'
    BY <2>1, <2>2 DEF InstallsNewer, CheckedAtLaunch, HandsOverLaunched, OutcomesSettle, InstallPcs
  <2>10. QED
    BY <2>5, <2>6, <2>7, <2>8, <2>9
<1>5. QED
  BY <1>1, <1>2, <1>3, <1>4 DEF check_step

(* While it downloads and verifies, and as long as nothing was started,    *)
(* only the file of its own version changes.                               *)
LEMMA InstallKeeps ==
  ASSUME IInv, NEW t \in Threads, install_step(t) \/ download_progress(t)
  PROVE  IInv'
<1> USE DEF IInv
<1>1. CASE install_begins(t)
  <2>1. worker[t].pc = "install" /\ Goto(t, "download") /\ stage' = At("Downloading")
        /\ UNCHANGED <<pending, busy, uiVars, installer, launched, app, boundVars>>
    BY <1>1 DEF install_begins
  <2>2. /\ worker' \in [Threads -> Worker] /\ worker'[t].pc = "download"
        /\ worker'[t].version = worker[t].version
        /\ \A u \in Threads \ {t} : worker'[u] = worker[u]
    BY <2>1, Moves
  <2>3. OneWorker' /\ launched = NoVersion
    BY <2>1, <2>2, GoesOn DEF Working, boundVars
  <2>4. TypeOK'
    BY <2>1, <2>2, StagesAreStages, ThreadTyped DEF TypeOK, Stages
  <2>5. StageSettles'
    BY <2>2 DEF StageSettles
  <2>6. OnlyVerifiedRuns' /\ OffersNewer' /\ LastAtWork'
    BY <2>1, <2>3 DEF OnlyVerifiedRuns, OffersNewer, Newer, LastAtWork, uiVars
  <2>7. InstallsNewer' /\ CheckedAtLaunch' /\ HandsOverLaunched' /\ OutcomesSettle'
    BY <2>1, <2>2 DEF InstallsNewer, CheckedAtLaunch, HandsOverLaunched, OutcomesSettle, InstallPcs
  <2>8. QED
    BY <2>3, <2>4, <2>5, <2>6, <2>7
<1>2. CASE \/ /\ worker[t].pc \in {"download", "verify", "launch"} /\ End(t, At("Failed"))
              /\ UNCHANGED <<stage, pending, busy, uiVars, launched, app, boundVars>>
              /\ \/ UNCHANGED installer
                 \/ \E left \in Contents : installer' = [installer EXCEPT ![worker[t].version] = left]
  <2>1. /\ worker' \in [Threads -> Worker] /\ worker'[t].pc = "release" /\ worker'[t].outcome = At("Failed")
        /\ \A u \in Threads \ {t} : worker'[u] = worker[u]
    BY <1>2, Ends, StagesAreStages DEF Stages
  <2>2. /\ OneWorker' /\ launched = NoVersion
        /\ \A u \in Threads \ {t} : worker[u].pc \in {"none", "report"}
    BY <1>2, <2>1, GoesOn DEF Working, boundVars
  <2>3. installer' \in [Versions -> Contents]
    BY <1>2 DEF TypeOK
  <2>4. TypeOK'
    BY <1>2, <2>1, <2>3, ThreadTyped DEF TypeOK
  <2>5. StageSettles'
    BY <1>2, <2>1 DEF StageSettles
  <2>6. OnlyVerifiedRuns' /\ OffersNewer' /\ LastAtWork'
    BY <1>2, <2>2 DEF OnlyVerifiedRuns, OffersNewer, Newer, LastAtWork, uiVars
  <2>7. InstallsNewer' /\ CheckedAtLaunch' /\ HandsOverLaunched'
    BY <2>1, <2>2 DEF InstallsNewer, CheckedAtLaunch, HandsOverLaunched, InstallPcs
  <2>8. OutcomesSettle'
    BY <2>1, StagesAreStages DEF OutcomesSettle, Stages, Going
  <2>9. QED
    BY <2>2, <2>4, <2>5, <2>6, <2>7, <2>8
<1>3. CASE download_progress(t)
  <2>1. /\ worker[t].pc = "download" /\ stage' = At("Downloading")
        /\ installer' = [installer EXCEPT ![worker[t].version] = "partial"]
        /\ UNCHANGED <<pending, busy, worker, uiVars, launched, app, boundVars>>
    BY <1>3 DEF download_progress
  <2>2. /\ OneWorker' /\ launched = NoVersion
        /\ \A u \in Threads \ {t} : worker[u].pc \in {"none", "report"}
    BY <2>1, GoesOn DEF TypeOK, Working, boundVars
  <2>3. TypeOK'
    BY <2>1, StagesAreStages, ThreadTyped DEF TypeOK, Stages, Contents
  <2>4. StageSettles'
    BY <2>1 DEF StageSettles
  <2>5. OnlyVerifiedRuns' /\ OffersNewer' /\ LastAtWork'
    BY <2>1, <2>2 DEF OnlyVerifiedRuns, OffersNewer, Newer, LastAtWork, uiVars
  <2>6. InstallsNewer' /\ CheckedAtLaunch' /\ HandsOverLaunched' /\ OutcomesSettle'
    BY <2>1, <2>2 DEF InstallsNewer, CheckedAtLaunch, HandsOverLaunched, OutcomesSettle
  <2>7. QED
    BY <2>2, <2>3, <2>4, <2>5, <2>6
<1>4. CASE download_ends(t)
  <2>1. /\ worker[t].pc = "download" /\ Goto(t, "verify")
        /\ UNCHANGED <<stage, pending, busy, uiVars, launched, app, boundVars>>
    BY <1>4 DEF download_ends
  <2>2. /\ worker' \in [Threads -> Worker] /\ worker'[t].pc = "verify"
        /\ worker'[t].version = worker[t].version
        /\ \A u \in Threads \ {t} : worker'[u] = worker[u]
    BY <2>1, Moves
  <2>3. /\ OneWorker' /\ launched = NoVersion
        /\ \A u \in Threads \ {t} : worker[u].pc \in {"none", "report"}
    BY <2>1, <2>2, GoesOn DEF Working, boundVars
  <2>4. installer' \in [Versions -> Contents]
    BY <1>4 DEF TypeOK, download_ends, Contents
  <2>5. TypeOK'
    BY <2>1, <2>2, <2>4, ThreadTyped DEF TypeOK
  <2>6. StageSettles'
    BY <2>1, <2>2 DEF StageSettles
  <2>7. OnlyVerifiedRuns' /\ OffersNewer' /\ LastAtWork'
    BY <2>1, <2>3 DEF OnlyVerifiedRuns, OffersNewer, Newer, LastAtWork, uiVars
  <2>8. InstallsNewer' /\ CheckedAtLaunch' /\ HandsOverLaunched' /\ OutcomesSettle'
    BY <2>1, <2>2, <2>3 DEF InstallsNewer, CheckedAtLaunch, HandsOverLaunched, OutcomesSettle, InstallPcs
  <2>9. QED
    BY <2>3, <2>5, <2>6, <2>7, <2>8
<1>5. CASE /\ worker[t].pc = "verify" /\ installer[worker[t].version] = "verified" /\ Goto(t, "launch")
           /\ UNCHANGED <<installer, stage, pending, busy, uiVars, launched, app, boundVars>>
  <2>1. /\ worker' \in [Threads -> Worker] /\ worker'[t].pc = "launch"
        /\ worker'[t].version = worker[t].version
        /\ \A u \in Threads \ {t} : worker'[u] = worker[u]
    BY <1>5, Moves
  <2>2. OneWorker' /\ launched = NoVersion
    BY <1>5, <2>1, GoesOn DEF Working, boundVars
  <2>3. TypeOK'
    BY <1>5, <2>1, ThreadTyped DEF TypeOK
  <2>4. StageSettles'
    BY <1>5, <2>1 DEF StageSettles
  <2>5. OnlyVerifiedRuns' /\ OffersNewer' /\ LastAtWork'
    BY <1>5, <2>2 DEF OnlyVerifiedRuns, OffersNewer, Newer, LastAtWork, uiVars
  <2>6. InstallsNewer' /\ CheckedAtLaunch' /\ HandsOverLaunched' /\ OutcomesSettle'
    BY <1>5, <2>1 DEF InstallsNewer, CheckedAtLaunch, HandsOverLaunched, OutcomesSettle, InstallPcs
  <2>7. QED
    BY <2>2, <2>3, <2>4, <2>5, <2>6
<1>6. CASE /\ worker[t].pc = "launch" /\ launched' = worker[t].version /\ Goto(t, "hand_over")
           /\ UNCHANGED <<stage, pending, busy, uiVars, installer, app, boundVars>>
  <2>1. /\ worker' \in [Threads -> Worker] /\ worker'[t].pc = "hand_over"
        /\ worker'[t].version = worker[t].version
        /\ \A u \in Threads \ {t} : worker'[u] = worker[u]
    BY <1>6, Moves
  <2>2. /\ launched' # NoVersion /\ is_newer(launched', VERSION) /\ installer[launched'] = "verified"
        /\ launched' \in Versions \union {NoVersion}
    BY <1>6 DEF InstallsNewer, CheckedAtLaunch, InstallPcs, TypeOK, Worker
  <2>3. /\ OneWorker' /\ busy
        /\ \A u \in Threads \ {t} : worker[u].pc \in {"none", "report"}
    BY <1>6, <2>1, <2>2, GoesOn DEF Working, boundVars
  <2>4. TypeOK'
    BY <1>6, <2>1, <2>2, ThreadTyped DEF TypeOK
  <2>5. StageSettles'
    BY <1>6, <2>1 DEF StageSettles
  <2>6. OnlyVerifiedRuns' /\ OffersNewer'
    BY <1>6, <2>2 DEF OnlyVerifiedRuns, OffersNewer, Newer, uiVars
  <2>7. LastAtWork'
    BY <1>6, <2>1, <2>3 DEF LastAtWork, Working
  <2>8. InstallsNewer' /\ CheckedAtLaunch' /\ HandsOverLaunched' /\ OutcomesSettle'
    BY <1>6, <2>1, <2>2 DEF InstallsNewer, CheckedAtLaunch, HandsOverLaunched, OutcomesSettle, InstallPcs
  <2>9. QED
    BY <2>3, <2>4, <2>5, <2>6, <2>7, <2>8
<1>7. CASE hand_over(t)
  <2>1. /\ worker[t].pc = "hand_over" /\ worker' = [worker EXCEPT ![t] = NoWorker]
        /\ stage' = At("Installing") /\ app' = "quitting"
        /\ UNCHANGED <<pending, busy, uiVars, installer, launched, boundVars>>
    BY <1>7 DEF hand_over
  <2>2. /\ worker' \in [Threads -> Worker] /\ worker'[t].pc = "none"
        /\ \A u \in Threads \ {t} : worker'[u] = worker[u]
    BY <2>1, Leaves
  <2>3. launched # NoVersion /\ \A u \in Threads : ~Working(u)'
    BY <2>1, <2>2 DEF HandsOverLaunched, OneWorker, Working
  <2>4. OneWorker'
    BY <2>1, <2>3 DEF OneWorker
  <2>5. TypeOK'
    BY <2>1, <2>2, StagesAreStages, ThreadTyped DEF TypeOK, Stages
  <2>6. StageSettles'
    BY <2>1, StagesAreStages DEF StageSettles, Stages
  <2>7. OnlyVerifiedRuns' /\ OffersNewer' /\ LastAtWork'
    BY <2>1, <2>3 DEF OnlyVerifiedRuns, OffersNewer, Newer, LastAtWork, uiVars
  <2>8. InstallsNewer' /\ CheckedAtLaunch' /\ HandsOverLaunched' /\ OutcomesSettle'
    BY <2>1, <2>2 DEF InstallsNewer, CheckedAtLaunch, HandsOverLaunched, OutcomesSettle, InstallPcs
  <2>9. QED
    BY <2>4, <2>5, <2>6, <2>7, <2>8
<1>8. CASE download_fails(t) \/ verify_download(t) \/ launch_installer(t)
  BY <1>2, <1>5, <1>6, <1>8 DEF download_fails, verify_download, launch_installer, InstallFails, Contents
<1>9. QED
  BY <1>1, <1>3, <1>4, <1>7, <1>8 DEF install_step

-----------------------------------------------------------------------------
(* The invariant, and what follows from it. *)

LEMMA InitInv == Init => IInv
<1> SUFFICES ASSUME Init PROVE IInv
  OBVIOUS
<1>1. worker \in [Threads -> Worker] /\ \A t \in Threads : worker[t].pc = "none"
  BY DEF Init, NoWorker, Worker, Stage, Stages, At
<1>2. stage \in Stage /\ stage.kind = "Idle" /\ ui \in Ui /\ ui.version = NoVersion
  BY StagesAreStages DEF Init, Stages, Ui, NoCommand
<1>3. TypeOK
  <2>1. installer \in [Versions -> Contents]
    BY DEF Init, Contents
  <2>2. commands \in 0..MaxCommands /\ rounds \in 0..MaxRounds /\ failures \in 0..MaxSpawnFailures
    BY UpdaterConstants DEF Init
  <2>3. QED
    BY <1>1, <1>2, <2>1, <2>2 DEF Init, TypeOK
<1>4. OneWorker /\ OnlyVerifiedRuns /\ StageSettles
  BY <1>1, <1>2 DEF Init, OneWorker, OnlyVerifiedRuns, StageSettles, Working
<1>5. OffersNewer /\ InstallsNewer /\ CheckedAtLaunch /\ LastAtWork /\ HandsOverLaunched /\ OutcomesSettle
  BY <1>1, <1>2 DEF Init, OffersNewer, Newer, InstallsNewer, CheckedAtLaunch, LastAtWork, HandsOverLaunched,
     OutcomesSettle, InstallPcs
<1>6. QED
  BY <1>3, <1>4, <1>5 DEF IInv

LEMMA NextInv == IInv /\ [Next]_vars => IInv'
<1> SUFFICES ASSUME IInv, [Next]_vars PROVE IInv'
  OBVIOUS
<1>1. CASE UNCHANGED vars
  <2>1. UNCHANGED <<stage, pending, busy, worker, ui, label, installer, launched, app, commands, rounds, failures>>
    BY <1>1 DEF vars
  <2>2. TypeOK'
    BY <2>1 DEF IInv, TypeOK
  <2>3. OneWorker' /\ OnlyVerifiedRuns' /\ StageSettles'
    BY <2>1 DEF IInv, OneWorker, OnlyVerifiedRuns, StageSettles, Working
  <2>4. /\ OffersNewer' /\ InstallsNewer' /\ CheckedAtLaunch'
        /\ LastAtWork' /\ HandsOverLaunched' /\ OutcomesSettle'
    BY <2>1 DEF IInv, OffersNewer, Newer, InstallsNewer, CheckedAtLaunch, LastAtWork, HandsOverLaunched,
       OutcomesSettle, Working
  <2>5. QED
    BY <2>2, <2>3, <2>4 DEF IInv
<1>2. CASE \E t \in Threads : check_step(t) \/ install_step(t) \/ download_progress(t)
  BY <1>2, CheckKeeps, InstallKeeps
<1>3. CASE refresh_status \/ press \/ auto_check \/ ui_step
  BY <1>3, WindowKeeps, ClaimsKeep DEF ui_step
<1>4. QED
  BY <1>1, <1>2, <1>3 DEF Next

LEMMA AlwaysInv == Spec => []IInv
BY InitInv, NextInv, PTL DEF Spec

(* Every variable keeps its type. *)
THEOREM TypeCorrect == Spec => []TypeOK
<1>1. IInv => TypeOK
  BY DEF IInv
<1>2. QED
  BY <1>1, AlwaysInv, PTL

(* update.rs:231: a check and an installation never run at once, and busy  *)
(* is left behind by nothing but a thread that could not be started or an  *)
(* installer that was.                                                     *)
THEOREM OneWorkerAtATime == Spec => []OneWorker
<1>1. IInv => OneWorker
  BY DEF IInv
<1>2. QED
  BY <1>1, AlwaysInv, PTL

(* update.rs:275, :279: only a newer release whose digest was checked is   *)
(* started.                                                                *)
THEOREM OnlyVerifiedInstallersRun == Spec => []OnlyVerifiedRuns
<1>1. IInv => OnlyVerifiedRuns
  BY DEF IInv
<1>2. QED
  BY <1>1, AlwaysInv, PTL

(* update.rs:158: late reports never leave the stage saying that something *)
(* is going on when nothing is.                                            *)
THEOREM StageAlwaysSettles == Spec => []StageSettles
<1>1. IInv => StageSettles
  BY DEF IInv
<1>2. QED
  BY <1>1, AlwaysInv, PTL

(* update.rs:195: once an installer was started no other is: a thread that *)
(* comes to the launch is the only one at work, and finds nothing started. *)
THEOREM OneInstallerEver == Spec => OneInstaller
<1>1. IInv /\ [Next]_vars => [launched = NoVersion]_launched
  <2> SUFFICES ASSUME IInv, Next, launched' # launched PROVE launched = NoVersion
    BY DEF vars
  <2>1. PICK t \in Threads : launch_installer(t) /\ launched' # launched
    BY DEF Next, refresh_status, press, auto_check, ui_step, handle_command, install, claim, refresh, exit,
       check_step, check_begins, get_fails, check_now, release, report,
       install_step, install_begins, download_fails, download_ends, verify_download, hand_over, download_progress
  <2>2. worker[t].pc = "launch"
    BY <2>1 DEF launch_installer
  <2>3. QED
    BY <2>2 DEF IInv, LastAtWork, Working
<1>2. QED
  BY <1>1, AlwaysInv, PTL DEF Spec, OneInstaller
-----------------------------------------------------------------------------
(* The button comes back. *)

(* Whoever started an installer asks the app to quit, or has: nobody else  *)
(* shows Installing.                                                       *)
HandsOver ==
  /\ stage.kind = "Installing" => app # "running"
  /\ launched # NoVersion => app # "running" \/ \E t \in Threads : worker[t].pc = "hand_over"
  /\ \A t \in Threads : worker[t].outcome.kind # "Installing"

LEMMA HandsOverInit == Init => HandsOver
BY DEF Init, HandsOver, At, NoWorker

(* A step of a thread that is not handing over, to `next`.                 *)
LEMMA HandsOverKept ==
  ASSUME IInv, HandsOver, NEW t \in Threads, worker[t].pc # "hand_over",
         \A u \in Threads \ {t} : worker'[u] = worker[u],
         worker'[t].outcome.kind # "Installing", app' = app,
         launched' = launched \/ worker'[t].pc = "hand_over",
         stage'.kind # "Installing" \/ stage' = stage
  PROVE  HandsOver'
BY DEF HandsOver

LEMMA HandsOverSteps ==
  ASSUME IInv, HandsOver, [Next]_vars
  PROVE  HandsOver'
<1> USE DEF boundVars, uiVars
<1>0. TypeOK /\ \A t \in Threads : worker[t].outcome.kind # "Installing"
  BY DEF IInv, HandsOver
<1>1. UNCHANGED <<stage, worker, launched>> /\ (app' = app \/ app' # "running") => HandsOver'
  BY DEF HandsOver
<1>2. CASE refresh_status \/ press \/ handle_command \/ install \/ refresh \/ exit \/ UNCHANGED vars
  <2>1. UNCHANGED <<stage, worker, launched>> /\ (app' = app \/ app' # "running")
    BY <1>2 DEF refresh_status, press, handle_command, install, refresh, exit, vars
  <2> QED
    BY <1>1, <2>1
<1>3. ASSUME NEW first \in Worker, first.outcome.kind # "Installing", claim_and_spawn(first),
             UNCHANGED <<stage, app, launched>>
      PROVE  HandsOver'
  <2>1. CASE worker' = worker
    BY <1>1, <1>3, <2>1
  <2>2. ASSUME NEW t \in Threads, worker[t].pc = "none", worker' = [worker EXCEPT ![t] = first]
        PROVE  HandsOver'
    <3>1. worker'[t] = first /\ \A u \in Threads \ {t} : worker'[u] = worker[u]
      BY <1>0, <2>2 DEF TypeOK
    <3> QED
      BY <1>3, <2>2, <3>1, HandsOverKept
  <2> QED
    BY <1>3, <2>1, <2>2 DEF claim_and_spawn
<1>4. CASE claim \/ auto_check
  <2>1. PICK first \in Worker : first.outcome.kind # "Installing" /\ claim_and_spawn(first)
    <3>1. CASE auto_check
      BY <3>1, Starts DEF auto_check, Checking, NoWorker, At
    <3>2. CASE claim /\ ui.version = NoVersion
      BY <3>2, Starts DEF claim, Checking, NoWorker, At
    <3>3. CASE claim /\ ui.version # NoVersion
      BY <1>0, <3>3, Starts DEF claim, InstallingOf, NoWorker, At, TypeOK, Ui
    <3> QED
      BY <1>4, <3>1, <3>2, <3>3
  <2>2. UNCHANGED <<stage, app, launched>>
    BY <1>4 DEF claim, auto_check
  <2> QED
    BY <1>3, <2>1, <2>2
<1>5. ASSUME NEW t \in Threads, check_step(t) \/ install_step(t) \/ download_progress(t), ~hand_over(t)
      PROVE  HandsOver'
  <2>1. worker[t].pc # "hand_over" /\ app' = app
    BY <1>5 DEF check_step, check_begins, get_fails, check_now, release, report, install_step,
       install_begins, download_fails, download_ends, verify_download, launch_installer,
       download_progress
  <2>2. stage'.kind # "Installing" \/ stage' = stage
    BY <1>0, <1>5 DEF check_step, check_begins, get_fails, check_now, release, report, install_step,
       install_begins, download_fails, download_ends, verify_download, launch_installer,
       download_progress, InstallFails, At
  <2>3. ASSUME NEW pc \in {"check_now", "download", "verify", "launch", "hand_over", "report"}, Goto(t, pc),
               launched' = launched \/ pc = "hand_over"
        PROVE  HandsOver'
    BY <1>0, <2>1, <2>2, <2>3, Moves, HandsOverKept
  <2>4. ASSUME NEW s \in Stage, s.kind # "Installing", End(t, s), launched' = launched
        PROVE  HandsOver'
    BY <1>0, <2>1, <2>2, <2>4, Ends, HandsOverKept
  <2>5. CheckFailed(t) \in Stage /\ CheckFailed(t).kind # "Installing"
    BY StagesAreStages DEF CheckFailed, Stages
  <2>6. CASE check_begins(t) \/ release(t) \/ install_begins(t) \/ download_ends(t)
    BY <2>3, <2>6 DEF check_begins, release, install_begins, download_ends
  <2>7. CASE report(t)
    BY <1>0, <2>1, <2>2, <2>7, Leaves, HandsOverKept DEF report, NoWorker, At
  <2>8. CASE get_fails(t)
    BY <2>4, <2>5, <2>8 DEF get_fails
  <2>9. CASE check_now(t)
    BY <2>4, <2>5, <2>9, StagesAreStages DEF check_now, Stages
  <2>10. At("Failed") \in Stage /\ At("Failed").kind # "Installing"
    BY StagesAreStages DEF Stages
  <2>11. CASE download_fails(t)
    BY <2>4, <2>10, <2>11 DEF download_fails, InstallFails
  <2>12. CASE verify_download(t)
    BY <2>3, <2>4, <2>10, <2>12 DEF verify_download, InstallFails
  <2>13. CASE launch_installer(t)
    BY <2>3, <2>4, <2>10, <2>13 DEF launch_installer
  <2>14. CASE download_progress(t)
    BY <1>0, <2>1, <2>2, <2>14, HandsOverKept DEF download_progress
  <2> QED
    BY <1>5, <2>6, <2>7, <2>8, <2>9, <2>11, <2>12, <2>13, <2>14 DEF check_step, install_step
<1>6. ASSUME NEW t \in Threads, hand_over(t)
      PROVE  HandsOver'
  <2>1. app' # "running"
    BY <1>6 DEF hand_over
  <2>2. worker'[t] = NoWorker /\ \A u \in Threads \ {t} : worker'[u] = worker[u]
    BY <1>0, <1>6 DEF hand_over, TypeOK
  <2> QED
    BY <1>0, <2>1, <2>2 DEF HandsOver, NoWorker, At
<1> QED
  BY <1>2, <1>4, <1>5, <1>6 DEF Next, ui_step, check_step, install_step

OffForNow ==
  /\ label = "off" => label # ButtonLabel \/ app # "running" \/ \E t \in Threads : worker[t].pc # "none"
  /\ busy => app # "running" \/ failures > 0 \/ \E t \in Threads : Working(t)

(* window.rs:606, update.rs:231: a button that is off is one the timer     *)
(* will draw anew, or a thread is at work, or the app is about to quit;    *)
(* and the update is claimed by a thread at work, but for one that could   *)
(* not be started. What is left of ButtonComesBack is that threads run.    *)
THEOREM OffOnlyForNow == Spec => []OffForNow
<1>1. IInv /\ HandsOver => OffForNow
  <2> SUFFICES ASSUME IInv, HandsOver PROVE OffForNow
    OBVIOUS
  <2>1. ASSUME label = "off", label = ButtonLabel, app = "running"
        PROVE  \E t \in Threads : worker[t].pc # "none"
    <3>1. stage.kind \in {"Checking", "Downloading", "Installing"}
      BY <2>1 DEF ButtonLabel
    <3> QED
      BY <2>1, <3>1 DEF IInv, StageSettles, HandsOver
  <2>2. ASSUME busy, app = "running", ~(failures > 0)
        PROVE  \E t \in Threads : Working(t)
    BY <2>2 DEF IInv, OneWorker, HandsOver, Working
  <2> QED
    BY <2>1, <2>2 DEF OffForNow
<1>2. QED
  BY <1>1, HandsOverInit, HandsOverSteps, AlwaysInv, PTL DEF Spec
=============================================================================
