--------------------------- MODULE EventScheduler ---------------------------
(***************************************************************************)
(* EventScheduler.swift: motion is submitted by the receiver's queues and  *)
(* posted by a thread of its own, which waits on a condition, lets motion  *)
(* that arrives in clumps run together and plays it out in steps.          *)
(*                                                                         *)
(* An action is one critical section of the scheduler's lock, or a post,   *)
(* which happens outside it.  A thread is known by its generation, and one *)
(* that was stopped may still be about to post while the next one runs.    *)
(* One axis is modelled; the other is the same.                            *)
(***************************************************************************)
EXTENDS Integers, FiniteSets, Functions

CONSTANTS
  Callers,        \* the queues that submit
  Modes,          \* the settings: a scheduler mode and, for smoothing, alpha
  Deltas,         \* the motions submitted
  MaxSubmits,     \* bound: submissions
  MaxGeneration   \* bound: starts and stops

ModeKinds == {"immediate", "whole", "smoothed"}

ASSUME SchedulerAssumption ==
  /\ IsFiniteSet(Callers)
  /\ Deltas \subseteq Int \ {0}
  /\ Modes \subseteq [kind : ModeKinds, num : Nat, den : Nat \ {0}]
  /\ \A m \in Modes : m.num <= m.den
  /\ MaxSubmits \in Nat /\ MaxGeneration \in Nat

VARIABLES
  mode,
  pending, hasPending,
  remaining,     \* a whole number: steps are rounded before they are taken off
  stopped, generation,
  thread,        \* the generation of the thread that was started last, or 0
  pc, step,      \* where each thread is, and the step it is about to post
  call,          \* what each caller is about to post itself
  \* history
  submits, taken, posted

motion  == <<pending, hasPending, remaining, taken>>
control == <<stopped, generation, thread>>
vars    == <<mode, motion, control, pc, step, call, submits, posted>>

Gen      == 1..MaxGeneration
Location == {"gone", "top", "asleep", "pacing", "paced", "post"}

Waiting    == {g \in Gen : pc[g] \in {"asleep", "pacing"}}
Retired_stopped(g) == stopped \* mutant: a quick restart is not noticed
Retired(g) == stopped \/ generation # g

(* A thread in condition.wait is woken.                                    *)
Woken(at) == CASE at = "asleep" -> "top" [] at = "pacing" -> "paced" [] OTHER -> at

Goto(g, next) == pc' = [pc EXCEPT ![g] = next]

-----------------------------------------------------------------------------
Init ==
  /\ mode \in Modes
  /\ pending = 0 /\ hasPending = FALSE /\ remaining = 0
  /\ stopped = FALSE /\ generation = 0 /\ thread = 0
  /\ pc = [g \in Gen |-> "gone"] /\ step = [g \in Gen |-> 0]
  /\ call = [c \in Callers |-> 0]
  /\ submits = 0 /\ taken = 0 /\ posted = 0

-----------------------------------------------------------------------------
(* The main thread.                                                        *)

apply(m) ==
  /\ mode' = m
  /\ UNCHANGED <<motion, control, pc, step, call, submits, posted>>

(* AppModel starts the scheduler when it is stopped only.                  *)
start ==
  /\ thread = 0
  /\ generation < MaxGeneration /\ generation' = generation + 1
  /\ stopped' = FALSE
  /\ thread' = generation'
  /\ Goto(generation', "top")
  /\ UNCHANGED <<mode, motion, step, call, submits, posted>>

(* mutant: nobody is told                                                  *)
stop_silent ==
  /\ generation < MaxGeneration /\ generation' = generation + 1
  /\ stopped' = TRUE
  /\ thread' = 0
  /\ UNCHANGED <<mode, motion, pc, step, call, submits, posted>>

(* It may stop it when it is stopped, too.                                 *)
stop ==
  /\ generation < MaxGeneration /\ generation' = generation + 1
  /\ stopped' = TRUE
  /\ thread' = 0
  /\ pc' = [g \in Gen |-> Woken(pc[g])]
  /\ UNCHANGED <<mode, motion, step, call, submits, posted>>

-----------------------------------------------------------------------------
(* The receiver's queues.                                                  *)

signal_never == UNCHANGED pc \* mutant: the thread finds out by itself

(* signal wakes one thread that waits, if there is one.                    *)
signal ==
  \/ Waiting = {} /\ UNCHANGED pc
  \/ \E g \in Waiting : Goto(g, Woken(pc[g]))

submit(c, d) ==
  /\ call[c] = 0
  /\ submits < MaxSubmits /\ submits' = submits + 1
  /\ \/ /\ mode.kind = "immediate"
        /\ call' = [call EXCEPT ![c] = d] /\ taken' = taken + d
        /\ UNCHANGED <<pending, hasPending, pc>>
     \/ /\ mode.kind # "immediate"
        /\ pending' = pending + d /\ hasPending' = TRUE
        /\ signal
        /\ UNCHANGED <<call, taken>>
  /\ UNCHANGED <<mode, remaining, control, step, posted>>

post_caller(c) ==
  /\ call[c] # 0
  /\ posted' = posted + call[c]
  /\ call' = [call EXCEPT ![c] = 0]
  /\ UNCHANGED <<mode, motion, control, pc, step, submits>>

(* mutant: what has not been accepted is only hidden                       *)
flushPending_flag ==
  /\ hasPending' = FALSE /\ remaining' = 0
  /\ UNCHANGED <<mode, pending, taken, control, pc, step, call, submits, posted>>

flushPending ==
  /\ pending' = 0 /\ hasPending' = FALSE /\ remaining' = 0
  /\ UNCHANGED <<mode, taken, control, pc, step, call, submits, posted>>

-----------------------------------------------------------------------------
(* The scheduler's thread.                                                 *)

Abs(v)  == IF v < 0 THEN -v ELSE v

(* consumeFraction: alpha times the value, rounded to the nearest, and one *)
(* count where that is none.                                               *)
Fraction(v) ==
  LET share == (2 * Abs(v) * mode.num + mode.den) \div (2 * mode.den)
      size  == IF share = 0 THEN 1 ELSE share
  IN  IF v = 0 THEN 0 ELSE IF v > 0 THEN size ELSE -size

StepOf(v) == IF mode.kind = "smoothed" THEN Fraction(v) ELSE v

(* mutant: what was accepted stays pending                                 *)
acceptPending_kept(rest) == remaining' = rest /\ UNCHANGED <<pending, hasPending>>

(* acceptPendingLocked leaves `rest` of what there is.                     *)
acceptPending(rest) == remaining' = rest /\ pending' = 0 /\ hasPending' = FALSE

takeStep(g) ==
  LET s == StepOf(remaining + pending) IN
    /\ acceptPending(remaining + pending - s)
    /\ taken' = taken + s
    /\ step' = [step EXCEPT ![g] = s]
    /\ Goto(g, IF s = 0 THEN "top" ELSE "post")

(* The top of the loop, on entry and after each wait.                      *)
loop(g) ==
  /\ pc[g] = "top"
  /\ \/ Retired(g) /\ Goto(g, "gone") /\ UNCHANGED <<motion, step>>
     \/ /\ ~Retired(g) /\ ~hasPending /\ remaining = 0
        /\ Goto(g, "asleep") /\ UNCHANGED <<motion, step>>
     \/ ~Retired(g) /\ (hasPending \/ remaining # 0) /\ takeStep(g)
     \/ /\ ~Retired(g) /\ (hasPending \/ remaining # 0) /\ mode.kind # "immediate"
        /\ acceptPending(remaining + pending) /\ Goto(g, "pacing") /\ UNCHANGED <<taken, step>>
  /\ UNCHANGED <<mode, control, call, submits, posted>>

(* Woken before the deadline: what has arrived joins the step.             *)
pace_again(g) ==
  /\ pc[g] \in {"pacing", "paced"} /\ ~Retired(g)
  /\ acceptPending(remaining + pending) /\ Goto(g, "pacing")
  /\ UNCHANGED <<mode, control, taken, step, call, submits, posted>>

(* mutant: looks whether it was stopped after taking the step              *)
pace_over_late(g) ==
  /\ pc[g] \in {"pacing", "paced"}
  /\ acceptPending(remaining + pending - StepOf(remaining + pending))
  /\ taken' = taken + StepOf(remaining + pending)
  /\ IF Retired(g) THEN Goto(g, "gone") /\ UNCHANGED step
     ELSE Goto(g, "post") /\ step' = [step EXCEPT ![g] = StepOf(remaining + pending)]
  /\ UNCHANGED <<mode, control, call, submits, posted>>

pace_over(g) ==
  /\ pc[g] \in {"pacing", "paced"}
  /\ \/ /\ Retired(g) /\ Goto(g, "gone")
        /\ acceptPending(remaining + pending) /\ UNCHANGED <<taken, step>>
     \/ ~Retired(g) /\ takeStep(g)
  /\ UNCHANGED <<mode, control, call, submits, posted>>

post(g) ==
  /\ pc[g] = "post"
  /\ posted' = posted + step[g]
  /\ step' = [step EXCEPT ![g] = 0]
  /\ Goto(g, "top")
  /\ UNCHANGED <<mode, motion, control, call, submits>>

-----------------------------------------------------------------------------
runs(g) == loop(g) \/ pace_over(g) \/ post(g)

Next ==
  \/ \E m \in Modes : apply(m)
  \/ start \/ stop \/ flushPending
  \/ \E c \in Callers : post_caller(c) \/ \E d \in Deltas : submit(c, d)
  \/ \E g \in Gen : runs(g) \/ pace_again(g)

Spec == Init /\ [][Next]_vars

(* Threads run and deadlines pass.                                         *)
FairSpec ==
  /\ Spec
  /\ \A g \in Gen : WF_vars(runs(g))
  /\ \A c \in Callers : WF_vars(post_caller(c))

-----------------------------------------------------------------------------
TypeOK ==
  /\ mode \in Modes
  /\ pending \in Int /\ hasPending \in BOOLEAN /\ (~hasPending => pending = 0) /\ remaining \in Int
  /\ stopped \in BOOLEAN /\ generation \in 0..MaxGeneration /\ thread \in 0..MaxGeneration
  /\ pc \in [Gen -> Location] /\ step \in [Gen -> Int] /\ call \in [Callers -> Int]
  /\ submits \in Nat /\ taken \in Int /\ posted \in Int

Owed == pending + remaining

(* Whatever the mode, and however often it changes, the threads and the    *)
(* callers between them play out what was submitted in steps that never    *)
(* overshoot it, or flushPending drops it (EventScheduler.swift:188).      *)
P == INSTANCE Playout WITH owed <- Owed, moved <- taken
PlaysOut == P!Spec

(* Every step that was taken is posted, once, by whoever took it, although *)
(* threads are stopped and replaced while they are about to.               *)
TakenIsPosted ==
  taken = posted + FoldFunction(+, 0, step) + FoldFunction(+, 0, call)

(* No wakeup is lost: only the thread that was started last waits, so that *)
(* the one signal of submit (EventScheduler.swift:123) finds it, and it    *)
(* waits without a deadline only while there is nothing to play out.       *)
NoWakeupIsLost ==
  \A g \in Waiting : ~Retired(g) /\ (pc[g] = "asleep" => ~hasPending /\ remaining = 0)

(* Motion that was submitted is played out, as long as nothing stops the   *)
(* scheduler.                                                              *)
MotionArrives == (Owed # 0 /\ thread # 0) ~> (Owed = 0 \/ thread = 0)

(* A thread that was stopped ends, although stop does not wait for it.     *)
StoppedThreadsEnd == \A g \in Gen : (pc[g] # "gone" /\ thread # g) ~> pc[g] = "gone"
=============================================================================
