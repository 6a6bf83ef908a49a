------------------------ MODULE EventSchedulerProofs ------------------------
(***************************************************************************)
(* The scheduler implements Playout, and only its newest thread waits, for *)
(* all modes and motions, and any number of callers, starts and stops.     *)
(***************************************************************************)
EXTENDS EventScheduler, FoldTheorems, TLAPS

OnlyTheNewestWaits == \A g \in Waiting : ~Retired(g)

(* A thread that waits is the one that was started last, and while there   *)
(* is none the scheduler has been stopped, or was never started.           *)
WaitInv ==
  /\ OnlyTheNewestWaits
  /\ thread = 0 => stopped \/ generation = 0

IInv == TypeOK /\ WaitInv

-----------------------------------------------------------------------------
(* consumeFraction.                                                        *)

(* A share of at most one, rounded to the nearest, is at most the whole.   *)
LEMMA ShareBound ==
  ASSUME NEW a \in Nat, NEW n \in Nat, NEW d \in Nat \ {0}, n <= d
  PROVE  (2 * a * n + d) \div (2 * d) \in 0..a
<1> DEFINE q == (2 * a * n + d) \div (2 * d)
<1>1. a * n \in Nat /\ a * d \in Nat /\ a * n <= a * d
  <2>1. PICK k \in Nat : d = n + k
    BY d - n \in Nat
  <2>2. a * d = a * n + a * k /\ a * k \in Nat /\ a * n \in Nat
    BY <2>1
  <2>3. QED
    BY <2>2
<1>2. 2 * a * n = 2 * (a * n) /\ 2 * d \in Nat \ {0}
  OBVIOUS
<1>3. q \in Nat
  BY <1>1, <1>2
<1>4. q * (2 * d) <= 2 * (a * n) + d
  BY <1>1, <1>2, <1>3
<1> HIDE DEF q
<1>5. ASSUME q >= a + 1 PROVE FALSE
  <2>1. PICK k \in Nat : q = a + 1 + k
    BY <1>3, <1>5, q - (a + 1) \in Nat
  <2>2. q * (2 * d) = 2 * (a * d) + 2 * d + k * (2 * d) /\ k * (2 * d) \in Nat
    BY <2>1
  <2>3. QED
    BY <1>1, <1>4, <2>2
<1>6. q \in 0..a
  BY <1>3, <1>5
<1>7. QED
  BY <1>6 DEF q

(* A step never overshoots and always makes progress.                      *)
LEMMA StepTowards ==
  ASSUME mode \in Modes, NEW v \in Int
  PROVE  (v = 0 /\ StepOf(v) = 0) \/ (v # 0 /\ StepOf(v) \in P!Towards(v))
<1>1. mode.num \in Nat /\ mode.den \in Nat \ {0} /\ mode.num <= mode.den
  BY SchedulerAssumption
<1>2. Abs(v) \in Nat /\ (v > 0 => Abs(v) = v) /\ (v < 0 => Abs(v) = -v)
  BY DEF Abs
<1> DEFINE share == (2 * Abs(v) * mode.num + mode.den) \div (2 * mode.den)
<1>3. share \in 0..Abs(v)
  BY <1>1, <1>2, ShareBound
<1>4. Fraction(v) = IF v = 0 THEN 0 ELSE IF v > 0 THEN (IF share = 0 THEN 1 ELSE share)
                                                  ELSE -(IF share = 0 THEN 1 ELSE share)
  BY DEF Fraction
<1> HIDE DEF share
<1>5. QED
  BY <1>2, <1>3, <1>4 DEF StepOf, P!Towards

-----------------------------------------------------------------------------
(* The parts of the type invariant, by who writes them.                    *)
MotionTypes  == pending \in Int /\ remaining \in Int /\ taken \in Int
FlagTypes    == hasPending \in BOOLEAN /\ (~hasPending => pending = 0) /\ stopped \in BOOLEAN
ControlTypes == generation \in 0..MaxGeneration /\ thread \in 0..MaxGeneration
ThreadTypes  == pc \in [Gen -> Location] /\ step \in [Gen -> Int]
CallTypes ==
  mode \in Modes /\ call \in [Callers -> Int] /\ submits \in Nat /\ posted \in Int

LEMMA TypeParts == TypeOK <=> MotionTypes /\ FlagTypes /\ ControlTypes /\ ThreadTypes /\ CallTypes
  BY DEF TypeOK, MotionTypes, FlagTypes, ControlTypes, ThreadTypes, CallTypes

LEMMA TypePartsPrime == TypeOK' <=> MotionTypes' /\ FlagTypes' /\ ControlTypes' /\ ThreadTypes' /\ CallTypes'
  BY DEF TypeOK, MotionTypes, FlagTypes, ControlTypes, ThreadTypes, CallTypes

LEMMA InductiveInit == Init => IInv
<1> SUFFICES ASSUME Init PROVE IInv
  OBVIOUS
<1>1. MotionTypes
  BY DEF Init, MotionTypes
<1>2. ControlTypes
  BY SchedulerAssumption DEF Init, ControlTypes
<1>3. ThreadTypes
  BY DEF Init, ThreadTypes, Location
<1>4. CallTypes
  BY DEF Init, CallTypes
<1>5. FlagTypes
  BY DEF Init, FlagTypes
<1>6. WaitInv
  BY DEF Init, WaitInv, OnlyTheNewestWaits, Waiting
<1>7. QED
  BY <1>1, <1>2, <1>3, <1>4, <1>5, <1>6, TypeParts DEF IInv

(* Steps that change neither locations nor what decides who is retired.    *)
LEMMA WaitUntouched ==
  ASSUME WaitInv, UNCHANGED <<control, pc>>
  PROVE  WaitInv'
  BY DEF WaitInv, OnlyTheNewestWaits, Waiting, Retired, control

LEMMA FlushOrApply ==
  ASSUME IInv, flushPending \/ \E m \in Modes : apply(m)
  PROVE  IInv'
<1> USE DEF flushPending, apply, control, motion
<1>1. MotionTypes /\ FlagTypes /\ ControlTypes /\ ThreadTypes /\ CallTypes
  BY TypeParts DEF IInv
<1>2. MotionTypes'
  BY <1>1 DEF MotionTypes
<1>3. ControlTypes' /\ ThreadTypes'
  BY <1>1 DEF ControlTypes, ThreadTypes
<1>4. CallTypes'
  BY <1>1 DEF CallTypes
<1>5. WaitInv'
  BY WaitUntouched DEF IInv
<1>6. FlagTypes'
  BY <1>1 DEF FlagTypes
<1>7. QED
  BY <1>2, <1>3, <1>4, <1>5, <1>6, TypePartsPrime DEF IInv

LEMMA Start ==
  ASSUME IInv, start
  PROVE  IInv'
<1> USE DEF start, Goto, motion
<1>1. MotionTypes /\ FlagTypes /\ ControlTypes /\ ThreadTypes /\ CallTypes
  BY TypeParts DEF IInv
<1>2. generation' = generation + 1 /\ generation' \in Gen
  BY <1>1, SchedulerAssumption DEF ControlTypes, Gen
<1>3. MotionTypes' /\ CallTypes'
  BY <1>1 DEF MotionTypes, CallTypes
<1>4. ControlTypes'
  BY <1>1, <1>2 DEF ControlTypes, Gen
<1>5. ThreadTypes'
  BY <1>1, <1>2 DEF ThreadTypes, Location
<1>6. WaitInv'
  <2>1. Waiting = {}
    BY <1>1 DEF IInv, WaitInv, OnlyTheNewestWaits, Waiting, Retired, Gen
  <2>2. Waiting' = {}
    BY <1>1, <1>2, <2>1 DEF Waiting, ThreadTypes
  <2>3. thread' # 0
    BY <1>2 DEF Gen
  <2>4. QED
    BY <2>2, <2>3 DEF WaitInv, OnlyTheNewestWaits
<1>7. FlagTypes'
  BY <1>1 DEF FlagTypes
<1>8. QED
  BY <1>3, <1>4, <1>5, <1>6, <1>7, TypePartsPrime DEF IInv

LEMMA Stop ==
  ASSUME IInv, stop
  PROVE  IInv'
<1> USE DEF stop, motion
<1>1. MotionTypes /\ FlagTypes /\ ControlTypes /\ ThreadTypes /\ CallTypes
  BY TypeParts DEF IInv
<1>2. \A g \in Gen : Woken(pc[g]) \in Location \ {"asleep", "pacing"}
  BY <1>1 DEF ThreadTypes, Woken, Location
<1>3. MotionTypes' /\ CallTypes'
  BY <1>1 DEF MotionTypes, CallTypes
<1>4. ControlTypes'
  BY <1>1, SchedulerAssumption DEF ControlTypes
<1>5. ThreadTypes'
  BY <1>1, <1>2 DEF ThreadTypes
<1>6. WaitInv'
  BY <1>2 DEF WaitInv, OnlyTheNewestWaits, Waiting
<1>7. FlagTypes'
  BY <1>1 DEF FlagTypes
<1>8. QED
  BY <1>3, <1>4, <1>5, <1>6, <1>7, TypePartsPrime DEF IInv

LEMMA Submit ==
  ASSUME IInv, NEW c \in Callers, NEW d \in Deltas, submit(c, d)
  PROVE  IInv'
<1> USE DEF submit, control
<1>1. d \in Int
  BY SchedulerAssumption
<1>2. MotionTypes /\ FlagTypes /\ ControlTypes /\ ThreadTypes /\ CallTypes
  BY TypeParts DEF IInv
<1>3. /\ pc' \in [Gen -> Location]
      /\ \A g \in Gen : pc'[g] \in {"asleep", "pacing"} => pc'[g] = pc[g]
  <2>1. CASE UNCHANGED pc
    BY <1>2, <2>1 DEF ThreadTypes
  <2>2. CASE \E g \in Waiting : Goto(g, Woken(pc[g]))
    BY <1>2, <2>2 DEF ThreadTypes, Waiting, Goto, Woken, Location
  <2>3. QED
    BY <2>1, <2>2 DEF signal
<1>4. MotionTypes'
  <2>1. CASE mode.kind = "immediate"
    BY <1>1, <1>2, <2>1 DEF MotionTypes
  <2>2. CASE mode.kind # "immediate"
    BY <1>1, <1>2, <2>2 DEF MotionTypes
  <2>3. QED
    BY <2>1, <2>2
<1>5. ControlTypes'
  BY <1>2 DEF ControlTypes
<1>6. ThreadTypes'
  BY <1>2, <1>3 DEF ThreadTypes
<1>7. CallTypes'
  BY <1>1, <1>2 DEF CallTypes
<1>8. WaitInv'
  BY <1>3 DEF IInv, WaitInv, OnlyTheNewestWaits, Waiting, Retired
<1>9. FlagTypes'
  BY <1>2 DEF FlagTypes
<1>10. QED
  BY <1>4, <1>5, <1>6, <1>7, <1>8, <1>9, TypePartsPrime DEF IInv

LEMMA PostCaller ==
  ASSUME IInv, NEW c \in Callers, post_caller(c)
  PROVE  IInv'
<1> USE DEF post_caller, control, motion
<1>1. MotionTypes /\ FlagTypes /\ ControlTypes /\ ThreadTypes /\ CallTypes
  BY TypeParts DEF IInv
<1>2. MotionTypes' /\ ControlTypes' /\ ThreadTypes'
  BY <1>1 DEF MotionTypes, ControlTypes, ThreadTypes
<1>3. CallTypes'
  BY <1>1 DEF CallTypes
<1>4. WaitInv'
  BY WaitUntouched DEF IInv
<1>5. FlagTypes'
  BY <1>1 DEF FlagTypes
<1>6. QED
  BY <1>2, <1>3, <1>4, <1>5, TypePartsPrime DEF IInv

(* A thread only goes to wait when it is not retired.                      *)
LEMMA ThreadWaits ==
  ASSUME IInv, NEW g \in Gen, NEW at \in Location, Goto(g, at),
         UNCHANGED control, at \in {"asleep", "pacing"} => ~Retired(g)
  PROVE  WaitInv'
<1>1. \A h \in Gen : pc'[h] = IF h = g THEN at ELSE pc[h]
  BY DEF IInv, TypeOK, Goto
<1>2. QED
  BY <1>1 DEF IInv, WaitInv, OnlyTheNewestWaits, Waiting, Retired, control

LEMMA TakeStep ==
  ASSUME IInv, NEW g \in Gen, takeStep(g),
         UNCHANGED <<mode, control, call, submits, posted>>
  PROVE  IInv'
<1> USE DEF takeStep, acceptPending
<1>1. MotionTypes /\ FlagTypes /\ ControlTypes /\ ThreadTypes /\ CallTypes
  BY TypeParts DEF IInv
<1>2. remaining + pending \in Int
  BY <1>1 DEF MotionTypes
<1>3. StepOf(remaining + pending) \in Int
  BY <1>1, <1>2, StepTowards DEF CallTypes, P!Towards
<1>4. MotionTypes'
  BY <1>1, <1>2, <1>3 DEF MotionTypes
<1>5. ControlTypes' /\ CallTypes'
  BY <1>1 DEF ControlTypes, CallTypes, control
<1>6. ThreadTypes'
  BY <1>1, <1>3 DEF ThreadTypes, Goto, Location
<1>7. WaitInv'
  BY ThreadWaits DEF Location
<1>8. FlagTypes'
  BY <1>1 DEF FlagTypes, control
<1>9. QED
  BY <1>4, <1>5, <1>6, <1>7, <1>8, TypePartsPrime DEF IInv

(* Other steps of a thread, to the place `at`.                             *)
LEMMA ThreadMoves ==
  ASSUME IInv, NEW g \in Gen, NEW at \in Location, Goto(g, at),
         at \in {"asleep", "pacing"} => ~Retired(g),
         UNCHANGED motion \/ (acceptPending(remaining + pending) /\ UNCHANGED taken),
         UNCHANGED step \/ step' = [step EXCEPT ![g] = 0],
         posted' \in {posted, posted + step[g]},
         UNCHANGED <<mode, control, call, submits>>
  PROVE  IInv'
<1>1. MotionTypes /\ FlagTypes /\ ControlTypes /\ ThreadTypes /\ CallTypes
  BY TypeParts DEF IInv
<1>2. MotionTypes'
  <2>1. CASE UNCHANGED motion
    BY <1>1, <2>1 DEF MotionTypes, motion
  <2>2. CASE acceptPending(remaining + pending) /\ UNCHANGED taken
    BY <1>1, <2>2 DEF MotionTypes, acceptPending
  <2>3. QED
    BY <2>1, <2>2
<1>3. ControlTypes'
  BY <1>1 DEF ControlTypes, control
<1>4. ThreadTypes'
  BY <1>1 DEF ThreadTypes, Goto
<1>5. CallTypes'
  BY <1>1 DEF CallTypes, ThreadTypes
<1>6. WaitInv'
  BY ThreadWaits
<1>7. FlagTypes'
  BY <1>1 DEF FlagTypes, control, motion, acceptPending
<1>8. QED
  BY <1>2, <1>3, <1>4, <1>5, <1>6, <1>7, TypePartsPrime DEF IInv

LEMMA Threads ==
  ASSUME IInv, NEW g \in Gen, runs(g) \/ pace_again(g)
  PROVE  IInv'
<1> USE DEF motion
<1>1. CASE takeStep(g) /\ UNCHANGED <<mode, control, call, submits, posted>>
  BY <1>1, TakeStep
<1>2. CASE loop(g) /\ ~takeStep(g)
  <2>1. PICK at \in {"gone", "asleep", "pacing"} :
          Goto(g, at) /\ (at # "gone" => ~Retired(g)) /\ UNCHANGED step
    BY <1>2 DEF loop
  <2>2. UNCHANGED motion \/ (acceptPending(remaining + pending) /\ UNCHANGED taken)
    BY <1>2 DEF loop
  <2>3. UNCHANGED <<mode, control, call, submits, posted>>
    BY <1>2 DEF loop
  <2>4. QED
    BY <2>1, <2>2, <2>3, ThreadMoves DEF Location
<1>3. CASE pace_again(g) \/ (pace_over(g) /\ ~takeStep(g))
  <2>1. PICK at \in {"gone", "pacing"} :
          Goto(g, at) /\ (at # "gone" => ~Retired(g)) /\ UNCHANGED step
    BY <1>3 DEF pace_again, pace_over
  <2>2. acceptPending(remaining + pending) /\ UNCHANGED taken
    BY <1>3 DEF pace_again, pace_over
  <2>3. UNCHANGED <<mode, control, call, submits, posted>>
    BY <1>3 DEF pace_again, pace_over
  <2>4. QED
    BY <2>1, <2>2, <2>3, ThreadMoves DEF Location
<1>4. CASE post(g)
  BY <1>4, ThreadMoves DEF post, Location
<1>5. QED
  BY <1>1, <1>2, <1>3, <1>4 DEF runs, loop, pace_over

LEMMA InductiveSteps == IInv /\ [Next]_vars => IInv'
<1> SUFFICES ASSUME IInv, [Next]_vars PROVE IInv'
  OBVIOUS
<1>1. CASE start \/ stop \/ flushPending \/ \E m \in Modes : apply(m)
  BY <1>1, Start, Stop, FlushOrApply
<1>2. CASE \E c \in Callers : post_caller(c) \/ \E d \in Deltas : submit(c, d)
  BY <1>2, PostCaller, Submit
<1>3. CASE \E g \in Gen : runs(g) \/ pace_again(g)
  BY <1>3, Threads
<1>4. CASE UNCHANGED vars
  <2>1. TypeOK' /\ WaitInv'
    BY <1>4, WaitUntouched, TypeParts, TypePartsPrime
       DEF vars, motion, control, IInv, MotionTypes, FlagTypes, ControlTypes, ThreadTypes, CallTypes
  <2>2. QED
    BY <2>1 DEF IInv
<1>5. QED
  BY <1>1, <1>2, <1>3, <1>4 DEF Next

-----------------------------------------------------------------------------
(* What the variables of the scheduler hold, in every state of every mode. *)
THEOREM TypeCorrect == Spec => []TypeOK
<1>1. IInv => TypeOK
  BY DEF IInv
<1>2. QED
  BY <1>1, InductiveInit, InductiveSteps, PTL DEF Spec

(* A thread that sleeps has nothing to play out.                           *)
SleepInv == \A g \in Gen : pc[g] = "asleep" => ~hasPending /\ remaining = 0

(* Two threads that are not retired are the same.                          *)
LEMMA OneSleeper ==
  ASSUME IInv, NEW g \in Gen, pc[g] = "asleep", NEW h \in Gen, ~Retired(h)
  PROVE  g = h
BY DEF IInv, WaitInv, OnlyTheNewestWaits, Waiting, Retired

(* Motion that is submitted wakes the one thread that sleeps.              *)
LEMMA SubmitWakes ==
  ASSUME IInv, SleepInv, NEW c \in Callers, NEW d \in Deltas, submit(c, d)
  PROVE  SleepInv'
<1>1. pc \in [Gen -> Location]
  BY DEF IInv, TypeOK
<1>2. CASE mode.kind = "immediate"
  BY <1>2 DEF submit, SleepInv
<1>3. CASE mode.kind # "immediate"
  <2>1. signal
    BY <1>3 DEF submit
  <2>2. ASSUME NEW g \in Gen, pc'[g] = "asleep"
        PROVE  FALSE
    <3>1. pc[g] = "asleep" /\ g \in Waiting
      BY <1>1, <2>1, <2>2 DEF signal, Goto, Woken, Waiting
    <3>2. Waiting = {g}
      BY <3>1, OneSleeper DEF IInv, WaitInv, OnlyTheNewestWaits, Waiting
    <3>3. pc'[g] = "top"
      BY <1>1, <2>1, <3>1, <3>2 DEF signal, Goto, Woken
    <3> QED
      BY <2>2, <3>3
  <2> QED
    BY <2>2 DEF SleepInv
<1> QED
  BY <1>2, <1>3

(* A thread that adds to what remains is the one that could sleep, or adds *)
(* nothing while another sleeps.                                           *)
LEMMA RunsAwake ==
  ASSUME IInv, SleepInv, NEW g \in Gen, runs(g) \/ pace_again(g)
  PROVE  SleepInv'
<1>1. /\ pc \in [Gen -> Location] /\ (~hasPending => pending = 0)
      /\ remaining \in Int /\ pending \in Int
  BY DEF IInv, TypeOK
<1>2. ASSUME NEW at, Goto(g, at), at # "asleep", ~Retired(g)
      PROVE  SleepInv'
  <2>1. \A h \in Gen : pc[h] # "asleep" \/ h = g
    BY <1>2, OneSleeper
  <2> QED
    BY <1>1, <1>2, <2>1 DEF SleepInv, Goto
<1>3. ASSUME NEW at, Goto(g, at), at # "asleep",
             UNCHANGED motion \/ acceptPending(remaining + pending)
      PROVE  SleepInv'
  <2> SUFFICES ASSUME NEW h \in Gen, pc'[h] = "asleep"
               PROVE  ~hasPending' /\ remaining' = 0
    BY DEF SleepInv
  <2>1. ~hasPending /\ remaining = 0 /\ pending = 0
    BY <1>1, <1>3 DEF SleepInv, Goto
  <2> QED
    BY <1>3, <2>1 DEF acceptPending, motion
<1>4. CASE ~Retired(g) /\ takeStep(g)
  BY <1>2, <1>4 DEF takeStep
<1>5. CASE loop(g)
  <2>1. CASE ~Retired(g) /\ ~hasPending /\ remaining = 0 /\ Goto(g, "asleep") /\ UNCHANGED motion
    BY <1>1, <2>1 DEF SleepInv, Goto, motion
  <2>2. CASE Retired(g) /\ Goto(g, "gone") /\ UNCHANGED motion
    BY <1>3, <2>2
  <2>3. CASE ~Retired(g) /\ Goto(g, "pacing")
    BY <1>2, <2>3
  <2> QED
    BY <1>4, <1>5, <2>1, <2>2, <2>3 DEF loop, motion
<1>6. CASE pace_again(g)
  BY <1>2, <1>6 DEF pace_again
<1>7. CASE Retired(g) /\ pace_over(g)
  BY <1>3, <1>7 DEF pace_over
<1>8. CASE post(g)
  BY <1>3, <1>8 DEF post
<1> QED
  BY <1>4, <1>5, <1>6, <1>7, <1>8 DEF runs, pace_over

LEMMA SleepSteps == IInv /\ SleepInv /\ [Next]_vars => SleepInv'
<1> SUFFICES ASSUME IInv, SleepInv, [Next]_vars PROVE SleepInv'
  OBVIOUS
<1>1. pc \in [Gen -> Location]
  BY DEF IInv, TypeOK
<1>2. CASE start
  <2>1. generation' \in Gen
    BY <1>2, SchedulerAssumption DEF start, IInv, TypeOK, Gen
  <2> QED
    BY <1>1, <1>2, <2>1 DEF start, SleepInv, Goto, motion
<1>3. CASE stop
  BY <1>1, <1>3 DEF stop, SleepInv, Woken
<1>4. CASE flushPending
  BY <1>4 DEF flushPending, SleepInv
<1>5. CASE \E m \in Modes : apply(m)
  BY <1>5 DEF apply, SleepInv, motion
<1>6. CASE \E c \in Callers : post_caller(c)
  BY <1>6 DEF post_caller, SleepInv, motion
<1>7. CASE \E c \in Callers : \E d \in Deltas : submit(c, d)
  BY <1>7, SubmitWakes
<1>8. CASE \E g \in Gen : runs(g) \/ pace_again(g)
  BY <1>8, RunsAwake
<1>9. CASE UNCHANGED vars
  BY <1>9 DEF vars, motion, SleepInv
<1> QED
  BY <1>2, <1>3, <1>4, <1>5, <1>6, <1>7, <1>8, <1>9 DEF Next

(* The signal of submit wakes the thread that can play the motion out and  *)
(* not one that is about to end, and nothing is left to play out while     *)
(* that thread sleeps (EventScheduler.swift:123, :141), for any number of  *)
(* stops and starts.                                                       *)
THEOREM WakeupsAreKept == Spec => []NoWakeupIsLost
<1>1. Init => IInv /\ SleepInv
  BY InductiveInit DEF Init, SleepInv
<1>2. IInv /\ SleepInv => NoWakeupIsLost
  BY DEF IInv, WaitInv, OnlyTheNewestWaits, SleepInv, NoWakeupIsLost, Waiting
<1>3. QED
  BY <1>1, <1>2, InductiveSteps, SleepSteps, PTL DEF Spec

-----------------------------------------------------------------------------
(* What was taken is posted.                                               *)

(* A thread that is not about to post has no step, and none runs before    *)
(* its generation is started.                                              *)
StepInv ==
  \A g \in Gen : /\ pc[g] # "post" => step[g] = 0
                 /\ pc[g] # "gone" => g <= generation

PostInv == IInv /\ StepInv /\ TakenIsPosted

LEMMA FiniteThreads == IsFiniteSet(Gen) /\ IsFiniteSet(Callers)
BY FS_Interval, SchedulerAssumption DEF Gen

LEMMA TakenIs == TakenIsPosted <=> taken = posted + Sum(step) + Sum(call)
BY DEF TakenIsPosted, Sum

LEMMA TakenIsPrime == TakenIsPosted' <=> taken' = posted' + Sum(step') + Sum(call')
<1>1. TakenIsPosted' <=> (taken = posted + Sum(step) + Sum(call))'
  BY TakenIs, PTL
<1> QED
  BY <1>1

LEMMA SumTypes ==
  ASSUME TypeOK
  PROVE  Sum(step) \in Int /\ Sum(call) \in Int
BY FiniteThreads, SumType DEF TypeOK

(* The locations of threads that neither take a step nor post.             *)
LEMMA OthersWait ==
  ASSUME TypeOK, StepInv, UNCHANGED step, generation <= generation',
         generation' \in Int,
         \A h \in Gen : pc'[h] = pc[h] \/ (pc[h] \notin {"gone", "post"} /\ pc'[h] # "post")
  PROVE  StepInv'
<1> SUFFICES ASSUME NEW h \in Gen
             PROVE  (pc'[h] # "post" => step'[h] = 0) /\ (pc'[h] # "gone" => h <= generation')
  BY DEF StepInv
<1>1. h \in Int /\ generation \in Int
  BY DEF TypeOK, Gen
<1>2. (pc[h] # "post" => step[h] = 0) /\ (pc[h] # "gone" => h <= generation)
  BY DEF StepInv
<1> QED
  BY <1>1, <1>2

LEMMA NothingTaken ==
  ASSUME TakenIsPosted, UNCHANGED <<taken, posted, step, call>>
  PROVE  TakenIsPosted'
BY TakenIs, TakenIsPrime

LEMMA ControlPosts ==
  ASSUME PostInv, start \/ stop \/ flushPending \/ \E m \in Modes : apply(m)
  PROVE  StepInv' /\ TakenIsPosted'
<1> USE DEF motion, control
<1>1. TypeOK /\ StepInv /\ TakenIsPosted
  BY DEF PostInv, IInv
<1>2. generation \in Int /\ pc \in [Gen -> Location]
  BY <1>1 DEF TypeOK
<1>3. TakenIsPosted'
  BY <1>1, NothingTaken DEF start, stop, flushPending, apply
<1>4. CASE start
  <2>1. generation' = generation + 1 /\ pc' = [pc EXCEPT ![generation'] = "top"] /\ UNCHANGED step
    BY <1>4 DEF start, Goto
  <2> SUFFICES ASSUME NEW h \in Gen
               PROVE  (pc'[h] # "post" => step'[h] = 0) /\ (pc'[h] # "gone" => h <= generation')
    BY <1>3 DEF StepInv
  <2>2. h \in Int /\ (pc[h] # "post" => step[h] = 0) /\ (pc[h] # "gone" => h <= generation)
    BY <1>1 DEF StepInv, Gen
  <2>3. CASE h = generation'
    BY <1>2, <2>1, <2>2, <2>3
  <2>4. CASE h # generation'
    BY <1>2, <2>1, <2>2, <2>4
  <2> QED
    BY <2>3, <2>4
<1>5. CASE stop
  <2>1. /\ generation' = generation + 1 /\ UNCHANGED step
        /\ \A h \in Gen : pc'[h] = Woken(pc[h])
    BY <1>5 DEF stop
  <2>2. \A h \in Gen : pc'[h] = pc[h] \/ (pc[h] \notin {"gone", "post"} /\ pc'[h] # "post")
    BY <2>1 DEF Woken
  <2> QED
    BY <1>1, <1>2, <1>3, <2>1, <2>2, OthersWait
<1>6. CASE flushPending \/ \E m \in Modes : apply(m)
  BY <1>1, <1>2, <1>3, <1>6, OthersWait DEF flushPending, apply
<1> QED
  BY <1>4, <1>5, <1>6

LEMMA CallerPosts ==
  ASSUME PostInv, NEW c \in Callers, post_caller(c) \/ \E d \in Deltas : submit(c, d)
  PROVE  StepInv' /\ TakenIsPosted'
<1>1. TypeOK /\ StepInv /\ taken = posted + Sum(step) + Sum(call)
  BY TakenIs DEF PostInv, IInv
<1>2. /\ generation \in Int /\ pc \in [Gen -> Location] /\ call \in [Callers -> Int] /\ call[c] \in Int
      /\ taken \in Int /\ posted \in Int /\ Sum(step) \in Int /\ Sum(call) \in Int
  BY <1>1, SumTypes DEF TypeOK
<1>3. CASE post_caller(c)
  <2>1. StepInv'
    BY <1>1, <1>2, <1>3, OthersWait DEF post_caller, control
  <2>2. Sum(call') = Sum(call) + 0 - call[c]
    <3>1. call' = [call EXCEPT ![c] = 0] /\ 0 \in Int
      BY <1>3 DEF post_caller
    <3> QED
      BY <1>2, <3>1, FiniteThreads, SumChanges
  <2>3. UNCHANGED <<taken, step>> /\ posted' = posted + call[c]
    BY <1>3 DEF post_caller, motion
  <2>4. taken' = posted' + Sum(step') + Sum(call')
    BY <1>1, <1>2, <2>2, <2>3
  <2> QED
    BY <2>1, <2>4, TakenIsPrime
<1>4. ASSUME NEW d \in Deltas, submit(c, d)
      PROVE  StepInv' /\ TakenIsPosted'
  <2>1. \A h \in Gen : pc'[h] = pc[h] \/ (pc[h] \notin {"gone", "post"} /\ pc'[h] # "post")
    <3>1. CASE UNCHANGED pc
      BY <3>1
    <3>2. CASE \E g \in Waiting : Goto(g, Woken(pc[g]))
      BY <1>2, <3>2 DEF Waiting, Goto, Woken
    <3> QED
      BY <1>4, <3>1, <3>2 DEF submit, signal
  <2>2. StepInv'
    BY <1>1, <1>2, <1>4, <2>1, OthersWait DEF submit, control
  <2>3. UNCHANGED <<posted, step>> /\ call[c] = 0 /\ d \in Int
    BY <1>4, SchedulerAssumption DEF submit
  <2>4. CASE UNCHANGED <<call, taken>>
    BY <1>1, <2>2, <2>3, <2>4, TakenIsPrime
  <2>5. CASE call' = [call EXCEPT ![c] = d] /\ taken' = taken + d
    <3>1. Sum(call') = Sum(call) + d - call[c]
      BY <1>2, <2>3, <2>5, FiniteThreads, SumChanges
    <3>2. taken' = posted' + Sum(step') + Sum(call')
      BY <1>1, <1>2, <2>3, <2>5, <3>1
    <3> QED
      BY <2>2, <3>2, TakenIsPrime
  <2> QED
    BY <1>4, <2>4, <2>5 DEF submit
<1> QED
  BY <1>3, <1>4

LEMMA ThreadPosts ==
  ASSUME PostInv, NEW g \in Gen, runs(g) \/ pace_again(g)
  PROVE  StepInv' /\ TakenIsPosted'
<1> USE DEF motion
<1>1. TypeOK /\ StepInv /\ TakenIsPosted /\ taken = posted + Sum(step) + Sum(call)
  BY TakenIs DEF PostInv, IInv
<1>2. /\ generation \in Int /\ pc \in [Gen -> Location] /\ step \in [Gen -> Int] /\ step[g] \in Int
      /\ taken \in Int /\ posted \in Int /\ Sum(step) \in Int /\ Sum(call) \in Int
  BY <1>1, SumTypes DEF TypeOK
<1>3. UNCHANGED <<generation, call>>
  BY DEF runs, loop, pace_again, pace_over, post, control
<1>4. CASE post(g)
  <2>1. /\ pc[g] = "post" /\ pc' = [pc EXCEPT ![g] = "top"] /\ step' = [step EXCEPT ![g] = 0]
        /\ posted' = posted + step[g] /\ UNCHANGED taken
    BY <1>4 DEF post, Goto
  <2>2. StepInv'
    BY <1>1, <1>2, <1>3, <2>1 DEF StepInv
  <2>3. Sum(step') = Sum(step) + 0 - step[g]
    <3>1. 0 \in Int
      OBVIOUS
    <3> QED
      BY <1>2, <2>1, <3>1, FiniteThreads, SumChanges
  <2>4. taken' = posted' + Sum(step') + Sum(call')
    BY <1>1, <1>2, <1>3, <2>1, <2>3
  <2> QED
    BY <2>2, <2>4, TakenIsPrime
<1>5. CASE (loop(g) \/ pace_over(g)) /\ takeStep(g)
  <2> DEFINE s == StepOf(remaining + pending)
             at == IF s = 0 THEN "top" ELSE "post"
  <2>1. s \in Int
    <3>1. remaining + pending \in Int /\ mode \in Modes
      BY <1>1 DEF TypeOK
    <3> QED
      BY <3>1, StepTowards DEF P!Towards
  <2>2. /\ pc[g] \notin {"gone", "post"} /\ pc' = [pc EXCEPT ![g] = at] /\ step' = [step EXCEPT ![g] = s]
        /\ UNCHANGED posted /\ taken' = taken + s
    BY <1>5 DEF loop, pace_over, takeStep, Goto
  <2>3. at \in {"top", "post"} /\ (at # "post" => s = 0)
    OBVIOUS
  <2> HIDE DEF s, at
  <2>4. step[g] = 0
    BY <1>1, <2>2 DEF StepInv
  <2>5. StepInv'
    BY <1>1, <1>2, <1>3, <2>2, <2>3 DEF StepInv
  <2>6. Sum(step') = Sum(step) + s - step[g]
    BY <1>2, <2>1, <2>2, FiniteThreads, SumChanges
  <2>7. taken' = posted' + Sum(step') + Sum(call')
    BY <1>1, <1>2, <1>3, <2>1, <2>2, <2>4, <2>6
  <2> QED
    BY <2>5, <2>7, TakenIsPrime
<1>6. CASE ((loop(g) \/ pace_over(g)) /\ ~takeStep(g)) \/ pace_again(g)
  <2>1. UNCHANGED <<taken, posted, step>>
    BY <1>6 DEF loop, pace_over, pace_again
  <2>2. PICK at \in {"gone", "asleep", "pacing"} : pc' = [pc EXCEPT ![g] = at] /\ pc[g] \notin {"gone", "post"}
    BY <1>6 DEF loop, pace_over, pace_again, Goto
  <2>3. \A h \in Gen : pc'[h] = pc[h] \/ (pc[h] \notin {"gone", "post"} /\ pc'[h] # "post")
    BY <1>2, <2>2
  <2>4. StepInv'
    BY <1>1, <1>2, <1>3, <2>1, <2>3, OthersWait
  <2> QED
    BY <1>1, <1>3, <2>1, <2>4, NothingTaken
<1> QED
  BY <1>4, <1>5, <1>6 DEF runs

LEMMA PostInit == Init => PostInv
<1> SUFFICES ASSUME Init PROVE PostInv
  OBVIOUS
<1>1. IInv
  BY InductiveInit
<1>2. StepInv
  BY DEF Init, StepInv
<1>3. Sum(step) = 0 /\ Sum(call) = 0 /\ taken = 0 /\ posted = 0
  BY FiniteThreads, SumOfZeros DEF Init
<1>4. TakenIsPosted
  BY <1>3, TakenIs
<1> QED
  BY <1>1, <1>2, <1>4 DEF PostInv

LEMMA PostSteps == PostInv /\ [Next]_vars => PostInv'
<1> SUFFICES ASSUME PostInv, [Next]_vars PROVE PostInv'
  OBVIOUS
<1>1. IInv'
  BY InductiveSteps DEF PostInv
<1>2. CASE UNCHANGED vars
  <2>1. TypeOK /\ StepInv /\ TakenIsPosted /\ generation \in Int
    BY DEF PostInv, IInv, TypeOK
  <2> QED
    BY <1>1, <1>2, <2>1, OthersWait, NothingTaken DEF PostInv, vars, motion, control
<1>3. CASE Next
  BY <1>1, <1>3, ControlPosts, CallerPosts, ThreadPosts DEF Next, PostInv
<1> QED
  BY <1>2, <1>3

(* Every step that was taken is posted, once, by whoever took it, for any  *)
(* number of threads that were stopped while they were about to            *)
(* (EventScheduler.swift: a step is posted outside the lock).              *)
THEOREM TakenAlwaysPosted == Spec => []TakenIsPosted
<1>1. PostInv => TakenIsPosted
  BY DEF PostInv
<1> QED
  BY <1>1, PostInit, PostSteps, PTL DEF Spec

-----------------------------------------------------------------------------
(* Refinement.                                                             *)

LEMMA InitPlaysOut == Init => P!Init
  BY DEF Init, P!Init, Owed

(* A step towards what is owed plays it out; there is none if nothing is.  *)
LEMMA StepPlaysOut ==
  ASSUME TypeOK, NEW s,
         remaining' = remaining + pending - s, pending' = 0, taken' = taken + s,
         (Owed = 0 /\ s = 0) \/ (Owed # 0 /\ s \in P!Towards(Owed))
  PROVE  P!Play \/ UNCHANGED <<Owed, taken>>
<1>1. pending \in Int /\ remaining \in Int /\ taken \in Int /\ Owed \in Int
  BY DEF TypeOK, Owed
<1>2. s \in Int
  BY <1>1 DEF P!Towards
<1>3. Owed' = Owed - s
  BY <1>1, <1>2 DEF Owed
<1>4. CASE s = 0
  BY <1>1, <1>3, <1>4
<1>5. CASE s \in P!Towards(Owed)
  BY <1>3, <1>5 DEF P!Play
<1>6. QED
  BY <1>4, <1>5

(* Taking a step plays out some of what is owed, or there was nothing.     *)
LEMMA TakeStepPlaysOut ==
  ASSUME TypeOK, NEW g \in Gen, takeStep(g)
  PROVE  P!Play \/ UNCHANGED <<Owed, taken>>
<1>1. PICK s : s = StepOf(remaining + pending)
  OBVIOUS
<1>2. remaining' = remaining + pending - s /\ pending' = 0 /\ taken' = taken + s
  BY <1>1 DEF takeStep, acceptPending
<1>3. remaining + pending \in Int /\ remaining + pending = Owed
  BY DEF TypeOK, Owed
<1>4. (Owed = 0 /\ s = 0) \/ (Owed # 0 /\ s \in P!Towards(Owed))
  BY <1>1, <1>3, StepTowards DEF TypeOK
<1>5. QED
  BY <1>2, <1>4, StepPlaysOut

(* Accepting pending motion does not change what is owed.                  *)
LEMMA AcceptKeepsOwed ==
  ASSUME TypeOK, acceptPending(remaining + pending)
  PROVE  Owed' = Owed
  BY DEF TypeOK, acceptPending, Owed

LEMMA StepsPlayOut == TypeOK /\ [Next]_vars => [P!Next]_<<Owed, taken>>
<1> SUFFICES ASSUME TypeOK, [Next]_vars PROVE P!Next \/ UNCHANGED <<Owed, taken>>
  OBVIOUS
<1> USE DEF motion
<1>1. CASE start \/ stop \/ (\E m \in Modes : apply(m)) \/ (\E c \in Callers : post_caller(c))
  BY <1>1 DEF start, stop, apply, post_caller, Owed
<1>2. CASE flushPending
  BY <1>2 DEF flushPending, Owed, P!Next, P!Drop
<1>3. ASSUME NEW c \in Callers, NEW d \in Deltas, submit(c, d)
      PROVE  P!Next
  <2>1. d \in Int /\ pending \in Int /\ remaining \in Int
    BY SchedulerAssumption DEF TypeOK
  <2>2. CASE mode.kind = "immediate"
    BY <1>3, <2>2 DEF submit, Owed, P!Next, P!Pass
  <2>3. CASE mode.kind # "immediate"
    <3>1. pending' = pending + d /\ remaining' = remaining /\ taken' = taken
      BY <1>3, <2>3 DEF submit
    <3>2. Owed' = Owed + d
      BY <2>1, <3>1 DEF Owed
    <3>3. QED
      BY <3>1, <3>2 DEF P!Next, P!Submit
  <2>4. QED
    BY <2>2, <2>3
<1>4. ASSUME NEW g \in Gen, runs(g) \/ pace_again(g)
      PROVE  P!Next \/ UNCHANGED <<Owed, taken>>
  <2>1. CASE takeStep(g)
    BY <2>1, TakeStepPlaysOut DEF P!Next
  <2>2. CASE acceptPending(remaining + pending) /\ UNCHANGED taken
    BY <2>2, AcceptKeepsOwed
  <2>3. CASE UNCHANGED motion
    BY <2>3 DEF Owed
  <2>4. QED
    BY <1>4, <2>1, <2>2, <2>3 DEF runs, loop, pace_again, pace_over, post
<1>5. CASE UNCHANGED vars
  BY <1>5 DEF vars, Owed
<1>6. QED
  BY <1>1, <1>2, <1>3, <1>4, <1>5 DEF Next

(* The scheduler implements Playout: whatever the mode, and however often  *)
(* it changes, threads and callers play out what was submitted in steps    *)
(* that make progress and never overshoot, or flushPending drops it.       *)
THEOREM Implementation == Spec => PlaysOut
<1>1. Spec => []TypeOK
  BY TypeCorrect
<1>2. QED
  BY <1>1, InitPlaysOut, StepsPlayOut, PTL DEF Spec, PlaysOut, P!Spec
=============================================================================
