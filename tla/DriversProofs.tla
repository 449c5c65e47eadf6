--------------------------- MODULE DriversProofs ---------------------------
(***************************************************************************)
(* What holds of both drivers for every range of group counts, every       *)
(* number of repetitions and every choice of faults.                       *)
(***************************************************************************)
EXTENDS Drivers, FiniteSetTheorems, TLAPS

----------------------------------------------------------------------------
(* The inductive invariant.                                                 *)

\* Where in a trial a driver has tried to fork: the launcher forks hackbench first,
\* the interrupting driver the test program.
InTrial    == pc \notin {"loop", "done"}
Late       == pc \in {"wait", "clean", "check", "kill", "wait_hackbench"}
HbForked   == Late \/ (driver = "launcher" /\ pc \in {"sleep", "prepare", "fork_test"})
TestForked == Late \/ (driver = "interrupt" /\ pc \in {"sleep", "fork_hackbench"})

HbPid(t)   == <<"hackbench", t>>
TestPid(t) == <<"test", t>>

\* The trials count through the repetitions of one number of groups after the other.
LoopInv ==
  /\ \E k \in 0 .. Rounds : /\ num_pairs = Lower + Step * k
                            /\ trial = k * Reps + rep + IF InTrial THEN 1 ELSE 0
  /\ InTrial => num_pairs <= Upper /\ rep < Reps
  /\ num_pairs > Upper => rep = 0
  /\ pc = "done" => num_pairs > Upper

\* A child exists once its fork was tried and succeeded, and then the driver holds its
\* pid; only dead children are reaped.
ChildInv ==
  /\ \A t \in Trial : /\ t > trial \/ (t = trial /\ InTrial /\ ~HbForked) => hb[t] = "none"
                      /\ t > trial \/ (t = trial /\ InTrial /\ ~TestForked) => test[t] = "none"
  /\ HbForked   => hackbench = IF hb[trial] = "none" THEN NoPid ELSE HbPid(trial)
  /\ TestForked => test_proc_id = IF test[trial] = "none" THEN NoPid ELSE TestPid(trial)
  /\ reaped \subseteq Dead

\* The trial's children are not reaped before the trial's first wait(); that takes one
\* of them, one of an abandoned trial, or finds none; and if it was the test program
\* that the driver expects, it was not the hackbench.
WaitInv ==
  /\ pc \in {"fork_hackbench", "sleep", "prepare", "fork_test", "wait"} =>
       HbPid(trial) \notin reaped /\ TestPid(trial) \notin reaped
  /\ pc \in {"clean", "check"} =>
       \/ wait_pid = NoPid /\ hackbench = NoPid /\ test_proc_id = NoPid
       \/ wait_pid \in reaped /\ (HbPid(trial) \in reaped => wait_pid = HbPid(trial))
  /\ pc = "kill" /\ test_proc_id # NoPid => test[trial] = "dead"
  /\ pc \in {"kill", "wait_hackbench"} /\ hackbench # NoPid => hackbench \notin reaped

\* The log is behind the loops.
Before(a, b) == a[1] < b[1] \/ (a[1] = b[1] /\ a[2] < b[2])
Logged       == pc \in {"kill", "wait_hackbench"}

LogInv ==
  /\ LogInOrder
  /\ \A n \in 1 .. Len(log) : Before(log[n], <<num_pairs, IF Logged THEN rep + 1 ELSE rep>>)

\* What a driver expects holds as long as nothing disturbs it: of the trials that are
\* over every child is dead and reaped; in the running one ...
Over(t) == t < trial \/ (t = trial /\ ~InTrial)

OverInv == \A t \in Trial : Over(t) => /\ hb[t] \in Down /\ HbPid(t) \in reaped
                                       /\ test[t] = "dead" /\ TestPid(t) \in reaped

\* ... the hackbench is on its way to its load, or on its way out once it is killed; the
\* test program does not end without it; wait() returns it; and its time is logged.
NowInv ==
  /\ HbForked /\ pc # "wait_hackbench" => hb[trial] \in {"boot", "spawning", "spawned", "loaded"}
  /\ pc = "wait_hackbench" => hb[trial] \in {"stopping", "clean"}
  /\ TestForked => test[trial] # "none"
  /\ driver = "launcher" /\ pc \in {"prepare", "fork_test", "wait", "clean", "check", "kill"} =>
       hb[trial] = "loaded"
  /\ TestForked /\ pc # "wait_hackbench" /\ test[trial] = "dead" => hb[trial] = "loaded"
  /\ pc \in {"clean", "check", "kill", "wait_hackbench"} =>
       test[trial] = "dead" /\ TestPid(trial) \in reaped
  /\ pc \in {"clean", "check"} => wait_pid = TestPid(trial)

\* The trials that have had their chance to be logged.
LastOver == IF pc \in {"loop", "done", "kill", "wait_hackbench"} THEN trial ELSE trial - 1
USE DEF LastOver

TimesInv ==
  /\ Len(log) = LastOver
  /\ \A n \in 1 .. Len(log) : log[n] = <<Lower + Step * ((n - 1) \div Reps), (n - 1) % Reps>>

CalmInv == ~disturbed => OverInv /\ NowInv /\ TimesInv

\* Output that is not the trial's own.  A harness that has looked finds it again only
\* when an earlier test program is still to be reaped.  With the ffmpeg harness, which
\* does not look, nothing is left of the trials that are over as long as all of them
\* were logged: their test programs are reaped, and the output went after that.
Settled(t) == test[t] = "none" \/ TestPid(t) \in reaped

FreshInv ==
  /\ Len(log) <= LastOver
  /\ harness # "ffmpeg" /\ pc = "fork_test" /\ output => \E t \in 1 .. trial - 1 : ~Settled(t)
  /\ harness = "ffmpeg" /\ Len(log) = LastOver =>
       /\ \A t \in 1 .. LastOver : Settled(t)
       /\ LastOver >= 1 /\ pc \notin {"wait", "clean", "check"} => ~output
       /\ pc = "check" /\ GotTest => ~output

DriverType == \/ driver = "launcher" /\ harness \in {"gzip", "extract", "ffmpeg"}
              \/ driver = "interrupt" /\ harness = "gzip"

DriversInv == /\ TypeOK /\ DriverType
              /\ LoopInv /\ ChildInv /\ WaitInv /\ LogInv /\ CalmInv /\ FreshInv

----------------------------------------------------------------------------
(* One list of steps for both drivers: they differ in the order.            *)

First      == IF driver = "launcher" THEN "fork_hackbench" ELSE "prepare"
AfterFork  == IF driver = "launcher" THEN "sleep" ELSE "wait"
AfterSleep == IF driver = "launcher" THEN "prepare" ELSE "fork_hackbench"
AfterTest  == IF driver = "launcher" THEN "wait" ELSE "sleep"
TooEarly   == driver = "launcher" /\ hb[trial] # "loaded"

LoopStep    == NextPairs \/ Done \/ BeginTrial(First)
PrepareOutput ==
  \/ harness # "ffmpeg" /\ Clear("prepare", "fork_test")
  \/ /\ harness = "ffmpeg" /\ At("prepare", "fork_test")
     /\ UNCHANGED <<loopVars, pidVars, childVars, reaped, log>>
PrepareStep == \/ ForkHackbench(AfterFork) \/ SleepOver(AfterSleep, TooEarly)
               \/ PrepareOutput \/ ForkTest(AfterTest)
EndStep     == WaitTest \/ Clear("clean", "check") \/ Mismatch \/ LogTime \/ Kill \/ WaitHackbench

\* The children as LoadGenerator has them.
LEMMA LifeSets ==
  /\ Down = {"clean", "leaky"}
  /\ Lives = {"clean", "leaky", "boot", "spawning", "spawned", "loaded", "stopping", "aborting"}
  /\ L(1)!SignalMoves = {<<"boot", "clean">>, <<"spawning", "aborting">>,
                         <<"spawned", "stopping">>, <<"loaded", "stopping">>}
  /\ L(1)!Progress = {<<"boot", "spawning">>, <<"spawning", "spawned">>, <<"spawned", "loaded">>,
                      <<"stopping", "clean">>, <<"aborting", "clean">>, <<"aborting", "leaky">>}
  /\ \A m \in L(1)!SelfMoves : m[1] \notin Down /\ m[1] \in Lives /\ m[2] \in Lives
BY DEF Down, Lives, L!Down, L!Lives, L!SignalMoves, L!Progress, L!LoadMoves, L!StopMoves,
       L!EndMoves, L!SelfMoves, L!FaultMoves

\* The launcher's steps are steps of the list, in its order.
LEMMA LauncherRoute ==
  ASSUME driver = "launcher", La!LauncherStep
  PROVE  LoopStep \/ PrepareStep \/ EndStep
<1> USE DEF La!At, At, La!Disturb, Disturb, La!loopVars, loopVars, La!pidVars, pidVars,
            La!childVars, childVars, La!NoPid, NoPid, La!EndTrial, EndTrial
<1>1. /\ La!NextPairs => NextPairs
      /\ La!Done => Done
      /\ La!BeginTrial("fork_hackbench") => BeginTrial("fork_hackbench")
  BY DEF La!NextPairs, NextPairs, La!Done, Done, La!BeginTrial, BeginTrial,
         La!MorePairs, MorePairs, La!MoreReps, MoreReps
<1>2. /\ La!ForkHackbench("sleep") => ForkHackbench("sleep")
      /\ La!ForkTest("wait") => ForkTest("wait")
  BY DEF La!ForkHackbench, ForkHackbench, La!ForkTest, ForkTest
<1>3. La!TenSeconds => SleepOver("prepare", hb[trial] # "loaded")
  BY DEF La!TenSeconds, La!SleepOver, SleepOver
<1>4. /\ La!Prepare => PrepareOutput
      /\ La!Clear("clean", "check") => Clear("clean", "check")
  BY DEF La!Clear, Clear, La!RemoveOutput, RemoveOutput, La!Prepare, La!MakeDirectory,
         PrepareOutput
<1>5. La!Wait <=> Wait
  <2>1. La!Down = Down /\ La!Trial = Trial
    BY DEF La!Down, Down, La!L!Down, L!Down, La!Trial, Trial, La!NumTrials, NumTrials,
           La!Rounds, Rounds
  <2>2. La!Alive = Alive /\ La!Dead = Dead
    BY <2>1 DEF La!Alive, Alive, La!Dead, Dead
  <2>3. QED
    BY <2>2 DEF La!Wait, Wait
<1>6. La!WaitTest => WaitTest
  BY <1>5 DEF La!WaitTest, WaitTest
<1>7. /\ La!Mismatch => Mismatch
      /\ La!LogTime => LogTime
      /\ La!WaitHackbench => WaitHackbench
  BY <1>5 DEF La!Mismatch, Mismatch, La!LogTime, LogTime, La!GotTest, GotTest,
              La!WaitHackbench, WaitHackbench, La!AwaitHackbench, AwaitHackbench
<1>8. La!Kill => Kill
  <2>1. La!Trial = Trial /\ La!L(1)!SignalMoves = L(1)!SignalMoves
    BY DEF La!Trial, Trial, La!NumTrials, NumTrials, La!Rounds, Rounds,
           La!L!SignalMoves, L!SignalMoves
  <2>2. QED
    BY <2>1 DEF La!Kill, Kill, La!KillHackbenches, KillHackbenches, La!Terminated, Terminated
<1>9. QED
  BY <1>1, <1>2, <1>3, <1>4, <1>6, <1>7, <1>8
     DEF La!LauncherStep, La!RunTrial, La!RunProg, LoopStep, PrepareStep, EndStep,
         First, AfterFork, AfterSleep, AfterTest, TooEarly

\* The interrupting driver's steps are steps of the list, in its order.
LEMMA InterruptRoute ==
  ASSUME DriverType, driver = "interrupt", In!DriverStep
  PROVE  LoopStep \/ PrepareStep \/ EndStep
<1> USE DEF In!At, At, In!Disturb, Disturb, In!loopVars, loopVars, In!pidVars, pidVars,
            In!childVars, childVars, In!NoPid, NoPid, In!EndTrial, EndTrial
<1>1. /\ In!NextPairs => NextPairs
      /\ In!Done => Done
      /\ In!BeginTrial("prepare") => BeginTrial("prepare")
  BY DEF In!NextPairs, NextPairs, In!Done, Done, In!BeginTrial, BeginTrial,
         In!MorePairs, MorePairs, In!MoreReps, MoreReps
<1>2. /\ In!ForkHackbench("wait") => ForkHackbench("wait")
      /\ In!ForkTest("sleep") => ForkTest("sleep")
  BY DEF In!ForkHackbench, ForkHackbench, In!ForkTest, ForkTest
<1>3. In!ThreeSeconds => SleepOver("fork_hackbench", FALSE)
  BY DEF In!ThreeSeconds, In!SleepOver, SleepOver
<1>4. /\ In!Clear("prepare", "fork_test") => PrepareOutput
      /\ In!Clear("clean", "check") => Clear("clean", "check")
  BY DEF In!Clear, Clear, In!RemoveOutput, RemoveOutput, PrepareOutput, DriverType
<1>5. In!Wait <=> Wait
  <2>1. In!Down = Down /\ In!Trial = Trial
    BY DEF In!Down, Down, In!L!Down, L!Down, In!Trial, Trial, In!NumTrials, NumTrials,
           In!Rounds, Rounds
  <2>2. In!Alive = Alive /\ In!Dead = Dead
    BY <2>1 DEF In!Alive, Alive, In!Dead, Dead
  <2>3. QED
    BY <2>2 DEF In!Wait, Wait
<1>6. In!WaitTest => WaitTest
  BY <1>5 DEF In!WaitTest, WaitTest
<1>7. /\ In!Mismatch => Mismatch
      /\ In!LogTime => LogTime
      /\ In!WaitHackbench => WaitHackbench
  BY <1>5 DEF In!Mismatch, Mismatch, In!LogTime, LogTime, In!GotTest, GotTest,
              In!WaitHackbench, WaitHackbench, In!AwaitHackbench, AwaitHackbench
<1>8. In!Kill => Kill
  <2>1. In!Trial = Trial /\ In!L(1)!SignalMoves = L(1)!SignalMoves
    BY DEF In!Trial, Trial, In!NumTrials, NumTrials, In!Rounds, Rounds,
           In!L!SignalMoves, L!SignalMoves
  <2>2. QED
    BY <2>1 DEF In!Kill, Kill, In!KillHackbenches, KillHackbenches, In!Terminated, Terminated
<1>9. TooEarly = FALSE
  BY DEF TooEarly
<1>10. QED
  BY <1>1, <1>2, <1>3, <1>4, <1>6, <1>7, <1>8, <1>9
     DEF In!DriverStep, In!StartTest, In!Interrupt, In!AwaitAndLog, In!EndHackbench, LoopStep,
         PrepareStep, EndStep, First, AfterFork, AfterSleep, AfterTest

----------------------------------------------------------------------------
(* The loops.                                                               *)

\* Products grow with their factors.
LEMMA TimesMonotone ==
  ASSUME NEW a \in Nat, NEW b \in Nat, NEW c \in Nat, a <= b
  PROVE  a * c <= b * c
  OBVIOUS

\* Rounds is how many numbers of groups there are.
LEMMA RoundsAre ==
  /\ Rounds \in Nat
  /\ \A k \in 0 .. Rounds : Step * k \in Nat /\ (Lower + Step * k <= Upper <=> k < Rounds)
<1>1. Lower \in Int /\ Upper \in Int /\ Step \in Nat /\ Step > 0
  BY BoundsAssumption
<1>2. CASE Lower > Upper
  <2>1. Rounds = 0 /\ Step * 0 = 0
    BY <1>1, <1>2 DEF Rounds
  <2>2. QED
    BY <1>1, <1>2, <2>1
<1>3. CASE Lower <= Upper
  <2> DEFINE d == Upper - Lower
             q == d \div Step
  <2>1. d \in Nat
    BY <1>1, <1>3
  <2> HIDE DEF d
  <2>2. q \in Nat /\ d = Step * q + (d % Step) /\ d % Step \in 0 .. Step - 1
    BY <1>1, <2>1
  <2> HIDE DEF q
  <2>3. Rounds = q + 1
    BY <1>1, <1>3 DEF Rounds, q, d
  <2>4. ASSUME NEW k \in 0 .. Rounds
        PROVE  Step * k \in Nat /\ (Step * k <= d <=> k < Rounds)
    <3>1. k \in Nat /\ Step * k \in Nat /\ Step * q \in Nat /\ Step * (q + 1) = Step * q + Step
          /\ k * Step = Step * k /\ q * Step = Step * q
      BY <1>1, <2>2, <2>3
    <3>2. CASE k <= q
      <4>1. k * Step <= q * Step
        BY <1>1, <2>2, <3>1, <3>2, TimesMonotone
      <4>2. Step * k <= d
        BY <2>2, <3>1, <4>1
      <4>3. QED
        BY <2>2, <2>3, <3>1, <3>2, <4>2
    <3>3. CASE k = q + 1
      <4>1. ~(Step * k <= d)
        BY <1>1, <2>2, <3>1, <3>3
      <4>2. QED
        BY <2>2, <2>3, <3>1, <3>3, <4>1
    <3>4. QED
      BY <2>2, <2>3, <3>1, <3>2, <3>3
  <2>5. \A n \in Nat : Lower + n <= Upper <=> n <= d
    BY <1>1 DEF d
  <2>6. QED
    BY <2>2, <2>3, <2>4, <2>5
<1>4. QED
  BY <1>1, <1>2, <1>3

\* Where a trial is in the count.
LEMMA TrialFits ==
  ASSUME NEW k \in Nat, k < Rounds, NEW r \in 0 .. Reps - 1
  PROVE  /\ k * Reps \in Nat /\ (k + 1) * Reps = k * Reps + Reps
         /\ NumTrials \in Nat /\ k * Reps + r + 1 \in Trial
<1>1. Reps \in Nat /\ Rounds \in Nat /\ k + 1 <= Rounds
  BY RepsAssumption, RoundsAre
<1>2. (k + 1) * Reps <= Rounds * Reps
  BY <1>1, TimesMonotone
<1>3. k * Reps \in Nat /\ (k + 1) * Reps = k * Reps + Reps /\ Rounds * Reps \in Nat
  BY <1>1
<1>4. QED
  BY <1>1, <1>2, <1>3 DEF Trial, NumTrials

\* There is a trial for each turn of the inner loop.
LEMMA LoopFacts ==
  ASSUME TypeOK, LoopInv
  PROVE  /\ InTrial => trial \in Trial
         /\ pc = "loop" /\ MorePairs /\ MoreReps => trial + 1 \in Trial
<1>1. PICK k \in 0 .. Rounds : /\ num_pairs = Lower + Step * k
                               /\ trial = k * Reps + rep + IF InTrial THEN 1 ELSE 0
  BY DEF LoopInv
<1>2. k \in Nat /\ (num_pairs <= Upper <=> k < Rounds)
  BY <1>1, RoundsAre
<1>3. rep \in Nat /\ rep <= Reps /\ Reps \in Nat
  BY RepsAssumption DEF TypeOK
<1>4. num_pairs <= Upper /\ rep < Reps => k * Reps \in Nat /\ k * Reps + rep + 1 \in Trial
  BY <1>2, <1>3, TrialFits
<1>5. CASE InTrial
  BY <1>1, <1>4, <1>5 DEF LoopInv, InTrial
<1>6. CASE ~InTrial
  <2>1. num_pairs <= Upper /\ rep < Reps => trial + 1 = k * Reps + rep + 1
    BY <1>1, <1>3, <1>4, <1>6
  <2>2. QED
    BY <1>4, <1>6, <2>1 DEF InTrial, MorePairs, MoreReps
<1>7. QED
  BY <1>5, <1>6

\* The loops count the trials.
LEMMA LoopStepped ==
  ASSUME TypeOK, DriverType, LoopInv, LoopStep \/ PrepareStep \/ EndStep, UNCHANGED driver
  PROVE  LoopInv'
<1>1. PICK k \in 0 .. Rounds : /\ num_pairs = Lower + Step * k
                               /\ trial = k * Reps + rep + IF InTrial THEN 1 ELSE 0
  BY DEF LoopInv
<1>2. k \in Nat /\ Step * k \in Nat /\ (num_pairs <= Upper <=> k < Rounds)
  BY <1>1, RoundsAre
<1>3. /\ rep \in Nat /\ rep <= Reps /\ Reps \in Nat \ {0} /\ Lower \in Int /\ Upper \in Int
      /\ Step \in Nat \ {0} /\ k * Reps \in Nat /\ num_pairs \in Int /\ Rounds \in Nat
  BY <1>2, RepsAssumption, BoundsAssumption, RoundsAre DEF TypeOK
<1>4. CASE NextPairs
  <2>1. /\ pc = "loop" /\ pc' = "loop" /\ num_pairs' = num_pairs + Step /\ rep' = 0 /\ trial' = trial
        /\ num_pairs <= Upper /\ rep = Reps
    BY <1>3, <1>4 DEF NextPairs, MorePairs, MoreReps
  <2>2. k + 1 \in 0 .. Rounds /\ (k + 1) * Reps = k * Reps + Reps /\ Step * (k + 1) = Step * k + Step
    BY <1>2, <1>3, <2>1
  <2>3. trial' = (k + 1) * Reps + 0 + 0 /\ num_pairs' = Lower + Step * (k + 1)
    BY <1>1, <1>2, <1>3, <2>1, <2>2 DEF InTrial
  <2>4. \E n \in 0 .. Rounds : num_pairs' = Lower + Step * n /\ trial' = n * Reps + rep' + 0
    BY <2>1, <2>2, <2>3
  <2>5. QED
    BY <2>1, <2>4 DEF LoopInv, InTrial, Rounds
<1>5. CASE Done
  BY <1>3, <1>5 DEF Done, LoopInv, InTrial, MorePairs, loopVars, Rounds
<1>6. CASE BeginTrial(First)
  <2>1. /\ pc = "loop" /\ pc' \notin {"loop", "done"} /\ trial' = trial + 1
        /\ UNCHANGED <<num_pairs, rep>> /\ num_pairs <= Upper /\ rep < Reps
    BY <1>6 DEF BeginTrial, First, MorePairs, MoreReps
  <2>2. trial' = k * Reps + rep' + 1
    BY <1>1, <1>3, <2>1 DEF InTrial
  <2>3. QED
    BY <1>1, <1>3, <2>1, <2>2 DEF LoopInv, InTrial, Rounds
<1>7. CASE Mismatch \/ WaitHackbench
  <2>1. /\ InTrial /\ pc' = "loop" /\ rep' = rep + 1 /\ UNCHANGED <<num_pairs, trial>>
    BY <1>7 DEF Mismatch, WaitHackbench, EndTrial, InTrial
  <2>2. trial' = k * Reps + rep' + 0 /\ num_pairs <= Upper
    BY <1>1, <1>3, <2>1 DEF LoopInv
  <2>3. QED
    BY <1>1, <1>3, <2>1, <2>2 DEF LoopInv, InTrial, Rounds
<1>8. CASE PrepareStep \/ WaitTest \/ Clear("clean", "check") \/ LogTime \/ Kill
  <2>1. InTrial /\ InTrial' /\ pc' \notin {"loop", "done"} /\ UNCHANGED loopVars
    BY <1>8 DEF PrepareStep, ForkHackbench, SleepOver, PrepareOutput, Clear, ForkTest, WaitTest, LogTime, Kill,
                At, InTrial, AfterFork, AfterSleep, AfterTest
  <2>2. QED
    BY <2>1 DEF LoopInv, loopVars, Rounds
<1>9. QED
  BY <1>4, <1>5, <1>6, <1>7, <1>8 DEF LoopStep, EndStep

----------------------------------------------------------------------------
(* Types.                                                                   *)

\* What SIGTERM makes of a child that LoadGenerator describes.
LEMMA TerminatedIs ==
  ASSUME NEW x \in Lives \cup {"none"}
  PROVE  /\ Terminated(x) \in Lives \cup {"none"}
         /\ Terminated(x) = "none" <=> x = "none"
         /\ x \in Down => Terminated(x) = x
         /\ x = "loaded" => Terminated(x) = "stopping"
<1> DEFINE to == {m \in L(1)!SignalMoves : m[1] = x}
<1>1. /\ to = {} => Terminated(x) = x
      /\ to # {} => \E m \in to : Terminated(x) = m[2]
  BY DEF Terminated
<1>2. /\ \A m \in to : m[2] \in Lives /\ m[1] = x /\ x \notin Down /\ x # "none"
      /\ x = "loaded" => to = {<<"loaded", "stopping">>}
  BY LifeSets
<1> HIDE DEF to
<1>3. Terminated(x) \in Lives \cup {"none"} /\ (Terminated(x) = "none" <=> x = "none")
  <2>1. "none" \notin Lives
    BY LifeSets
  <2>2. QED
    BY <1>1, <1>2, <2>1
<1>4. x \in Down => Terminated(x) = x
  BY <1>1, <1>2
<1>5. ASSUME x = "loaded" PROVE Terminated(x) = "stopping"
  <2>1. to = {<<"loaded", "stopping">>}
    BY <1>2, <1>5
  <2>2. \A m \in to : m[2] = "stopping"
    BY <2>1
  <2>3. to # {}
    BY <2>1
  <2>4. QED
    BY <1>1, <2>2, <2>3
<1>6. QED
  BY <1>3, <1>4, <1>5

\* What a hackbench does by itself.
LEMMA HackbenchFrame ==
  ASSUME TypeOK, NEW t \in Trial, HackbenchStep(t)
  PROVE  /\ UNCHANGED <<pc, loopVars, pidVars, test, output, reaped, log>>
         /\ \E l \in Lives : /\ hb' = [hb EXCEPT ![t] = l]
                             /\ hb[t] \in Lives \ Down
                             /\ disturbed' \/ <<hb[t], l>> \in L(1)!Progress
         /\ disturbed' \in {disturbed, TRUE}
<1>1. PICK m \in L(1)!SelfMoves : /\ hb[t] = m[1] /\ hb' = [hb EXCEPT ![t] = m[2]]
                                  /\ disturbed' = (disturbed \/ m \notin L(1)!Progress)
  BY DEF HackbenchStep, HackbenchMoves, Disturb
<1>2. m[1] \in Lives \ Down /\ m[2] \in Lives
  BY LifeSets
<1>3. \A n \in L(1)!Progress : n = <<n[1], n[2]>>
  BY LifeSets
<1>4. disturbed' \/ <<m[1], m[2]>> \in L(1)!Progress
  BY <1>1, <1>3 DEF TypeOK
<1>5. QED
  BY <1>1, <1>2, <1>4 DEF HackbenchStep, HackbenchMoves, TypeOK

\* Only fork and kill of the driver change its children.
LEMMA DriverFrame ==
  ASSUME TypeOK, DriverType, LoopInv, LoopStep \/ PrepareStep \/ EndStep
  PROVE  /\ \/ UNCHANGED hb
            \/ /\ ForkHackbench(AfterFork) /\ trial \in Trial
               /\ hb' = [hb EXCEPT ![trial] = "boot"]
            \/ /\ Kill /\ \A t \in Trial : hb'[t] \in {hb[t], Terminated(hb[t])}
               /\ hb' \in [Trial -> Lives \cup {"none"}]
         /\ \/ UNCHANGED test
            \/ /\ ForkTest(AfterTest) /\ trial \in Trial
               /\ test' = [test EXCEPT ![trial] = "running"]
            \/ /\ Kill /\ hackbench = NoPid
               /\ test' = [t \in Trial |-> IF test[t] = "running" THEN "dead" ELSE test[t]]
         /\ disturbed' \in {disturbed, TRUE}
<1>1. CASE LoopStep
  BY <1>1 DEF LoopStep, NextPairs, Done, BeginTrial, childVars
<1>2. CASE ForkHackbench(AfterFork)
  <2>1. trial \in Trial
    BY <1>2, LoopFacts DEF ForkHackbench, At, InTrial
  <2>2. QED
    BY <1>2, <2>1 DEF ForkHackbench, Disturb, TypeOK
<1>3. CASE ForkTest(AfterTest)
  <2>1. trial \in Trial
    BY <1>3, LoopFacts DEF ForkTest, At, InTrial
  <2>2. QED
    BY <1>3, <2>1 DEF ForkTest, Disturb, TypeOK
<1>4. CASE SleepOver(AfterSleep, TooEarly) \/ PrepareOutput \/ Clear("clean", "check")
  BY <1>4 DEF SleepOver, PrepareOutput, Clear, Disturb, TypeOK, childVars
<1>5. CASE WaitTest \/ Mismatch \/ LogTime \/ WaitHackbench
  BY <1>5 DEF WaitTest, Mismatch, LogTime, WaitHackbench, childVars
<1>6. CASE Kill
  <2>1. \A t \in Trial : hb[t] \in Lives \cup {"none"} /\ Terminated(hb[t]) \in Lives \cup {"none"}
    BY TerminatedIs DEF TypeOK
  <2>2. PICK T : hb' = [t \in Trial |-> IF t \in T THEN Terminated(hb[t]) ELSE hb[t]]
    BY <1>6 DEF Kill, KillHackbenches
  <2>3. \A t \in Trial : hb'[t] \in {hb[t], Terminated(hb[t])}
    BY <2>2
  <2>4. hb' \in [Trial -> Lives \cup {"none"}]
    BY <2>1, <2>2
  <2>5. QED
    BY <1>6, <2>3, <2>4 DEF Kill
<1>7. QED
  BY <1>1, <1>2, <1>3, <1>4, <1>5, <1>6 DEF PrepareStep, EndStep

\* What depends on the constants alone does not change.
LEMMA ConstantsStay == /\ Trial' = Trial /\ NumTrials' = NumTrials /\ Lives' = Lives
                       /\ Down' = Down /\ Pids' = Pids
BY DEF Trial, NumTrials, Rounds, Lives, Down, Pids, NoPid, L!Lives, L!Down

\* wait() returns a child or -1.
LEMMA WaitType ==
  ASSUME TypeOK, Wait
  PROVE  wait_pid' \in Pids /\ reaped' \subseteq Pids \ {NoPid}
<1>1. Dead \subseteq Pids \ {NoPid}
  BY DEF Dead, Pids, NoPid
<1>2. QED
  BY <1>1 DEF Wait, TypeOK, Pids

\* A step of the driver keeps the types.
LEMMA TypeDriver ==
  ASSUME TypeOK, DriverType, LoopInv, LoopStep \/ PrepareStep \/ EndStep
  PROVE  TypeOK'
<1>1. TypeOK
  OBVIOUS
<1>2. /\ hb' \in [Trial -> Lives \cup {"none"}] /\ test' \in [Trial -> {"none", "running", "dead"}]
      /\ disturbed' \in BOOLEAN
  <2>1. "boot" \in Lives
    BY LifeSets
  <2>2. hb' \in [Trial -> Lives \cup {"none"}]
    BY <2>1, DriverFrame DEF TypeOK
  <2>3. test' \in [Trial -> {"none", "running", "dead"}]
    BY DriverFrame DEF TypeOK
  <2>4. QED
    BY <2>2, <2>3, DriverFrame DEF TypeOK
<1>3. /\ pc' \in {"loop", "fork_hackbench", "sleep", "prepare", "fork_test", "wait",
                  "clean", "check", "kill", "wait_hackbench", "done"}
      /\ output' \in BOOLEAN
  BY DEF TypeOK, LoopStep, PrepareStep, EndStep, NextPairs, Done, BeginTrial, ForkHackbench,
         SleepOver, PrepareOutput, Clear, ForkTest, WaitTest, Mismatch, LogTime, Kill, WaitHackbench, At,
         EndTrial, First, AfterFork, AfterSleep, AfterTest, RemoveOutput, childVars
<1>4. num_pairs' \in Int /\ rep' \in 0 .. Reps /\ trial' \in 0 .. NumTrials
  <2>1. /\ num_pairs \in Int /\ rep \in 0 .. Reps /\ trial \in 0 .. NumTrials /\ Reps \in Nat
        /\ Step \in Nat
    BY BoundsAssumption, RepsAssumption DEF TypeOK
  <2>2. CASE NextPairs
    BY <2>1, <2>2 DEF NextPairs
  <2>3. CASE BeginTrial(First)
    <3>1. trial' \in Trial /\ UNCHANGED <<num_pairs, rep>>
      BY <2>3, LoopFacts DEF BeginTrial
    <3>2. QED
      BY <2>1, <3>1 DEF Trial
  <2>4. CASE Mismatch \/ WaitHackbench
    <3>1. rep < Reps /\ rep' = rep + 1 /\ UNCHANGED <<num_pairs, trial>>
      BY <2>4 DEF Mismatch, WaitHackbench, EndTrial, LoopInv, InTrial
    <3>2. QED
      BY <2>1, <3>1
  <2>5. CASE UNCHANGED loopVars
    BY <2>1, <2>5 DEF loopVars
  <2>6. QED
    BY <2>2, <2>3, <2>4, <2>5 DEF LoopStep, PrepareStep, EndStep, Done, ForkHackbench, SleepOver,
       PrepareOutput, Clear, ForkTest, WaitTest, LogTime, Kill
<1>5. /\ hackbench' \in Pids /\ test_proc_id' \in Pids /\ wait_pid' \in Pids
      /\ reaped' \subseteq Pids \ {NoPid}
  <2>1. /\ hackbench \in Pids /\ test_proc_id \in Pids /\ wait_pid \in Pids /\ NoPid \in Pids
        /\ reaped \subseteq Pids \ {NoPid}
    BY DEF TypeOK, Pids
  <2>2. InTrial => <<"hackbench", trial>> \in Pids /\ <<"test", trial>> \in Pids
    BY LoopFacts DEF Pids
  <2>3. CASE ForkHackbench(AfterFork) \/ ForkTest(AfterTest)
    BY <2>1, <2>2, <2>3 DEF ForkHackbench, ForkTest, At, InTrial
  <2>4. CASE WaitTest \/ WaitHackbench
    BY <2>1, <2>4, WaitType DEF WaitTest, WaitHackbench, AwaitHackbench
  <2>5. CASE UNCHANGED <<pidVars, reaped>>
    BY <2>1, <2>5 DEF pidVars
  <2>6. QED
    BY <2>3, <2>4, <2>5 DEF LoopStep, PrepareStep, EndStep, NextPairs, Done, BeginTrial,
       SleepOver, PrepareOutput, Clear, Mismatch, LogTime, Kill
<1>6. log' \in Seq(Int \X (0 .. Reps - 1))
  <2>1. CASE LogTime
    <3>1. <<num_pairs, rep>> \in Int \X (0 .. Reps - 1)
      BY <2>1, RepsAssumption DEF LogTime, At, LoopInv, InTrial, TypeOK
    <3>2. QED
      BY <2>1, <3>1 DEF LogTime, TypeOK
  <2>2. CASE UNCHANGED log
    BY <2>2 DEF TypeOK
  <2>3. QED
    BY <2>1, <2>2 DEF LoopStep, PrepareStep, EndStep, NextPairs, Done, BeginTrial,
       ForkHackbench, SleepOver, PrepareOutput, Clear, ForkTest, WaitTest, Mismatch, Kill, WaitHackbench
<1>7. QED
  BY <1>2, <1>3, <1>4, <1>5, <1>6, ConstantsStay DEF TypeOK

\* A step of a child keeps the types and the driver's variables.
LEMMA TypeChild ==
  ASSUME TypeOK, NEW t \in Trial, HackbenchRuns(t) \/ TestRuns(t)
  PROVE  TypeOK' /\ UNCHANGED <<pc, loopVars, pidVars, reaped, log, driver, harness>>
<1>1. CASE HackbenchRuns(t)
  <2>1. UNCHANGED <<pc, loopVars, pidVars, test, output, reaped, log, driver, harness>>
        /\ disturbed' \in BOOLEAN
    BY <1>1, HackbenchFrame DEF HackbenchRuns, TypeOK, programVars
  <2>2. hb' \in [Trial -> Lives \cup {"none"}]
    BY <1>1, HackbenchFrame DEF HackbenchRuns, TypeOK
  <2>3. QED
    BY <2>1, <2>2, ConstantsStay DEF TypeOK, loopVars, pidVars
<1>2. CASE TestRuns(t)
  <2>1. UNCHANGED <<pc, loopVars, pidVars, hb, reaped, log, driver, harness>>
        /\ disturbed' \in BOOLEAN /\ output' \in BOOLEAN
        /\ test' \in [Trial -> {"none", "running", "dead"}]
    BY <1>2 DEF TestRuns, TestWrites, TestEnds, Disturb, TypeOK, programVars
  <2>2. QED
    BY <2>1, ConstantsStay DEF TypeOK, loopVars, pidVars
<1>3. QED
  BY <1>1, <1>2

----------------------------------------------------------------------------
(* Children and pids.                                                       *)

\* Which pids are dead and which alive; no two children share one.
LEMMA PidsAre ==
  /\ \A t : HbPid(t) \in Dead <=> t \in Trial /\ hb[t] \in Down
  /\ \A t : TestPid(t) \in Dead <=> t \in Trial /\ test[t] = "dead"
  /\ \A t : HbPid(t) \in Alive <=> t \in Trial /\ hb[t] \notin Down \cup {"none"}
  /\ \A t : TestPid(t) \in Alive <=> t \in Trial /\ test[t] = "running"
  /\ \A c \in Dead \cup Alive : \E t \in Trial : c = HbPid(t) \/ c = TestPid(t)
  /\ \A t, u : HbPid(t) # TestPid(u) /\ (HbPid(t) = HbPid(u) => t = u)
               /\ (TestPid(t) = TestPid(u) => t = u)
  /\ \A t : HbPid(t) # NoPid /\ TestPid(t) # NoPid
BY DEF Dead, Alive, HbPid, TestPid, NoPid

\* Nobody comes back from the dead.
LEMMA DeadStay ==
  ASSUME \A t \in Trial : /\ hb[t] \in Down => hb'[t] \in Down
                          /\ test[t] = "dead" => test'[t] = "dead"
  PROVE  Dead \subseteq Dead'
<1>1. Dead' = {<<"hackbench", t>> : t \in {u \in Trial : hb'[u] \in Down}}
                \cup {<<"test", t>> : t \in {u \in Trial : test'[u] = "dead"}}
  BY ConstantsStay DEF Dead
<1>2. QED
  BY <1>1 DEF Dead

\* What the steps of the driver do to the phases of a trial.
LEMMA Phases ==
  ASSUME DriverType, UNCHANGED driver
  PROVE  /\ NextPairs \/ Done => ~InTrial /\ ~InTrial'
         /\ BeginTrial(First) => ~InTrial /\ InTrial' /\ ~HbForked' /\ ~TestForked'
         /\ ForkHackbench(AfterFork) =>
              InTrial /\ InTrial' /\ ~HbForked /\ HbForked' /\ TestForked' = TestForked
         /\ ForkTest(AfterTest) =>
              InTrial /\ InTrial' /\ ~TestForked /\ TestForked' /\ HbForked' = HbForked
         /\ (SleepOver(AfterSleep, TooEarly) \/ PrepareOutput \/ WaitTest
               \/ Clear("clean", "check") \/ LogTime \/ Kill) =>
              InTrial /\ InTrial' /\ HbForked' = HbForked /\ TestForked' = TestForked
         /\ Mismatch \/ WaitHackbench => HbForked /\ TestForked /\ InTrial /\ ~InTrial'
         /\ ~InTrial => ~HbForked /\ ~TestForked
         /\ ~InTrial' => ~HbForked' /\ ~TestForked'
<1> USE DEF DriverType, InTrial, HbForked, TestForked, Late, At
<1>1. NextPairs \/ Done => ~InTrial /\ ~InTrial'
  BY DEF NextPairs, Done
<1>2. BeginTrial(First) => ~InTrial /\ InTrial' /\ ~HbForked' /\ ~TestForked'
  BY DEF BeginTrial, First
<1>3. ForkHackbench(AfterFork) =>
        InTrial /\ InTrial' /\ ~HbForked /\ HbForked' /\ TestForked' = TestForked
  BY DEF ForkHackbench, AfterFork
<1>4. ForkTest(AfterTest) =>
        InTrial /\ InTrial' /\ ~TestForked /\ TestForked' /\ HbForked' = HbForked
  BY DEF ForkTest, AfterTest
<1>5. (SleepOver(AfterSleep, TooEarly) \/ PrepareOutput \/ WaitTest
         \/ Clear("clean", "check") \/ LogTime \/ Kill) =>
        InTrial /\ InTrial' /\ HbForked' = HbForked /\ TestForked' = TestForked
  BY DEF SleepOver, AfterSleep, PrepareOutput, Clear, WaitTest, LogTime, Kill
<1>6. Mismatch \/ WaitHackbench => HbForked /\ TestForked /\ InTrial /\ ~InTrial'
  BY DEF Mismatch, WaitHackbench, EndTrial
<1>7. (~InTrial => ~HbForked /\ ~TestForked) /\ (~InTrial' => ~HbForked' /\ ~TestForked')
  OBVIOUS
<1> HIDE DEF InTrial, HbForked, TestForked
<1>8. QED
  BY <1>1, <1>2, <1>3, <1>4, <1>5, <1>6, <1>7

\* A step of the driver keeps what it knows of its children, and revives none.
LEMMA ChildDriver ==
  ASSUME TypeOK, DriverType, LoopInv, ChildInv, LoopStep \/ PrepareStep \/ EndStep,
         UNCHANGED driver
  PROVE  /\ ChildInv' /\ Dead \subseteq Dead'
         /\ \A t \in Trial : /\ hb[t] \in Down => hb'[t] \in Down
                             /\ test[t] = "dead" => test'[t] = "dead"
<1>1. trial \in Nat /\ trial' \in Nat
  BY TypeDriver DEF TypeOK
<1>2. /\ \A t \in Trial : /\ t > trial \/ (t = trial /\ InTrial /\ ~HbForked) => hb[t] = "none"
                          /\ t > trial \/ (t = trial /\ InTrial /\ ~TestForked) => test[t] = "none"
                          /\ t \in Nat
      /\ HbForked   => hackbench = IF hb[trial] = "none" THEN NoPid ELSE HbPid(trial)
      /\ TestForked => test_proc_id = IF test[trial] = "none" THEN NoPid ELSE TestPid(trial)
      /\ InTrial => trial \in Trial
      /\ HbForked \/ TestForked => InTrial
  BY LoopFacts, Phases DEF ChildInv, Trial
<1>3. \A t \in Trial : /\ hb[t] \in Lives \cup {"none"}
                       /\ test[t] \in {"none", "running", "dead"}
  BY DEF TypeOK
<1>4. "none" \notin Down /\ "boot" # "none"
  BY LifeSets
<1>5. \A t \in Trial : /\ hb[t] \in Down => hb'[t] \in Down
                       /\ test[t] = "dead" => test'[t] = "dead"
  <2>1. ForkHackbench(AfterFork) => trial \in Trial /\ hb[trial] \notin Down
    BY <1>2, <1>4, Phases
  <2>2. ForkTest(AfterTest) => trial \in Trial /\ test[trial] # "dead"
    BY <1>2, Phases
  <2>3. \A t \in Trial : hb[t] \in Down => hb'[t] \in Down
    <3>1. \A t \in Trial : hb[t] \in Down => Terminated(hb[t]) = hb[t]
      BY <1>3, TerminatedIs
    <3>2. CASE UNCHANGED hb
      BY <3>2
    <3>3. CASE ForkHackbench(AfterFork) /\ hb' = [hb EXCEPT ![trial] = "boot"]
      BY <2>1, <3>3 DEF TypeOK
    <3>4. CASE \A t \in Trial : hb'[t] \in {hb[t], Terminated(hb[t])}
      BY <3>1, <3>4
    <3>5. QED
      BY <3>2, <3>3, <3>4, DriverFrame
  <2>4. \A t \in Trial : test[t] = "dead" => test'[t] = "dead"
    BY <1>3, <2>2, DriverFrame DEF TypeOK
  <2>5. QED
    BY <2>3, <2>4
<1>6. Dead \subseteq Dead'
  BY <1>5, DeadStay
<1>7. reaped' \subseteq Dead'
  <2>1. reaped' \subseteq reaped \cup Dead
    BY DEF LoopStep, PrepareStep, EndStep, NextPairs, Done, BeginTrial, ForkHackbench, SleepOver,
       PrepareOutput, Clear, ForkTest, WaitTest, Mismatch, LogTime, Kill, WaitHackbench, AwaitHackbench, Wait
  <2>2. QED
    BY <1>6, <2>1 DEF ChildInv
<1>8. CASE LoopStep \/ Mismatch \/ WaitHackbench
  <2>1. UNCHANGED <<hb, test>> /\ trial' \in {trial, trial + 1}
    BY <1>8 DEF LoopStep, NextPairs, Done, BeginTrial, Mismatch, WaitHackbench, childVars, loopVars
  <2>2. /\ \A t \in Trial : t > trial => hb[t] = "none" /\ test[t] = "none"
        /\ ~HbForked' /\ ~TestForked'
        /\ trial' = trial + 1 \/ ~InTrial'
    BY <1>2, <1>8, Phases DEF LoopStep, BeginTrial
  <2>3. \A t \in Trial : t > trial' \/ (t = trial' /\ InTrial') => t > trial
    BY <1>1, <1>2, <1>8, <2>1, <2>2
  <2>4. QED
    BY <1>5, <1>6, <1>7, <2>1, <2>2, <2>3, ConstantsStay DEF ChildInv
<1>9. CASE ForkHackbench(AfterFork)
  <2>1. /\ UNCHANGED <<trial, test, test_proc_id>> /\ trial \in Trial
        /\ InTrial /\ ~HbForked /\ HbForked' /\ TestForked' = TestForked /\ InTrial'
    BY <1>2, <1>9, Phases DEF ForkHackbench, loopVars
  <2>2. \/ hackbench' = HbPid(trial) /\ hb' = [hb EXCEPT ![trial] = "boot"]
        \/ hackbench' = NoPid /\ hb' = hb
    BY <1>9 DEF ForkHackbench, HbPid
  <2>3. hackbench' = IF hb'[trial] = "none" THEN NoPid ELSE HbPid(trial)
    BY <1>2, <1>4, <2>1, <2>2 DEF TypeOK
  <2>4. \A t \in Trial : t > trial => hb'[t] = "none"
    BY <1>1, <1>2, <2>1, <2>2 DEF TypeOK
  <2>5. QED
    BY <1>2, <1>5, <1>6, <1>7, <2>1, <2>3, <2>4, ConstantsStay DEF ChildInv, HbPid, TestPid, NoPid
<1>10. CASE ForkTest(AfterTest)
  <2>1. /\ UNCHANGED <<trial, hb, hackbench>> /\ trial \in Trial
        /\ InTrial /\ ~TestForked /\ TestForked' /\ HbForked' = HbForked /\ InTrial'
    BY <1>2, <1>10, Phases DEF ForkTest, loopVars
  <2>2. \/ test_proc_id' = TestPid(trial) /\ test' = [test EXCEPT ![trial] = "running"]
        \/ test_proc_id' = NoPid /\ test' = test
    BY <1>10 DEF ForkTest, TestPid
  <2>3. test_proc_id' = IF test'[trial] = "none" THEN NoPid ELSE TestPid(trial)
    BY <1>2, <2>1, <2>2 DEF TypeOK
  <2>4. \A t \in Trial : t > trial => test'[t] = "none"
    BY <1>1, <1>2, <2>1, <2>2 DEF TypeOK
  <2>5. QED
    BY <1>2, <1>5, <1>6, <1>7, <2>1, <2>3, <2>4, ConstantsStay DEF ChildInv, HbPid, TestPid, NoPid
<1>11. CASE SleepOver(AfterSleep, TooEarly) \/ PrepareOutput \/ WaitTest
              \/ Clear("clean", "check") \/ LogTime \/ Kill
  <2>1. /\ UNCHANGED <<trial, hackbench, test_proc_id>>
        /\ InTrial /\ InTrial' /\ HbForked' = HbForked /\ TestForked' = TestForked
    BY <1>11, Phases DEF SleepOver, PrepareOutput, Clear, WaitTest, LogTime, Kill, loopVars, pidVars
  <2>2. \A t \in Trial : (hb'[t] = "none" <=> hb[t] = "none") /\ (test'[t] = "none" <=> test[t] = "none")
    <3>1. ~ForkHackbench(AfterFork) /\ ~ForkTest(AfterTest)
      BY <1>11, <2>1, Phases DEF SleepOver, PrepareOutput, Clear, WaitTest, LogTime, Kill, ForkHackbench, ForkTest,
                                 At, AfterSleep
    <3>2. \A t \in Trial : Terminated(hb[t]) = "none" <=> hb[t] = "none"
      BY <1>3, TerminatedIs
    <3>3. \A t \in Trial : hb'[t] \in {hb[t], Terminated(hb[t])}
      BY <3>1, DriverFrame
    <3>4. \A t \in Trial : test'[t] = "none" <=> test[t] = "none"
      BY <1>3, <3>1, DriverFrame
    <3>5. QED
      BY <3>2, <3>3, <3>4
  <2>3. QED
    BY <1>2, <1>5, <1>6, <1>7, <2>1, <2>2, ConstantsStay DEF ChildInv, HbPid, TestPid, NoPid
<1>12. QED
  BY <1>5, <1>6, <1>8, <1>9, <1>10, <1>11 DEF LoopStep, PrepareStep, EndStep

\* A step of a child keeps what the driver knows of it, and revives none.
LEMMA ChildChild ==
  ASSUME TypeOK, LoopInv, ChildInv, NEW t \in Trial, HackbenchRuns(t) \/ TestRuns(t)
  PROVE  /\ ChildInv' /\ Dead \subseteq Dead'
         /\ \A u \in Trial : /\ hb[u] \in Down => hb'[u] \in Down
                             /\ test[u] = "dead" => test'[u] = "dead"
<1>1. UNCHANGED <<pc, trial, hackbench, test_proc_id, reaped, driver>>
  BY TypeChild DEF loopVars, pidVars
<1>2. \A u \in Trial : /\ hb'[u] = "none" <=> hb[u] = "none"
                       /\ hb[u] \in Down => hb'[u] \in Down
                       /\ test'[u] = "none" <=> test[u] = "none"
                       /\ test[u] = "dead" => test'[u] = "dead"
  <2>1. CASE HackbenchRuns(t)
    <3>1. test' = test
      BY <2>1, HackbenchFrame DEF HackbenchRuns
    <3>2. PICK l \in Lives : hb' = [hb EXCEPT ![t] = l] /\ hb[t] \in Lives \ Down
      BY <2>1, HackbenchFrame DEF HackbenchRuns
    <3>3. "none" \notin Lives
      BY LifeSets
    <3>4. QED
      BY <3>1, <3>2, <3>3 DEF TypeOK
  <2>2. CASE TestRuns(t)
    BY <2>2 DEF TestRuns, TestWrites, TestEnds, TypeOK
  <2>3. QED
    BY <2>1, <2>2
<1>3. Dead \subseteq Dead'
  BY <1>2, DeadStay
<1>4. HbForked' = HbForked /\ TestForked' = TestForked /\ InTrial' = InTrial
  BY <1>1 DEF HbForked, TestForked, InTrial, Late
<1>5. HbForked \/ TestForked => trial \in Trial
  BY LoopFacts DEF HbForked, TestForked, Late, InTrial
<1>6. QED
  BY <1>1, <1>2, <1>3, <1>4, <1>5, ConstantsStay DEF ChildInv, HbPid, TestPid, NoPid

\* A step of the driver keeps what it knows of the children it waits for.
LEMMA WaitDriver ==
  ASSUME TypeOK, DriverType, LoopInv, ChildInv, WaitInv, LoopStep \/ PrepareStep \/ EndStep,
         UNCHANGED driver
  PROVE  WaitInv'
<1> USE DEF HbPid, TestPid, NoPid
<1>1. CASE NextPairs \/ Done \/ Mismatch \/ WaitHackbench
  BY <1>1 DEF NextPairs, Done, Mismatch, WaitHackbench, EndTrial, WaitInv
<1>2. CASE BeginTrial(First)
  <2>1. /\ trial' = trial + 1 /\ trial + 1 \in Trial /\ trial \in Nat /\ UNCHANGED reaped
        /\ pc' \in {"fork_hackbench", "prepare"}
    BY <1>2, LoopFacts DEF BeginTrial, First, TypeOK
  <2>2. trial + 1 > trial
    BY <2>1
  <2>3. hb[trial + 1] = "none" /\ test[trial + 1] = "none"
    BY <2>1, <2>2 DEF ChildInv
  <2>4. HbPid(trial') \notin Dead /\ TestPid(trial') \notin Dead
    BY <2>1, <2>3, PidsAre, LifeSets
  <2>5. QED
    BY <2>1, <2>4 DEF WaitInv, ChildInv
<1>3. CASE PrepareStep
  <2>1. /\ pc \in {"fork_hackbench", "sleep", "prepare", "fork_test"} /\ UNCHANGED <<trial, reaped>>
        /\ pc' \in {"fork_hackbench", "sleep", "prepare", "fork_test", "wait"}
    BY <1>3 DEF PrepareStep, ForkHackbench, SleepOver, PrepareOutput, Clear, ForkTest, At, AfterFork, AfterSleep,
                AfterTest, loopVars
  <2>2. QED
    BY <2>1 DEF WaitInv
<1>4. CASE WaitTest
  <2>1. /\ pc = "wait" /\ pc' = "clean" /\ Wait /\ HbForked /\ TestForked /\ trial \in Trial
        /\ UNCHANGED <<trial, hackbench, test_proc_id, hb, test>>
        /\ HbPid(trial) \notin reaped /\ TestPid(trial) \notin reaped
    BY <1>4, LoopFacts DEF WaitTest, At, WaitInv, HbForked, TestForked, Late, InTrial, loopVars, childVars
  <2>2. CASE \E c \in Dead \ reaped : wait_pid' = c /\ reaped' = reaped \cup {c}
    BY <2>1, <2>2 DEF WaitInv
  <2>3. CASE Alive \cup (Dead \ reaped) = {} /\ wait_pid' = NoPid /\ UNCHANGED reaped
    <3>1. HbPid(trial) \notin Alive \cup Dead /\ TestPid(trial) \notin Alive \cup Dead
      BY <2>1, <2>3
    <3>2. hb[trial] = "none" /\ test[trial] = "none"
      BY <2>1, <3>1, PidsAre DEF TypeOK
    <3>3. hackbench = NoPid /\ test_proc_id = NoPid
      BY <2>1, <3>2 DEF ChildInv
    <3>4. QED
      BY <2>1, <2>3, <3>3 DEF WaitInv
  <2>4. QED
    BY <2>1, <2>2, <2>3 DEF Wait
<1>5. CASE Clear("clean", "check")
  BY <1>5 DEF PrepareOutput, Clear, At, WaitInv, loopVars, pidVars
<1>6. CASE LogTime
  <2>1. /\ pc = "check" /\ pc' = "kill" /\ wait_pid = test_proc_id /\ HbForked /\ TestForked
        /\ UNCHANGED <<trial, hackbench, test_proc_id, test, reaped>>
        /\ trial \in Trial
    BY <1>6, LoopFacts DEF LogTime, At, GotTest, HbForked, TestForked, Late, InTrial, loopVars, pidVars,
                childVars
  <2>2. /\ hackbench \in {NoPid, HbPid(trial)} /\ test_proc_id \in {NoPid, TestPid(trial)}
        /\ reaped \subseteq Dead /\ NoPid \notin reaped
    BY <2>1 DEF ChildInv, TypeOK
  <2>3. test_proc_id # NoPid => test[trial] = "dead"
    <3>1. test_proc_id # NoPid => test_proc_id = TestPid(trial) /\ TestPid(trial) \in Dead
      BY <2>1, <2>2 DEF WaitInv
    <3>2. QED
      BY <3>1, PidsAre
  <2>4. hackbench # NoPid => hackbench \notin reaped
    BY <2>1, <2>2 DEF WaitInv
  <2>5. QED
    BY <2>1, <2>3, <2>4 DEF WaitInv
<1>7. CASE Kill
  BY <1>7 DEF Kill, At, WaitInv, pidVars
<1>8. QED
  BY <1>1, <1>2, <1>3, <1>4, <1>5, <1>6, <1>7 DEF LoopStep, EndStep

\* A step of the driver keeps the log in order and behind the loops.
LEMMA LogDriver ==
  ASSUME TypeOK, DriverType, LoopInv, LogInv, LoopStep \/ PrepareStep \/ EndStep
  PROVE  LogInv'
<1>1. /\ num_pairs \in Int /\ rep \in Nat /\ Step \in Nat \ {0} /\ log \in Seq(Int \X (0 .. Reps - 1))
  BY BoundsAssumption, RepsAssumption DEF TypeOK
<1>2. \A n \in 1 .. Len(log) : log[n][1] \in Int /\ log[n][2] \in Int
  <2>1. \A n \in 1 .. Len(log) : log[n] \in Int \X (0 .. Reps - 1)
    BY <1>1
  <2>2. \A e \in Int \X (0 .. Reps - 1) : e[1] \in Int /\ e[2] \in Int
    OBVIOUS
  <2>3. QED
    BY <2>1, <2>2
<1>3. \A n \in 1 .. Len(log) :
        LET r == IF Logged THEN rep + 1 ELSE rep
        IN  log[n][1] < num_pairs \/ (log[n][1] = num_pairs /\ log[n][2] < r)
  BY DEF LogInv, Before
<1>4. CASE NextPairs
  <2>1. num_pairs' > num_pairs /\ UNCHANGED log /\ num_pairs' \in Int
    BY <1>1, <1>4 DEF NextPairs
  <2>2. \A n \in 1 .. Len(log) : log[n][1] < num_pairs'
    <3> TAKE n \in 1 .. Len(log)
    <3>1. log[n][1] \in Int /\ log[n][1] <= num_pairs
      BY <1>1, <1>2, <1>3
    <3>2. QED
      BY <1>1, <2>1, <3>1
  <2>3. QED
    BY <2>1, <2>2 DEF LogInv, LogInOrder, Before
<1>5. CASE LogTime
  <2>1. /\ ~Logged /\ Logged' /\ log' = Append(log, <<num_pairs, rep>>)
        /\ UNCHANGED <<num_pairs, rep>>
    BY <1>5 DEF LogTime, At, Logged, loopVars
  <2>2. /\ Len(log') = Len(log) + 1 /\ Len(log) \in Nat
        /\ \A n \in 1 .. Len(log) : log'[n] = log[n]
        /\ log'[Len(log) + 1] = <<num_pairs, rep>>
    BY <1>1, <2>1
  <2>3. \A n \in 1 .. Len(log') : n \in 1 .. Len(log) \/ n = Len(log) + 1
    BY <2>2
  <2>4. \A n \in 1 .. Len(log') : log'[n][1] < num_pairs \/ (log'[n][1] = num_pairs /\ log'[n][2] < rep + 1)
    <3>1. \A n \in 1 .. Len(log) : log'[n][1] < num_pairs \/ (log'[n][1] = num_pairs /\ log'[n][2] < rep + 1)
      BY <1>1, <1>2, <1>3, <2>1, <2>2
    <3>2. QED
      BY <1>1, <2>2, <2>3, <3>1
  <2>5. \A m, n \in 1 .. Len(log') : m < n =>
          log'[m][1] < log'[n][1] \/ (log'[m][1] = log'[n][1] /\ log'[m][2] < log'[n][2])
    <3> TAKE m, n \in 1 .. Len(log')
    <3> HAVE m < n
    <3>1. m \in 1 .. Len(log)
      BY <2>2
    <3>2. CASE n \in 1 .. Len(log)
      BY <2>2, <3>1, <3>2 DEF LogInv, LogInOrder
    <3>3. CASE n = Len(log) + 1
      <4>1. log'[n][1] = num_pairs /\ log'[n][2] = rep /\ log'[m] = log[m]
        BY <2>2, <3>1, <3>3
      <4>2. QED
        BY <1>3, <2>1, <3>1, <4>1
    <3>4. QED
      BY <2>3, <3>2, <3>3
  <2>6. QED
    BY <2>1, <2>4, <2>5 DEF LogInv, LogInOrder, Before
<1>6. CASE Mismatch \/ WaitHackbench
  <2>1. ~Logged' /\ rep' = rep + 1 /\ UNCHANGED <<num_pairs, log>>
    BY <1>6 DEF Mismatch, WaitHackbench, EndTrial, Logged
  <2>2. \A n \in 1 .. Len(log) : log[n][1] < num_pairs \/ (log[n][1] = num_pairs /\ log[n][2] < rep + 1)
    <3> TAKE n \in 1 .. Len(log)
    <3>1. log[n][2] \in Int /\ rep < rep + 1 /\ rep \in Nat
      BY <1>1, <1>2
    <3>2. CASE Logged
      BY <1>3, <3>2
    <3>3. CASE ~Logged
      <4>1. log[n][1] < num_pairs \/ (log[n][1] = num_pairs /\ log[n][2] < rep)
        BY <1>3, <3>3
      <4>2. log[n][2] < rep => log[n][2] < rep + 1
        BY <3>1
      <4>3. QED
        BY <4>1, <4>2
    <3>4. QED
      BY <3>2, <3>3
  <2>3. QED
    BY <2>1, <2>2 DEF LogInv, LogInOrder, Before
<1>7. CASE Done \/ BeginTrial(First) \/ PrepareStep \/ WaitTest \/ Clear("clean", "check") \/ Kill
  <2>1. UNCHANGED <<num_pairs, rep, log>>
    BY <1>7 DEF Done, BeginTrial, PrepareStep, ForkHackbench, SleepOver, PrepareOutput, Clear, ForkTest,
       WaitTest, Kill, loopVars
  <2>2. CASE Kill
    <3>1. Logged /\ Logged'
      BY <2>2 DEF Kill, At, Logged
    <3>2. QED
      BY <2>1, <3>1 DEF LogInv, LogInOrder, Before
  <2>3. CASE ~Kill
    <3>1. ~Logged /\ ~Logged'
      BY <1>7, <2>3 DEF Done, BeginTrial, First, PrepareStep, ForkHackbench, SleepOver, PrepareOutput, Clear,
         ForkTest, WaitTest, At, AfterFork, AfterSleep, AfterTest, Logged
    <3>2. QED
      BY <2>1, <3>1 DEF LogInv, LogInOrder, Before
  <2>4. QED
    BY <2>2, <2>3
<1>8. QED
  BY <1>4, <1>5, <1>6, <1>7 DEF LoopStep, EndStep

----------------------------------------------------------------------------
(* Undisturbed trials.                                                      *)

Calm == /\ TypeOK /\ DriverType /\ LoopInv /\ ChildInv /\ WaitInv
        /\ OverInv /\ NowInv /\ TimesInv

\* Whatever is not this trial's is dead and reaped.
LEMMA OnlyChild ==
  ASSUME Calm
  PROVE  /\ \A c \in Dead \ reaped : InTrial /\ c \in {HbPid(trial), TestPid(trial)}
         /\ \A t \in Trial : hb[t] \notin Down \cup {"none"} => t = trial /\ HbForked
         /\ \A t \in Trial : test[t] = "running" => t = trial /\ TestForked
<1>1. ASSUME NEW t \in Trial
      PROVE  \/ Over(t)
             \/ t = trial /\ InTrial
             \/ t > trial /\ hb[t] = "none" /\ test[t] = "none"
  <2>1. t \in Nat /\ trial \in Nat
    BY DEF Calm, TypeOK, Trial
  <2>2. QED
    BY <2>1 DEF Over, Calm, ChildInv
<1>2. \A c \in Dead \ reaped : InTrial /\ c \in {HbPid(trial), TestPid(trial)}
  <2> TAKE c \in Dead \ reaped
  <2>1. PICK t \in Trial : c = HbPid(t) \/ c = TestPid(t)
    BY PidsAre
  <2>2. hb[t] # "none" \/ test[t] # "none"
    BY <2>1, PidsAre, LifeSets
  <2>3. ~Over(t)
    BY <2>1 DEF Calm, OverInv
  <2>4. QED
    BY <1>1, <2>1, <2>2, <2>3, PidsAre, LifeSets
<1>3. \A t \in Trial : hb[t] \notin Down \cup {"none"} => t = trial /\ HbForked
  BY <1>1 DEF Calm, OverInv, ChildInv
<1>4. \A t \in Trial : test[t] = "running" => t = trial /\ TestForked
  BY <1>1 DEF Calm, OverInv, ChildInv
<1>5. QED
  BY <1>2, <1>3, <1>4

\* The driver never gives up an undisturbed trial.
LEMMA NoMismatch ==
  ASSUME Calm, pc = "check"
  PROVE  GotTest
<1>1. TestForked /\ trial \in Trial
  BY LoopFacts DEF Calm, TestForked, Late, InTrial
<1>2. test[trial] # "none" /\ wait_pid = TestPid(trial)
  BY <1>1 DEF Calm, NowInv
<1>3. QED
  BY <1>1, <1>2 DEF Calm, ChildInv, GotTest

\* Its first wait() returns the test program, its second one the hackbench.
LEMMA WaitsFor ==
  ASSUME Calm, Wait
  PROVE  /\ pc = "wait" => /\ wait_pid' = TestPid(trial) /\ TestPid(trial) \in reaped'
                           /\ test[trial] = "dead"
         /\ pc = "wait_hackbench" => HbPid(trial) \in reaped' /\ hb[trial] \in Down
<1>1. SUFFICES ASSUME pc \in {"wait", "wait_hackbench"}
      PROVE  /\ pc = "wait" => /\ wait_pid' = TestPid(trial) /\ TestPid(trial) \in reaped'
                               /\ test[trial] = "dead"
             /\ pc = "wait_hackbench" => HbPid(trial) \in reaped' /\ hb[trial] \in Down
  OBVIOUS
<1>2. trial \in Trial /\ HbForked /\ TestForked
  BY <1>1, LoopFacts DEF Calm, HbForked, TestForked, Late, InTrial
<1>3. /\ pc = "wait" => hb[trial] \notin Down /\ hb[trial] # "none"
      /\ pc = "wait_hackbench" => hb[trial] # "none" /\ TestPid(trial) \in reaped
  BY <1>2, LifeSets DEF Calm, NowInv
<1>4. HbPid(trial) \notin reaped
  BY <1>1, <1>2, <1>3, PidsAre DEF Calm, ChildInv, WaitInv
<1>5. HbPid(trial) \in Alive \cup (Dead \ reaped)
  BY <1>1, <1>2, <1>3, <1>4, PidsAre
<1>6. PICK c \in Dead \ reaped : wait_pid' = c /\ reaped' = reaped \cup {c}
  BY <1>5 DEF Wait
<1>7. c \in {HbPid(trial), TestPid(trial)}
  BY OnlyChild
<1>8. QED
  BY <1>1, <1>2, <1>3, <1>6, <1>7, PidsAre

\* A step of the driver leaves nothing of an undisturbed trial behind.
LEMMA OverDriver ==
  ASSUME Calm, LoopStep \/ PrepareStep \/ EndStep, UNCHANGED driver
  PROVE  OverInv'
<1>0. TypeOK /\ DriverType /\ LoopInv /\ ChildInv
  BY DEF Calm
<1>1. trial \in Nat /\ DriverType
  BY <1>0 DEF TypeOK
<1>7. \A t \in Trial : /\ hb[t] \in Down => hb'[t] \in Down
                       /\ test[t] = "dead" => test'[t] = "dead"
  BY <1>0, ChildDriver
<1>2. reaped \subseteq reaped'
  BY DEF LoopStep, PrepareStep, EndStep, NextPairs, Done, BeginTrial, ForkHackbench, SleepOver,
     PrepareOutput, Clear, ForkTest, WaitTest, Mismatch, LogTime, Kill, WaitHackbench, AwaitHackbench, Wait
<1>3. ASSUME NEW t \in Trial, Over(t)
      PROVE  hb'[t] \in Down /\ HbPid(t) \in reaped' /\ test'[t] = "dead" /\ TestPid(t) \in reaped'
  BY <1>1, <1>2, <1>3, <1>7 DEF Calm, OverInv
<1>4. ASSUME NEW t \in Trial, Over(t)', ~Over(t)
      PROVE  hb'[t] \in Down /\ HbPid(t) \in reaped' /\ test'[t] = "dead" /\ TestPid(t) \in reaped'
  <2>1. t \in Nat
    BY DEF Trial
  <2>2. t = trial /\ (Mismatch \/ WaitHackbench)
    <3>1. CASE BeginTrial(First)
      <4>1. trial' = trial + 1 /\ ~InTrial /\ InTrial'
        BY <1>1, <3>1, Phases DEF BeginTrial
      <4>2. QED
        BY <1>1, <1>4, <2>1, <4>1 DEF Over
    <3>2. CASE NextPairs \/ Done
      <4>1. trial' = trial /\ ~InTrial
        BY <1>1, <3>2, Phases DEF NextPairs, Done, loopVars
      <4>2. QED
        BY <1>4, <4>1 DEF Over
    <3>3. CASE PrepareStep \/ WaitTest \/ Clear("clean", "check") \/ LogTime \/ Kill
      <4>1. trial' = trial /\ InTrial'
        BY <1>1, <3>3, Phases DEF PrepareStep, ForkHackbench, SleepOver, PrepareOutput, Clear, ForkTest, WaitTest,
                                  LogTime, Kill, loopVars
      <4>2. QED
        BY <1>4, <4>1 DEF Over
    <3>4. CASE Mismatch \/ WaitHackbench
      <4>1. trial' = trial
        BY <3>4 DEF Mismatch, WaitHackbench
      <4>2. QED
        BY <1>1, <1>4, <2>1, <3>4, <4>1 DEF Over
    <3>5. QED
      BY <3>1, <3>2, <3>3, <3>4 DEF LoopStep, EndStep
  <2>3. ~Mismatch
    BY NoMismatch DEF Mismatch
  <2>4. pc = "wait_hackbench" /\ Wait /\ UNCHANGED <<hb, test>>
    BY <2>2, <2>3 DEF WaitHackbench, AwaitHackbench, childVars
  <2>5. HbPid(trial) \in reaped' /\ hb[trial] \in Down
    BY <2>4, WaitsFor
  <2>6. test[trial] = "dead" /\ TestPid(trial) \in reaped
    BY <2>4 DEF Calm, NowInv
  <2>7. QED
    BY <1>2, <2>2, <2>4, <2>5, <2>6
<1>5. \A t : HbPid(t)' = HbPid(t) /\ TestPid(t)' = TestPid(t)
  BY DEF HbPid, TestPid
<1>6. QED
  BY <1>3, <1>4, <1>5, ConstantsStay DEF OverInv, HbPid, TestPid

\* A step of the driver keeps what an undisturbed trial is to find.
LEMMA NowDriver ==
  ASSUME Calm, ~disturbed', LoopStep \/ PrepareStep \/ EndStep, UNCHANGED driver
  PROVE  NowInv'
<1> USE DEF HbPid, TestPid
<1>1. /\ TypeOK /\ DriverType /\ LoopInv /\ ChildInv /\ WaitInv /\ NowInv
      /\ InTrial => trial \in Trial
  BY LoopFacts DEF Calm
<1>2. CASE LoopStep \/ Mismatch \/ WaitHackbench
  BY <1>1, <1>2, Phases DEF LoopStep, NextPairs, Done, BeginTrial, First, Mismatch, WaitHackbench,
                            EndTrial, NowInv, HbForked, TestForked, Late, DriverType
<1>3. CASE ForkHackbench(AfterFork)
  <2>1. /\ hb' = [hb EXCEPT ![trial] = "boot"] /\ UNCHANGED <<trial, test>> /\ trial \in Trial
        /\ pc' = IF driver = "launcher" THEN "sleep" ELSE "wait"
        /\ ~HbForked /\ InTrial /\ (TestForked' <=> TestForked)
    <3>1. ~HbForked /\ InTrial /\ (TestForked' <=> TestForked)
      BY <1>1, <1>3, Phases
    <3>2. QED
      BY <1>1, <1>3, <3>1 DEF ForkHackbench, At, AfterFork, Disturb, loopVars
  <2>2. hb'[trial] = "boot" /\ hb[trial] = "none"
    BY <1>1, <2>1 DEF TypeOK, ChildInv
  <2>3. TestForked => test[trial] # "none" /\ test[trial] # "dead"
    BY <1>1, <1>3, <2>2 DEF NowInv, ForkHackbench, At
  <2>4. QED
    BY <1>1, <2>1, <2>2, <2>3 DEF NowInv, DriverType
<1>4. CASE SleepOver(AfterSleep, TooEarly)
  <2>1. /\ UNCHANGED <<trial, hb, test>> /\ pc = "sleep"
        /\ pc' = IF driver = "launcher" THEN "prepare" ELSE "fork_hackbench"
        /\ driver = "launcher" => hb[trial] = "loaded"
        /\ (HbForked' <=> HbForked) /\ (TestForked' <=> TestForked)
    <3>1. (HbForked' <=> HbForked) /\ (TestForked' <=> TestForked)
      BY <1>1, <1>4, Phases
    <3>2. QED
      BY <1>4, <3>1 DEF SleepOver, At, AfterSleep, TooEarly, Disturb, loopVars
  <2>2. QED
    BY <1>1, <2>1 DEF NowInv, DriverType
<1>5. CASE PrepareOutput
  <2>1. /\ UNCHANGED <<trial, hb, test>> /\ pc = "prepare" /\ pc' = "fork_test"
        /\ (HbForked' <=> HbForked) /\ (TestForked' <=> TestForked)
    <3>1. (HbForked' <=> HbForked) /\ (TestForked' <=> TestForked)
      BY <1>1, <1>5, Phases
    <3>2. QED
      BY <1>5, <3>1 DEF PrepareOutput, Clear, At, loopVars, childVars
  <2>2. QED
    BY <1>1, <2>1 DEF NowInv
<1>6. CASE ForkTest(AfterTest)
  <2>1. /\ test' = [test EXCEPT ![trial] = "running"] /\ UNCHANGED <<trial, hb>> /\ trial \in Trial
        /\ pc = "fork_test" /\ pc' = IF driver = "launcher" THEN "wait" ELSE "sleep"
        /\ (HbForked' <=> HbForked)
    <3>1. InTrial /\ (HbForked' <=> HbForked)
      BY <1>1, <1>6, Phases
    <3>2. QED
      BY <1>1, <1>6, <3>1 DEF ForkTest, At, AfterTest, Disturb, loopVars
  <2>2. test'[trial] = "running"
    BY <1>1, <2>1 DEF TypeOK
  <2>3. QED
    BY <1>1, <2>1, <2>2 DEF NowInv
<1>7. CASE WaitTest
  <2>1. /\ UNCHANGED <<trial, hb, test>> /\ pc = "wait" /\ pc' = "clean" /\ Wait
        /\ (HbForked' <=> HbForked) /\ (TestForked' <=> TestForked)
    BY <1>1, <1>7, Phases DEF WaitTest, At, loopVars, childVars
  <2>2. wait_pid' = TestPid(trial) /\ TestPid(trial) \in reaped' /\ test[trial] = "dead"
    BY <2>1, WaitsFor
  <2>3. QED
    BY <1>1, <2>1, <2>2 DEF NowInv
<1>8. CASE Clear("clean", "check")
  <2>1. /\ UNCHANGED <<trial, hb, test, wait_pid, reaped>> /\ pc = "clean" /\ pc' = "check"
        /\ (HbForked' <=> HbForked) /\ (TestForked' <=> TestForked)
    BY <1>1, <1>8, Phases DEF PrepareOutput, Clear, At, loopVars, pidVars
  <2>2. QED
    BY <1>1, <2>1 DEF NowInv
<1>9. CASE LogTime
  <2>1. /\ UNCHANGED <<trial, hb, test, wait_pid, reaped>> /\ pc = "check" /\ pc' = "kill"
        /\ (HbForked' <=> HbForked) /\ (TestForked' <=> TestForked)
    BY <1>1, <1>9, Phases DEF LogTime, At, loopVars, pidVars, childVars
  <2>2. QED
    BY <1>1, <2>1 DEF NowInv
<1>10. CASE Kill
  <2>1. /\ UNCHANGED <<trial, reaped>> /\ pc = "kill" /\ pc' = "wait_hackbench"
        /\ HbForked /\ TestForked /\ trial \in Trial
    BY <1>1, <1>10 DEF Kill, At, HbForked, TestForked, Late, InTrial, loopVars
  <2>2. hb[trial] = "loaded" /\ test[trial] = "dead" /\ TestPid(trial) \in reaped
    BY <1>1, <2>1 DEF NowInv
  <2>3. hackbench = HbPid(trial) /\ hackbench # NoPid
    BY <1>1, <2>1, <2>2 DEF ChildInv, NoPid
  <2>4. hackbench[2] = trial
    BY <2>3
  <2>5. hb' = [t \in Trial |-> IF t \in {trial} THEN Terminated(hb[t]) ELSE hb[t]] /\ UNCHANGED test
    BY <1>10, <2>3, <2>4 DEF Kill, KillHackbenches
  <2>6. Terminated("loaded") = "stopping"
    BY TerminatedIs, LifeSets
  <2>7. hb'[trial] = "stopping"
    BY <2>1, <2>2, <2>5, <2>6
  <2>8. QED
    BY <2>1, <2>2, <2>5, <2>7 DEF NowInv
<1>11. QED
  BY <1>2, <1>3, <1>4, <1>5, <1>6, <1>7, <1>8, <1>9, <1>10 DEF PrepareStep, EndStep

\* The children of an undisturbed trial.
LEMMA CalmChild ==
  ASSUME Calm, ~disturbed', NEW t \in Trial, HackbenchRuns(t) \/ TestRuns(t)
  PROVE  OverInv' /\ NowInv' /\ TimesInv'
<1> USE DEF HbPid, TestPid
<1>1. /\ TypeOK /\ DriverType /\ LoopInv /\ ChildInv /\ OverInv /\ NowInv /\ TimesInv
      /\ InTrial => trial \in Trial
  BY LoopFacts DEF Calm
<1>2. UNCHANGED <<pc, trial, hackbench, test_proc_id, wait_pid, reaped, log, driver, harness>>
  BY <1>1, TypeChild DEF loopVars, pidVars
<1>3. /\ (HbForked' <=> HbForked) /\ (TestForked' <=> TestForked) /\ (InTrial' <=> InTrial)
      /\ (HbForked \/ TestForked => InTrial)
  BY <1>2 DEF HbForked, TestForked, InTrial, Late
<1>4. OverInv'
  <2>1. \A u \in Trial : /\ hb[u] \in Down => hb'[u] \in Down
                         /\ test[u] = "dead" => test'[u] = "dead"
    BY <1>1, ChildChild
  <2>2. \A u \in Trial : Over(u)' <=> Over(u)
    BY <1>2, <1>3 DEF Over
  <2>3. QED
    BY <1>1, <1>2, <2>1, <2>2, ConstantsStay DEF OverInv
<1>5. TimesInv'
  BY <1>1, <1>2 DEF TimesInv
<1>6. NowInv'
  <2>1. CASE HackbenchRuns(t)
    <3>1. UNCHANGED <<test, output>>
      BY <1>1, <2>1, HackbenchFrame DEF HackbenchRuns
    <3>2. PICK l \in Lives : /\ hb' = [hb EXCEPT ![t] = l] /\ hb[t] \in Lives \ Down
                             /\ disturbed' \/ <<hb[t], l>> \in L(1)!Progress
      BY <1>1, <2>1, HackbenchFrame DEF HackbenchRuns
    <3>3. t = trial /\ HbForked
      BY <3>2, OnlyChild, LifeSets
    <3>4. hb'[trial] = l /\ <<hb[trial], l>> \in L(1)!Progress
      BY <1>1, <3>2, <3>3 DEF TypeOK
    <3>5. /\ hb[trial] \in {"boot", "spawning", "spawned", "loaded"} =>
               l \in {"boot", "spawning", "spawned", "loaded"} /\ hb[trial] # "loaded"
          /\ hb[trial] = "stopping" => l = "clean"
      BY <3>4, LifeSets
    <3>6. hb[trial] # "clean"
      BY <3>2, <3>3, LifeSets
    <3>7. QED
      BY <1>1, <1>2, <1>3, <3>1, <3>3, <3>4, <3>5, <3>6 DEF NowInv
  <2>2. CASE TestRuns(t)
    <3>1. UNCHANGED hb /\ test[t] = "running"
      BY <2>2 DEF TestRuns, TestWrites, TestEnds
    <3>2. t = trial /\ TestForked /\ pc \notin {"clean", "check", "kill", "wait_hackbench"}
      BY <1>1, <3>1, OnlyChild DEF NowInv
    <3>3. CASE TestWrites(t)
      <4>1. UNCHANGED test
        BY <3>3 DEF TestWrites
      <4>2. QED
        BY <1>1, <1>2, <1>3, <3>1, <4>1 DEF NowInv
    <3>4. CASE TestEnds(t, driver = "interrupt" /\ In!TooShort(t))
      <4>1. test' = [test EXCEPT ![t] = "dead"] /\ ~(driver = "interrupt" /\ hb[t] # "loaded")
        BY <1>2, <3>2, <3>4 DEF TestEnds, Disturb, In!TooShort
      <4>2. hb[trial] = "loaded"
        BY <1>1, <3>2, <4>1 DEF NowInv, DriverType, TestForked, Late
      <4>3. test'[trial] = "dead"
        BY <1>1, <3>2, <4>1 DEF TypeOK
      <4>4. QED
        BY <1>1, <1>2, <1>3, <3>1, <3>2, <4>2, <4>3 DEF NowInv
    <3>5. QED
      BY <2>2, <3>3, <3>4 DEF TestRuns
  <2>3. QED
    BY <2>1, <2>2
<1>7. QED
  BY <1>4, <1>5, <1>6

\* The trial of a number of groups and a repetition, taken apart again.
LEMMA Unsplit ==
  ASSUME NEW n \in Nat \ {0}, NEW a \in Nat, NEW b \in 0 .. n - 1
  PROVE  /\ a * n + b \in Nat /\ (a * n + b) \div n = a /\ (a * n + b) % n = b
<1> DEFINE k == a * n + b
           q == k \div n
<1>1. k \in Nat /\ a * n \in Nat /\ k = a * n + b
  OBVIOUS
<1> HIDE DEF k
<1>2. q \in Nat /\ k % n \in 0 .. n - 1 /\ k = n * q + (k % n) /\ n * q = q * n /\ q * n \in Nat
  BY <1>1
<1> HIDE DEF q
<1>3. CASE q + 1 <= a
  <2>1. (q + 1) * n <= a * n /\ (q + 1) * n = q * n + n
    BY <1>2, <1>3, TimesMonotone
  <2>2. FALSE
    BY <1>1, <1>2, <2>1
  <2>3. QED
    BY <2>2
<1>4. CASE a + 1 <= q
  <2>1. (a + 1) * n <= q * n /\ (a + 1) * n = a * n + n
    BY <1>2, <1>4, TimesMonotone
  <2>2. FALSE
    BY <1>1, <1>2, <2>1
  <2>3. QED
    BY <2>2
<1>5. CASE q = a
  BY <1>1, <1>2, <1>5 DEF k, q
<1>6. QED
  BY <1>2, <1>3, <1>4, <1>5

\* The time that is logged is the one whose turn it is.
LEMMA TimesDriver ==
  ASSUME Calm, LoopStep \/ PrepareStep \/ EndStep, UNCHANGED driver
  PROVE  TimesInv'
<1>1. TypeOK /\ DriverType /\ LoopInv /\ TimesInv
  BY DEF Calm
<1>2. CASE LogTime
  <2>1. /\ pc = "check" /\ pc' = "kill" /\ log' = Append(log, <<num_pairs, rep>>) /\ trial' = trial
        /\ InTrial
    BY <1>2 DEF LogTime, At, loopVars, InTrial
  <2>2. PICK k \in 0 .. Rounds : num_pairs = Lower + Step * k /\ trial = k * Reps + rep + 1
    BY <1>1, <2>1 DEF LoopInv
  <2>3. k \in Nat /\ Reps \in Nat \ {0} /\ rep \in 0 .. Reps - 1 /\ k * Reps \in Nat /\ trial \in Nat
    BY <1>1, <2>1, RoundsAre, RepsAssumption DEF TypeOK, LoopInv
  <2>4. (trial - 1) \div Reps = k /\ (trial - 1) % Reps = rep
    <3>1. trial - 1 = k * Reps + rep
      BY <2>2, <2>3
    <3>2. QED
      BY <2>3, <3>1, Unsplit
  <2>5. /\ Len(log) = trial - 1 /\ Len(log') = trial
        /\ \A n \in 1 .. Len(log) : log'[n] = log[n]
        /\ log'[trial] = <<num_pairs, rep>>
    BY <1>1, <2>1, <2>3 DEF TimesInv, TypeOK
  <2>6. \A n \in 1 .. Len(log') : n \in 1 .. Len(log) \/ n = trial
    BY <2>3, <2>5
  <2>7. log'[trial] = <<Lower + Step * ((trial - 1) \div Reps), (trial - 1) % Reps>>
    BY <2>2, <2>4, <2>5
  <2>8. \A n \in 1 .. Len(log') : log'[n] = <<Lower + Step * ((n - 1) \div Reps), (n - 1) % Reps>>
    BY <1>1, <2>5, <2>6, <2>7 DEF TimesInv
  <2>9. QED
    BY <2>1, <2>5, <2>8 DEF TimesInv
<1>3. CASE BeginTrial(First)
  <2>1. pc = "loop" /\ pc' \in {"fork_hackbench", "prepare"} /\ trial' = trial + 1 /\ UNCHANGED log
    BY <1>3 DEF BeginTrial, First
  <2>2. trial \in Nat
    BY <1>1 DEF TypeOK
  <2>3. QED
    BY <1>1, <2>1, <2>2 DEF TimesInv
<1>4. CASE NextPairs \/ Done \/ Kill \/ WaitHackbench
  <2>1. /\ pc \in {"loop", "done", "kill", "wait_hackbench"}
        /\ pc' \in {"loop", "done", "kill", "wait_hackbench"}
        /\ UNCHANGED <<trial, log>>
    BY <1>4 DEF NextPairs, Done, Kill, At, WaitHackbench, EndTrial, loopVars
  <2>2. QED
    BY <1>1, <2>1 DEF TimesInv
<1>5. CASE PrepareStep \/ WaitTest \/ Clear("clean", "check")
  <2>1. /\ pc \notin {"loop", "done", "kill", "wait_hackbench"}
        /\ pc' \notin {"loop", "done", "kill", "wait_hackbench"}
        /\ UNCHANGED <<trial, log>>
    BY <1>5 DEF PrepareStep, ForkHackbench, SleepOver, PrepareOutput, Clear, ForkTest, WaitTest, At,
                AfterFork, AfterSleep, AfterTest, loopVars
  <2>2. QED
    BY <1>1, <2>1 DEF TimesInv
<1>6. CASE Mismatch
  BY <1>6, NoMismatch DEF Mismatch
<1>7. QED
  BY <1>2, <1>3, <1>4, <1>5, <1>6 DEF LoopStep, EndStep

----------------------------------------------------------------------------
(* Output that is not the trial's own.                                      *)

\* A test program that runs is not settled, and its trial has come.
LEMMA Unsettled ==
  ASSUME TypeOK, ChildInv, NEW t \in Trial, test[t] = "running"
  PROVE  ~Settled(t) /\ t <= trial /\ (t = trial /\ InTrial => TestForked)
<1>1. TestPid(t) \notin reaped
  BY PidsAre DEF ChildInv
<1>2. t \in Int /\ trial \in Int
  BY DEF TypeOK, Trial
<1>3. QED
  BY <1>1, <1>2 DEF Settled, ChildInv

\* A test program that the driver has waited for is settled.
LEMMA GotSettled ==
  ASSUME TypeOK, LoopInv, ChildInv, WaitInv, pc \in {"clean", "check"}, GotTest
  PROVE  Settled(trial)
<1>1. TestForked /\ trial \in Trial
  BY LoopFacts DEF TestForked, Late, InTrial
<1>2. test_proc_id = IF test[trial] = "none" THEN NoPid ELSE TestPid(trial)
  BY <1>1 DEF ChildInv
<1>3. CASE test[trial] = "none"
  BY <1>3 DEF Settled
<1>4. CASE test[trial] # "none"
  <2>1. wait_pid = TestPid(trial) /\ TestPid(trial) # NoPid
    BY <1>2, <1>4, PidsAre DEF GotTest
  <2>2. QED
    BY <2>1 DEF WaitInv, Settled
<1>5. QED
  BY <1>3, <1>4

\* How a step of the driver moves the count of the trials and the length of the log.
LEMMA Counted ==
  ASSUME TypeOK, Len(log) <= LastOver, LoopStep \/ PrepareStep \/ EndStep
  PROVE  /\ Len(log') <= LastOver'
         /\ Len(log') = LastOver' => Len(log) = LastOver /\ ~Mismatch
         /\ LogTime => LastOver' = trial
         /\ ~LogTime /\ ~Mismatch => LastOver' = LastOver
<1>1. trial \in Nat /\ Len(log) \in Nat /\ log \in Seq(Int \X (0 .. Reps - 1))
  BY DEF TypeOK
<1>2. CASE LogTime
  <2>1. /\ pc = "check" /\ pc' = "kill" /\ trial' = trial /\ log' = Append(log, <<num_pairs, rep>>)
        /\ ~Mismatch
    BY <1>2 DEF LogTime, Mismatch, At, loopVars
  <2>2. Len(log') = Len(log) + 1
    BY <1>1, <2>1
  <2>3. QED
    BY <1>1, <1>2, <2>1, <2>2
<1>3. CASE Mismatch
  <2>1. pc = "check" /\ pc' = "loop" /\ trial' = trial /\ log' = log /\ ~LogTime
    BY <1>3 DEF Mismatch, EndTrial, LogTime
  <2>2. QED
    BY <1>1, <1>3, <2>1
<1>4. CASE BeginTrial(First)
  <2>1. /\ pc = "loop" /\ pc' \in {"fork_hackbench", "prepare"} /\ trial' = trial + 1 /\ log' = log
        /\ ~LogTime /\ ~Mismatch
    BY <1>4 DEF BeginTrial, First, LogTime, Mismatch, At
  <2>2. QED
    BY <1>1, <2>1
<1>5. CASE NextPairs \/ Done \/ Kill \/ WaitHackbench
  <2>1. /\ pc \in {"loop", "done", "kill", "wait_hackbench"}
        /\ pc' \in {"loop", "done", "kill", "wait_hackbench"}
        /\ UNCHANGED <<trial, log>>
    BY <1>5 DEF NextPairs, Done, Kill, At, WaitHackbench, EndTrial, loopVars
  <2>2. ~LogTime /\ ~Mismatch
    BY <2>1 DEF LogTime, Mismatch, At
  <2>3. QED
    BY <2>1, <2>2
<1>6. CASE PrepareStep \/ WaitTest \/ Clear("clean", "check")
  <2>1. /\ pc \notin {"loop", "done", "kill", "wait_hackbench", "check"}
        /\ pc' \notin {"loop", "done", "kill", "wait_hackbench"}
        /\ UNCHANGED <<trial, log>>
    BY <1>6 DEF PrepareStep, ForkHackbench, SleepOver, PrepareOutput, Clear, ForkTest, WaitTest, At,
                AfterFork, AfterSleep, AfterTest, loopVars
  <2>2. ~LogTime /\ ~Mismatch
    BY <2>1 DEF LogTime, Mismatch, At
  <2>3. QED
    BY <2>1, <2>2
<1>7. QED
  BY <1>2, <1>3, <1>4, <1>5, <1>6 DEF LoopStep, EndStep

\* A step of the driver unsettles no test program but the one it forks.
LEMMA StaySettled ==
  ASSUME TypeOK, DriverType, LoopInv, LoopStep \/ PrepareStep \/ EndStep,
         NEW t \in Trial, Settled(t), ForkTest(AfterTest) => t # trial
  PROVE  Settled(t)'
<1>1. reaped \subseteq reaped'
  BY DEF LoopStep, PrepareStep, EndStep, NextPairs, Done, BeginTrial, ForkHackbench, SleepOver,
     PrepareOutput, Clear, ForkTest, WaitTest, Mismatch, LogTime, Kill, WaitHackbench,
     AwaitHackbench, Wait
<1>2. test[t] = "none" => test'[t] = "none"
  BY DriverFrame DEF TypeOK
<1>3. QED
  BY <1>1, <1>2 DEF Settled, TestPid

\* A step of the driver leaves no output behind, or clears it.
LEMMA FreshDriver ==
  ASSUME TypeOK, DriverType, LoopInv, ChildInv, WaitInv, FreshInv,
         LoopStep \/ PrepareStep \/ EndStep, UNCHANGED <<driver, harness>>
  PROVE  FreshInv'
<1>1. /\ Len(log') <= LastOver'
      /\ Len(log') = LastOver' => Len(log) = LastOver /\ ~Mismatch
      /\ LogTime => LastOver' = trial
      /\ ~LogTime /\ ~Mismatch => LastOver' = LastOver
  BY Counted DEF FreshInv
<1>2. ASSUME harness # "ffmpeg", pc' = "fork_test" PROVE ~output'
  <2>1. PrepareOutput
    BY <1>2 DEF LoopStep, PrepareStep, EndStep, NextPairs, Done, BeginTrial, ForkHackbench,
       SleepOver, Clear, ForkTest, WaitTest, Mismatch, LogTime, Kill, WaitHackbench, At,
       EndTrial, First, AfterFork, AfterSleep, AfterTest
  <2>2. QED
    BY <1>2, <2>1 DEF PrepareOutput, Clear, RemoveOutput
<1>3. ASSUME harness = "ffmpeg", Len(log') = LastOver'
      PROVE  /\ \A t \in 1 .. LastOver' : Settled(t)'
             /\ LastOver' >= 1 /\ pc' \notin {"wait", "clean", "check"} => ~output'
             /\ pc' = "check" => ~output'
  <2>1. /\ Len(log) = LastOver /\ ~Mismatch /\ driver = "launcher"
        /\ \A t \in 1 .. LastOver : Settled(t)
        /\ LastOver >= 1 /\ pc \notin {"wait", "clean", "check"} => ~output
        /\ pc = "check" /\ GotTest => ~output
    BY <1>1, <1>3 DEF FreshInv, DriverType
  <2>2. trial \in 0 .. NumTrials /\ NumTrials \in Nat
    BY RepsAssumption, RoundsAre DEF TypeOK, NumTrials
  <2>3. CASE LogTime
    <3>1. /\ pc = "check" /\ GotTest /\ UNCHANGED <<output, test, reaped>> /\ pc' = "kill"
          /\ LastOver = trial - 1
      BY <2>3 DEF LogTime, At, childVars
    <3>2. Settled(trial) /\ ~output'
      BY <2>1, <3>1, GotSettled
    <3>3. \A t \in 1 .. trial : t \in 1 .. trial - 1 \/ t = trial
      BY <2>2
    <3>4. \A t \in 1 .. trial : Settled(t)
      BY <2>1, <3>1, <3>2, <3>3
    <3>5. QED
      BY <1>1, <2>3, <3>1, <3>2, <3>4 DEF Settled, TestPid
  <2>4. CASE ~LogTime
    <3>1. LastOver' = LastOver
      BY <1>1, <2>1, <2>4
    <3>2. \A t \in 1 .. LastOver : Settled(t)'
      <4> TAKE t \in 1 .. LastOver
      <4>1. t \in Trial
        BY <2>2 DEF Trial
      <4>2. ForkTest(AfterTest) => t # trial
        BY <2>2 DEF ForkTest, At
      <4>3. QED
        BY <2>1, <4>1, <4>2, StaySettled
    <3>3. CASE Clear("clean", "check")
      BY <3>1, <3>2, <3>3 DEF Clear, RemoveOutput
    <3>4. CASE WaitTest \/ ForkTest(AfterTest)
      BY <2>1, <3>1, <3>2, <3>4 DEF WaitTest, ForkTest, At, AfterTest
    <3>5. CASE LoopStep \/ ForkHackbench(AfterFork) \/ SleepOver(AfterSleep, TooEarly)
                 \/ PrepareOutput \/ Kill \/ WaitHackbench
      <4>1. /\ pc \notin {"wait", "clean", "check"} /\ pc' # "check"
            /\ UNCHANGED output \/ output' = FALSE
        <5>1. CASE LoopStep
          BY <5>1 DEF LoopStep, NextPairs, Done, BeginTrial, First, childVars
        <5>2. CASE ForkHackbench(AfterFork) \/ SleepOver(AfterSleep, TooEarly)
          BY <2>1, <5>2 DEF ForkHackbench, SleepOver, At, AfterFork, AfterSleep
        <5>3. CASE PrepareOutput
          BY <5>3 DEF PrepareOutput, Clear, RemoveOutput, At, childVars
        <5>4. CASE Kill \/ WaitHackbench
          BY <5>4 DEF Kill, WaitHackbench, At, EndTrial, childVars
        <5>5. QED
          BY <3>5, <5>1, <5>2, <5>3, <5>4
      <4>2. LastOver >= 1 => ~output'
        BY <2>1, <4>1
      <4>3. QED
        BY <3>1, <3>2, <4>1, <4>2
    <3>6. QED
      BY <2>1, <2>4, <3>3, <3>4, <3>5 DEF PrepareStep, EndStep
  <2>5. QED
    BY <2>3, <2>4
<1>4. QED
  BY <1>1, <1>2, <1>3 DEF FreshInv

\* A child writes only while its test program is to be reaped.
LEMMA FreshChild ==
  ASSUME TypeOK, DriverType, LoopInv, ChildInv, WaitInv, FreshInv,
         NEW t \in Trial, HackbenchRuns(t) \/ TestRuns(t)
  PROVE  FreshInv'
<1>1. UNCHANGED <<pc, trial, wait_pid, test_proc_id, reaped, log, driver, harness>>
  BY TypeChild DEF loopVars, pidVars
<1>2. CASE HackbenchRuns(t)
  <2>1. UNCHANGED <<test, output>>
    BY <1>2, HackbenchFrame DEF HackbenchRuns
  <2>2. QED
    BY <1>1, <2>1 DEF FreshInv, Settled, TestPid, GotTest
<1>3. CASE TestRuns(t)
  <2>1. test[t] = "running"
    BY <1>3 DEF TestRuns, TestWrites, TestEnds
  <2>2. ~Settled(t) /\ t <= trial /\ (t = trial /\ InTrial => TestForked) /\ t \in Nat \ {0}
    BY <2>1, Unsettled DEF Trial
  <2>3. \A u \in Trial : Settled(u)' <=> Settled(u)
    BY <1>1, <1>3, <2>1, <2>2 DEF TestRuns, TestWrites, TestEnds, TypeOK, Settled, TestPid
  <2>4. trial \in 0 .. NumTrials /\ NumTrials \in Nat /\ \A u \in 1 .. trial : u \in Trial
    BY RepsAssumption, RoundsAre DEF TypeOK, NumTrials, Trial
  <2>5. pc = "fork_test" => t \in 1 .. trial - 1
    <3>1. pc = "fork_test" => InTrial /\ ~TestForked
      BY DEF InTrial, TestForked, Late
    <3>2. QED
      BY <2>2, <2>4, <3>1
  <2>6. harness # "ffmpeg" /\ pc = "fork_test" => \E u \in 1 .. trial - 1 : ~Settled(u)'
    <3>1. ~Settled(t)'
      BY <2>2, <2>3
    <3>2. QED
      BY <2>5, <3>1
  <2>7. ASSUME harness = "ffmpeg", Len(log) = LastOver
        PROVE  /\ \A u \in 1 .. LastOver : Settled(u)'
               /\ LastOver >= 1 => pc \in {"wait", "clean", "check"}
               /\ ~(pc = "check" /\ GotTest)
    <3>1. driver = "launcher" /\ \A u \in 1 .. LastOver : Settled(u)
      BY <2>7 DEF FreshInv, DriverType
    <3>2. \A u \in 1 .. LastOver : u \in Trial
      BY <2>4
    <3>3. t \notin 1 .. LastOver
      BY <2>2, <3>1
    <3>4. t = trial /\ LastOver = trial - 1
      BY <2>2, <2>4, <3>3
    <3>5. pc \in {"wait", "clean", "check"}
      <4>1. InTrial
        BY <3>4, <2>4 DEF InTrial
      <4>2. QED
        BY <2>2, <2>4, <3>1, <3>4, <4>1 DEF TestForked, Late
    <3>6. ~(pc = "check" /\ GotTest)
      BY <2>2, <3>4, GotSettled
    <3>7. QED
      BY <2>3, <3>1, <3>2, <3>5, <3>6
  <2>8. Len(log') <= LastOver'
    BY <1>1 DEF FreshInv
  <2>9. QED
    BY <1>1, <2>6, <2>7, <2>8 DEF FreshInv, GotTest
<1>4. QED
  BY <1>2, <1>3

----------------------------------------------------------------------------
(* The theorems.                                                            *)

\* The invariant holds at the start.
LEMMA StartInv == DriversInit => DriversInv
<1> SUFFICES ASSUME DriversInit PROVE DriversInv
  OBVIOUS
<1>1. /\ pc = "loop" /\ num_pairs = Lower /\ rep = 0 /\ trial = 0 /\ log = <<>> /\ reaped = {}
      /\ hackbench = NoPid /\ test_proc_id = NoPid /\ wait_pid = NoPid
      /\ hb = [t \in Trial |-> "none"] /\ test = [t \in Trial |-> "none"]
      /\ output \in BOOLEAN /\ disturbed = FALSE /\ DriverType
  BY DEF DriversInit, Init, DriverType
<1>2. Lower \in Int /\ Reps \in Nat /\ Rounds \in Nat /\ Step \in Nat
  BY BoundsAssumption, RepsAssumption, RoundsAre
<1>3. NumTrials \in Nat
  BY <1>2 DEF NumTrials
<1>4. TypeOK
  <2>1. NoPid \in Pids /\ log \in Seq(Int \X (0 .. Reps - 1))
    BY <1>1 DEF Pids
  <2>2. num_pairs \in Int /\ rep \in 0 .. Reps /\ trial \in 0 .. NumTrials
    BY <1>1, <1>2, <1>3
  <2>3. hb \in [Trial -> Lives \cup {"none"}] /\ test \in [Trial -> {"none", "running", "dead"}]
    BY <1>1
  <2>4. /\ hackbench \in Pids /\ test_proc_id \in Pids /\ wait_pid \in Pids
        /\ reaped \subseteq Pids \ {NoPid}
    BY <1>1, <2>1
  <2>5. output \in BOOLEAN /\ disturbed \in BOOLEAN
    BY <1>1
  <2>6. QED
    BY <1>1, <2>1, <2>2, <2>3, <2>4, <2>5 DEF TypeOK
<1>5. LoopInv
  <2>1. num_pairs = Lower + Step * 0 /\ trial = 0 * Reps + rep + 0 /\ 0 \in 0 .. Rounds
    BY <1>1, <1>2
  <2>2. QED
    BY <1>1, <2>1 DEF LoopInv, InTrial
<1>6. \A t \in Trial : t \in Nat /\ t > 0
  BY DEF Trial
<1>7. ChildInv /\ WaitInv /\ LogInv
  BY <1>1 DEF ChildInv, WaitInv, LogInv, LogInOrder, HbForked, TestForked, Late
<1>8. OverInv
  BY <1>1, <1>6 DEF OverInv, Over
<1>9. NowInv /\ TimesInv /\ FreshInv
  BY <1>1 DEF NowInv, TimesInv, FreshInv, HbForked, TestForked, Late
<1>10. QED
  BY <1>1, <1>4, <1>5, <1>7, <1>8, <1>9 DEF DriversInv, CalmInv

\* The driver's steps keep the invariant.
LEMMA DriverStepInv ==
  ASSUME DriversInv, LoopStep \/ PrepareStep \/ EndStep, UNCHANGED <<driver, harness>>
  PROVE  DriversInv'
<1>1. TypeOK /\ DriverType /\ LoopInv /\ ChildInv /\ WaitInv /\ LogInv /\ CalmInv /\ FreshInv
  BY DEF DriversInv
<1>2. TypeOK' /\ LoopInv' /\ ChildInv' /\ WaitInv' /\ LogInv' /\ FreshInv'
  BY <1>1, TypeDriver, LoopStepped, ChildDriver, WaitDriver, LogDriver, FreshDriver
<1>3. DriverType'
  BY <1>1 DEF DriverType
<1>4. CalmInv'
  <2> SUFFICES ASSUME ~disturbed' PROVE OverInv' /\ NowInv' /\ TimesInv'
    BY DEF CalmInv
  <2>1. disturbed' \in {disturbed, TRUE}
    BY <1>1, DriverFrame
  <2>2. Calm
    BY <1>1, <2>1 DEF Calm, CalmInv
  <2>3. QED
    BY <2>2, OverDriver, NowDriver, TimesDriver
<1>5. QED
  BY <1>2, <1>3, <1>4 DEF DriversInv

\* The children's steps keep the invariant.
LEMMA ChildStepInv ==
  ASSUME DriversInv, NEW t \in Trial, HackbenchRuns(t) \/ TestRuns(t)
  PROVE  DriversInv'
<1>1. TypeOK /\ DriverType /\ LoopInv /\ ChildInv /\ WaitInv /\ LogInv /\ CalmInv /\ FreshInv
  BY DEF DriversInv
<1>2. TypeOK' /\ UNCHANGED <<pc, num_pairs, rep, trial, hackbench, test_proc_id, wait_pid, reaped, log,
                            driver, harness>>
  BY <1>1, TypeChild DEF loopVars, pidVars
<1>3. LoopInv' /\ DriverType'
  BY <1>1, <1>2 DEF LoopInv, InTrial, DriverType, Rounds
<1>4. ChildInv' /\ \A u \in Trial : test[u] = "dead" => test'[u] = "dead"
  BY <1>1, ChildChild
<1>5. WaitInv'
  <2>1. pc \in {"clean", "check", "kill"} => trial \in Trial
    BY <1>1, LoopFacts DEF InTrial
  <2>2. QED
    BY <1>1, <1>2, <1>4, <2>1 DEF WaitInv, HbPid, TestPid, NoPid
<1>6. LogInv'
  BY <1>1, <1>2 DEF LogInv, LogInOrder, Before, Logged
<1>7. CalmInv'
  <2> SUFFICES ASSUME ~disturbed' PROVE OverInv' /\ NowInv' /\ TimesInv'
    BY DEF CalmInv
  <2>1. disturbed' \in {disturbed, TRUE}
    BY <1>1, HackbenchFrame DEF HackbenchRuns, TestRuns, TestWrites, TestEnds, Disturb, TypeOK
  <2>2. Calm
    BY <1>1, <2>1 DEF Calm, CalmInv
  <2>3. QED
    BY <2>2, CalmChild
<1>8. FreshInv'
  BY <1>1, FreshChild
<1>9. QED
  BY <1>2, <1>3, <1>4, <1>5, <1>6, <1>7, <1>8 DEF DriversInv

\* Every step keeps the invariant.
LEMMA DriversStep == DriversInv /\ [Next]_driverVars => DriversInv'
<1> SUFFICES ASSUME DriversInv, [Next]_driverVars PROVE DriversInv'
  OBVIOUS
<1>1. CASE DriverStep
  <2>1. DriverType /\ UNCHANGED <<driver, harness>>
    BY <1>1 DEF DriverStep, programVars, DriversInv
  <2>2. LoopStep \/ PrepareStep \/ EndStep
    BY <1>1, <2>1, LauncherRoute, InterruptRoute DEF DriverStep
  <2>3. QED
    BY <2>1, <2>2, DriverStepInv
<1>2. CASE \E t \in Trial : HackbenchRuns(t) \/ TestRuns(t)
  BY <1>2, ChildStepInv
<1>3. CASE UNCHANGED driverVars
  <2>1. UNCHANGED <<pc, num_pairs, rep, trial, hackbench, test_proc_id, wait_pid, hb, test,
                    output, disturbed, reaped, log, driver, harness>>
    BY <1>3 DEF driverVars, programVars, vars, loopVars, pidVars, childVars
  <2>2. Dead' = Dead
    BY <2>1, ConstantsStay DEF Dead
  <2>3. TypeOK' /\ DriverType' /\ LoopInv'
    BY <2>1, ConstantsStay DEF DriversInv, TypeOK, DriverType, LoopInv, InTrial, Rounds
  <2>4. ChildInv' /\ WaitInv' /\ LogInv'
    BY <2>1, <2>2, ConstantsStay DEF DriversInv, ChildInv, WaitInv, LogInv, LogInOrder, Before,
       Logged, HbForked, TestForked, InTrial, Late, HbPid, TestPid, NoPid
  <2>5. CalmInv'
    BY <2>1, ConstantsStay DEF DriversInv, CalmInv, OverInv, Over, NowInv, TimesInv,
       HbForked, TestForked, InTrial, Late, HbPid, TestPid
  <2>6. FreshInv'
    BY <2>1 DEF DriversInv, FreshInv, Settled, TestPid, GotTest
  <2>7. QED
    BY <2>3, <2>4, <2>5, <2>6 DEF DriversInv
<1>4. QED
  BY <1>1, <1>2, <1>3 DEF Next

\* The invariant that the drivers' properties follow from holds in every reachable state.
THEOREM DriversInvariant == Spec => []DriversInv
BY StartInv, DriversStep, PTL DEF Spec

\* Both drivers are type correct: in particular no driver counts past its last trial.
THEOREM TypeCorrect == Spec => []TypeOK
BY DriversInvariant, PTL DEF DriversInv

\* Whatever child wait(NULL) returned: when a time is logged the trial's test program has
\* ended and the pid of its hackbench, which is signalled next, has not been released.
THEOREM OwnChildrenHolds == Spec => []OwnChildren
<1>1. DriversInv => OwnChildren
  BY DEF DriversInv, WaitInv, OwnChildren
<1>2. QED
  BY <1>1, DriversInvariant, PTL

\* Times are logged in the order of the loops, none twice, whatever trials fail.
THEOREM LogInOrderHolds == Spec => []LogInOrder
<1>1. DriversInv => LogInOrder
  BY DEF DriversInv, LogInv
<1>2. QED
  BY <1>1, DriversInvariant, PTL

\* A driver that nothing disturbed has logged one time for each repetition of each number
\* of groups when it is done, and every child is dead and reaped.
THEOREM CompleteLogHolds == Spec => []CompleteLog
<1>1. DriversInv => CompleteLog
  <2> SUFFICES ASSUME DriversInv, pc = "done", ~disturbed PROVE CompleteLog
    BY DEF CompleteLog
  <2>1. /\ TypeOK /\ LoopInv /\ ChildInv /\ OverInv /\ TimesInv /\ ~InTrial
    BY DEF DriversInv, CalmInv, InTrial
  <2>2. trial = NumTrials
    <3>1. PICK k \in 0 .. Rounds : num_pairs = Lower + Step * k /\ trial = k * Reps + rep + 0
      BY <2>1 DEF LoopInv
    <3>2. num_pairs > Upper /\ rep = 0 /\ num_pairs \in Int /\ Upper \in Int /\ Rounds \in Nat
          /\ Reps \in Nat
      BY <2>1, BoundsAssumption, RepsAssumption, RoundsAre DEF LoopInv, TypeOK
    <3>3. k = Rounds
      BY <3>1, <3>2, RoundsAre
    <3>4. QED
      BY <3>1, <3>2, <3>3 DEF NumTrials
  <2>3. \A t \in Trial : Over(t)
    BY <2>1, <2>2, RepsAssumption, RoundsAre DEF Over, Trial, TypeOK
  <2>4. \A t \in Trial : hb[t] \in Down /\ HbPid(t) \in reaped /\ test[t] = "dead" /\ TestPid(t) \in reaped
    BY <2>1, <2>3 DEF OverInv
  <2>5. Alive = {}
    BY <2>4, PidsAre
  <2>6. Dead = reaped
    <3>1. ASSUME NEW c \in Dead PROVE c \in reaped
      <4>1. PICK t \in Trial : c = HbPid(t) \/ c = TestPid(t)
        BY PidsAre
      <4>2. HbPid(t) \in reaped /\ TestPid(t) \in reaped
        BY <2>4
      <4>3. QED
        BY <4>1, <4>2
    <3>2. reaped \subseteq Dead
      BY <2>1 DEF ChildInv
    <3>3. QED
      BY <3>1, <3>2
  <2>7. QED
    BY <2>1, <2>2, <2>5, <2>6 DEF TimesInv, CompleteLog
<1>2. QED
  BY <1>1, DriversInvariant, PTL

\* In an undisturbed driver the test program runs under its own trial's load and no other.
THEOREM TimedUnderLoadHolds == Spec => []TimedUnderLoad
<1>1. DriversInv => TimedUnderLoad
  <2> SUFFICES ASSUME DriversInv, ~disturbed
               PROVE  IF driver = "launcher" THEN La!MeasuredUnderLoad ELSE In!Interrupted
    BY DEF TimedUnderLoad
  <2>1. Calm
    BY DEF DriversInv, CalmInv, Calm
  <2>2. hb[trial] = "loaded" /\ trial \in Trial => Hackbenches = {trial}
    <3>1. "loaded" \notin Down \cup {"none"}
      BY LifeSets
    <3>2. \A t \in Hackbenches : t = trial
      BY <2>1, OnlyChild DEF Hackbenches
    <3>3. QED
      BY <3>1, <3>2 DEF Hackbenches
  <2>3. CASE driver = "launcher"
    <3>1. ASSUME NEW t \in Trial, test[t] = "running"
          PROVE  Hackbenches = {t} /\ hb[t] = "loaded"
      <4>1. t = trial /\ TestForked
        BY <2>1, <3>1, OnlyChild
      <4>2. pc = "wait"
        BY <2>1, <2>3, <3>1, <4>1 DEF TestForked, Late, Calm, NowInv
      <4>3. hb[t] = "loaded"
        BY <2>1, <2>3, <4>1, <4>2 DEF Calm, NowInv
      <4>4. QED
        BY <2>2, <4>1, <4>3
    <3>2. La!Trial = Trial /\ La!Hackbenches = Hackbenches
      BY DEF La!Trial, Trial, La!NumTrials, NumTrials, La!Rounds, Rounds, La!Hackbenches,
             Hackbenches, La!Down, Down, La!L!Down, L!Down
    <3>3. QED
      BY <2>3, <3>1, <3>2 DEF La!MeasuredUnderLoad
  <2>4. CASE driver # "launcher"
    <3>1. ASSUME pc = "kill" PROVE Hackbenches = {trial} /\ hb[trial] = "loaded"
      <4>1. trial \in Trial /\ TestForked
        BY <2>1, <3>1, LoopFacts DEF Calm, InTrial, TestForked, Late
      <4>2. hb[trial] = "loaded"
        BY <2>1, <3>1, <4>1 DEF Calm, NowInv
      <4>3. QED
        BY <2>2, <4>1, <4>2
    <3>2. In!Hackbenches = Hackbenches
      BY DEF In!Trial, Trial, In!NumTrials, NumTrials, In!Rounds, Rounds, In!Hackbenches,
             Hackbenches, In!Down, Down, In!L!Down, L!Down
    <3>3. QED
      BY <2>4, <3>1, <3>2 DEF In!Interrupted
  <2>5. QED
    BY <2>3, <2>4
<1>2. QED
  BY <1>1, DriversInvariant, PTL

\* Whichever harness is linked, with any faults: a test program starts on output that is
\* not its own only if nobody could have removed it.
THEOREM FreshOutputHolds == Spec => FreshOutput
<1>1. ASSUME DriversInv, pc = "fork_test", output
      PROVE  IF harness = "ffmpeg" THEN trial = 1 \/ Len(log) < trial - 1
             ELSE \E t \in 1 .. trial - 1 : test[t] # "none" /\ <<"test", t>> \notin reaped
  <2>1. FreshInv /\ LoopInv /\ TypeOK /\ LastOver = trial - 1
    BY <1>1 DEF DriversInv
  <2>2. CASE harness # "ffmpeg"
    BY <1>1, <2>1, <2>2 DEF FreshInv, Settled, TestPid
  <2>3. CASE harness = "ffmpeg"
    <3>1. trial \in Nat \ {0} /\ Len(log) \in Nat
      BY <1>1, <2>1, LoopFacts DEF InTrial, Trial, TypeOK
    <3>2. Len(log) <= trial - 1 /\ (Len(log) = trial - 1 => ~(trial - 1 >= 1))
      BY <1>1, <2>1, <2>3 DEF FreshInv
    <3>3. QED
      BY <2>3, <3>1, <3>2
  <2>4. QED
    BY <2>2, <2>3
<1>2. DriversInv =>
        [test' # test /\ pc = "fork_test" /\ output =>
           IF harness = "ffmpeg" THEN trial = 1 \/ Len(log) < trial - 1
           ELSE \E t \in 1 .. trial - 1 : test[t] # "none" /\ <<"test", t>> \notin reaped]_driverVars
  BY <1>1
<1>3. QED
  BY <1>2, DriversInvariant, PTL DEF FreshOutput
============================================================================
