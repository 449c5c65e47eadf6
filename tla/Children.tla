------------------------------ MODULE Children ------------------------------
(***************************************************************************)
(* What the experiment drivers (launcher.cpp with the gzip, extract and    *)
(* ffmpeg harnesses, and hackbench_interupt.cpp) have in common: per trial *)
(* a hackbench, which is what LoadGenerator says it is, and a test program,*)
(* which is external, writes its output and ends; wait(NULL) and           *)
(* kill(pid, SIGTERM); and the two loops of main over the trials.          *)
(***************************************************************************)
EXTENDS Integers, Sequences, FiniteSets

CONSTANTS
  Lower, Upper, Step,  \* groups_lower_bound, groups_upper_bound, groups_step_size
  Reps,                \* reps
  Faults,              \* what may fail: see FaultKinds
  LastFault            \* bound: no trial after this one is disturbed

FaultKinds == {"hb_fork",    \* the fork of a hackbench fails
               "hackbench",  \* a hackbench cannot be executed or gives up
               "test_fork"}  \* the fork of the test program fails

ASSUME BoundsAssumption == Lower \in Int /\ Upper \in Int /\ Step \in Nat \ {0}
ASSUME RepsAssumption   == Reps \in Nat \ {0}
ASSUME FaultsAssumption == Faults \subseteq FaultKinds /\ LastFault \in Nat

Rounds    == IF Lower > Upper THEN 0 ELSE (Upper - Lower) \div Step + 1
NumTrials == Rounds * Reps
Trial     == 1 .. NumTrials

VARIABLES
  pc,         \* where the driver is
  num_pairs,  \* the two loops of main
  rep,
  trial,      \* how many trials were started
  hackbench, test_proc_id, wait_pid,  \* the pids the driver holds
  hb,         \* the life of the hackbench of each trial
  test,       \* the test program of each trial
  reaped,     \* children that wait() has returned
  output,     \* a test program has left a file, or files in its directory
  log,        \* for which <<num_pairs, rep>> a time was logged
  disturbed   \* history: something failed, or came later than the driver expects

loopVars  == <<num_pairs, rep, trial>>
pidVars   == <<hackbench, test_proc_id, wait_pid>>
childVars == <<hb, test, output, disturbed>>
vars == <<pc, loopVars, pidVars, childVars, reaped, log>>

L(t) == INSTANCE LoadGenerator
          WITH life <- hb[t], Finite <- FALSE, Faulty <- "hackbench" \in Faults

Lives == L(1)!Lives
Down  == L(1)!Down

NoPid == <<"none", 0>>                       \* the -1 of fork and wait
Pids  == ({"hackbench", "test"} \X Trial) \cup {NoPid}

TypeOK ==
  /\ pc \in {"loop", "fork_hackbench", "sleep", "prepare", "fork_test", "wait",
             "clean", "check", "kill", "wait_hackbench", "done"}
  /\ num_pairs \in Int /\ rep \in 0 .. Reps /\ trial \in 0 .. NumTrials
  /\ hackbench \in Pids /\ test_proc_id \in Pids /\ wait_pid \in Pids
  /\ hb \in [Trial -> Lives \cup {"none"}]
  /\ test \in [Trial -> {"none", "running", "dead"}]
  /\ reaped \subseteq Pids \ {NoPid}
  /\ output \in BOOLEAN
  /\ log \in Seq(Int \X (0 .. Reps - 1))
  /\ disturbed \in BOOLEAN

Init ==
  /\ pc = "loop" /\ num_pairs = Lower /\ rep = 0 /\ trial = 0
  /\ hackbench = NoPid /\ test_proc_id = NoPid /\ wait_pid = NoPid
  /\ hb = [t \in Trial |-> "none"] /\ test = [t \in Trial |-> "none"]
  /\ reaped = {} /\ output \in BOOLEAN /\ log = <<>> /\ disturbed = FALSE

----------------------------------------------------------------------------
(* Children, and wait(NULL).                                                *)

Alive == {<<"hackbench", t>> : t \in {u \in Trial : hb[u] \notin Down \cup {"none"}}}
           \cup {<<"test", t>> : t \in {u \in Trial : test[u] = "running"}}
Dead  == {<<"hackbench", t>> : t \in {u \in Trial : hb[u] \in Down}}
           \cup {<<"test", t>> : t \in {u \in Trial : test[u] = "dead"}}

\* Any dead child, or -1 when there is no child left.
Wait == \/ \E c \in Dead \ reaped : wait_pid' = c /\ reaped' = reaped \cup {c}
        \/ Alive \cup (Dead \ reaped) = {} /\ wait_pid' = NoPid /\ UNCHANGED reaped

\* kill(pid, SIGTERM); the pid -1 reaches every process but the driver.
Terminated(life) ==
  LET to == {m \in L(1)!SignalMoves : m[1] = life}
  IN  IF to = {} THEN life ELSE (CHOOSE m \in to : TRUE)[2]

KillNobody(T)      == UNCHANGED hb  \* mutant: the hackbench is not signalled
KillHackbenches(T) == hb' = [t \in Trial |-> IF t \in T THEN Terminated(hb[t]) ELSE hb[t]]

----------------------------------------------------------------------------
(* The loops of main, and what ends a trial. *)

BelowUpper == num_pairs < Upper  \* mutant: the last number of groups is left out
MorePairs  == num_pairs <= Upper
MoreReps   == rep < Reps

NextPairs ==
  /\ pc = "loop" /\ MorePairs /\ ~MoreReps
  /\ num_pairs' = num_pairs + Step /\ rep' = 0
  /\ UNCHANGED <<pc, trial, pidVars, childVars, reaped, log>>

Done ==
  /\ pc = "loop" /\ ~MorePairs
  /\ pc' = "done"
  /\ UNCHANGED <<loopVars, pidVars, childVars, reaped, log>>

\* The body of the inner loop: one trial, whose first step is at first.
BeginTrial(first) ==
  /\ pc = "loop" /\ MorePairs /\ MoreReps
  /\ pc' = first /\ trial' = trial + 1
  /\ UNCHANGED <<num_pairs, rep, pidVars, childVars, reaped, log>>

AgainSameRep == pc' = "loop" /\ UNCHANGED rep  \* mutant: rep is not counted
EndTrial     == pc' = "loop" /\ rep' = rep + 1

----------------------------------------------------------------------------
(* The steps of a trial, in the order each driver gives them.               *)

At(from, to)   == pc = from /\ pc' = to
Disturb(fault) == (fault => trial <= LastFault) /\ disturbed' = (disturbed \/ fault)

\* A failed fork leaves -1 in the variable and goes unnoticed.
ForkHackbench(to) ==
  /\ At("fork_hackbench", to)
  /\ \/ /\ hackbench' = <<"hackbench", trial>>
        /\ hb' = [hb EXCEPT ![trial] = "boot"]
        /\ UNCHANGED disturbed
     \/ "hb_fork" \in Faults /\ hackbench' = NoPid /\ UNCHANGED hb /\ Disturb(TRUE)
  /\ UNCHANGED <<loopVars, test_proc_id, wait_pid, test, output, reaped, log>>

ForkTest(to) ==
  /\ At("fork_test", to)
  /\ \/ /\ test_proc_id' = <<"test", trial>>
        /\ test' = [test EXCEPT ![trial] = "running"]
        /\ UNCHANGED disturbed
     \/ "test_fork" \in Faults /\ test_proc_id' = NoPid /\ UNCHANGED test /\ Disturb(TRUE)
  /\ UNCHANGED <<loopVars, hackbench, wait_pid, hb, output, reaped, log>>

KeepOutput   == UNCHANGED output  \* mutant: old output is not removed
RemoveOutput == output' = FALSE

\* sleep_for knows nothing of the other processes.
SleepOver(to, early) ==
  /\ At("sleep", to) /\ Disturb(early)
  /\ UNCHANGED <<loopVars, pidVars, hb, test, output, reaped, log>>

\* The output goes after a run, and with most harnesses before it.
Clear(from, to) ==
  /\ At(from, to)
  /\ RemoveOutput
  /\ UNCHANGED <<loopVars, pidVars, hb, test, disturbed, reaped, log>>

WaitTest ==
  /\ At("wait", "clean")
  /\ Wait
  /\ UNCHANGED <<loopVars, hackbench, test_proc_id, childVars, log>>

AnyChild == wait_pid # NoPid  \* mutant: whatever child ended counts as the test
GotTest  == wait_pid = test_proc_id

\* Some other child ended: the trial is abandoned with whatever still runs.
Mismatch ==
  /\ pc = "check" /\ ~GotTest
  /\ EndTrial
  /\ UNCHANGED <<num_pairs, trial, pidVars, childVars, reaped, log>>

LogTime ==
  /\ At("check", "kill") /\ GotTest
  /\ log' = Append(log, <<num_pairs, rep>>)
  /\ UNCHANGED <<loopVars, pidVars, childVars, reaped>>

Kill ==
  /\ At("kill", "wait_hackbench")
  /\ IF hackbench = NoPid
       THEN /\ KillHackbenches(Trial)
            /\ test' = [t \in Trial |-> IF test[t] = "running" THEN "dead" ELSE test[t]]
       ELSE KillHackbenches({hackbench[2]}) /\ UNCHANGED test
  /\ UNCHANGED <<loopVars, pidVars, output, disturbed, reaped, log>>

NoAwait        == UNCHANGED <<wait_pid, reaped>>  \* mutant: hackbench is not reaped
AwaitHackbench == Wait

WaitHackbench ==
  /\ pc = "wait_hackbench"
  /\ AwaitHackbench
  /\ EndTrial
  /\ UNCHANGED <<num_pairs, trial, hackbench, test_proc_id, childVars, log>>

----------------------------------------------------------------------------
(* The children.                                                            *)

HackbenchMoves(t, moves) ==
  /\ \E m \in moves : /\ hb[t] = m[1] /\ hb' = [hb EXCEPT ![t] = m[2]]
                      /\ Disturb(m \notin L(1)!Progress)
  /\ UNCHANGED <<pc, loopVars, pidVars, test, output, reaped, log>>

HackbenchStep(t)     == HackbenchMoves(t, L(1)!SelfMoves)
HackbenchProgress(t) == HackbenchMoves(t, L(1)!Progress)

TestWrites(t) ==
  /\ test[t] = "running" /\ ~output /\ output' = TRUE
  /\ UNCHANGED <<pc, loopVars, pidVars, hb, test, disturbed, reaped, log>>

TestEnds(t, early) ==
  /\ test[t] = "running" /\ test' = [test EXCEPT ![t] = "dead"]
  /\ Disturb(early)
  /\ UNCHANGED <<pc, loopVars, pidVars, hb, output, reaped, log>>

----------------------------------------------------------------------------
(* Properties of both drivers.                                              *)

Hackbenches == {t \in Trial : hb[t] \notin Down \cup {"none"}}

\* When a time has been logged, the trial's children are where the driver thinks:
\* its test program, if it could be forked, has ended, and its hackbench, if it
\* could, has not been reaped, so that its pid is not someone else's yet.  That is
\* what the check of wait_pid is for, whatever other children end first.
OwnChildren ==
  pc = "kill" => /\ test_proc_id # NoPid => test[trial] = "dead"
                 /\ hackbench # NoPid => hackbench \notin reaped

\* No number of groups and repetition is logged twice, and none before an earlier
\* one, whatever trials were abandoned in between.
LogInOrder ==
  \A m, n \in 1 .. Len(log) : m < n =>
    log[m][1] < log[n][1] \/ (log[m][1] = log[n][1] /\ log[m][2] < log[n][2])

\* When an undisturbed driver is done, it has logged one time for each repetition
\* of each number of groups, in order, and every child is dead and reaped.
CompleteLog ==
  pc = "done" /\ ~disturbed =>
    /\ Len(log) = NumTrials
    /\ \A n \in 1 .. Len(log) :
         log[n] = <<Lower + Step * ((n - 1) \div Reps), (n - 1) % Reps>>
    /\ Alive = {} /\ Dead = reaped

\* There is one place where it can wait for ever, whatever fails: wait(NULL) after
\* the fork of the test program has failed, with an infinite hackbench running.
HangsOnlyWithoutTest == []<>(pc = "done" \/ (pc = "wait" /\ test_proc_id = NoPid))
============================================================================
