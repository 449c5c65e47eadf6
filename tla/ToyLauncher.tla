----------------------------- MODULE ToyLauncher -----------------------------
(***************************************************************************)
(* The first experiment driver, toy/launcher.c: for each number of pairs,  *)
(* fib number and repetition it starts a hackbench, sleeps ten seconds,    *)
(* runs fib, which logs its own time, and ends the hackbench.  A fork      *)
(* whose exec fails does not exit: it goes on as a second launcher, with   *)
(* its own copy of the variables, so the model is of a table of processes. *)
(***************************************************************************)
EXTENDS Integers, Sequences, FiniteSets

CONSTANTS
  MinPairs, MaxPairs, PairsStep,  \* the arguments of the program, atoi'd
  MinFib, MaxFib, FibStep,
  NumReps,
  Faults,     \* what may fail: see FaultKinds
  MaxFaults,  \* bound: how often something fails
  MaxPids     \* bound: the size of the process table

FaultKinds == {"fork", "exec",
               "hackbench",  \* a hackbench gives up
               "slow"}       \* a hackbench is not loaded after ten seconds

\* What the comment at the top of the file asks of the arguments.
ASSUME ArgumentsAssumption ==
  /\ {MinPairs, MaxPairs, PairsStep, MinFib, MaxFib, FibStep, NumReps} \subseteq Nat \ {0}
  /\ MinPairs <= MaxPairs /\ MinFib <= MaxFib
ASSUME FaultsAssumption == Faults \subseteq FaultKinds /\ {MaxFaults, MaxPids} \subseteq Nat \ {0}

VARIABLES
  proc,   \* the process table
  log,    \* the trials whose time fib has printed
  faults  \* how often something failed

vars == <<proc, log, faults>>

L(p) == INSTANCE LoadGenerator
          WITH life <- proc[p].at, Finite <- FALSE, Faulty <- "hackbench" \in Faults

Pid   == 1 .. MaxPids
Trial == [pairs : Nat, fib : Nat, rep : 0 .. NumReps - 1]

\* at: where a launcher or fib is, or the life of a hackbench; the trial it
\* belongs to; and of a launcher the pids it holds (0 in the child of a fork).
Process ==
  [prog : {"none", "launcher", "hackbench", "fib"}, parent : Pid \cup {0},
   at : {"loop", "fork_hackbench", "sleep", "fork_fib", "wait_fib", "check", "kill",
         "wait_hackbench", "next", "running", "dead"} \cup L(1)!Lives,
   reaped : BOOLEAN, trial : Trial,
   hackbench : Pid \cup {-1, 0}, fib : Pid \cup {-1, 0}, wait_pid : Pid \cup {-1, 0}]

TypeOK == proc \in [Pid -> Process] /\ log \in Seq(Trial) /\ faults \in 0 .. MaxFaults

Unused == [prog |-> "none", parent |-> 0, at |-> "dead", reaped |-> FALSE,
           trial |-> [pairs |-> MinPairs, fib |-> MinFib, rep |-> 0],
           hackbench |-> 0, fib |-> 0, wait_pid |-> 0]

Init ==
  /\ proc = [p \in Pid |-> IF p = 1 THEN [Unused EXCEPT !.prog = "launcher", !.at = "loop"]
                                    ELSE Unused]
  /\ log = <<>> /\ faults = 0

----------------------------------------------------------------------------
(* Processes, their children and signals.                                   *)

Free  == {p \in Pid : proc[p].prog = "none"}
New   == CHOOSE p \in Free : \A q \in Free : p <= q
Alive == {p \in Pid \ Free : proc[p].at \notin L(1)!Down \cup {"dead"}}

Unreaped(p) == {c \in Pid \ Free : proc[c].parent = p /\ ~proc[c].reaped}

Fault(f) == f \in Faults /\ faults < MaxFaults /\ faults' = faults + 1

\* The launcher p forks: its variable var holds the new pid, in the child 0.  There is
\* no fork beyond the bound.
Fork(p, var, to, child) ==
  /\ Free # {}
  /\ proc' = [proc EXCEPT ![p]   = [@ EXCEPT ![var] = New, !.at = to],
                          ![New] = [child EXCEPT !.parent = p, !.trial = proc[p].trial]]

Forks(p, var, from, to, prog, start) ==
  /\ proc[p].at = from
  /\ \/ /\ Fork(p, var, to, [Unused EXCEPT !.prog = prog, !.at = start])
        /\ UNCHANGED faults
     \/ /\ Fault("exec")
        /\ Fork(p, var, to, [proc[p] EXCEPT ![var] = 0, !.at = to])
     \/ /\ Fault("fork")
        /\ proc' = [proc EXCEPT ![p] = [@ EXCEPT ![var] = -1, !.at = to]]
  /\ UNCHANGED log

\* wait(NULL): any dead child, or -1 when there is no child left.
Wait(p, to) ==
  \/ \E c \in Unreaped(p) \ Alive :
       proc' = [proc EXCEPT ![c].reaped = TRUE, ![p].wait_pid = c, ![p].at = to]
  \/ Unreaped(p) = {} /\ proc' = [proc EXCEPT ![p].wait_pid = -1, ![p].at = to]

\* kill(pid, SIGTERM): 0 is the whole process group, -1 everyone but the caller.
Reached(p, pid) == CASE pid = 0  -> Alive
                     [] pid = -1 -> Alive \ {p}
                     [] OTHER    -> Alive \cap {pid}

Terminated(q) ==
  LET to == {l \in L(1)!Lives : <<proc[q].at, l>> \in L(1)!SignalMoves}
  IN  IF proc[q].prog # "hackbench" THEN "dead"
      ELSE IF to = {} THEN proc[q].at ELSE CHOOSE l \in to : TRUE

KillNobody(p, pid) == proc' = [proc EXCEPT ![p].at = "wait_hackbench"]  \* mutant: no signal
Signal(p, pid) ==
  proc' = [q \in Pid |-> IF q \in Reached(p, pid) THEN [proc[q] EXCEPT !.at = Terminated(q)]
                         ELSE IF q = p THEN [proc[q] EXCEPT !.at = "wait_hackbench"]
                         ELSE proc[q]]

----------------------------------------------------------------------------
(* The loops of main, and run_trial.                                        *)

PairsBelow(t) == t.pairs < MaxPairs  \* mutant: the last number of pairs is left out
MorePairs(t)  == t.pairs <= MaxPairs

After(t) ==
  IF t.rep + 1 < NumReps THEN [t EXCEPT !.rep = @ + 1]
  ELSE IF t.fib + FibStep <= MaxFib THEN [t EXCEPT !.rep = 0, !.fib = @ + FibStep]
  ELSE [pairs |-> t.pairs + PairsStep, fib |-> MinFib, rep |-> 0]

BeginTrial(p) ==
  /\ proc[p].at = "loop"
  /\ proc' = [proc EXCEPT ![p].at = IF MorePairs(proc[p].trial) THEN "fork_hackbench" ELSE "dead"]
  /\ UNCHANGED <<log, faults>>

ForkHackbench(p) == Forks(p, "hackbench", "fork_hackbench", "sleep", "hackbench", "boot")
ForkFib(p)       == Forks(p, "fib", "fork_fib", "wait_fib", "fib", "running")

SleepOver(p) ==
  /\ proc[p].at = "sleep"
  /\ proc' = [proc EXCEPT ![p].at = "fork_fib"]
  /\ IF proc[p].hackbench > 0 /\ proc[proc[p].hackbench].at \in {"boot", "spawning", "spawned"}
       THEN Fault("slow") ELSE UNCHANGED faults
  /\ UNCHANGED log

WaitFib(p) == proc[p].at = "wait_fib" /\ Wait(p, "check") /\ UNCHANGED <<log, faults>>

AnyChild(p) == proc[p].wait_pid # -1  \* mutant: whatever child ended counts as fib
GotFib(p)   == proc[p].wait_pid = proc[p].fib

\* Some other child ended, or there is none: whatever still runs is left alone.
Check(p) ==
  /\ proc[p].at = "check"
  /\ proc' = [proc EXCEPT ![p].at = IF GotFib(p) THEN "kill" ELSE "next"]
  /\ UNCHANGED <<log, faults>>

Kill(p) == proc[p].at = "kill" /\ Signal(p, proc[p].hackbench) /\ UNCHANGED <<log, faults>>

NoAwait(p) == proc' = [proc EXCEPT ![p].at = "next"]  \* mutant: hackbench is not awaited
Await(p)   == Wait(p, "next")

\* The pid it returns is only reported.
WaitHackbench(p) == proc[p].at = "wait_hackbench" /\ Await(p) /\ UNCHANGED <<log, faults>>

NextTrial(p) ==
  /\ proc[p].at = "next"
  /\ proc' = [proc EXCEPT ![p].at = "loop", ![p].trial = After(@)]
  /\ UNCHANGED <<log, faults>>

LauncherStep(p) ==
  /\ proc[p].prog = "launcher"
  /\ \/ BeginTrial(p) \/ ForkHackbench(p) \/ SleepOver(p) \/ ForkFib(p) \/ WaitFib(p)
     \/ Check(p) \/ Kill(p) \/ WaitHackbench(p) \/ NextTrial(p)

----------------------------------------------------------------------------
(* The children.                                                            *)

HackbenchMoves(p, moves) ==
  /\ proc[p].prog = "hackbench"
  /\ \E m \in moves :
       /\ proc[p].at = m[1] /\ proc' = [proc EXCEPT ![p].at = m[2]]
       /\ IF m \in L(1)!Progress THEN UNCHANGED faults ELSE Fault("hackbench")
  /\ UNCHANGED log

FibEnds(p) ==
  /\ proc[p].prog = "fib" /\ proc[p].at = "running"
  /\ proc' = [proc EXCEPT ![p].at = "dead"]
  /\ log' = Append(log, proc[p].trial)
  /\ UNCHANGED faults

Next == \E p \in Pid : LauncherStep(p) \/ HackbenchMoves(p, L(1)!SelfMoves) \/ FibEnds(p)

Spec == Init /\ [][Next]_vars

\* Every launcher runs, fib ends, a hackbench makes the progress LoadGenerator
\* promises without being made to fail.
FairSpec == /\ Spec
            /\ \A p \in Pid : /\ WF_vars(LauncherStep(p)) /\ WF_vars(FibEnds(p))
                              /\ WF_vars(HackbenchMoves(p, L(1)!Progress))

----------------------------------------------------------------------------
(* Properties.                                                              *)

Is(p, prog) == proc[p].prog = prog /\ p \in Alive

\* A launcher that is about to send SIGTERM to a pid it got from fork sends it to a
\* child of its own that it has not reaped; a copy never ends its parent's load.
KillsOwnChild ==
  \A p \in Pid : Is(p, "launcher") /\ proc[p].at = "kill" /\ proc[p].hackbench > 0 =>
    proc[p].hackbench \in Unreaped(p)

\* While fib runs, as long as nothing has failed, the one hackbench alive is the
\* one its trial asked for, and all of it is loaded.
MeasuredUnderLoad ==
  faults = 0 => \A p \in Pid : Is(p, "fib") =>
    \A q \in Pid : Is(q, "hackbench") => proc[q].trial = proc[p].trial /\ proc[q].at = "loaded"

\* When the launcher is done and nothing has failed, every combination of the
\* arguments has been logged once, in order, and nothing it started lives on.
CompleteLog ==
  faults = 0 /\ proc[1].at = "dead" =>
    LET Fibs  == (MaxFib - MinFib) \div FibStep + 1
        Pairs == (MaxPairs - MinPairs) \div PairsStep + 1
    IN  /\ Alive = {} /\ Len(log) = Pairs * Fibs * NumReps
        /\ \A n \in 1 .. Len(log) :
             log[n] = [pairs |-> MinPairs + PairsStep * ((n - 1) \div (Fibs * NumReps)),
                       fib   |-> MinFib + FibStep * (((n - 1) \div NumReps) % Fibs),
                       rep   |-> (n - 1) % NumReps]

\* No launcher waits for ever, whatever fails, unless a fork of fib has failed in
\* it or in a copy it waits for.
HangsOnlyWithoutFib ==
  []<>(\A p \in Pid : ~Is(p, "launcher") \/ (proc[p].at = "wait_fib" /\ proc[p].fib = -1)
                      \/ (proc[p].at = "wait_fib" /\ \E c \in Unreaped(p) : Is(c, "launcher")))
=============================================================================
