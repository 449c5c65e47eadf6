----------------------------- MODULE Hackbench -----------------------------
(***************************************************************************)
(* The load generator hackbench/hackbench.c: a main process that forks     *)
(* NumGroups groups of NumFds receivers and NumFds senders, holds them at  *)
(* a barrier built from two pipes, kicks them off and reaps them, while    *)
(* SIGTERM and SIGINT may arrive at any instruction and longjmp main into  *)
(* its clean-up path.  Worker w is the process whose pid main keeps in     *)
(* child_tab[w]; the first NumFds of a group are its receivers.            *)
(***************************************************************************)
EXTENDS Integers, FiniteSets

CONSTANTS
  NumGroups,  \* num_groups
  NumFds,     \* num_fds: receivers (and senders) of one group
  Loops,      \* loops: messages each sender passes to each receiver
  Infinite,   \* is_infinite: loops is INT_MAX, the workers never finish
  DataSize,   \* datasize, in the units the pipes hold
  PipeCap,    \* what a pipe holds before a writer blocks
  Fifo,       \* fifo: main asks to become a realtime task
  Faults,     \* what may fail: see FaultKinds
  Signals     \* the signals sent to the program, each at most once

FaultKinds == {"setup", "malloc", "fork", "pipe", "fifo", "io", "worker"}

ASSUME NumGroupsAssumption == NumGroups \in Nat \ {0}
ASSUME NumFdsAssumption    == NumFds \in Nat \ {0}
ASSUME LoadAssumption      == /\ Loops \in Nat \ {0}
                              /\ DataSize \in Nat \ {0}
                              /\ PipeCap \in Nat \ {0}
                              /\ Infinite \in BOOLEAN
                              /\ Fifo \in BOOLEAN
ASSUME FaultsAssumption    == Faults \subseteq FaultKinds
ASSUME SignalsAssumption   == Signals \subseteq {"TERM", "INT"}

GroupSize   == 2 * NumFds
NumWorkers  == NumGroups * GroupSize
Worker      == 0 .. NumWorkers - 1
GroupOf(w)  == w \div GroupSize
Receiver    == {w \in Worker : w % GroupSize < NumFds}

VARIABLES
  pc,             \* where main is
  i,              \* the loop counter of the loop main is in
  forked,         \* workers created so far in the group under construction
  total_children, \* workers of the groups that are complete
  child_tab,      \* child_tab[w].pid: 0, -1 or a pid
  totchld,        \* the argument of the running reap_workers
  failing,        \* main exits with status 1 once it has reaped
  signal_caught, ignored, timer_started, status,
  worker,         \* where each worker is
  pending,        \* the workers with an undelivered signal
  announced,      \* the workers whose byte went into the ready pipe
  woken,          \* a byte is in the wake pipe (nobody ever reads it)
  moved,          \* units each worker has written or read
  pipe,           \* units in the pipe of each receiver
  sent            \* signals the environment has sent

mainVars   == <<pc, i, forked, total_children, child_tab, totchld, failing,
                signal_caught, ignored, timer_started, status>>
workerVars == <<worker, pending, announced, woken, moved, pipe>>
vars       == <<mainVars, workerVars, sent>>

Dead  == {"zombie", "reaped"}
Alive == {"forked", "reset", "polling", "running", "jumped"}

TypeOK ==
  /\ pc \in {"init", "armed", "spawn", "ready", "kick", "jumped", "signal",
             "wait", "exited"}
  /\ i \in 0 .. NumWorkers
  /\ forked \in 0 .. GroupSize
  /\ total_children \in 0 .. NumWorkers
  /\ child_tab \in [Worker -> {"unset", "failed", "pid"}]
  /\ totchld \in 0 .. NumWorkers
  /\ failing \in BOOLEAN
  /\ signal_caught \in BOOLEAN
  /\ ignored \subseteq {"TERM", "INT"}
  /\ timer_started \in BOOLEAN
  /\ status \in {"running", "ok", "failed", "killed"}
  /\ worker \in [Worker -> Alive \cup Dead \cup {"none"}]
  /\ pending \subseteq Worker
  /\ announced \subseteq Worker
  /\ woken \in BOOLEAN
  /\ moved \in [Worker -> Nat]
  /\ pipe \in [Receiver -> 0 .. PipeCap]
  /\ sent \subseteq Signals

Init ==
  /\ pc = "init"
  /\ i = 0 /\ forked = 0 /\ total_children = 0 /\ totchld = 0
  /\ child_tab = [w \in Worker |-> "unset"]
  /\ failing = FALSE /\ signal_caught = FALSE /\ ignored = {}
  /\ timer_started = FALSE /\ status = "running"
  /\ worker = [w \in Worker |-> "none"]
  /\ pending = {} /\ announced = {} /\ woken = FALSE
  /\ moved = [w \in Worker |-> 0]
  /\ pipe = [r \in Receiver |-> 0]
  /\ sent = {}

----------------------------------------------------------------------------
(* The start of main.                                                       *)

Exit(how) == pc' = "exited" /\ status' = how

\* Options, pinning, child_tab and the two pipes: nothing is forked yet, so a
\* failure just exits.
SetupFails ==
  /\ pc = "init" /\ "setup" \in Faults
  /\ Exit("failed")
  /\ UNCHANGED <<i, forked, total_children, child_tab, totchld, failing,
                 signal_caught, ignored, timer_started, workerVars, sent>>

\* From here on SIGTERM and SIGINT enter sigcatcher.
InstallHandlers ==
  /\ pc = "init" /\ pc' = "armed"
  /\ UNCHANGED <<i, forked, total_children, child_tab, totchld, failing,
                 signal_caught, ignored, timer_started, status, workerVars, sent>>

\* setjmp returns 0: jmpbuf is valid from here on.
SetJmp ==
  /\ pc = "armed" /\ pc' = "spawn"
  /\ i' = 0 /\ total_children' = 0 /\ forked' = 0
  /\ UNCHANGED <<child_tab, totchld, failing, signal_caught, ignored,
                 timer_started, status, workerVars, sent>>

----------------------------------------------------------------------------
(* reap_workers, entered with the signals ign already ignored.              *)

ReapWorkers(n, dokill, ign) ==
  /\ totchld' = n /\ i' = 0
  /\ pc' = IF dokill THEN "signal" ELSE "wait"
  /\ ignored' = IF dokill THEN ign \cup {"TERM"} ELSE ign

SignalOneShort == i + 1 < totchld  \* mutant: the loop stops one worker early
SignalsLeft    == i < totchld

\* kill(child_tab[k].pid, SIGTERM): pid 0 is the whole process group and pid -1
\* every process; a pid that has been reaped reaches nobody here.
Targets(k) == IF child_tab[k] = "pid" THEN {k} ELSE Worker

SignalWorker ==
  /\ pc = "signal" /\ SignalsLeft
  /\ pending' = pending \cup {w \in Targets(i) : worker[w] \in Alive}
  /\ i' = i + 1
  /\ UNCHANGED <<pc, forked, total_children, child_tab, totchld, failing,
                 signal_caught, ignored, timer_started, status,
                 worker, announced, woken, moved, pipe, sent>>

SignalsSent ==
  /\ pc = "signal" /\ ~SignalsLeft
  /\ pc' = "wait" /\ i' = 0
  /\ UNCHANGED <<forked, total_children, child_tab, totchld, failing,
                 signal_caught, ignored, timer_started, status, workerVars, sent>>

WaitOneShort == i + 1 < totchld  \* mutant: one wait() too few
WaitsLeft    == i < totchld

\* wait() returns any dead child, or ECHILD when main has no child at all.
Wait ==
  /\ pc = "wait" /\ WaitsLeft
  /\ \/ \E w \in Worker : /\ worker[w] = "zombie"
                          /\ worker' = [worker EXCEPT ![w] = "reaped"]
     \/ /\ \A w \in Worker : worker[w] \in {"none", "reaped"}
        /\ UNCHANGED worker
  /\ i' = i + 1
  /\ UNCHANGED <<pc, forked, total_children, child_tab, totchld, failing,
                 signal_caught, ignored, timer_started, status,
                 pending, announced, woken, moved, pipe, sent>>

Reaped ==
  /\ pc = "wait" /\ ~WaitsLeft
  /\ Exit(IF failing THEN "failed" ELSE "ok")
  /\ UNCHANGED <<i, forked, total_children, child_tab, totchld, failing,
                 signal_caught, ignored, timer_started, workerVars, sent>>

----------------------------------------------------------------------------
(* The group loop: group and create_worker.                                 *)

InGroup == pc = "spawn" /\ i < NumGroups /\ forked < GroupSize

Fork ==
  LET w == total_children + forked IN
  /\ InGroup
  /\ worker' = [worker EXCEPT ![w] = "forked"]
  /\ child_tab' = [child_tab EXCEPT ![w] = "pid"]
  /\ forked' = forked + 1
  /\ UNCHANGED <<pc, i, total_children, totchld, failing, signal_caught, ignored,
                 timer_started, status, pending, announced, woken, moved, pipe, sent>>

StartedAndFailed(n) == n + 1  \* mutant: the failed entry is counted too

\* What group returns when worker n of the group cannot be created: i-1 or
\* num_fds+i-1, although n workers are running.
Started(n) == IF n > 0 THEN n - 1 ELSE 0

GroupFails ==
  /\ InGroup
  /\ \/ /\ "malloc" \in Faults /\ forked < NumFds
        /\ UNCHANGED child_tab
     \/ /\ "fork" \in Faults
        /\ child_tab' = [child_tab EXCEPT ![total_children + forked] = "failed"]
  /\ ReapWorkers(total_children + Started(forked), TRUE, ignored)
  /\ failing' = TRUE
  /\ UNCHANGED <<forked, total_children, signal_caught, timer_started, status,
                 workerVars, sent>>

\* fdpair cannot make the pipe of the next receiver: barf, nobody is reaped.
PipeFails ==
  /\ InGroup /\ forked < NumFds /\ "pipe" \in Faults
  /\ Exit("failed")
  /\ UNCHANGED <<i, forked, total_children, child_tab, totchld, failing,
                 signal_caught, ignored, timer_started, workerVars, sent>>

GroupReturns ==
  /\ pc = "spawn" /\ i < NumGroups /\ forked = GroupSize
  /\ total_children' = total_children + GroupSize
  /\ i' = i + 1 /\ forked' = 0
  /\ UNCHANGED <<pc, child_tab, totchld, failing, signal_caught, ignored,
                 timer_started, status, workerVars, sent>>

\* The realtime request may be refused: barf, nobody is reaped.
Spawned ==
  /\ pc = "spawn" /\ i = NumGroups
  /\ \/ pc' = "ready" /\ i' = 0 /\ UNCHANGED status
     \/ Fifo /\ "fifo" \in Faults /\ Exit("failed") /\ UNCHANGED i
  /\ UNCHANGED <<forked, total_children, child_tab, totchld, failing,
                 signal_caught, ignored, timer_started, workerVars, sent>>

----------------------------------------------------------------------------
(* The barrier.                                                             *)

BytesExpected == NumWorkers  \* mutant: main does not wait for the bytes

\* What the workers have written into the ready pipe; i of it has been read.
BytesReady == Cardinality(announced)

ReadReady ==
  /\ pc = "ready" /\ i < total_children
  /\ BytesReady > i
  /\ i' = i + 1
  /\ UNCHANGED <<pc, forked, total_children, child_tab, totchld, failing,
                 signal_caught, ignored, timer_started, status, workerVars, sent>>

StartTimer ==
  /\ pc = "ready" /\ i = total_children
  /\ timer_started' = TRUE /\ pc' = "kick"
  /\ UNCHANGED <<i, forked, total_children, child_tab, totchld, failing,
                 signal_caught, ignored, status, workerVars, sent>>

Kick ==
  /\ pc = "kick"
  /\ woken' = TRUE
  /\ ReapWorkers(total_children, signal_caught, ignored)
  /\ UNCHANGED <<forked, total_children, child_tab, failing, signal_caught,
                 timer_started, status, worker, pending, announced, moved, pipe, sent>>

\* The read of a ready byte or the write of the wake byte fails.
BarrierFails ==
  /\ "io" \in Faults
  /\ pc = "kick" \/ (pc = "ready" /\ i < total_children)
  /\ ReapWorkers(total_children, TRUE, ignored)
  /\ failing' = TRUE
  /\ UNCHANGED <<forked, total_children, child_tab, signal_caught,
                 timer_started, status, workerVars, sent>>

NeverKill  == FALSE  \* mutant: reap_workers(child_tab, total_children, 0)
KillOnReap == signal_caught

\* setjmp returns 1.  timer_started is a non-volatile local: if it was set since
\* setjmp it may hold either value.
LongJmped ==
  /\ pc = "jumped"
  /\ timer_started' \in {timer_started, FALSE}
  /\ ReapWorkers(total_children, KillOnReap, {"TERM", "INT"})
  /\ UNCHANGED <<forked, total_children, child_tab, failing, signal_caught,
                 status, workerVars, sent>>

MainStep ==
  \/ SetupFails \/ InstallHandlers \/ SetJmp
  \/ Fork \/ GroupFails \/ PipeFails \/ GroupReturns \/ Spawned
  \/ ReadReady \/ StartTimer \/ Kick \/ BarrierFails \/ LongJmped
  \/ SignalWorker \/ SignalsSent \/ Wait \/ Reaped

----------------------------------------------------------------------------
(* A worker: sender and receiver.                                           *)

\* Between fork and reset_worker_signals a worker still has main's handlers,
\* main's jmpbuf and main's child_tab.
ResetSignals(w) ==
  /\ worker[w] = "forked"
  /\ worker' = [worker EXCEPT ![w] = "reset"]
  /\ UNCHANGED <<pending, announced, woken, moved, pipe>>

\* ready: one byte into the ready pipe, then poll the wake pipe.
Announce(w) ==
  /\ worker[w] = "reset"
  /\ worker' = [worker EXCEPT ![w] = "polling"]
  /\ announced' = announced \cup {w}
  /\ UNCHANGED <<pending, woken, moved, pipe>>

PollTimesOut == TRUE  \* mutant: poll with a timeout whose result is not checked
Readable     == woken

TakeWakeByte  == woken' = FALSE  \* mutant: a worker reads the byte it polled for
LeaveWakeByte == UNCHANGED woken

\* poll only looks: the byte stays for the other workers.
Wake(w) ==
  /\ worker[w] = "polling" /\ Readable
  /\ worker' = [worker EXCEPT ![w] = "running"]
  /\ LeaveWakeByte
  /\ UNCHANGED <<pending, announced, moved, pipe>>

SenderGoal   == Loops * NumFds * DataSize
OnePacketShort == (NumFds * Loops - 1) * DataSize  \* mutant: i starts at 1
ReceiverGoal == NumFds * Loops * DataSize
Goal(w) == IF w \in Receiver THEN ReceiverGoal ELSE SenderGoal

\* An infinite worker never reaches its goal: only its position in the current
\* round of messages is kept.
MoreToDo(w) == Infinite \/ moved[w] < Goal(w)
Advance(w)  == [moved EXCEPT ![w] =
                  IF Infinite THEN (@ + 1) % (NumFds * DataSize) ELSE @ + 1]

\* The receiver behind out_fds[j], for the j of the message being written.
Target(w) == GroupOf(w) * GroupSize + ((moved[w] \div DataSize) % NumFds)

Die(w) ==
  /\ worker' = [worker EXCEPT ![w] = "zombie"]
  /\ pending' = pending \ {w}

NeverFull(r) == TRUE  \* mutant: a write that does not block
HasRoom(r)   == pipe[r] < PipeCap

\* A write blocks while the pipe is full; once the receiver is dead the pipe has
\* no reader and SIGPIPE ends the sender.
Send(w) ==
  LET r == Target(w) IN
  /\ w \notin Receiver /\ worker[w] = "running" /\ MoreToDo(w)
  /\ \/ /\ worker[r] \notin Dead /\ HasRoom(r)
        /\ pipe' = [pipe EXCEPT ![r] = @ + 1]
        /\ moved' = Advance(w)
        /\ UNCHANGED <<worker, pending>>
     \/ /\ worker[r] \in Dead
        /\ Die(w)
        /\ UNCHANGED <<pipe, moved>>
  /\ UNCHANGED <<announced, woken>>

\* A read blocks while the pipe is empty.  Once every writer is gone it returns
\* 0 and the receiver retries for ever: it makes no progress either way.
Receive(w) ==
  /\ w \in Receiver /\ worker[w] = "running" /\ MoreToDo(w)
  /\ pipe[w] > 0
  /\ pipe' = [pipe EXCEPT ![w] = @ - 1]
  /\ moved' = Advance(w)
  /\ UNCHANGED <<worker, pending, announced, woken>>

Finish(w) ==
  /\ worker[w] = "running" /\ ~MoreToDo(w)
  /\ Die(w)
  /\ UNCHANGED <<announced, woken, moved, pipe>>

\* A pending signal takes effect: main's handler in a worker that has not reset
\* it, nothing in one that has already jumped, death in all others.
Deliver(w) ==
  /\ w \in pending
  /\ \/ /\ worker[w] \in {"forked", "jumped"}
        /\ worker' = [worker EXCEPT ![w] = "jumped"]
        /\ pending' = pending \ {w}
     \/ worker[w] \notin {"forked", "jumped"} /\ Die(w)
  /\ UNCHANGED <<announced, woken, moved, pipe>>

\* sigcatcher longjmps a worker into main's clean-up code: it signals the workers
\* its copy of child_tab counts, those of the groups before its own, waits for
\* none of them (ECHILD) and exits.
JumpedWorker(w) ==
  /\ worker[w] = "jumped"
  /\ worker' = [worker EXCEPT ![w] = "zombie"]
  /\ pending' = (pending \cup
       {x \in Worker : x < GroupOf(w) * GroupSize /\ worker[x] \in Alive}) \ {w}
  /\ UNCHANGED <<announced, woken, moved, pipe>>

WorkerStep(w) ==
  /\ \/ ResetSignals(w) \/ Announce(w) \/ Wake(w)
     \/ Send(w) \/ Receive(w) \/ Finish(w) \/ JumpedWorker(w)
  /\ UNCHANGED <<mainVars, sent>>

DeliverStep(w) == Deliver(w) /\ UNCHANGED <<mainVars, sent>>

----------------------------------------------------------------------------
(* The environment: signals from outside, and a worker killed from outside. *)

WorkerKilled(w) ==
  /\ "worker" \in Faults /\ pc # "exited"
  /\ worker[w] \in Alive
  /\ Die(w)
  /\ UNCHANGED <<mainVars, announced, woken, moved, pipe, sent>>

\* What a signal does to main: the default action before the handlers are
\* installed, a longjmp through an unset jmpbuf before setjmp, else sigcatcher.
Sigcatcher(s) ==
  \/ /\ pc = "init"
     /\ Exit("killed") /\ UNCHANGED <<signal_caught, ignored, failing>>
  \/ /\ pc = "armed"
     /\ Exit("killed") /\ signal_caught' = TRUE
     /\ ignored' = ignored \cup {s} /\ UNCHANGED failing
  \/ /\ pc \notin {"init", "armed"} /\ s \in ignored
     /\ UNCHANGED <<pc, status, signal_caught, ignored, failing>>
  \/ /\ pc \notin {"init", "armed"} /\ s \notin ignored
     /\ signal_caught' = TRUE /\ ignored' = ignored \cup {s}
     /\ pc' = "jumped" /\ failing' = FALSE /\ UNCHANGED status

\* SIGINT may come from a terminal, and then the workers get it too.
Signal(s) ==
  /\ pc # "exited" /\ s \notin sent
  /\ sent' = sent \cup {s}
  /\ Sigcatcher(s)
  /\ \/ UNCHANGED pending
     \/ s = "INT" /\ pending' = pending \cup {w \in Worker : worker[w] \in Alive}
  /\ UNCHANGED <<i, forked, total_children, child_tab, totchld, timer_started,
                 worker, announced, woken, moved, pipe>>

Next ==
  \/ MainStep
  \/ \E w \in Worker : WorkerStep(w) \/ DeliverStep(w) \/ WorkerKilled(w)
  \/ \E s \in Signals : Signal(s)

Spec == Init /\ [][Next]_vars

\* The kernel schedules every runnable process and delivers every signal.
Fairness == /\ WF_vars(MainStep)
            /\ \A w \in Worker : WF_vars(WorkerStep(w)) /\ WF_vars(DeliverStep(w))

FairSpec == Spec /\ Fairness

----------------------------------------------------------------------------
(* Properties.                                                              *)

\* No worker sends or receives before every worker of every group has
\* announced itself: the two-pipe barrier of ready() and main.
StartTogether ==
  (\E w \in Worker : worker[w] = "running") => announced = Worker

\* The measured time is that of the load: main prints a time only if the timer
\* was started after the last worker was ready.
TimeIsMeasured == status = "ok" /\ timer_started => announced = Worker

\* kill() is never called with a pid of 0 or -1, which would terminate the whole
\* process group or every process of the user: child_tab is only signalled up to
\* entries that create_worker filled.
NoBroadcastKill == pc = "signal" /\ i < totchld => child_tab[i] = "pid"

\* After a clean exit every worker of a complete group is dead or has a
\* termination signal on the way; what survives is in the unfinished group.
SurvivorsConfined ==
  status = "ok" =>
    \A w \in Worker : w < total_children =>
      worker[w] \in Dead \cup {"jumped"} \/ w \in pending

\* Once all groups were complete, an exit of main with status 0 leaves no worker
\* behind, not even as a zombie: each has been reaped by wait().
CleanStop ==
  status = "ok" /\ total_children = NumWorkers =>
    \A w \in Worker : worker[w] = "reaped"

\* A run that no signal cut short has passed every message to its receiver.
FiniteDelivery ==
  status = "ok" /\ ~signal_caught =>
    /\ \A w \in Worker : moved[w] = Goal(w)
    /\ \A r \in Receiver : pipe[r] = 0

\* A finite run that nothing disturbs ends, with status 0.
RunCompletes == <>(status = "ok")

----------------------------------------------------------------------------
(* What the source says of itself and the program does not do.              *)

\* hackbench.c:389 "All caught signals will cause the program to exit", wherever in
\* main they are caught.
SignalEnds == signal_caught ~> pc = "exited"
============================================================================
