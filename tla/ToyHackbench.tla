---------------------------- MODULE ToyHackbench ----------------------------
(***************************************************************************)
(* toy/hackbench.c run with --threads: its workers are threads of one      *)
(* process.  With --process it does what Hackbench describes.  Threads     *)
(* share what processes have copies of: the signal handlers, which each    *)
(* worker resets for all, and the fds, which nobody closes; they all die   *)
(* with main; and none of them can be signalled through child_tab[w].pid,  *)
(* which holds part of a pthread_t.                                        *)
(***************************************************************************)
EXTENDS Integers, FiniteSets

CONSTANTS
  NumGroups, NumFds,  \* num_groups, num_fds
  Loops,              \* loops: messages each sender passes to each receiver
  Cap,                \* messages a socket holds before a writer blocks
  UIntBits,           \* the width of an unsigned int
  Faults,             \* what may fail: see FaultKinds
  Signals             \* the signals sent to the program, each at most once

FaultKinds == {"setup",   \* options, affinity, calloc, the first two fd pairs
               "malloc", "pair", "create", "fifo",
               "io",      \* main cannot read or write a barrier byte
               "worker"}  \* a worker barfs, or its small stack overflows

ASSUME CountsAssumption == /\ NumGroups \in Nat \ {0} /\ NumFds \in Nat \ {0}
                           /\ Loops \in Nat \ {0} /\ Cap \in Nat \ {0}
                           /\ UIntBits \in Nat \ {0}
ASSUME FaultsAssumption == Faults \subseteq FaultKinds /\ Signals \subseteq {"TERM", "INT"}

GroupSize  == 2 * NumFds
NumWorkers == NumGroups * GroupSize
Worker     == 0 .. NumWorkers - 1
GroupOf(w) == w \div GroupSize
Receiver   == {w \in Worker : w % GroupSize < NumFds}

VARIABLES
  pc, i,          \* where main is, and the counter of its loop
  created,        \* workers created so far in the group under construction
  total_children, \* workers of the groups that are complete
  totchld,        \* the argument of the running reap_workers
  failing,        \* main exits with status 1 once it has reaped
  handler,        \* what a signal does to the process
  signal_caught, timer_started, status,
  thread,         \* where each worker is
  announced,      \* the workers whose byte went into the ready pair
  woken,          \* a byte is in the wake pair
  moved, queue,   \* messages of each worker, and in the socket of each receiver
  sent            \* signals the environment has sent

groupVars  == <<created, total_children>>
exitVars   == <<failing, signal_caught, timer_started>>
workerVars == <<thread, announced, woken, moved, queue>>
vars == <<pc, i, groupVars, totchld, exitVars, handler, status, workerVars, sent>>

TypeOK ==
  /\ pc \in {"init", "armed", "spawn", "ready", "kick", "jumped", "signal", "join", "exited"}
  /\ i \in 0 .. NumWorkers /\ created \in 0 .. GroupSize
  /\ total_children \in 0 .. NumWorkers /\ totchld \in 0 .. NumWorkers
  /\ handler \in [{"TERM", "INT"} -> {"default", "sigcatcher", "ignore"}]
  /\ failing \in BOOLEAN /\ signal_caught \in BOOLEAN /\ timer_started \in BOOLEAN
  /\ status \in {"running", "ok", "failed", "killed"}
  /\ thread \in [Worker -> {"none", "created", "reset", "polling", "running", "returned", "joined"}]
  /\ announced \subseteq Worker /\ woken \in BOOLEAN
  /\ moved \in [Worker -> Nat] /\ queue \in [Receiver -> 0 .. Cap]
  /\ sent \subseteq Signals

Init ==
  /\ pc = "init" /\ i = 0 /\ created = 0 /\ total_children = 0 /\ totchld = 0
  /\ failing = FALSE /\ signal_caught = FALSE /\ timer_started = FALSE
  /\ handler = [s \in {"TERM", "INT"} |-> "default"] /\ status = "running"
  /\ thread = [w \in Worker |-> "none"]
  /\ announced = {} /\ woken = FALSE
  /\ moved = [w \in Worker |-> 0] /\ queue = [r \in Receiver |-> 0]
  /\ sent = {}

----------------------------------------------------------------------------
(* Main: start, groups and barrier.                                         *)

\* The end of the process, and of all its threads.
Exit(how) == pc' = "exited" /\ status' = how

SetupFails ==
  /\ pc = "init" /\ "setup" \in Faults /\ Exit("failed")
  /\ UNCHANGED <<i, groupVars, totchld, exitVars, handler, workerVars, sent>>

InstallHandlers ==
  /\ pc = "init" /\ pc' = "armed"
  /\ handler' = [s \in {"TERM", "INT"} |-> "sigcatcher"]
  /\ UNCHANGED <<i, groupVars, totchld, exitVars, status, workerVars, sent>>

SetJmp ==
  /\ pc = "armed" /\ pc' = "spawn" /\ i' = 0 /\ total_children' = 0
  /\ UNCHANGED <<created, totchld, exitVars, handler, status, workerVars, sent>>

\* reap_workers, with the handlers h; it ignores SIGTERM while it kills.
ReapWorkers(n, dokill, h) ==
  /\ totchld' = n /\ i' = 0
  /\ pc' = IF dokill THEN "signal" ELSE "join"
  /\ handler' = IF dokill THEN [h EXCEPT !["TERM"] = "ignore"] ELSE h

InGroup == pc = "spawn" /\ i < NumGroups /\ created < GroupSize

CreateWorker ==
  /\ InGroup
  /\ thread' = [thread EXCEPT ![total_children + created] = "created"]
  /\ created' = created + 1
  /\ UNCHANGED <<pc, i, total_children, totchld, exitVars, handler, status,
                 announced, woken, moved, queue, sent>>

StartedAndFailed(n) == n + 1  \* mutant: the failed entry is counted too
Started(n) == IF n > 0 THEN n - 1 ELSE 0

GroupFails ==
  /\ InGroup /\ ("create" \in Faults \/ ("malloc" \in Faults /\ created < NumFds))
  /\ ReapWorkers(total_children + Started(created), TRUE, handler)
  /\ failing' = TRUE
  /\ UNCHANGED <<groupVars, signal_caught, timer_started, status, workerVars, sent>>

\* No fd pair for the next receiver: barf.
PairFails ==
  /\ InGroup /\ created < NumFds /\ "pair" \in Faults /\ Exit("failed")
  /\ UNCHANGED <<i, groupVars, totchld, exitVars, handler, workerVars, sent>>

GroupReturns ==
  /\ pc = "spawn" /\ i < NumGroups /\ created = GroupSize
  /\ total_children' = total_children + GroupSize /\ i' = i + 1 /\ created' = 0
  /\ UNCHANGED <<pc, totchld, exitVars, handler, status, workerVars, sent>>

Spawned ==
  /\ pc = "spawn" /\ i = NumGroups
  /\ \/ pc' = "ready" /\ i' = 0 /\ UNCHANGED status
     \/ "fifo" \in Faults /\ Exit("failed") /\ UNCHANGED i
  /\ UNCHANGED <<groupVars, totchld, exitVars, handler, workerVars, sent>>

BytesReady    == Cardinality(announced)

ReadReady ==
  /\ pc = "ready" /\ i < total_children /\ BytesReady > i
  /\ i' = i + 1
  /\ UNCHANGED <<pc, groupVars, totchld, exitVars, handler, status, workerVars, sent>>

StartTimer ==
  /\ pc = "ready" /\ i = total_children
  /\ timer_started' = TRUE /\ pc' = "kick"
  /\ UNCHANGED <<i, groupVars, totchld, failing, signal_caught, handler, status, workerVars, sent>>

Kick ==
  /\ pc = "kick" /\ woken' = TRUE
  /\ ReapWorkers(total_children, signal_caught, handler)
  /\ UNCHANGED <<groupVars, exitVars, status, thread, announced, moved, queue, sent>>

BarrierFails ==
  /\ "io" \in Faults /\ (pc = "kick" \/ (pc = "ready" /\ i < total_children))
  /\ ReapWorkers(total_children, TRUE, handler)
  /\ failing' = TRUE
  /\ UNCHANGED <<groupVars, signal_caught, timer_started, status, workerVars, sent>>

----------------------------------------------------------------------------
(* Main: clean-up.                                                          *)

LongJmped ==
  /\ pc = "jumped"
  /\ timer_started' \in {timer_started, FALSE}
  /\ ReapWorkers(total_children, signal_caught, [s \in {"TERM", "INT"} |-> "ignore"])
  /\ UNCHANGED <<groupVars, failing, signal_caught, status, workerVars, sent>>

\* kill() of every .pid: whatever process half of a pthread_t names, if any.  No
\* worker gets a signal.
SignalWorkers ==
  /\ pc = "signal" /\ pc' = "join" /\ i' = 0
  /\ UNCHANGED <<groupVars, totchld, exitVars, handler, status, workerVars, sent>>

\* pthread_join blocks until this worker has returned.
Join ==
  /\ pc = "join" /\ i < totchld /\ thread[i] = "returned"
  /\ thread' = [thread EXCEPT ![i] = "joined"] /\ i' = i + 1
  /\ UNCHANGED <<pc, groupVars, totchld, exitVars, handler, status,
                 announced, woken, moved, queue, sent>>

Reaped ==
  /\ pc = "join" /\ i = totchld
  /\ Exit(IF failing THEN "failed" ELSE "ok")
  /\ UNCHANGED <<i, groupVars, totchld, exitVars, handler, workerVars, sent>>

MainStep ==
  \/ SetupFails \/ InstallHandlers \/ SetJmp
  \/ CreateWorker \/ GroupFails \/ PairFails \/ GroupReturns \/ Spawned
  \/ ReadReady \/ StartTimer \/ Kick \/ BarrierFails
  \/ LongJmped \/ SignalWorkers \/ Join \/ Reaped

----------------------------------------------------------------------------
(* The workers.                                                             *)

KeepHandlers  == UNCHANGED handler  \* mutant: a thread leaves the handlers alone
ResetHandlers == handler' = [s \in {"TERM", "INT"} |-> "default"]

ResetSignals(w) ==
  /\ thread[w] = "created" /\ thread' = [thread EXCEPT ![w] = "reset"]
  /\ ResetHandlers
  /\ UNCHANGED <<announced, woken, moved, queue>>

Announce(w) ==
  /\ thread[w] = "reset" /\ thread' = [thread EXCEPT ![w] = "polling"]
  /\ announced' = announced \cup {w}
  /\ UNCHANGED <<handler, woken, moved, queue>>

PollTimesOut == TRUE  \* mutant: poll with a timeout whose result is not checked
Readable     == woken

TakeWakeByte  == woken' = FALSE  \* mutant: a worker reads the byte it polled for
LeaveWakeByte == UNCHANGED woken

Wake(w) ==
  /\ thread[w] = "polling" /\ Readable
  /\ thread' = [thread EXCEPT ![w] = "running"] /\ LeaveWakeByte
  /\ UNCHANGED <<handler, announced, moved, queue>>

\* num_fds*loops in unsigned int, only then widened to 64 bits.
OnePacketShort == (NumFds * Loops - 1) % 2^UIntBits  \* mutant: i starts at 1
NumPackets     == (NumFds * Loops) % 2^UIntBits

Goal(w)   == IF w \in Receiver THEN NumPackets ELSE Loops * NumFds
Target(w) == GroupOf(w) * GroupSize + (moved[w] % NumFds)

HasRoom(r)   == queue[r] < Cap

Send(w) ==
  /\ thread[w] = "running" /\ w \notin Receiver /\ moved[w] < Goal(w) /\ HasRoom(Target(w))
  /\ queue' = [queue EXCEPT ![Target(w)] = @ + 1]
  /\ moved' = [moved EXCEPT ![w] = @ + 1]
  /\ UNCHANGED <<handler, thread, announced, woken>>

Receive(w) ==
  /\ thread[w] = "running" /\ w \in Receiver /\ moved[w] < Goal(w) /\ queue[w] > 0
  /\ queue' = [queue EXCEPT ![w] = @ - 1]
  /\ moved' = [moved EXCEPT ![w] = @ + 1]
  /\ UNCHANGED <<handler, thread, announced, woken>>

Return(w) ==
  /\ thread[w] = "running" /\ moved[w] = Goal(w)
  /\ thread' = [thread EXCEPT ![w] = "returned"]
  /\ UNCHANGED <<handler, announced, woken, moved, queue>>

WorkerStep(w) ==
  /\ pc # "exited"
  /\ ResetSignals(w) \/ Announce(w) \/ Wake(w) \/ Send(w) \/ Receive(w) \/ Return(w)
  /\ UNCHANGED <<pc, i, groupVars, totchld, exitVars, status, sent>>

\* barf calls exit for all of them; datasize bytes may not fit PTHREAD_STACK_MIN.
WorkerFails(w) ==
  /\ "worker" \in Faults /\ pc # "exited" /\ thread[w] \in {"reset", "polling", "running"}
  /\ \E how \in {"failed", "killed"} : Exit(how)
  /\ UNCHANGED <<i, groupVars, totchld, exitVars, handler, workerVars, sent>>

\* A signal to the process, taken by its main thread, which blocks none: a longjmp
\* through an unset jmpbuf is taken to end the program.
Signal(s) ==
  /\ pc # "exited" /\ s \notin sent /\ sent' = sent \cup {s}
  /\ \/ handler[s] = "ignore" /\ UNCHANGED <<pc, handler, failing, signal_caught, status>>
     \/ handler[s] = "default" /\ Exit("killed") /\ UNCHANGED <<handler, failing, signal_caught>>
     \/ /\ handler[s] = "sigcatcher"
        /\ signal_caught' = TRUE /\ handler' = [handler EXCEPT ![s] = "ignore"]
        /\ IF pc = "armed" THEN Exit("killed") /\ UNCHANGED failing
           ELSE pc' = "jumped" /\ failing' = FALSE /\ UNCHANGED status
  /\ UNCHANGED <<i, groupVars, totchld, timer_started, workerVars>>

Next == \/ MainStep
        \/ \E w \in Worker : WorkerStep(w) \/ WorkerFails(w)
        \/ \E s \in Signals : Signal(s)

Spec == Init /\ [][Next]_vars

\* The kernel runs every thread that can run.
FairSpec == Spec /\ WF_vars(MainStep) /\ \A w \in Worker : WF_vars(WorkerStep(w))

----------------------------------------------------------------------------
(* Properties.                                                              *)

\* No worker sends or receives, and no timer runs, before every worker of every group
\* has announced itself: the barrier holds for threads, whatever jumps main makes.
StartTogether ==
  timer_started \/ (\E w \in Worker : thread[w] = "running") => announced = Worker

\* pthread_join is called once for each worker that was created, and for nothing
\* else, although reap_workers can be entered twice.
JoinsOwnThreads == pc = "join" /\ i < totchld => thread[i] \notin {"none", "joined"}

\* Once the load runs, SIGTERM and SIGINT end it at once: nothing that main has
\* installed or ignored is left when the last worker has reset it.
Stoppable == woken => \A s \in {"TERM", "INT"} : handler[s] = "default"

\* num_fds*loops does not wrap.
Fits == NumFds * Loops < 2^UIntBits

\* A run that no signal cut short has passed every message to its receiver, if the
\* receivers can count that far.
FiniteDelivery ==
  Fits /\ status = "ok" /\ ~signal_caught =>
    (\A w \in Worker : moved[w] = Loops * NumFds) /\ (\A r \in Receiver : queue[r] = 0)

\* There is one place where it can wait for ever, whatever fails and whichever
\* signals come: once a failure or a signal has kept main from opening the barrier,
\* joining a worker that waits there.
HangsOnlyAtBarrier ==
  Fits => []<>(pc = "exited" \/ (pc = "join" /\ ~woken /\ (failing \/ signal_caught)))
============================================================================
