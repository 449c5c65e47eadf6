------------------------- MODULE ToyHackbenchProofs -------------------------
(***************************************************************************)
(* What holds of ToyHackbench for every number of groups, sockets and      *)
(* messages, every socket size and every choice of faults and signals.     *)
(***************************************************************************)
EXTENDS ToyHackbench, FiniteSetTheorems, TLAPS

\* Operators that have a name of their own for the mutants only.
USE DEF BytesReady, ResetHandlers, Readable, LeaveWakeByte, HasRoom

----------------------------------------------------------------------------
(* The inductive invariant.                                                 *)

Kinds == {"TERM", "INT"}

\* The workers that have taken main's handlers away, and those that have announced
\* themselves.
HasReset     == {"reset", "polling", "running", "returned", "joined"}
HasAnnounced == {"polling", "running", "returned", "joined"}
HasRun       == {"running", "returned", "joined"}

\* The counters of the group loop: total_children and created count the workers that
\* were created, and reap_workers is never asked for more.
CountersInv ==
  /\ pc \in {"init", "armed"} => total_children = 0 /\ created = 0
  /\ total_children + created <= NumWorkers
  /\ pc = "spawn" => /\ i <= NumGroups /\ total_children = i * GroupSize
                     /\ i = NumGroups => created = 0
  /\ pc \in {"ready", "kick"} => total_children = NumWorkers /\ created = 0
  /\ totchld <= total_children + created
  /\ \A w \in Worker : thread[w] = "none" <=> w >= total_children + created

\* The barrier, and who is past it.
BarrierInv ==
  /\ announced = {w \in Worker : thread[w] \in HasAnnounced}
  /\ pc = "ready" => i <= Cardinality(announced)
  /\ pc = "kick" \/ timer_started \/ woken => announced = Worker
  /\ \A w \in Worker : thread[w] \in HasRun => woken

\* Whoever has been signalled never opens the barrier, and once it is open no signal
\* leads back into reap_workers: the last worker has reset the handlers.
HandlerInv ==
  /\ signal_caught => pc \in {"jumped", "signal", "join", "exited"}
  /\ woken => pc \in {"join", "exited"}
  /\ pc \in {"spawn", "ready", "kick"} /\ (\A w \in Worker : thread[w] \in HasReset) =>
       \A s \in Kinds : handler[s] = "default"
  /\ woken => \A s \in Kinds : handler[s] = "default"

\* Joined are the workers below main's counter and no others.
JoinInv ==
  /\ \A w \in Worker : thread[w] = "joined" => pc \in {"join", "exited"} /\ w < i
  /\ pc = "join" => i <= totchld /\ \A w \in Worker : w < i => thread[w] = "joined"

ToyInv == TypeOK /\ CountersInv /\ BarrierInv /\ HandlerInv /\ JoinInv

----------------------------------------------------------------------------
(* Arithmetic on the sizes.                                                 *)

\* Products grow with their factors.
LEMMA TimesMonotone ==
  ASSUME NEW a \in Nat, NEW b \in Nat, NEW c \in Nat, a <= b
  PROVE  a * c <= b * c
OBVIOUS

\* There is a group and a worker at least, and a group has as many senders as receivers.
LEMMA Sizes ==
  /\ NumGroups \in Nat \ {0} /\ NumFds \in Nat \ {0}
  /\ GroupSize \in Nat \ {0} /\ NumWorkers \in Nat \ {0}
  /\ NumGroups <= NumWorkers /\ NumWorkers = NumGroups * GroupSize
  /\ GroupSize = NumFds + NumFds
<1>1. GroupSize \in Nat \ {0} /\ GroupSize = NumFds + NumFds
  BY CountsAssumption DEF GroupSize
<1>2. NumGroups * 1 <= NumGroups * GroupSize
  BY <1>1, CountsAssumption, TimesMonotone
<1>3. NumGroups * GroupSize \in Nat
  BY <1>1, CountsAssumption
<1>4. QED
  BY <1>1, <1>2, <1>3, CountsAssumption DEF NumWorkers

\* A further group fits as long as the loop has not ended.
LEMMA GroupFits ==
  ASSUME NEW g \in Nat, g < NumGroups
  PROVE  /\ g * GroupSize \in Nat /\ (g + 1) * GroupSize = g * GroupSize + GroupSize
         /\ g * GroupSize + GroupSize <= NumWorkers
<1>1. (g + 1) * GroupSize = g * GroupSize + GroupSize /\ g * GroupSize \in Nat
  BY Sizes
<1>2. (g + 1) * GroupSize <= NumGroups * GroupSize
  BY Sizes, TimesMonotone
<1>3. QED
  BY <1>1, <1>2, Sizes

\* The workers are as many as NumWorkers says.
LEMMA WorkerFinite == IsFiniteSet(Worker) /\ Cardinality(Worker) = NumWorkers
<1>1. NumWorkers - 1 \in Int /\ ~(0 > NumWorkers - 1)
  BY Sizes
<1>2. IsFiniteSet(0 .. NumWorkers - 1)
      /\ Cardinality(0 .. NumWorkers - 1) = (NumWorkers - 1) - 0 + 1
  BY <1>1, FS_Interval
<1>3. QED
  BY <1>1, <1>2, Sizes DEF Worker

\* As many bytes as there are workers: all have announced themselves.
LEMMA AllAnnounced ==
  ASSUME announced \subseteq Worker
  PROVE  /\ Cardinality(announced) \in Nat
         /\ Cardinality(announced) >= NumWorkers => announced = Worker
<1>1. /\ Cardinality(announced) \in Nat /\ Cardinality(announced) <= Cardinality(Worker)
      /\ Cardinality(Worker) = Cardinality(announced) => Worker = announced
  BY WorkerFinite, FS_Subset, FS_CardinalityType
<1>2. QED
  BY <1>1, WorkerFinite, Sizes

\* Groups are intervals of workers.
LEMMA GroupBegins ==
  ASSUME NEW w \in Worker
  PROVE  /\ w \in Nat /\ w < NumWorkers
         /\ GroupOf(w) \in Nat /\ GroupOf(w) * GroupSize \in Nat
         /\ w % GroupSize \in 0 .. GroupSize - 1
         /\ w = GroupOf(w) * GroupSize + (w % GroupSize)
<1>1. w \in Nat /\ w < NumWorkers
  BY Sizes DEF Worker
<1>2. /\ w \div GroupSize \in Nat
      /\ w = GroupSize * (w \div GroupSize) + (w % GroupSize)
      /\ 0 <= w % GroupSize /\ w % GroupSize < GroupSize
  BY <1>1, Sizes
<1>3. GroupSize * (w \div GroupSize) = (w \div GroupSize) * GroupSize
      /\ (w \div GroupSize) * GroupSize \in Nat
  BY <1>2, Sizes
<1>4. QED
  BY <1>1, <1>2, <1>3, Sizes DEF GroupOf

\* A worker's group is one of those that are created.
LEMMA GroupExists ==
  ASSUME NEW w \in Worker
  PROVE  /\ GroupOf(w) < NumGroups
         /\ GroupOf(w) * GroupSize + GroupSize <= NumWorkers
<1>1. GroupOf(w) < NumGroups
  <2> SUFFICES ASSUME ~(GroupOf(w) < NumGroups) PROVE FALSE
    OBVIOUS
  <2>1. NumGroups * GroupSize <= GroupOf(w) * GroupSize
    BY GroupBegins, Sizes, TimesMonotone
  <2>2. QED
    BY <2>1, GroupBegins, Sizes
<1>2. QED
  BY <1>1, GroupBegins, GroupFits

\* A number in a group names its group and its place in it.
LEMMA PlaceInGroup ==
  ASSUME NEW w \in Worker, NEW j \in Nat, j < GroupSize
  PROVE  /\ GroupOf(w) * GroupSize + j \in Worker
         /\ GroupOf(GroupOf(w) * GroupSize + j) = GroupOf(w)
         /\ (GroupOf(w) * GroupSize + j) % GroupSize = j
<1> DEFINE x == GroupOf(w) * GroupSize + j
<1>1. /\ GroupOf(w) \in Nat /\ GroupOf(w) * GroupSize \in Nat
      /\ GroupOf(w) * GroupSize + GroupSize <= NumWorkers
  BY GroupBegins, GroupExists
<1>2. x \in Worker
  BY <1>1, Sizes DEF Worker
<1>6. x = GroupOf(w) * GroupSize + j
  OBVIOUS
<1> HIDE DEF x
<1>3. x = GroupOf(x) * GroupSize + (x % GroupSize) /\ GroupOf(x) \in Nat
      /\ GroupOf(x) * GroupSize \in Nat /\ x % GroupSize \in 0 .. GroupSize - 1
  BY <1>2, GroupBegins
<1>4. GroupOf(x) = GroupOf(w)
  <2> DEFINE g == GroupOf(x)
             h == GroupOf(w)
  <2>4. /\ g \in Nat /\ h \in Nat /\ g * GroupSize \in Nat /\ h * GroupSize \in Nat
        /\ x = h * GroupSize + j /\ g * GroupSize <= x /\ x < g * GroupSize + GroupSize
    BY <1>1, <1>3, <1>6, Sizes
  <2> HIDE DEF g, h
  <2>1. CASE g + 1 <= h
    <3>1. (g + 1) * GroupSize <= h * GroupSize
      BY <2>1, <2>4, Sizes, TimesMonotone
    <3>2. (g + 1) * GroupSize = g * GroupSize + GroupSize
      BY <2>4, Sizes
    <3>3. QED
      BY <2>4, <3>1, <3>2, Sizes
  <2>2. CASE h + 1 <= g
    <3>1. (h + 1) * GroupSize <= g * GroupSize
      BY <2>2, <2>4, Sizes, TimesMonotone
    <3>2. (h + 1) * GroupSize = h * GroupSize + GroupSize
      BY <2>4, Sizes
    <3>3. QED
      BY <2>4, <3>1, <3>2, Sizes
  <2>3. CASE g = h
    BY <2>3 DEF g, h
  <2>5. QED
    BY <2>1, <2>2, <2>3, <2>4
<1>5. x % GroupSize = j
  BY <1>1, <1>3, <1>4, <1>6, Sizes
<1>7. QED
  BY <1>2, <1>4, <1>5 DEF x

\* Where a sender's next message goes: to a receiver of its group.
LEMMA TargetIs ==
  ASSUME NEW w \in Worker, moved[w] \in Nat
  PROVE  /\ Target(w) \in Receiver /\ Target(w) \in Worker
         /\ GroupOf(Target(w)) = GroupOf(w)
         /\ Target(w) % GroupSize = moved[w] % NumFds
<1>1. moved[w] % NumFds \in Nat /\ moved[w] % NumFds < NumFds /\ moved[w] % NumFds < GroupSize
  BY Sizes
<1>2. QED
  BY <1>1, PlaceInGroup DEF Target, Receiver

----------------------------------------------------------------------------
(* Types.                                                                   *)

\* The steps of main keep the types.
LEMMA TypeMain ==
  ASSUME TypeOK, CountersInv, MainStep
  PROVE  TypeOK'
<1> USE Sizes DEF TypeOK, groupVars, exitVars, workerVars
<1>1. CASE SetupFails
  BY <1>1 DEF SetupFails, Exit
<1>2. CASE InstallHandlers
  BY <1>2 DEF InstallHandlers
<1>3. CASE SetJmp
  BY <1>3 DEF SetJmp
<1>4. CASE CreateWorker
  <2>1. created' \in 0 .. GroupSize
    BY <1>4 DEF CreateWorker, InGroup
  <2>2. thread' \in [Worker -> {"none", "created", "reset", "polling", "running", "returned", "joined"}]
    BY <1>4 DEF CreateWorker
  <2>3. QED
    BY <1>4, <2>1, <2>2 DEF CreateWorker
<1>5. CASE GroupFails
  <2>1. total_children + Started(created) \in 0 .. NumWorkers
    BY <1>5 DEF Started, CountersInv
  <2>2. handler' \in [{"TERM", "INT"} -> {"default", "sigcatcher", "ignore"}]
    BY <1>5 DEF GroupFails, ReapWorkers
  <2>3. QED
    BY <1>5, <2>1, <2>2 DEF GroupFails, ReapWorkers
<1>6. CASE PairFails
  BY <1>6 DEF PairFails, Exit
<1>7. CASE GroupReturns
  <2>1. total_children + GroupSize <= NumWorkers /\ i + 1 \in 0 .. NumWorkers
    BY <1>7, GroupFits DEF GroupReturns, CountersInv
  <2>2. QED
    BY <1>7, <2>1 DEF GroupReturns
<1>8. CASE Spawned
  BY <1>8 DEF Spawned, Exit
<1>9. CASE ReadReady
  BY <1>9 DEF ReadReady
<1>10. CASE StartTimer
  BY <1>10 DEF StartTimer
<1>11. CASE Kick \/ BarrierFails
  <2>1. handler' \in [{"TERM", "INT"} -> {"default", "sigcatcher", "ignore"}]
    BY <1>11 DEF Kick, BarrierFails, ReapWorkers
  <2>2. pc' \in {"signal", "join"} /\ i' = 0 /\ totchld' = total_children
    BY <1>11 DEF Kick, BarrierFails, ReapWorkers
  <2>3. CASE Kick
    BY <2>1, <2>2, <2>3 DEF Kick
  <2>4. CASE BarrierFails
    BY <2>1, <2>2, <2>4 DEF BarrierFails
  <2>5. QED
    BY <1>11, <2>3, <2>4
<1>12. CASE LongJmped
  <2>1. handler' \in [{"TERM", "INT"} -> {"default", "sigcatcher", "ignore"}]
    BY <1>12 DEF LongJmped, ReapWorkers
  <2>2. timer_started' \in BOOLEAN
    BY <1>12 DEF LongJmped
  <2>3. QED
    BY <1>12, <2>1, <2>2 DEF LongJmped, ReapWorkers
<1>13. CASE SignalWorkers
  BY <1>13 DEF SignalWorkers
<1>14. CASE Join
  <2>1. i + 1 \in 0 .. NumWorkers
    BY <1>14 DEF Join
  <2>2. thread' \in [Worker -> {"none", "created", "reset", "polling", "running", "returned", "joined"}]
    BY <1>14 DEF Join
  <2>3. QED
    BY <1>14, <2>1, <2>2 DEF Join
<1>15. CASE Reaped
  BY <1>15 DEF Reaped, Exit
<1>16. QED
  BY <1>1, <1>2, <1>3, <1>4, <1>5, <1>6, <1>7, <1>8, <1>9, <1>10, <1>11, <1>12, <1>13,
     <1>14, <1>15 DEF MainStep

\* What a step of a worker may change: its own place, and with it the handlers,
\* the ready bytes or the messages.
LEMMA WorkerFrame ==
  ASSUME TypeOK, NEW w \in Worker, WorkerStep(w) \/ WorkerFails(w)
  PROVE  /\ UNCHANGED <<i, groupVars, totchld, exitVars, woken, sent>>
         /\ pc' \in {pc, "exited"}
         /\ \A x \in Worker : x # w => thread'[x] = thread[x]
         /\ \/ UNCHANGED <<thread, announced, handler>>
            \/ /\ thread[w] = "created" /\ thread'[w] = "reset" /\ UNCHANGED announced
               /\ handler' = [s \in Kinds |-> "default"]
            \/ /\ thread[w] = "reset" /\ thread'[w] = "polling" /\ UNCHANGED handler
               /\ announced' = announced \cup {w}
            \/ /\ thread[w] = "polling" /\ thread'[w] = "running" /\ woken
               /\ UNCHANGED <<announced, handler>>
            \/ /\ thread[w] = "running" /\ thread'[w] = "returned"
               /\ UNCHANGED <<announced, handler>>
<1> USE DEF TypeOK, groupVars, exitVars, workerVars, Kinds
<1>1. CASE WorkerFails(w)
  BY <1>1 DEF WorkerFails, Exit
<1>2. CASE ResetSignals(w) /\ WorkerStep(w)
  BY <1>2 DEF ResetSignals, WorkerStep
<1>3. CASE Announce(w) /\ WorkerStep(w)
  BY <1>3 DEF Announce, WorkerStep
<1>4. CASE Wake(w) /\ WorkerStep(w)
  BY <1>4 DEF Wake, WorkerStep
<1>5. CASE (Send(w) \/ Receive(w)) /\ WorkerStep(w)
  BY <1>5 DEF Send, Receive, WorkerStep
<1>6. CASE Return(w) /\ WorkerStep(w)
  BY <1>6 DEF Return, WorkerStep
<1>7. QED
  BY <1>1, <1>2, <1>3, <1>4, <1>5, <1>6 DEF WorkerStep

\* The steps of a worker keep the types.
LEMMA TypeWorker ==
  ASSUME TypeOK, NEW w \in Worker, WorkerStep(w) \/ WorkerFails(w)
  PROVE  TypeOK'
<1> USE DEF TypeOK
<1>1. /\ pc' \in {"init", "armed", "spawn", "ready", "kick", "jumped", "signal", "join", "exited"}
      /\ status' \in {"running", "ok", "failed", "killed"}
      /\ handler' \in [{"TERM", "INT"} -> {"default", "sigcatcher", "ignore"}]
      /\ announced' \subseteq Worker
      /\ UNCHANGED <<i, groupVars, totchld, exitVars, woken, sent>>
  BY WorkerFrame DEF WorkerStep, WorkerFails, Exit, Kinds, exitVars
<1>2. thread' \in [Worker -> {"none", "created", "reset", "polling", "running", "returned", "joined"}]
  BY DEF WorkerStep, WorkerFails, ResetSignals, Announce, Wake, Send, Receive, Return, workerVars
<1>3. moved' \in [Worker -> Nat] /\ queue' \in [Receiver -> 0 .. Cap]
  <2>1. CASE Send(w)
    <3>1. moved' \in [Worker -> Nat]
      BY <2>1 DEF Send
    <3>2. queue[Target(w)] \in 0 .. Cap /\ queue[Target(w)] < Cap
      BY <2>1, TargetIs DEF Send
    <3>3. queue[Target(w)] + 1 \in 0 .. Cap
      BY <3>2, CountsAssumption
    <3>4. queue' = [queue EXCEPT ![Target(w)] = queue[Target(w)] + 1]
      BY <2>1 DEF Send
    <3>5. queue' \in [Receiver -> 0 .. Cap]
      BY <3>3, <3>4
    <3>6. QED
      BY <3>1, <3>5
  <2>2. CASE Receive(w)
    <3>1. moved' \in [Worker -> Nat]
      BY <2>2 DEF Receive
    <3>2. queue[w] - 1 \in 0 .. Cap
      BY <2>2, CountsAssumption DEF Receive
    <3>3. queue' = [queue EXCEPT ![w] = queue[w] - 1]
      BY <2>2 DEF Receive
    <3>4. QED
      BY <3>1, <3>2, <3>3
  <2>3. CASE UNCHANGED <<moved, queue>>
    BY <2>3
  <2>4. QED
    BY <2>1, <2>2, <2>3
       DEF WorkerStep, WorkerFails, ResetSignals, Announce, Wake, Return, workerVars
<1>4. QED
  BY <1>1, <1>2, <1>3 DEF groupVars, exitVars

\* What a signal may do.
LEMMA SignalFrame ==
  ASSUME TypeOK, NEW s \in Signals, Signal(s)
  PROVE  /\ UNCHANGED <<i, groupVars, totchld, timer_started, workerVars>> /\ pc # "exited"
         /\ s \in Kinds /\ sent' = sent \cup {s}
         /\ \/ UNCHANGED <<pc, handler, failing, signal_caught, status>>
            \/ pc' = "exited" /\ status' = "killed" /\ UNCHANGED <<failing, handler, signal_caught>>
            \/ /\ handler[s] = "sigcatcher" /\ handler' = [handler EXCEPT ![s] = "ignore"]
               /\ signal_caught' = TRUE
               /\ \/ pc = "armed" /\ pc' = "exited" /\ status' = "killed" /\ UNCHANGED failing
                  \/ pc # "armed" /\ pc' = "jumped" /\ failing' = FALSE /\ UNCHANGED status
<1>1. s \in Kinds
  BY FaultsAssumption DEF Kinds
<1>2. QED
  BY <1>1 DEF Signal, Exit

\* A signal keeps the types.
LEMMA TypeSignal ==
  ASSUME TypeOK, NEW s \in Signals, Signal(s)
  PROVE  TypeOK'
<1>1. handler' \in [Kinds -> {"default", "sigcatcher", "ignore"}]
  <2>1. handler \in [Kinds -> {"default", "sigcatcher", "ignore"}] /\ s \in Kinds
    BY SignalFrame DEF TypeOK, Kinds
  <2>2. handler' = handler \/ handler' = [handler EXCEPT ![s] = "ignore"]
    BY SignalFrame
  <2>3. QED
    BY <2>1, <2>2
<1>2. sent' \subseteq Signals
  BY SignalFrame DEF TypeOK
<1>3. /\ pc' \in {pc, "exited", "jumped"} /\ failing' \in BOOLEAN /\ signal_caught' \in BOOLEAN
      /\ status' \in {"running", "ok", "failed", "killed"}
      /\ UNCHANGED <<i, groupVars, totchld, timer_started, workerVars>>
  BY SignalFrame DEF TypeOK
<1>4. pc' \in {"init", "armed", "spawn", "ready", "kick", "jumped", "signal", "join", "exited"}
  BY <1>3 DEF TypeOK
<1>5. QED
  BY <1>1, <1>2, <1>3, <1>4 DEF TypeOK, Kinds, groupVars, workerVars

----------------------------------------------------------------------------
(* The steps of main keep the invariant.                                    *)

\* The counters.
LEMMA CountersMain ==
  ASSUME TypeOK, CountersInv, MainStep
  PROVE  CountersInv'
<1> USE Sizes DEF CountersInv, groupVars, exitVars, workerVars
<1>1. CASE SetupFails \/ InstallHandlers \/ PairFails
  BY <1>1 DEF SetupFails, InstallHandlers, PairFails, Exit
<1>2. CASE SetJmp
  BY <1>2 DEF SetJmp
<1>3. CASE CreateWorker
  <2>1. /\ total_children = i * GroupSize /\ i \in Nat /\ i < NumGroups
        /\ created \in Nat /\ created < GroupSize /\ total_children \in Nat
    BY <1>3 DEF CreateWorker, InGroup, TypeOK
  <2>2. total_children + created < NumWorkers
    BY <2>1, GroupFits
  <2>3. total_children + created \in Worker
    BY <2>1, <2>2 DEF Worker
  <2>4. /\ thread' = [thread EXCEPT ![total_children + created] = "created"]
        /\ total_children' + created' = total_children + created + 1
        /\ UNCHANGED <<pc, i, total_children, totchld>> /\ pc = "spawn" /\ i # NumGroups
    BY <1>3, <2>1 DEF CreateWorker, InGroup
  <2>5. \A w \in Worker : thread'[w] = "none" <=> w >= total_children + created + 1
    BY <2>1, <2>3, <2>4 DEF TypeOK, Worker
  <2>6. totchld <= total_children + created + 1
    BY <2>1 DEF TypeOK
  <2>7. QED
    BY <2>1, <2>2, <2>4, <2>5, <2>6
<1>4. CASE GroupFails
  <2>1. total_children + Started(created) <= total_children + created
    BY DEF Started, TypeOK
  <2>2. QED
    BY <1>4, <2>1 DEF GroupFails, ReapWorkers
<1>5. CASE GroupReturns
  <2>1. /\ total_children = i * GroupSize /\ i \in Nat /\ i < NumGroups /\ created = GroupSize
    BY <1>5 DEF GroupReturns, TypeOK
  <2>2. /\ total_children' = total_children + GroupSize /\ i' = i + 1 /\ created' = 0 /\ pc' = "spawn"
        /\ UNCHANGED <<totchld, thread>>
    BY <1>5 DEF GroupReturns
  <2>3. total_children' = i' * GroupSize /\ i' <= NumGroups /\ total_children \in Nat
    BY <2>1, <2>2, GroupFits
  <2>4. total_children' + created' = total_children + created
    BY <2>1, <2>2, <2>3
  <2>5. QED
    BY <2>2, <2>3, <2>4
<1>6. CASE Spawned
  <2>1. total_children = NumWorkers /\ created = 0
    BY <1>6 DEF Spawned
  <2>2. QED
    BY <1>6, <2>1 DEF Spawned, Exit
<1>7. CASE ReadReady \/ StartTimer \/ SignalWorkers \/ Reaped
  BY <1>7 DEF ReadReady, StartTimer, SignalWorkers, Reaped, Exit
<1>8. CASE Kick \/ BarrierFails \/ LongJmped
  <2>1. /\ totchld' = total_children /\ pc' \in {"signal", "join"}
        /\ UNCHANGED <<total_children, created, thread>>
    BY <1>8 DEF Kick, BarrierFails, LongJmped, ReapWorkers
  <2>2. total_children <= total_children + created
    BY DEF TypeOK
  <2>3. QED
    BY <2>1, <2>2
<1>9. CASE Join
  <2>1. \A w \in Worker : thread'[w] = "none" <=> thread[w] = "none"
    BY <1>9 DEF Join, TypeOK
  <2>2. QED
    BY <1>9, <2>1 DEF Join
<1>10. QED
  BY <1>1, <1>2, <1>3, <1>4, <1>5, <1>6, <1>7, <1>8, <1>9 DEF MainStep

\* The barrier: main counts the ready bytes of all workers before it opens it.
LEMMA BarrierMain ==
  ASSUME TypeOK, CountersInv, BarrierInv, MainStep
  PROVE  BarrierInv'
<1> USE DEF BarrierInv, HasAnnounced, HasRun, groupVars, exitVars, workerVars
<1>1. CASE SetupFails \/ InstallHandlers \/ SetJmp \/ PairFails \/ GroupReturns
  BY <1>1 DEF SetupFails, InstallHandlers, SetJmp, PairFails, GroupReturns, Exit
<1>2. CASE CreateWorker
  <2>1. thread[total_children + created] = "none"
    <3>1. /\ total_children = i * GroupSize /\ i \in Nat /\ i < NumGroups
          /\ created \in Nat /\ created < GroupSize
      BY <1>2, Sizes DEF CreateWorker, InGroup, TypeOK, CountersInv
    <3>2. total_children + created \in Worker
      BY <3>1, GroupFits, Sizes DEF Worker
    <3>3. total_children + created \in Int
      BY <3>2 DEF Worker
    <3>4. QED
      BY <3>2, <3>3 DEF CountersInv
  <2>2. \A w \in Worker : \/ thread'[w] = thread[w]
                          \/ thread'[w] = "created" /\ thread[w] = "none"
    BY <1>2, <2>1 DEF CreateWorker, TypeOK
  <2>3. {w \in Worker : thread'[w] \in HasAnnounced} = {w \in Worker : thread[w] \in HasAnnounced}
    BY <2>2
  <2>4. QED
    BY <1>2, <2>2, <2>3 DEF CreateWorker, InGroup
<1>3. CASE GroupFails
  BY <1>3 DEF GroupFails, ReapWorkers, InGroup
<1>4. CASE Spawned
  <2>1. Cardinality(announced) >= 0
    BY AllAnnounced DEF TypeOK
  <2>2. QED
    BY <1>4, <2>1 DEF Spawned, Exit
<1>5. CASE ReadReady
  <2>1. i' <= Cardinality(announced)
    BY <1>5, AllAnnounced DEF ReadReady, TypeOK
  <2>2. QED
    BY <1>5, <2>1 DEF ReadReady
<1>6. CASE StartTimer
  <2>1. announced = Worker
    BY <1>6, AllAnnounced, Sizes DEF StartTimer, TypeOK, CountersInv
  <2>2. QED
    BY <1>6, <2>1 DEF StartTimer
<1>7. CASE Kick
  BY <1>7 DEF Kick, ReapWorkers
<1>8. CASE BarrierFails \/ LongJmped
  <2>1. /\ pc' \in {"signal", "join"} /\ UNCHANGED <<thread, announced, woken>>
        /\ timer_started' \in {timer_started, FALSE}
    BY <1>8 DEF BarrierFails, LongJmped, ReapWorkers
  <2>2. announced' = {w \in Worker : thread'[w] \in HasAnnounced}
    BY <2>1
  <2>3. timer_started' => timer_started
    BY <2>1 DEF TypeOK
  <2>4. QED
    BY <2>1, <2>2, <2>3
<1>9. CASE SignalWorkers \/ Reaped
  BY <1>9 DEF SignalWorkers, Reaped, Exit
<1>10. CASE Join
  <2>1. \A w \in Worker : \/ thread'[w] = thread[w]
                          \/ thread'[w] = "joined" /\ thread[w] = "returned"
    BY <1>10 DEF Join, TypeOK
  <2>2. {w \in Worker : thread'[w] \in HasAnnounced} = {w \in Worker : thread[w] \in HasAnnounced}
    BY <2>1
  <2>3. QED
    BY <1>10, <2>1, <2>2 DEF Join
<1>11. QED
  BY <1>1, <1>2, <1>3, <1>4, <1>5, <1>6, <1>7, <1>8, <1>9, <1>10 DEF MainStep

\* The handlers: a main that was signalled does not come back to the barrier, and the
\* one that opens it finds the handlers as the last worker has left them.
LEMMA HandlerMain ==
  ASSUME TypeOK, CountersInv, BarrierInv, HandlerInv, MainStep
  PROVE  HandlerInv'
<1> USE DEF HandlerInv, HasReset, groupVars, exitVars, workerVars
<1>1. CASE SetupFails \/ InstallHandlers \/ PairFails
  BY <1>1 DEF SetupFails, InstallHandlers, PairFails, Exit
<1>2. CASE SetJmp
  <2>1. 0 \in Worker /\ thread[0] = "none"
    BY <1>2, Sizes DEF SetJmp, CountersInv, Worker
  <2>2. QED
    BY <1>2, <2>1 DEF SetJmp
<1>3. CASE CreateWorker
  <2>1. total_children + created \in Worker /\ thread'[total_children + created] = "created"
    <3>1. /\ total_children = i * GroupSize /\ i \in Nat /\ i < NumGroups
          /\ created \in Nat /\ created < GroupSize
      BY <1>3, Sizes DEF CreateWorker, InGroup, TypeOK, CountersInv
    <3>2. total_children + created \in Worker
      BY <3>1, GroupFits, Sizes DEF Worker
    <3>3. QED
      BY <1>3, <3>2 DEF CreateWorker, TypeOK
  <2>2. QED
    BY <1>3, <2>1 DEF CreateWorker, InGroup
<1>4. CASE GroupFails
  BY <1>4 DEF GroupFails, ReapWorkers, InGroup
<1>5. CASE GroupReturns \/ Spawned
  BY <1>5 DEF GroupReturns, Spawned, Exit
<1>6. CASE ReadReady \/ StartTimer
  BY <1>6 DEF ReadReady, StartTimer
<1>7. CASE Kick
  <2>1. ~signal_caught /\ announced = Worker
    BY <1>7 DEF Kick, BarrierInv, TypeOK
  <2>2. \A w \in Worker : thread[w] \in HasReset
    BY <2>1 DEF BarrierInv, HasAnnounced
  <2>3. \A s \in Kinds : handler[s] = "default"
    BY <1>7, <2>2 DEF Kick
  <2>4. pc' = "join" /\ handler' = handler /\ signal_caught' = signal_caught
    BY <1>7, <2>1 DEF Kick, ReapWorkers
  <2>5. QED
    BY <2>1, <2>3, <2>4
<1>8. CASE BarrierFails
  BY <1>8 DEF BarrierFails, ReapWorkers
<1>9. CASE LongJmped
  BY <1>9 DEF LongJmped, ReapWorkers
<1>10. CASE SignalWorkers
  BY <1>10 DEF SignalWorkers
<1>11. CASE Join
  BY <1>11 DEF Join
<1>12. CASE Reaped
  BY <1>12 DEF Reaped, Exit
<1>13. QED
  BY <1>1, <1>2, <1>3, <1>4, <1>5, <1>6, <1>7, <1>8, <1>9, <1>10, <1>11, <1>12 DEF MainStep

\* Joining: nothing has been joined when reap_workers is entered.
LEMMA JoinMain ==
  ASSUME TypeOK, CountersInv, BarrierInv, HandlerInv, JoinInv, MainStep
  PROVE  JoinInv'
<1> USE DEF JoinInv, groupVars, exitVars, workerVars
<1>1. ~woken => \A w \in Worker : thread[w] # "joined"
  BY DEF BarrierInv, HasRun
<1>2. CASE SetupFails \/ InstallHandlers \/ SetJmp \/ PairFails \/ GroupReturns
  BY <1>2 DEF SetupFails, InstallHandlers, SetJmp, PairFails, GroupReturns, Exit, InGroup
<1>3. CASE CreateWorker
  <2>1. \A w \in Worker : thread'[w] # "joined"
    BY <1>3 DEF CreateWorker, InGroup, TypeOK
  <2>2. QED
    BY <1>3, <2>1 DEF CreateWorker, InGroup
<1>4. CASE GroupFails
  BY <1>4 DEF GroupFails, ReapWorkers, InGroup
<1>5. CASE Spawned \/ ReadReady \/ StartTimer
  BY <1>5 DEF Spawned, ReadReady, StartTimer, Exit
<1>6. CASE Kick \/ BarrierFails \/ LongJmped
  <2>1. /\ pc' \in {"signal", "join"} /\ i' = 0 /\ totchld' = total_children /\ thread' = thread
        /\ pc \notin {"join", "exited"}
    BY <1>6 DEF Kick, BarrierFails, LongJmped, ReapWorkers
  <2>2. \A w \in Worker : thread[w] # "joined" /\ ~(w < 0)
    BY <2>1 DEF Worker
  <2>3. QED
    BY <2>1, <2>2 DEF TypeOK
<1>7. CASE SignalWorkers
  <2>1. \A w \in Worker : thread[w] # "joined" /\ ~(w < 0)
    BY <1>7 DEF SignalWorkers, Worker
  <2>2. QED
    BY <1>7, <2>1 DEF SignalWorkers, TypeOK
<1>8. CASE Join
  <2>1. /\ i \in Worker /\ i' = i + 1 /\ pc' = "join" /\ pc = "join" /\ totchld' = totchld
        /\ i < totchld /\ thread' = [thread EXCEPT ![i] = "joined"]
    BY <1>8, Sizes DEF Join, Worker, TypeOK
  <2>2. \A w \in Worker : w < i + 1 <=> w < i \/ w = i
    BY <2>1 DEF Worker
  <2>3. thread'[i] = "joined" /\ \A w \in Worker : w # i => thread'[w] = thread[w]
    BY <2>1 DEF TypeOK
  <2>4. i + 1 <= totchld
    BY <2>1 DEF TypeOK
  <2>5. QED
    BY <2>1, <2>2, <2>3, <2>4
<1>9. CASE Reaped
  BY <1>9 DEF Reaped, Exit
<1>10. QED
  BY <1>2, <1>3, <1>4, <1>5, <1>6, <1>7, <1>8, <1>9 DEF MainStep

----------------------------------------------------------------------------
(* So do those of the workers, and the signals.                             *)

\* The steps of a worker keep the invariant.
LEMMA SafeWorker ==
  ASSUME ToyInv, NEW w \in Worker, WorkerStep(w) \/ WorkerFails(w)
  PROVE  ToyInv'
<1>1. TypeOK /\ CountersInv /\ BarrierInv /\ HandlerInv /\ JoinInv
  BY DEF ToyInv
<1>2. /\ UNCHANGED <<i, created, total_children, totchld, signal_caught, timer_started, woken>>
      /\ pc' \in {pc, "exited"}
      /\ \A x \in Worker : x # w => thread'[x] = thread[x]
  BY <1>1, WorkerFrame DEF groupVars, exitVars
<1>3. \/ UNCHANGED <<thread, announced, handler>>
      \/ /\ thread[w] = "created" /\ thread'[w] = "reset" /\ UNCHANGED announced
         /\ handler' = [s \in Kinds |-> "default"]
      \/ /\ thread[w] = "reset" /\ thread'[w] = "polling" /\ UNCHANGED handler
         /\ announced' = announced \cup {w}
      \/ /\ thread[w] = "polling" /\ thread'[w] = "running" /\ woken
         /\ UNCHANGED <<announced, handler>>
      \/ /\ thread[w] = "running" /\ thread'[w] = "returned"
         /\ UNCHANGED <<announced, handler>>
  BY <1>1, WorkerFrame
<1>4. CountersInv'
  <2>1. \A x \in Worker : thread'[x] = "none" <=> thread[x] = "none"
    BY <1>2, <1>3
  <2>2. QED
    BY <1>1, <1>2, <2>1 DEF CountersInv
<1>5. BarrierInv'
  <2>1. announced' = {x \in Worker : thread'[x] \in HasAnnounced}
    BY <1>1, <1>2, <1>3 DEF BarrierInv, HasAnnounced
  <2>2. announced \subseteq announced' /\ announced' \subseteq Worker
    BY <1>3, <2>1
  <2>3. Cardinality(announced) <= Cardinality(announced')
    <3>1. IsFiniteSet(announced')
      BY <2>2, WorkerFinite, FS_Subset
    <3>2. QED
      BY <2>2, <3>1, FS_Subset
  <2>4. i <= Cardinality(announced) => i <= Cardinality(announced')
    <3>1. IsFiniteSet(announced) /\ IsFiniteSet(announced')
      BY <2>2, WorkerFinite, FS_Subset
    <3>2. Cardinality(announced) \in Nat /\ Cardinality(announced') \in Nat /\ i \in Nat
      BY <1>1, <3>1, FS_CardinalityType DEF TypeOK
    <3>3. QED
      BY <2>3, <3>2
  <2>5. \A x \in Worker : thread'[x] \in HasRun => woken
    BY <1>1, <1>2, <1>3 DEF BarrierInv, HasRun
  <2>6. QED
    BY <1>1, <1>2, <2>1, <2>2, <2>4, <2>5 DEF BarrierInv
<1>6. HandlerInv'
  <2>1. CASE handler' = [s \in Kinds |-> "default"]
    BY <1>1, <1>2, <2>1 DEF HandlerInv
  <2>2. CASE UNCHANGED handler /\ \A x \in Worker : thread'[x] \in HasReset => thread[x] \in HasReset
    BY <1>1, <1>2, <2>2 DEF HandlerInv
  <2>3. QED
    BY <1>2, <1>3, <2>1, <2>2 DEF HasReset
<1>7. JoinInv'
  <2>1. \A x \in Worker : thread'[x] = "joined" <=> thread[x] = "joined"
    BY <1>2, <1>3
  <2>2. QED
    BY <1>1, <1>2, <2>1 DEF JoinInv
<1>8. QED
  BY <1>1, <1>4, <1>5, <1>6, <1>7, TypeWorker DEF ToyInv

\* Once the barrier is open a signal ends the process, and before that nothing is joined.
LEMMA SafeSignal ==
  ASSUME ToyInv, NEW s \in Signals, Signal(s)
  PROVE  ToyInv'
<1>1. TypeOK /\ CountersInv /\ BarrierInv /\ HandlerInv /\ JoinInv
  BY DEF ToyInv
<1>2. UNCHANGED <<i, created, total_children, totchld, timer_started, thread, announced, woken>>
  BY <1>1, SignalFrame DEF groupVars, workerVars
<1>3. BarrierInv' /\ CountersInv'
  <2>1. pc' \in {pc, "exited", "jumped"}
    BY <1>1, SignalFrame
  <2>2. QED
    BY <1>1, <1>2, <2>1 DEF BarrierInv, CountersInv
<1>4. s \in Kinds
  BY <1>1, SignalFrame
<1>5. CASE UNCHANGED <<pc, handler, signal_caught>>
  BY <1>1, <1>2, <1>3, <1>5, TypeSignal DEF ToyInv, HandlerInv, JoinInv
<1>6. CASE pc' = "exited" /\ UNCHANGED <<handler, signal_caught>>
  BY <1>1, <1>2, <1>3, <1>6, TypeSignal DEF ToyInv, HandlerInv, JoinInv
<1>7. CASE handler[s] = "sigcatcher" /\ pc' \in {"exited", "jumped"}
  <2>1. ~woken /\ woken' = woken
    BY <1>1, <1>2, <1>4, <1>7 DEF HandlerInv
  <2>2. HandlerInv'
    BY <1>7, <2>1 DEF HandlerInv
  <2>3. \A w \in Worker : thread[w] # "joined"
    BY <1>1, <2>1 DEF BarrierInv, HasRun
  <2>4. JoinInv'
    BY <1>2, <1>7, <2>3 DEF JoinInv
  <2>5. QED
    BY <1>1, <1>3, <2>2, <2>4, TypeSignal DEF ToyInv
<1>8. QED
  BY <1>1, <1>5, <1>6, <1>7, SignalFrame

----------------------------------------------------------------------------
(* The invariant, and what follows from it.                                 *)

\* The invariant holds at the start.
LEMMA ToyInit == Init => ToyInv
<1> SUFFICES ASSUME Init PROVE ToyInv
  OBVIOUS
<1>1. TypeOK
  <2>1. thread \in [Worker -> {"none", "created", "reset", "polling", "running", "returned", "joined"}]
    BY DEF Init
  <2>2. moved \in [Worker -> Nat] /\ queue \in [Receiver -> 0 .. Cap]
    BY CountsAssumption DEF Init
  <2>3. handler \in [{"TERM", "INT"} -> {"default", "sigcatcher", "ignore"}]
    BY DEF Init
  <2>4. QED
    <3>1. /\ i \in 0 .. NumWorkers /\ created \in 0 .. GroupSize
          /\ total_children \in 0 .. NumWorkers /\ totchld \in 0 .. NumWorkers
      BY Sizes DEF Init
    <3>2. QED
      BY <2>1, <2>2, <2>3, <3>1 DEF Init, TypeOK
<1>2. CountersInv
  <2>1. \A w \in Worker : w >= 0
    BY DEF Worker
  <2>2. QED
    BY <2>1, Sizes DEF Init, CountersInv
<1>3. BarrierInv /\ HandlerInv /\ JoinInv
  BY DEF Init, BarrierInv, HandlerInv, JoinInv, HasAnnounced, HasRun
<1>4. QED
  BY <1>1, <1>2, <1>3 DEF ToyInv

\* Every step keeps the invariant.
LEMMA ToyStep == ToyInv /\ [Next]_vars => ToyInv'
<1> SUFFICES ASSUME ToyInv, [Next]_vars PROVE ToyInv'
  OBVIOUS
<1>1. CASE MainStep
  BY <1>1, TypeMain, CountersMain, BarrierMain, HandlerMain, JoinMain DEF ToyInv
<1>2. CASE UNCHANGED vars
  BY <1>2 DEF ToyInv, TypeOK, CountersInv, BarrierInv, HandlerInv, JoinInv,
              vars, groupVars, exitVars, workerVars
<1>3. QED
  BY <1>1, <1>2, SafeWorker, SafeSignal DEF Next

\* The counters of main, the barrier, the handlers and the joins, in every reachable
\* state.
THEOREM ToyInvariant == Spec => []ToyInv
BY ToyInit, ToyStep, PTL DEF Spec

\* Every variable of the toy load generator keeps its type.
THEOREM TypeCorrect == Spec => []TypeOK
<1>1. ToyInv => TypeOK
  BY DEF ToyInv
<1>2. QED
  BY <1>1, ToyInvariant, PTL

\* The barrier holds for threads, whatever jumps main makes.
THEOREM StartTogetherHolds == Spec => []StartTogether
<1>1. ToyInv => StartTogether
  BY DEF ToyInv, BarrierInv, HasRun, StartTogether
<1>2. QED
  BY <1>1, ToyInvariant, PTL

\* pthread_join is called once for each thread that was created and for nothing else.
THEOREM JoinsOwnThreadsHolds == Spec => []JoinsOwnThreads
<1>1. ToyInv => JoinsOwnThreads
  <2> SUFFICES ASSUME ToyInv, pc = "join", i < totchld
               PROVE  thread[i] \notin {"none", "joined"}
    BY DEF JoinsOwnThreads
  <2>1. i \in Worker /\ i < total_children + created
    BY Sizes DEF ToyInv, TypeOK, CountersInv, Worker
  <2>2. thread[i] # "none"
    BY <2>1 DEF ToyInv, CountersInv, Worker, TypeOK
  <2>3. thread[i] # "joined"
    BY <2>1 DEF ToyInv, JoinInv, TypeOK
  <2>4. QED
    BY <2>2, <2>3
<1>2. QED
  BY <1>1, ToyInvariant, PTL

\* From the moment the load runs a signal ends the program.
THEOREM StoppableHolds == Spec => []Stoppable
<1>1. ToyInv => Stoppable
  BY DEF ToyInv, HandlerInv, Stoppable, Kinds
<1>2. QED
  BY <1>1, ToyInvariant, PTL

----------------------------------------------------------------------------
(* Delivery.                                                                *)

Sender(w) == w \in Worker /\ w \notin Receiver

\* The messages that were written to a receiver: the k-th of sender w goes to it if
\* its place in the group is that of the socket k is written to.
Messages(r) ==
  {m \in Worker \X Nat : /\ Sender(m[1]) /\ GroupOf(m[1]) = GroupOf(r)
                         /\ m[2] < moved[m[1]] /\ m[2] % NumFds = r % GroupSize}

\* They are in its socket or it has read them.
ConservationInv ==
  \A r \in Receiver : /\ IsFiniteSet(Messages(r))
                      /\ Cardinality(Messages(r)) = moved[r] + queue[r]

\* Who returns has moved what it had to, and a main that nothing has disturbed joins
\* every worker.
FinishInv ==
  /\ \A w \in Worker : thread[w] \in {"returned", "joined"} => moved[w] = Goal(w)
  /\ pc = "jumped" => signal_caught
  /\ pc = "signal" => failing \/ signal_caught
  /\ pc = "join" /\ ~failing /\ ~signal_caught => totchld = NumWorkers
  /\ status = "ok" => pc = "exited"
  /\ status = "ok" /\ ~signal_caught => \A w \in Worker : thread[w] = "joined"

DeliveryInv == ToyInv /\ ConservationInv /\ FinishInv

\* The senders of a group.
SendersOf(r) == {s \in Worker : Sender(s) /\ GroupOf(s) = GroupOf(r)}

\* A receiver is in the first half of its group.
LEMMA ReceiverPlace ==
  ASSUME NEW r \in Receiver
  PROVE  r \in Worker /\ r % GroupSize \in Nat /\ r % GroupSize < NumFds
BY GroupBegins DEF Receiver

\* A receiver has a sender for each descriptor.
LEMMA SendersCount ==
  ASSUME NEW r \in Receiver
  PROVE  IsFiniteSet(SendersOf(r)) /\ Cardinality(SendersOf(r)) = NumFds
<1> DEFINE b == GroupOf(r) * GroupSize
<1>1. r \in Worker /\ b \in Nat
  BY ReceiverPlace, GroupBegins
<1>2. \A s \in SendersOf(r) : s \in b + NumFds .. b + NumFds + NumFds - 1
  <2> TAKE s \in SendersOf(r)
  <2>1. s \in Worker /\ GroupOf(s) * GroupSize = b /\ s \notin Receiver
    BY DEF SendersOf, Sender
  <2>2. s = b + (s % GroupSize) /\ s % GroupSize \in 0 .. GroupSize - 1 /\ s \in Nat
    BY <2>1, GroupBegins
  <2>3. s % GroupSize >= NumFds
    BY <2>1, <2>2, Sizes DEF Receiver
  <2> HIDE DEF b
  <2>4. QED
    BY <1>1, <2>2, <2>3, Sizes
<1>3. \A n \in b + NumFds .. b + NumFds + NumFds - 1 : n \in SendersOf(r)
  <2> TAKE n \in b + NumFds .. b + NumFds + NumFds - 1
  <2>1. n - b \in Nat /\ n - b < GroupSize /\ n - b >= NumFds /\ b + (n - b) = n
    <3> HIDE DEF b
    <3>1. QED
      BY <1>1, Sizes
  <2>2. n \in Worker /\ GroupOf(n) = GroupOf(r) /\ n % GroupSize = n - b
    BY <1>1, <2>1, PlaceInGroup
  <2>3. QED
    BY <2>1, <2>2, Sizes DEF SendersOf, Sender, Receiver
<1>4. SendersOf(r) = b + NumFds .. b + NumFds + NumFds - 1
  BY <1>2, <1>3
<1> HIDE DEF b
<1>5. QED
  BY <1>1, <1>4, FS_Interval, Sizes

\* Every sender writes to each receiver of its group in turn.
LEMMA InTurn ==
  ASSUME NEW j \in Nat, j < NumFds
  PROVE  /\ \A q \in 0 .. Loops - 1 : /\ q * NumFds + j \in Nat
                                      /\ q * NumFds + j < Loops * NumFds
                                      /\ (q * NumFds + j) % NumFds = j
         /\ \A p, q \in 0 .. Loops - 1 : p * NumFds + j = q * NumFds + j => p = q
         /\ \A k \in Nat : k < Loops * NumFds /\ k % NumFds = j =>
              \E q \in 0 .. Loops - 1 : k = q * NumFds + j
<1>1. \A q \in 0 .. Loops - 1 : /\ q * NumFds \in Nat
                                /\ (q + 1) * NumFds = q * NumFds + NumFds
                                /\ (q + 1) * NumFds <= Loops * NumFds
  <2> TAKE q \in 0 .. Loops - 1
  <2>1. q \in Nat /\ q + 1 \in Nat /\ q + 1 <= Loops /\ Loops \in Nat /\ NumFds \in Nat
    BY CountsAssumption
  <2>2. QED
    BY <2>1, TimesMonotone
<1>2. ASSUME NEW q \in 0 .. Loops - 1
      PROVE  /\ q * NumFds + j \in Nat /\ q * NumFds + j < Loops * NumFds
             /\ (q * NumFds + j) % NumFds = j
  <2>1. q * NumFds + j \in Nat /\ q * NumFds + j < Loops * NumFds
    BY <1>1, CountsAssumption
  <2>2. q \in Nat /\ NumFds \in Nat \ {0}
    BY CountsAssumption
  <2>3. (q * NumFds + j) % NumFds = j
    BY <2>2
  <2>4. QED
    BY <2>1, <2>3
<1>3. ASSUME NEW p \in 0 .. Loops - 1, NEW q \in 0 .. Loops - 1,
             p * NumFds + j = q * NumFds + j
      PROVE  p = q
  <2>1. p * NumFds = q * NumFds /\ p \in Nat /\ q \in Nat /\ NumFds \in Nat \ {0}
    BY <1>1, <1>3, CountsAssumption
  <2>2. CASE p + 1 <= q
    <3>1. (p + 1) * NumFds <= q * NumFds
      BY <2>1, <2>2, TimesMonotone
    <3>2. QED
      BY <1>1, <2>1, <3>1
  <2>3. CASE q + 1 <= p
    <3>1. (q + 1) * NumFds <= p * NumFds
      BY <2>1, <2>3, TimesMonotone
    <3>2. QED
      BY <1>1, <2>1, <3>1
  <2>4. QED
    BY <2>1, <2>2, <2>3
<1>4. ASSUME NEW k \in Nat, k < Loops * NumFds, k % NumFds = j
      PROVE  \E q \in 0 .. Loops - 1 : k = q * NumFds + j
  <2> DEFINE q == k \div NumFds
  <2>1. q \in Nat /\ k = NumFds * q + (k % NumFds) /\ NumFds * q = q * NumFds /\ q * NumFds \in Nat
    BY CountsAssumption
  <2> HIDE DEF q
  <2>2. k = q * NumFds + j
    BY <1>4, <2>1
  <2>3. q < Loops
    <3> SUFFICES ASSUME Loops <= q PROVE FALSE
      BY <2>1, CountsAssumption
    <3>1. Loops * NumFds <= q * NumFds
      BY <2>1, CountsAssumption, TimesMonotone
    <3>2. Loops * NumFds \in Nat
      BY CountsAssumption
    <3>3. QED
      BY <1>4, <2>1, <2>2, <3>1, <3>2
  <2>4. q \in 0 .. Loops - 1
    BY <2>1, <2>3, CountsAssumption
  <2>5. QED
    BY <2>2, <2>4
<1>5. QED
  BY <1>2, <1>3, <1>4

\* When all senders have finished every receiver was sent num_fds * loops messages.
LEMMA AllSent ==
  ASSUME NEW r \in Receiver, \A s \in SendersOf(r) : moved[s] = Loops * NumFds
  PROVE  Cardinality(Messages(r)) = NumFds * Loops
<1> DEFINE j == r % GroupSize
           S == SendersOf(r) \X (0 .. Loops - 1)
           f == [p \in S |-> <<p[1], p[2] * NumFds + j>>]
<1>1. j \in Nat /\ j < NumFds
  BY ReceiverPlace
<1>2. f \in [S -> Messages(r)]
  <2> SUFFICES ASSUME NEW s \in SendersOf(r), NEW q \in 0 .. Loops - 1
               PROVE  <<s, q * NumFds + j>> \in Messages(r)
    OBVIOUS
  <2>1. q * NumFds + j \in Nat /\ q * NumFds + j < Loops * NumFds /\ (q * NumFds + j) % NumFds = j
    BY <1>1, InTurn
  <2>2. s \in Worker /\ Sender(s) /\ GroupOf(s) = GroupOf(r) /\ moved[s] = Loops * NumFds
    BY DEF SendersOf
  <2> HIDE DEF j
  <2>3. QED
    BY <2>1, <2>2 DEF Messages, j
<1>3. \A a, b \in S : f[a] = f[b] => a = b
  <2> SUFFICES ASSUME NEW a \in S, NEW b \in S, f[a] = f[b] PROVE a = b
    OBVIOUS
  <2>1. a[1] = b[1] /\ a[2] * NumFds + j = b[2] * NumFds + j
    OBVIOUS
  <2>2. a[2] = b[2]
    BY <1>1, <2>1, InTurn
  <2>3. QED
    BY <2>1, <2>2
<1>4. \A m \in Messages(r) : \E a \in S : f[a] = m
  <2> TAKE m \in Messages(r)
  <2>1. m = <<m[1], m[2]>> /\ m[1] \in SendersOf(r) /\ m[2] \in Nat /\ m[2] < Loops * NumFds
        /\ m[2] % NumFds = j
    BY DEF Messages, SendersOf
  <2>2. PICK q \in 0 .. Loops - 1 : m[2] = q * NumFds + j
    BY <1>1, <2>1, InTurn
  <2>3. <<m[1], q>> \in S /\ f[<<m[1], q>>] = m
    BY <2>1, <2>2
  <2>4. QED
    BY <2>3
<1>5. ExistsBijection(S, Messages(r))
  <2>1. DOMAIN f = S
    OBVIOUS
  <2> HIDE DEF f, S
  <2>2. f \in Injection(S, Messages(r)) /\ f \in Surjection(S, Messages(r))
    BY <1>2, <1>3, <1>4, <2>1 DEF Injection, Surjection, IsInjective
  <2>3. QED
    BY <2>2 DEF ExistsBijection, Bijection
<1>6. IsFiniteSet(S) /\ Cardinality(S) = NumFds * Loops
  <2>1. IsFiniteSet(0 .. Loops - 1) /\ Cardinality(0 .. Loops - 1) = Loops
    BY FS_Interval, CountsAssumption
  <2>2. IsFiniteSet(SendersOf(r)) /\ Cardinality(SendersOf(r)) = NumFds
    BY SendersCount
  <2>3. S = SendersOf(r) \X (0 .. Loops - 1)
    OBVIOUS
  <2>4. /\ IsFiniteSet(SendersOf(r) \X (0 .. Loops - 1))
        /\ Cardinality(SendersOf(r) \X (0 .. Loops - 1))
             = Cardinality(SendersOf(r)) * Cardinality(0 .. Loops - 1)
    BY <2>1, <2>2, FS_Product, Zenon
  <2> HIDE DEF S, f, j
  <2>5. QED
    BY <2>1, <2>2, <2>3, <2>4, Zenon
<1>7. QED
  BY <1>5, <1>6, FS_Bijection

\* Who moves nothing sends nothing.
LEMMA SameMessages ==
  ASSUME ConservationInv, UNCHANGED <<moved, queue>>
  PROVE  ConservationInv'
<1>1. \A r \in Receiver : Messages(r)' = Messages(r)
  BY DEF Messages
<1>2. QED
  BY <1>1 DEF ConservationInv

\* A message that is written is one more for its target and in its socket.
LEMMA ConserveSend ==
  ASSUME TypeOK, ConservationInv, NEW w \in Worker, Send(w)
  PROVE  ConservationInv'
<1>1. /\ Sender(w) /\ moved' = [moved EXCEPT ![w] = moved[w] + 1] /\ moved[w] \in Nat
      /\ queue' = [queue EXCEPT ![Target(w)] = queue[Target(w)] + 1]
      /\ moved \in [Worker -> Nat] /\ queue \in [Receiver -> 0 .. Cap]
  BY DEF Send, Sender, TypeOK
<1>2. /\ Target(w) \in Receiver /\ GroupOf(Target(w)) = GroupOf(w)
      /\ Target(w) % GroupSize = moved[w] % NumFds
  BY <1>1, TargetIs
<1>3. ASSUME NEW r \in Receiver
      PROVE  /\ IsFiniteSet(Messages(r)')
             /\ Cardinality(Messages(r)') = moved'[r] + queue'[r]
  <2>1. /\ r \in Worker /\ moved'[r] = moved[r] /\ moved[r] \in Nat /\ queue[r] \in Nat
        /\ IsFiniteSet(Messages(r)) /\ Cardinality(Messages(r)) = moved[r] + queue[r]
    BY <1>1, <1>3, ReceiverPlace, CountsAssumption DEF ConservationInv, Sender
  <2>2. \A x \in Worker, k \in Nat : k < moved'[x] <=> k < moved[x] \/ (x = w /\ k = moved[w])
    BY <1>1
  <2>3. Messages(r)' = {m \in Worker \X Nat :
                          /\ Sender(m[1]) /\ GroupOf(m[1]) = GroupOf(r)
                          /\ m[2] < moved'[m[1]] /\ m[2] % NumFds = r % GroupSize}
    BY DEF Messages, Sender, GroupOf, Worker, Receiver, GroupSize, NumWorkers
  <2>4. CASE r = Target(w)
    <3>1. Messages(r)' = Messages(r) \cup {<<w, moved[w]>>}
      <4>1. \A m \in Worker \X Nat : m = <<m[1], m[2]>> /\ m[1] \in Worker /\ m[2] \in Nat
        OBVIOUS
      <4>2. <<w, moved[w]>> \in Worker \X Nat /\ GroupOf(w) = GroupOf(r)
            /\ moved[w] % NumFds = r % GroupSize
        BY <1>1, <1>2, <2>4
      <4>3. QED
        BY <1>1, <2>2, <2>3, <4>1, <4>2 DEF Messages
    <3>2. <<w, moved[w]>> \notin Messages(r)
      BY <1>1 DEF Messages
    <3>3. IsFiniteSet(Messages(r)') /\ Cardinality(Messages(r)') = Cardinality(Messages(r)) + 1
      BY <2>1, <3>1, <3>2, FS_AddElement
    <3>4. queue'[r] = queue[r] + 1
      BY <1>1, <2>4
    <3>5. QED
      BY <2>1, <3>3, <3>4
  <2>5. CASE r # Target(w)
    <3>1. ~(GroupOf(w) = GroupOf(r) /\ moved[w] % NumFds = r % GroupSize)
      <4> SUFFICES ASSUME GroupOf(w) = GroupOf(r), moved[w] % NumFds = r % GroupSize PROVE FALSE
        OBVIOUS
      <4>1. r = GroupOf(r) * GroupSize + (r % GroupSize)
        BY <2>1, GroupBegins
      <4>2. QED
        BY <2>5, <4>1 DEF Target
    <3>2. Messages(r)' = Messages(r)
      <4>1. \A m \in Worker \X Nat : m[1] \in Worker /\ m[2] \in Nat
        OBVIOUS
      <4>2. QED
        BY <2>2, <2>3, <3>1, <4>1 DEF Messages
    <3>3. queue'[r] = queue[r]
      BY <1>1, <2>5
    <3>4. QED
      BY <2>1, <3>2, <3>3
  <2>6. QED
    BY <2>4, <2>5
<1>4. QED
  BY <1>3 DEF ConservationInv, Receiver, Worker, NumWorkers, GroupSize

\* A message that is read is in no socket any more and counted by its receiver.
LEMMA ConserveReceive ==
  ASSUME TypeOK, ConservationInv, NEW w \in Worker, Receive(w)
  PROVE  ConservationInv'
<1>1. /\ w \in Receiver /\ moved' = [moved EXCEPT ![w] = moved[w] + 1]
      /\ queue' = [queue EXCEPT ![w] = queue[w] - 1] /\ queue[w] > 0
      /\ moved \in [Worker -> Nat] /\ queue \in [Receiver -> 0 .. Cap]
  BY DEF Receive, TypeOK
<1>2. ASSUME NEW r \in Receiver
      PROVE  IsFiniteSet(Messages(r)') /\ Cardinality(Messages(r)') = moved'[r] + queue'[r]
  <2>1. \A x \in Worker : Sender(x) => moved'[x] = moved[x]
    BY <1>1 DEF Sender
  <2>2. Messages(r)' = {m \in Worker \X Nat :
                          /\ Sender(m[1]) /\ GroupOf(m[1]) = GroupOf(r)
                          /\ m[2] < moved'[m[1]] /\ m[2] % NumFds = r % GroupSize}
    BY DEF Messages, Sender, GroupOf, Worker, Receiver, GroupSize, NumWorkers
  <2>3. Messages(r)' = Messages(r)
    <3>1. \A m \in Worker \X Nat : m[1] \in Worker
      OBVIOUS
    <3>2. QED
      BY <2>1, <2>2, <3>1 DEF Messages
  <2>4. r \in Worker /\ moved[r] \in Nat /\ queue[r] \in Nat
    BY <1>1, ReceiverPlace, CountsAssumption
  <2>5. moved'[r] + queue'[r] = moved[r] + queue[r]
    BY <1>1, <2>4
  <2>6. QED
    BY <2>3, <2>5 DEF ConservationInv
<1>3. QED
  BY <1>2 DEF ConservationInv, Receiver, Worker, NumWorkers, GroupSize

\* Every step keeps the balance of sent and received units.
LEMMA ConserveStep ==
  ASSUME TypeOK, ConservationInv, [Next]_vars
  PROVE  ConservationInv'
<1>1. ASSUME NEW w \in Worker, WorkerStep(w) \/ WorkerFails(w) PROVE ConservationInv'
  <2>1. CASE UNCHANGED <<moved, queue>>
    BY <2>1, SameMessages
  <2>2. QED
    BY <1>1, <2>1, ConserveSend, ConserveReceive
       DEF WorkerStep, WorkerFails, ResetSignals, Announce, Wake, Return, workerVars
<1>2. ASSUME MainStep PROVE UNCHANGED <<moved, queue>>
  BY <1>2 DEF MainStep, SetupFails, InstallHandlers, SetJmp, CreateWorker, GroupFails,
              PairFails, GroupReturns, Spawned, ReadReady, StartTimer, Kick, BarrierFails,
              LongJmped, SignalWorkers, Join, Reaped, workerVars
<1>3. ASSUME NEW s \in Signals, Signal(s) PROVE UNCHANGED <<moved, queue>>
  BY <1>3 DEF Signal, workerVars
<1>4. CASE UNCHANGED vars
  BY <1>4, SameMessages DEF vars, workerVars
<1>5. QED
  BY <1>1, <1>2, <1>3, <1>4, SameMessages DEF Next

\* How main ends.
LEMMA FinishMain ==
  ASSUME ToyInv, FinishInv, MainStep
  PROVE  FinishInv'
<1> USE DEF FinishInv, groupVars, exitVars, workerVars
<1>1. TypeOK /\ CountersInv /\ HandlerInv /\ JoinInv
  BY DEF ToyInv
<1>2. (\A w \in Worker : thread[w] \in {"returned", "joined"} => moved[w] = Goal(w))'
  <2>1. moved' = moved /\ \A w \in Worker : thread'[w] \in {"returned", "joined"} =>
                                              thread[w] \in {"returned", "joined"}
    BY <1>1 DEF MainStep, SetupFails, InstallHandlers, SetJmp, CreateWorker, GroupFails,
       PairFails, GroupReturns, Spawned, ReadReady, StartTimer, Kick, BarrierFails, LongJmped,
       SignalWorkers, Join, Reaped, TypeOK
  <2>2. QED
    BY <2>1 DEF Goal
<1>3. CASE SetupFails \/ InstallHandlers \/ SetJmp \/ CreateWorker \/ PairFails \/ GroupReturns
  BY <1>2, <1>3 DEF SetupFails, InstallHandlers, SetJmp, CreateWorker, InGroup, PairFails,
                    GroupReturns, Exit
<1>4. CASE Spawned \/ ReadReady \/ StartTimer
  BY <1>2, <1>4 DEF Spawned, ReadReady, StartTimer, Exit
<1>5. CASE GroupFails \/ BarrierFails
  <2>1. pc # "exited" /\ pc' = "signal" /\ failing' /\ UNCHANGED <<status, signal_caught>>
    BY <1>5 DEF GroupFails, InGroup, BarrierFails, ReapWorkers
  <2>2. QED
    BY <1>2, <2>1
<1>6. CASE Kick
  <2>1. /\ pc' \in {"signal", "join"} /\ (pc' = "signal" => signal_caught)
        /\ totchld' = NumWorkers /\ pc # "exited" /\ UNCHANGED <<status, signal_caught, failing>>
    BY <1>1, <1>6 DEF Kick, ReapWorkers, CountersInv
  <2>2. QED
    BY <1>2, <2>1 DEF NumWorkers, GroupSize
<1>7. CASE LongJmped
  BY <1>2, <1>7 DEF LongJmped, ReapWorkers
<1>8. CASE SignalWorkers
  BY <1>2, <1>8 DEF SignalWorkers
<1>9. CASE Join
  BY <1>2, <1>9 DEF Join, NumWorkers, GroupSize
<1>10. CASE Reaped
  <2>1. /\ pc = "join" /\ i = totchld /\ pc' = "exited" /\ status' = IF failing THEN "failed" ELSE "ok"
        /\ UNCHANGED <<thread, signal_caught, failing>>
    BY <1>10 DEF Reaped, Exit
  <2>2. ~failing /\ ~signal_caught => \A w \in Worker : thread[w] = "joined"
    <3>1. ~failing /\ ~signal_caught => i = NumWorkers
      BY <2>1
    <3>2. \A w \in Worker : w < NumWorkers
      BY Sizes DEF Worker
    <3>3. QED
      BY <1>1, <2>1, <3>1, <3>2 DEF JoinInv
  <2>3. QED
    BY <1>2, <2>1, <2>2
<1>11. QED
  BY <1>3, <1>4, <1>5, <1>6, <1>7, <1>8, <1>9, <1>10 DEF MainStep

\* A worker returns when it has reached its goal.
LEMMA FinishWorker ==
  ASSUME ToyInv, FinishInv, NEW w \in Worker, WorkerStep(w) \/ WorkerFails(w)
  PROVE  FinishInv'
<1>1. TypeOK
  BY DEF ToyInv
<1>2. /\ UNCHANGED <<totchld, failing, signal_caught>> /\ pc # "exited"
      /\ \/ UNCHANGED <<pc, status>>
         \/ pc' = "exited" /\ status' # "ok"
  BY DEF WorkerStep, WorkerFails, Exit, exitVars
<1>3. (\A x \in Worker : thread[x] \in {"returned", "joined"} => moved[x] = Goal(x))'
  <2>1. \A x \in Worker : thread'[x] \in {"returned", "joined"} =>
                            moved'[x] = moved[x] /\ moved[x] = Goal(x)
    <3>1. CASE Send(w) \/ Receive(w)
      BY <1>1, <3>1 DEF Send, Receive, FinishInv, TypeOK
    <3>2. CASE Return(w)
      BY <1>1, <3>2 DEF Return, FinishInv, TypeOK
    <3>3. CASE ResetSignals(w) \/ Announce(w) \/ Wake(w) \/ WorkerFails(w)
      BY <1>1, <3>3 DEF ResetSignals, Announce, Wake, WorkerFails, workerVars, FinishInv, TypeOK
    <3>4. QED
      BY <3>1, <3>2, <3>3 DEF WorkerStep
  <2>2. QED
    BY <2>1 DEF Goal, Worker, NumWorkers, GroupSize
<1>4. status # "ok" /\ status' # "ok"
  BY <1>2 DEF FinishInv
<1>5. QED
  BY <1>2, <1>3, <1>4 DEF FinishInv, NumWorkers, GroupSize

\* A signal keeps what finished workers have moved.
LEMMA FinishSignal ==
  ASSUME ToyInv, FinishInv, NEW s \in Signals, Signal(s)
  PROVE  FinishInv'
<1>1. TypeOK
  BY DEF ToyInv
<1>2. /\ UNCHANGED <<totchld, thread, moved>> /\ pc # "exited"
      /\ \/ UNCHANGED <<pc, failing, signal_caught, status>>
         \/ pc' = "exited" /\ status' = "killed"
         \/ signal_caught' = TRUE /\ pc' = "jumped" /\ UNCHANGED status
  BY <1>1, SignalFrame DEF workerVars
<1>3. (\A w \in Worker : thread[w] \in {"returned", "joined"} => moved[w] = Goal(w))'
  BY <1>2 DEF FinishInv, Goal
<1>4. QED
  BY <1>2, <1>3 DEF FinishInv, NumWorkers, GroupSize

\* The invariants of the data hold at the start.
LEMMA DeliveryStart == Init => ConservationInv /\ FinishInv
<1> SUFFICES ASSUME Init PROVE ConservationInv /\ FinishInv
  OBVIOUS
<1>1. \A w \in Worker : moved[w] = 0 /\ thread[w] = "none"
  BY DEF Init
<1>2. \A r \in Receiver : Messages(r) = {} /\ moved[r] + queue[r] = 0
  <2> TAKE r \in Receiver
  <2>1. \A m \in Worker \X Nat : ~(m[2] < moved[m[1]])
    BY <1>1
  <2>2. moved[r] + queue[r] = 0
    BY <1>1, ReceiverPlace DEF Init
  <2>3. QED
    BY <2>1, <2>2 DEF Messages
<1>3. ConservationInv
  BY <1>2, FS_EmptySet DEF ConservationInv
<1>4. QED
  BY <1>1, <1>3 DEF Init, FinishInv

\* Every step keeps the invariants of the data.
LEMMA DeliveryStep == DeliveryInv /\ [Next]_vars => DeliveryInv'
<1> SUFFICES ASSUME DeliveryInv, [Next]_vars PROVE DeliveryInv'
  OBVIOUS
<1>1. ToyInv' /\ ConservationInv'
  BY ToyStep, ConserveStep DEF DeliveryInv, ToyInv
<1>2. CASE UNCHANGED vars
  BY <1>1, <1>2 DEF DeliveryInv, FinishInv, Goal, vars, workerVars, exitVars, NumWorkers, GroupSize
<1>3. QED
  BY <1>1, <1>2, FinishMain, FinishWorker, FinishSignal DEF Next, DeliveryInv

\* In every reachable state each message that was written is in a socket or was read.
THEOREM DeliveryInvariant == Spec => []DeliveryInv
BY ToyInit, DeliveryStart, DeliveryStep, PTL DEF Spec, DeliveryInv

\* A run that no signal cut short has passed every message to its receiver: all were
\* sent, the receivers have counted as many, so that none is left.
THEOREM FiniteDeliveryHolds == Spec => []FiniteDelivery
<1>1. DeliveryInv => FiniteDelivery
  <2> SUFFICES ASSUME DeliveryInv, Fits, status = "ok", ~signal_caught
               PROVE  (\A w \in Worker : moved[w] = Loops * NumFds) /\ (\A r \in Receiver : queue[r] = 0)
    BY DEF FiniteDelivery
  <2>1. NumPackets = Loops * NumFds
    <3>1. NumFds * Loops \in Nat /\ NumFds * Loops < 2^UIntBits /\ NumFds * Loops = Loops * NumFds
      BY CountsAssumption DEF Fits
    <3>2. 2^UIntBits \in Nat
      <4>1. IsFiniteSet(1 .. UIntBits) /\ Cardinality(1 .. UIntBits) = UIntBits
        BY FS_Interval, CountsAssumption
      <4>2. /\ IsFiniteSet(SUBSET (1 .. UIntBits))
            /\ Cardinality(SUBSET (1 .. UIntBits)) = 2^Cardinality(1 .. UIntBits)
        BY <4>1, FS_SUBSET
      <4>3. Cardinality(SUBSET (1 .. UIntBits)) \in Nat
        BY <4>2, FS_CardinalityType
      <4>4. QED
        BY <4>1, <4>2, <4>3
    <3>3. QED
      BY <3>1, <3>2 DEF NumPackets
  <2>2. \A w \in Worker : moved[w] = Loops * NumFds
    BY <2>1 DEF DeliveryInv, FinishInv, Goal
  <2>3. ASSUME NEW r \in Receiver PROVE queue[r] = 0
    <3>1. Cardinality(Messages(r)) = NumFds * Loops
      BY <2>2, AllSent DEF SendersOf
    <3>2. moved[r] = Loops * NumFds /\ Cardinality(Messages(r)) = moved[r] + queue[r]
      BY <2>2, ReceiverPlace DEF DeliveryInv, ConservationInv
    <3>3. queue[r] \in Int /\ Loops * NumFds \in Nat /\ NumFds * Loops = Loops * NumFds
      BY CountsAssumption DEF DeliveryInv, ToyInv, TypeOK
    <3>4. QED
      BY <3>1, <3>2, <3>3
  <2>4. QED
    BY <2>2, <2>3
<1>2. QED
  BY <1>1, DeliveryInvariant, PTL
=============================================================================
