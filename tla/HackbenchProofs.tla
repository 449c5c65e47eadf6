-------------------------- MODULE HackbenchProofs --------------------------
(***************************************************************************)
(* What holds of Hackbench for every number of groups, descriptors, loops  *)
(* and for every choice of faults and signals.  Then, that it implements   *)
(* LoadGenerator: each step of it is a step of Life or leaves Life alone.  *)
(* And that what the senders of a finite run wrote has been read when it   *)
(* is over, if no worker is killed from outside.                           *)
(***************************************************************************)
EXTENDS HackbenchRefinement, FiniteSetTheorems, TLAPS

\* Guards with a name of their own are read as what they abbreviate.
USE DEF SignalsLeft, WaitsLeft, BytesReady, KillOnReap, Readable, LeaveWakeByte, HasRoom

----------------------------------------------------------------------------
(* The inductive invariant.                                                 *)

\* The counters of the group loop: before the loop nothing exists, in it
\* total_children counts the complete groups, after it all workers exist.
CountersInv ==
  /\ pc \in {"init", "armed"} => total_children = 0 /\ forked = 0
  /\ total_children + forked <= NumWorkers
  /\ pc = "spawn" => /\ i <= NumGroups
                     /\ total_children = i * GroupSize
                     /\ i = NumGroups => forked = 0
  /\ pc \in {"ready", "kick"} \/ woken => total_children = NumWorkers

\* Exactly the workers below total_children + forked were created, and their
\* pids are in child_tab.  Only living processes have a pending signal.
CreatedInv ==
  \A w \in Worker :
    /\ worker[w] = "none" <=> w >= total_children + forked
    /\ w < total_children + forked => child_tab[w] = "pid"
    /\ w \in pending => worker[w] \in Alive

\* reap_workers is never asked for more than was created, and main never reads
\* more ready bytes than were written.
ReapInv  == pc \in {"signal", "wait"} => totchld <= total_children + forked

BarrierInv ==
  /\ pc = "ready" => i <= Cardinality(announced)
  /\ pc = "kick" \/ timer_started \/ woken => announced = Worker
  /\ \A w \in Worker : worker[w] = "running" => woken

SafeInv == TypeOK /\ CountersInv /\ CreatedInv /\ ReapInv /\ BarrierInv

----------------------------------------------------------------------------
(* Arithmetic on the sizes.                                                 *)

\* Products grow with their factors.
LEMMA TimesMonotone ==
  ASSUME NEW a \in Nat, NEW b \in Nat, NEW c \in Nat, a <= b
  PROVE  a * c <= b * c
  OBVIOUS

\* There is a group and a worker at least, and a group has senders and receivers.
LEMMA Sizes ==
  /\ GroupSize \in Nat \ {0}
  /\ NumWorkers \in Nat \ {0}
  /\ NumGroups <= NumWorkers
  /\ NumWorkers = NumGroups * GroupSize
  /\ NumFds < GroupSize
<1>1. GroupSize \in Nat \ {0} /\ NumFds < GroupSize
  BY NumFdsAssumption DEF GroupSize
<1>2. NumGroups * 1 <= NumGroups * GroupSize
  BY <1>1, NumGroupsAssumption, TimesMonotone
<1>3. NumGroups * GroupSize \in Nat
  BY <1>1, NumGroupsAssumption
<1>4. QED
  BY <1>1, <1>2, <1>3, NumGroupsAssumption DEF NumWorkers

\* A further group fits as long as the loop has not ended.
LEMMA GroupFits ==
  ASSUME NEW g \in Nat, g < NumGroups
  PROVE  /\ g * GroupSize \in Nat
         /\ (g + 1) * GroupSize = g * GroupSize + GroupSize
         /\ g * GroupSize + GroupSize <= NumWorkers
<1>1. (g + 1) * GroupSize = g * GroupSize + GroupSize /\ g * GroupSize \in Nat
  BY Sizes
<1>2. (g + 1) * GroupSize <= NumGroups * GroupSize
  BY Sizes, NumGroupsAssumption, TimesMonotone
<1>3. QED
  BY <1>1, <1>2 DEF NumWorkers

\* The workers are as many as NumWorkers says.
LEMMA WorkerFinite == IsFiniteSet(Worker) /\ Cardinality(Worker) = NumWorkers
<1>1. NumWorkers - 1 \in Int /\ ~(0 > NumWorkers - 1)
  BY Sizes
<1>2. IsFiniteSet(0 .. NumWorkers - 1)
      /\ Cardinality(0 .. NumWorkers - 1) = (NumWorkers - 1) - 0 + 1
  BY <1>1, FS_Interval
<1>3. QED
  BY <1>1, <1>2, Sizes DEF Worker

\* As many bytes in the ready pipe as there are workers: all have announced.
LEMMA AllAnnounced ==
  ASSUME announced \subseteq Worker
  PROVE  /\ Cardinality(announced) \in Nat
         /\ Cardinality(announced) >= NumWorkers => announced = Worker
<1>1. Cardinality(announced) \in Nat /\ Cardinality(announced) <= Cardinality(Worker)
      /\ (Cardinality(Worker) = Cardinality(announced) => Worker = announced)
  BY WorkerFinite, FS_Subset, FS_CardinalityType
<1>2. QED
  BY <1>1, WorkerFinite, Sizes

\* A round of a sender moves something.
LEMMA RoundIsPositive == NumFds * DataSize \in Nat \ {0}
<1>1. 1 * DataSize <= NumFds * DataSize
  BY TimesMonotone, NumFdsAssumption, LoadAssumption
<1>2. QED
  BY <1>1, NumFdsAssumption, LoadAssumption

----------------------------------------------------------------------------
(* Type correctness.                                                        *)

\* The types hold at the start.
LEMMA TypeInit == Init => TypeOK
<1> SUFFICES ASSUME Init PROVE TypeOK
  OBVIOUS
<1> USE Sizes, LoadAssumption DEF Init
<1>1. /\ pc \in {"init"} /\ i = 0 /\ forked = 0 /\ total_children = 0 /\ totchld = 0
      /\ failing = FALSE /\ signal_caught = FALSE /\ timer_started = FALSE
      /\ woken = FALSE /\ ignored = {} /\ status = "running"
      /\ pending = {} /\ announced = {} /\ sent = {}
  OBVIOUS
<1>2. /\ child_tab \in [Worker -> {"unset", "failed", "pid"}]
      /\ worker \in [Worker -> Alive \cup Dead \cup {"none"}]
      /\ moved \in [Worker -> Nat]
  OBVIOUS
<1>3. pipe \in [Receiver -> 0 .. PipeCap]
  OBVIOUS
<1>4. 0 \in 0 .. NumWorkers /\ 0 \in 0 .. GroupSize
  OBVIOUS
<1>5. QED
  BY <1>1, <1>2, <1>3, <1>4 DEF TypeOK

\* The steps of main keep the types.
LEMMA TypeMain ==
  ASSUME TypeOK, CountersInv, ReapInv, MainStep
  PROVE  TypeOK'
<1> USE Sizes DEF TypeOK, workerVars
<1>1. CASE SetupFails
  BY <1>1 DEF SetupFails, Exit
<1>2. CASE InstallHandlers
  BY <1>2 DEF InstallHandlers
<1>3. CASE SetJmp
  BY <1>3 DEF SetJmp
<1>4. CASE Fork
  <2>1. forked' \in 0 .. GroupSize
    BY <1>4 DEF Fork, InGroup
  <2>2. /\ worker' \in [Worker -> Alive \cup Dead \cup {"none"}]
        /\ child_tab' \in [Worker -> {"unset", "failed", "pid"}]
    BY <1>4 DEF Fork, Alive
  <2>3. QED
    BY <1>4, <2>1, <2>2 DEF Fork
<1>5. CASE GroupFails
  <2>1. total_children + Started(forked) \in 0 .. NumWorkers
    BY <1>5 DEF GroupFails, Started, CountersInv
  <2>2. QED
    BY <1>5, <2>1 DEF GroupFails, ReapWorkers
<1>6. CASE PipeFails
  BY <1>6 DEF PipeFails, Exit
<1>7. CASE GroupReturns
  <2>1. total_children + GroupSize <= NumWorkers /\ i + 1 \in 0 .. NumWorkers
    BY <1>7, GroupFits, NumGroupsAssumption DEF GroupReturns, CountersInv
  <2>2. QED
    BY <1>7, <2>1 DEF GroupReturns
<1>8. CASE Spawned
  BY <1>8 DEF Spawned, Exit
<1>9. CASE ReadReady
  BY <1>9 DEF ReadReady
<1>10. CASE StartTimer
  BY <1>10 DEF StartTimer
<1>11. CASE Kick
  BY <1>11 DEF Kick, ReapWorkers, CountersInv
<1>12. CASE BarrierFails
  BY <1>12 DEF BarrierFails, ReapWorkers
<1>13. CASE LongJmped
  <2>1. timer_started' \in BOOLEAN
    BY <1>13 DEF LongJmped
  <2>2. ignored' \subseteq {"TERM", "INT"}
    BY <1>13 DEF LongJmped, ReapWorkers
  <2>3. QED
    BY <1>13, <2>1, <2>2 DEF LongJmped, ReapWorkers
<1>14. CASE SignalWorker
  <2>1. i + 1 \in 0 .. NumWorkers /\ i \in Worker
    BY <1>14 DEF SignalWorker, Worker
  <2>2. pending' \subseteq Worker
    BY <1>14, <2>1 DEF SignalWorker, Targets
  <2>3. QED
    BY <1>14, <2>1, <2>2 DEF SignalWorker
<1>15. CASE SignalsSent
  BY <1>15 DEF SignalsSent
<1>16. CASE Wait
  BY <1>16 DEF Wait, Dead
<1>17. CASE Reaped
  BY <1>17 DEF Reaped, Exit
<1>18. QED
  BY <1>1, <1>2, <1>3, <1>4, <1>5, <1>6, <1>7, <1>8, <1>9, <1>10, <1>11, <1>12, <1>13, <1>14, <1>15, <1>16, <1>17 DEF MainStep

\* The conjuncts of TypeOK about the workers.
WorkerTypeOK ==
  /\ worker \in [Worker -> Alive \cup Dead \cup {"none"}]
  /\ pending \subseteq Worker
  /\ announced \subseteq Worker
  /\ woken \in BOOLEAN
  /\ moved \in [Worker -> Nat]
  /\ pipe \in [Receiver -> 0 .. PipeCap]

\* A worker that moves a unit has still moved a number of them.
LEMMA AdvanceType ==
  ASSUME moved \in [Worker -> Nat], NEW w \in Worker
  PROVE  Advance(w) \in [Worker -> Nat]
<1>1. moved[w] + 1 \in Nat
  OBVIOUS
<1>2. (moved[w] + 1) % (NumFds * DataSize) \in Nat
  BY <1>1, RoundIsPositive
<1>3. QED
  BY <1>1, <1>2 DEF Advance

\* The steps of a worker keep the types.
LEMMA TypeWorker ==
  ASSUME TypeOK, NEW w \in Worker,
         WorkerStep(w) \/ DeliverStep(w) \/ WorkerKilled(w)
  PROVE  TypeOK'
<1>1. WorkerTypeOK
  BY DEF TypeOK, WorkerTypeOK
<1>2. UNCHANGED <<mainVars, sent>>
  BY DEF WorkerStep, DeliverStep, WorkerKilled
<1>3. WorkerTypeOK'
  <2> USE <1>1 DEF WorkerTypeOK, Alive, Dead
  <2>1. CASE ResetSignals(w)
    BY <2>1 DEF ResetSignals
  <2>2. CASE Announce(w)
    BY <2>2 DEF Announce
  <2>3. CASE Wake(w)
    BY <2>3 DEF Wake
  <2>4. CASE Send(w)
    <3>1. pipe' \in [Receiver -> 0 .. PipeCap]
      BY <2>4, LoadAssumption DEF Send
    <3>2. moved' \in [Worker -> Nat]
      BY <2>4, AdvanceType DEF Send
    <3>3. QED
      BY <2>4, <3>1, <3>2 DEF Send, Die
  <2>5. CASE Receive(w)
    <3>1. pipe' \in [Receiver -> 0 .. PipeCap]
      BY <2>5, LoadAssumption DEF Receive
    <3>2. moved' \in [Worker -> Nat]
      BY <2>5, AdvanceType DEF Receive
    <3>3. QED
      BY <2>5, <3>1, <3>2 DEF Receive
  <2>6. CASE Finish(w)
    BY <2>6 DEF Finish, Die
  <2>7. CASE JumpedWorker(w)
    BY <2>7 DEF JumpedWorker
  <2>8. CASE Deliver(w)
    BY <2>8 DEF Deliver, Die
  <2>9. CASE WorkerKilled(w)
    BY <2>9 DEF WorkerKilled, Die
  <2>10. QED
    BY <2>1, <2>2, <2>3, <2>4, <2>5, <2>6, <2>7, <2>8, <2>9 DEF WorkerStep, DeliverStep
<1>4. QED
  BY <1>2, <1>3 DEF TypeOK, WorkerTypeOK, mainVars

\* A signal keeps the types.
LEMMA TypeSignal ==
  ASSUME TypeOK, NEW s \in Signals, Signal(s)
  PROVE  TypeOK'
<1> USE DEF TypeOK
<1>1. s \in {"TERM", "INT"}
  BY SignalsAssumption
<1>2. /\ pc' \in {"init", "armed", "spawn", "ready", "kick", "jumped", "signal",
                  "wait", "exited"}
      /\ status' \in {"running", "ok", "failed", "killed"}
      /\ ignored' \subseteq {"TERM", "INT"}
  BY <1>1 DEF Signal, Sigcatcher, Exit
<1>3. failing' \in BOOLEAN /\ signal_caught' \in BOOLEAN
  BY DEF Signal, Sigcatcher
<1>4. pending' \subseteq Worker /\ sent' \subseteq Signals
  BY DEF Signal
<1>5. QED
  BY <1>2, <1>3, <1>4 DEF Signal

\* Every step keeps the types.
LEMMA TypeStep == TypeOK /\ CountersInv /\ ReapInv /\ [Next]_vars => TypeOK'
<1> SUFFICES ASSUME TypeOK, CountersInv, ReapInv, [Next]_vars PROVE TypeOK'
  OBVIOUS
<1>1. CASE Next
  BY <1>1, TypeMain, TypeWorker, TypeSignal DEF Next
<1>2. CASE UNCHANGED vars
  BY <1>2 DEF TypeOK, vars, mainVars, workerVars
<1>3. QED
  BY <1>1, <1>2

----------------------------------------------------------------------------
(* The other conjuncts of SafeInv.                                          *)

\* The invariant of the barrier holds at the start.
LEMMA SafeInit == Init => SafeInv
<1> SUFFICES ASSUME Init PROVE SafeInv
  OBVIOUS
<1>1. CountersInv
  BY Sizes DEF Init, CountersInv
<1>2. CreatedInv
  BY DEF Init, CreatedInv, Worker
<1>3. ReapInv /\ BarrierInv
  BY DEF Init, ReapInv, BarrierInv
<1>4. QED
  BY <1>1, <1>2, <1>3, TypeInit DEF SafeInv

\* What a step of a worker may do to the facts above.
LEMMA WorkerFrame ==
  ASSUME TypeOK, CreatedInv, NEW w \in Worker,
         WorkerStep(w) \/ DeliverStep(w) \/ WorkerKilled(w)
  PROVE  /\ UNCHANGED <<mainVars, woken>>
         /\ announced \subseteq announced'
         /\ \A x \in Worker : worker'[x] = "none" <=> worker[x] = "none"
         /\ \A x \in Worker : worker'[x] = "running" => worker[x] = "running" \/ woken
         /\ \A x \in pending' : worker'[x] \in Alive
<1> USE DEF TypeOK, Alive, Dead
<1>0. UNCHANGED mainVars
  BY DEF WorkerStep, DeliverStep, WorkerKilled
<1>1. CASE ResetSignals(w)
  BY <1>0, <1>1 DEF ResetSignals, CreatedInv
<1>2. CASE Announce(w)
  BY <1>0, <1>2 DEF Announce, CreatedInv
<1>3. CASE Wake(w)
  BY <1>0, <1>3 DEF Wake, CreatedInv
<1>4. CASE Send(w)
  BY <1>0, <1>4 DEF Send, Die, CreatedInv
<1>5. CASE Receive(w)
  BY <1>0, <1>5 DEF Receive, CreatedInv
<1>6. CASE Finish(w)
  BY <1>0, <1>6 DEF Finish, Die, CreatedInv
<1>7. CASE JumpedWorker(w)
  BY <1>0, <1>7 DEF JumpedWorker, CreatedInv
<1>8. CASE Deliver(w)
  BY <1>0, <1>8 DEF Deliver, Die, CreatedInv
<1>9. CASE WorkerKilled(w)
  BY <1>0, <1>9 DEF WorkerKilled, Die, CreatedInv
<1>10. QED
  BY <1>1, <1>2, <1>3, <1>4, <1>5, <1>6, <1>7, <1>8, <1>9 DEF WorkerStep, DeliverStep

\* The steps of a worker keep the invariant of the barrier.
LEMMA SafeWorker ==
  ASSUME SafeInv, NEW w \in Worker,
         WorkerStep(w) \/ DeliverStep(w) \/ WorkerKilled(w)
  PROVE  CountersInv' /\ CreatedInv' /\ ReapInv' /\ BarrierInv'
<1> USE WorkerFrame DEF SafeInv, mainVars
<1>1. CountersInv' /\ ReapInv'
  BY DEF CountersInv, ReapInv
<1>2. CreatedInv'
  BY DEF CreatedInv
<1>3. TypeOK'
  BY TypeWorker
<1>4. pc = "ready" => i <= Cardinality(announced')
  <2>1. Cardinality(announced) <= Cardinality(announced')
    BY <1>3, WorkerFinite, FS_Subset DEF TypeOK
  <2>2. Cardinality(announced) \in Nat /\ Cardinality(announced') \in Nat
    BY <1>3, WorkerFinite, FS_Subset, FS_CardinalityType DEF TypeOK
  <2>3. QED
    BY <2>1, <2>2 DEF BarrierInv, TypeOK
<1>5. BarrierInv'
  BY <1>3, <1>4 DEF BarrierInv, TypeOK
<1>6. QED
  BY <1>1, <1>2, <1>5

\* A signal keeps the invariant of the barrier.
LEMMA SafeSignal ==
  ASSUME SafeInv, NEW s \in Signals, Signal(s)
  PROVE  CountersInv' /\ CreatedInv' /\ ReapInv' /\ BarrierInv'
<1> USE DEF SafeInv, Signal
<1>1. UNCHANGED <<i, forked, total_children, child_tab, totchld, timer_started,
                  worker, announced, woken>>
  OBVIOUS
<1>2. pc' = pc \/ pc' \in {"exited", "jumped"}
  BY DEF Sigcatcher, Exit
<1>3. \A w \in pending' : worker[w] \in Alive
  BY DEF CreatedInv, TypeOK
<1>4. CountersInv' /\ ReapInv' /\ BarrierInv'
  BY <1>1, <1>2 DEF CountersInv, ReapInv, BarrierInv
<1>5. CreatedInv'
  BY <1>1, <1>3 DEF CreatedInv
<1>6. QED
  BY <1>4, <1>5

\* The steps of main that touch none of the workers.
LEMMA CreatedFrame ==
  ASSUME CreatedInv,
         UNCHANGED <<worker, child_tab, pending>>,
         total_children' + forked' = total_children + forked
  PROVE  CreatedInv'
  BY DEF CreatedInv

\* main keeps the invariant of the barrier while it creates the groups.
LEMMA SafeSpawn ==
  ASSUME SafeInv, Fork \/ GroupFails \/ PipeFails \/ GroupReturns \/ Spawned
  PROVE  CountersInv' /\ CreatedInv' /\ ReapInv' /\ BarrierInv'
<1> USE Sizes DEF SafeInv, TypeOK, workerVars
<1>0. Cardinality(announced) \in Nat
  BY AllAnnounced
<1>1. CASE Fork
  <2>1. total_children + forked < NumWorkers
    BY <1>1, GroupFits, NumGroupsAssumption DEF Fork, InGroup, CountersInv
  <2>2. CountersInv'
    BY <1>1, <2>1 DEF Fork, InGroup, CountersInv
  <2>3. CreatedInv'
    BY <1>1, <2>1 DEF Fork, CreatedInv, Worker, Alive
  <2>4. ReapInv' /\ BarrierInv'
    BY <1>1, <2>1 DEF Fork, InGroup, ReapInv, BarrierInv
  <2>5. QED
    BY <2>2, <2>3, <2>4
<1>2. CASE GroupFails
  <2>1. pc' = "signal" /\ UNCHANGED <<total_children, forked, workerVars, timer_started>>
        /\ totchld' = total_children + Started(forked)
    BY <1>2 DEF GroupFails, ReapWorkers
  <2>2. Started(forked) <= forked
    BY DEF Started
  <2>3. CountersInv' /\ ReapInv' /\ BarrierInv'
    BY <2>1, <2>2 DEF CountersInv, ReapInv, BarrierInv, Started
  <2>4. \A w \in Worker : w < total_children + forked => child_tab'[w] = child_tab[w]
    BY <1>2 DEF GroupFails, Worker
  <2>5. CreatedInv'
    BY <2>1, <2>4 DEF CreatedInv
  <2>6. QED
    BY <2>3, <2>5
<1>3. CASE PipeFails
  <2>1. CountersInv' /\ ReapInv' /\ BarrierInv'
    BY <1>3 DEF PipeFails, Exit, CountersInv, ReapInv, BarrierInv
  <2>2. QED
    BY <1>3, <2>1, CreatedFrame DEF PipeFails
<1>4. CASE GroupReturns
  <2>1. /\ (i + 1) * GroupSize = i * GroupSize + GroupSize
        /\ i * GroupSize + GroupSize <= NumWorkers
    BY <1>4, GroupFits, NumGroupsAssumption DEF GroupReturns
  <2>2. CountersInv'
    BY <1>4, <2>1, NumGroupsAssumption DEF GroupReturns, CountersInv
  <2>3. ReapInv' /\ BarrierInv'
    BY <1>4 DEF GroupReturns, ReapInv, BarrierInv
  <2>4. CreatedInv'
    BY <1>4, CreatedFrame DEF GroupReturns
  <2>5. QED
    BY <2>2, <2>3, <2>4
<1>5. CASE Spawned
  <2>1. total_children = NumWorkers
    BY <1>5 DEF Spawned, CountersInv
  <2>2. CountersInv' /\ ReapInv' /\ BarrierInv'
    BY <1>0, <1>5, <2>1 DEF Spawned, Exit, CountersInv, ReapInv, BarrierInv
  <2>3. QED
    BY <1>5, <2>2, CreatedFrame DEF Spawned
<1>6. QED
  BY <1>1, <1>2, <1>3, <1>4, <1>5

\* The steps of main keep the invariant of the barrier.
LEMMA SafeMain ==
  ASSUME SafeInv, MainStep
  PROVE  CountersInv' /\ CreatedInv' /\ ReapInv' /\ BarrierInv'
<1> USE Sizes DEF SafeInv, TypeOK, workerVars
<1>1. CASE SetupFails
  BY <1>1, CreatedFrame DEF SetupFails, Exit, CountersInv, ReapInv, BarrierInv
<1>2. CASE InstallHandlers
  BY <1>2, CreatedFrame DEF InstallHandlers, CountersInv, ReapInv, BarrierInv
<1>3. CASE SetJmp
  BY <1>3, CreatedFrame, NumGroupsAssumption DEF SetJmp, CountersInv, ReapInv, BarrierInv
<1>4. CASE ReadReady
  <2>1. Cardinality(announced) \in Nat
    BY AllAnnounced
  <2>2. CountersInv' /\ ReapInv' /\ BarrierInv'
    BY <1>4, <2>1 DEF ReadReady, CountersInv, ReapInv, BarrierInv
  <2>3. QED
    BY <1>4, <2>2, CreatedFrame DEF ReadReady
<1>5. CASE StartTimer
  <2>1. announced = Worker
    BY <1>5, AllAnnounced DEF StartTimer, CountersInv, BarrierInv
  <2>2. CountersInv' /\ ReapInv' /\ BarrierInv'
    BY <1>5, <2>1 DEF StartTimer, CountersInv, ReapInv, BarrierInv
  <2>3. QED
    BY <1>5, <2>2, CreatedFrame DEF StartTimer
<1>6. CASE Kick
  <2>1. CountersInv' /\ ReapInv' /\ BarrierInv'
    BY <1>6 DEF Kick, ReapWorkers, CountersInv, ReapInv, BarrierInv
  <2>2. QED
    BY <1>6, <2>1, CreatedFrame DEF Kick
<1>7. CASE BarrierFails
  <2>1. CountersInv' /\ ReapInv' /\ BarrierInv'
    BY <1>7 DEF BarrierFails, ReapWorkers, CountersInv, ReapInv, BarrierInv
  <2>2. QED
    BY <1>7, <2>1, CreatedFrame DEF BarrierFails
<1>8. CASE LongJmped
  <2>1. timer_started' => timer_started
    BY <1>8 DEF LongJmped
  <2>2. /\ pc' \in {"signal", "wait"} /\ totchld' = total_children
        /\ UNCHANGED <<forked, total_children, workerVars, child_tab>>
    BY <1>8 DEF LongJmped, ReapWorkers
  <2>3. CountersInv' /\ ReapInv' /\ BarrierInv'
    BY <2>1, <2>2 DEF CountersInv, ReapInv, BarrierInv
  <2>4. QED
    BY <2>2, <2>3, CreatedFrame
<1>9. CASE SignalWorker
  <2>1. CountersInv' /\ ReapInv' /\ BarrierInv'
    BY <1>9 DEF SignalWorker, CountersInv, ReapInv, BarrierInv
  <2>2. CreatedInv'
    BY <1>9 DEF SignalWorker, CreatedInv
  <2>3. QED
    BY <2>1, <2>2
<1>10. CASE SignalsSent
  BY <1>10, CreatedFrame DEF SignalsSent, CountersInv, ReapInv, BarrierInv
<1>11. CASE Wait
  <2>1. CountersInv' /\ ReapInv' /\ BarrierInv'
    BY <1>11 DEF Wait, CountersInv, ReapInv, BarrierInv
  <2>2. CreatedInv'
    BY <1>11 DEF Wait, CreatedInv, Alive
  <2>3. QED
    BY <2>1, <2>2
<1>12. CASE Reaped
  BY <1>12, CreatedFrame DEF Reaped, Exit, CountersInv, ReapInv, BarrierInv
<1>13. QED
  BY <1>1, <1>2, <1>3, <1>4, <1>5, <1>6, <1>7, <1>8, <1>9, <1>10, <1>11, <1>12,
     SafeSpawn DEF MainStep

\* Every step keeps the invariant of the barrier.
LEMMA SafeStep == SafeInv /\ [Next]_vars => SafeInv'
<1> SUFFICES ASSUME SafeInv, [Next]_vars PROVE SafeInv'
  OBVIOUS
<1>1. TypeOK'
  BY TypeStep DEF SafeInv
<1>2. CountersInv' /\ CreatedInv' /\ ReapInv' /\ BarrierInv'
  <2>1. CASE Next
    BY <2>1, SafeMain, SafeWorker, SafeSignal DEF Next
  <2>2. CASE UNCHANGED vars
    BY <2>2 DEF SafeInv, vars, mainVars, workerVars, CountersInv, CreatedInv,
                ReapInv, BarrierInv
  <2>3. QED
    BY <2>1, <2>2
<1>3. QED
  BY <1>1, <1>2 DEF SafeInv

\* Main's counters, the ready and wake pipes and the children that were created agree.
THEOREM SafeInvariant == Spec => []SafeInv
  BY SafeInit, SafeStep, PTL DEF Spec

\* Every variable of main and of the workers keeps its range.
THEOREM TypeCorrect == Spec => []TypeOK
<1>1. SafeInv => TypeOK
  BY DEF SafeInv
<1>2. QED
  BY <1>1, SafeInvariant, PTL

\* No worker starts before all have announced themselves, however many groups
\* and descriptors there are and whatever fails.
THEOREM StartTogetherHolds == Spec => []StartTogether
<1>1. SafeInv => StartTogether
  BY DEF SafeInv, BarrierInv, StartTogether
<1>2. QED
  BY <1>1, SafeInvariant, PTL

\* A printed time was taken after the last worker was ready.
THEOREM TimeIsMeasuredHolds == Spec => []TimeIsMeasured
<1>1. SafeInv => TimeIsMeasured
  BY DEF SafeInv, BarrierInv, TimeIsMeasured
<1>2. QED
  BY <1>1, SafeInvariant, PTL

\* kill() only ever gets the pids of processes that fork returned.
THEOREM NoBroadcastKillHolds == Spec => []NoBroadcastKill
<1>1. SafeInv => NoBroadcastKill
  <2> SUFFICES ASSUME SafeInv, pc = "signal", i < totchld PROVE child_tab[i] = "pid"
    BY DEF NoBroadcastKill
  <2>1. i \in Worker /\ i < total_children + forked
    BY Sizes DEF SafeInv, TypeOK, CountersInv, ReapInv, Worker
  <2>2. QED
    BY <2>1 DEF SafeInv, CreatedInv
<1>2. QED
  BY <1>1, SafeInvariant, PTL

----------------------------------------------------------------------------
(* Stopping: what is signalled dies, what main waits for is everything.     *)

\* A worker that dies without any further signal.
Condemned(w) == worker[w] \in Dead \cup {"jumped"} \/ w \in pending
Unreaped     == {w \in Worker : worker[w] \notin {"none", "reaped"}}

\* How main gets into reap_workers, and with what argument.
EntryInv ==
  /\ failing => pc \in {"signal", "wait", "exited"}
  /\ pc = "jumped" => signal_caught
  /\ pc \in {"signal", "wait"} /\ ~failing =>
       /\ totchld = total_children
       /\ ~signal_caught => total_children = NumWorkers /\ pc = "wait"
  /\ status = "ok" => pc = "exited"
  /\ status = "ok" /\ ~signal_caught => total_children = NumWorkers

\* The signals sent so far, and then all of them, have condemned their workers.
CondemnedInv ==
  /\ pc = "signal" => \A w \in Worker : w < i => Condemned(w)
  /\ pc = "wait" /\ (signal_caught \/ failing) =>
       \A w \in Worker : w < totchld => Condemned(w)
  /\ status = "ok" /\ signal_caught =>
       \A w \in Worker : w < total_children => Condemned(w)

\* With all groups complete there are never more processes to reap than calls of
\* wait() to come.
CountInv ==
  /\ pc = "wait" /\ ~failing /\ total_children = NumWorkers =>
       Cardinality(Unreaped) <= totchld - i
  /\ status = "ok" /\ total_children = NumWorkers => Unreaped = {}

StopInv == EntryInv /\ CondemnedInv /\ CountInv

\* There are finitely many workers to wait for.
LEMMA UnreapedFinite ==
  /\ IsFiniteSet(Unreaped)
  /\ Cardinality(Unreaped) \in Nat
  /\ Cardinality(Unreaped) <= NumWorkers
<1>1. Unreaped \in SUBSET Worker
  BY DEF Unreaped
<1>2. QED
  BY <1>1, WorkerFinite, FS_Subset, FS_CardinalityType

\* The invariant of the clean-up holds at the start.
LEMMA StopInit == Init => StopInv
  BY DEF Init, StopInv, EntryInv, CondemnedInv, CountInv

\* No step of a worker takes back a death sentence or a reaped pid.
LEMMA WorkerStopFrame ==
  ASSUME SafeInv, NEW w \in Worker,
         WorkerStep(w) \/ DeliverStep(w) \/ WorkerKilled(w)
  PROVE  /\ \A x \in Worker : Condemned(x) => Condemned(x)'
         /\ \A x \in Worker : worker[x] \in {"none", "reaped"} => worker'[x] = worker[x]
<1> USE DEF SafeInv, TypeOK, CreatedInv, Alive, Dead, Condemned
<1>1. CASE ResetSignals(w)
  BY <1>1 DEF ResetSignals
<1>2. CASE Announce(w)
  BY <1>2 DEF Announce
<1>3. CASE Wake(w)
  BY <1>3 DEF Wake
<1>4. CASE Send(w)
  BY <1>4 DEF Send, Die
<1>5. CASE Receive(w)
  BY <1>5 DEF Receive
<1>6. CASE Finish(w)
  BY <1>6 DEF Finish, Die
<1>7. CASE JumpedWorker(w)
  BY <1>7 DEF JumpedWorker
<1>8. CASE Deliver(w)
  BY <1>8 DEF Deliver, Die
<1>9. CASE WorkerKilled(w)
  BY <1>9 DEF WorkerKilled, Die
<1>10. QED
  BY <1>1, <1>2, <1>3, <1>4, <1>5, <1>6, <1>7, <1>8, <1>9 DEF WorkerStep, DeliverStep

\* The steps of a worker keep the invariant of the clean-up.
LEMMA StopWorker ==
  ASSUME SafeInv, StopInv, NEW w \in Worker,
         WorkerStep(w) \/ DeliverStep(w) \/ WorkerKilled(w)
  PROVE  StopInv'
<1>1. UNCHANGED mainVars
  BY WorkerFrame DEF SafeInv
<1>2. EntryInv' /\ CondemnedInv'
  BY <1>1, WorkerStopFrame DEF StopInv, EntryInv, CondemnedInv, mainVars
<1>3. Unreaped' \subseteq Unreaped
  BY WorkerStopFrame DEF Unreaped
<1>4. /\ Cardinality(Unreaped') \in Nat
      /\ Cardinality(Unreaped') <= Cardinality(Unreaped)
  BY <1>3, UnreapedFinite, FS_Subset, FS_CardinalityType
<1>5. CountInv'
  <2>1. Cardinality(Unreaped) \in Nat /\ totchld - i \in Int
    BY UnreapedFinite DEF SafeInv, TypeOK
  <2>2. QED
    BY <1>1, <1>3, <1>4, <2>1 DEF StopInv, CountInv, mainVars
<1>6. QED
  BY <1>2, <1>5 DEF StopInv

\* A signal keeps the invariant of the clean-up.
LEMMA StopSignal ==
  ASSUME SafeInv, StopInv, NEW s \in Signals, Signal(s)
  PROVE  StopInv'
<1> USE DEF StopInv, Signal
<1>1. \/ /\ pc' = "exited" /\ status' = "killed"
      \/ UNCHANGED <<pc, status, signal_caught, failing>>
      \/ pc' = "jumped" /\ ~failing' /\ signal_caught' /\ status' = status /\ pc # "exited"
  BY DEF Sigcatcher, Exit
<1>2. UNCHANGED <<i, total_children, totchld, worker>> /\ pc # "exited"
      /\ pending \subseteq pending'
  OBVIOUS
<1>3. EntryInv'
  BY <1>1, <1>2 DEF EntryInv
<1>4. CondemnedInv'
  BY <1>1, <1>2 DEF CondemnedInv, EntryInv, Condemned
<1>5. Unreaped' = Unreaped
  BY <1>2 DEF Unreaped
<1>6. CountInv'
  BY <1>1, <1>2, <1>5 DEF CountInv, EntryInv
<1>7. QED
  BY <1>3, <1>4, <1>6

\* The steps of main before reap_workers.
LEMMA StopBefore ==
  ASSUME SafeInv, StopInv,
         \/ SetupFails \/ InstallHandlers \/ SetJmp \/ Fork \/ PipeFails
         \/ GroupReturns \/ Spawned \/ ReadReady \/ StartTimer
  PROVE  StopInv'
<1>1. /\ pc' \notin {"signal", "wait", "jumped"} /\ failing' = failing
      /\ pc \in {"init", "armed", "spawn", "ready"}
      /\ status' \in {status, "failed"}
  BY DEF SetupFails, InstallHandlers, SetJmp, Fork, PipeFails, GroupReturns,
         Spawned, ReadReady, StartTimer, Exit, InGroup
<1>2. status' # "ok" /\ ~failing'
  BY <1>1 DEF StopInv, EntryInv
<1>3. QED
  BY <1>1, <1>2 DEF StopInv, EntryInv, CondemnedInv, CountInv

\* Entering reap_workers.
LEMMA StopEnter ==
  ASSUME SafeInv, StopInv, GroupFails \/ Kick \/ BarrierFails \/ LongJmped
  PROVE  StopInv'
<1> USE DEF SafeInv, TypeOK
<1>1. i' = 0 /\ status' = status /\ signal_caught' = signal_caught
      /\ total_children' = total_children /\ worker' = worker
  BY DEF GroupFails, Kick, BarrierFails, LongJmped, ReapWorkers, workerVars
<1>2. status' # "ok"
  BY <1>1 DEF GroupFails, InGroup, Kick, BarrierFails, LongJmped, StopInv, EntryInv
<1>3. \/ pc' = "signal" /\ failing'
      \/ /\ ~failing' /\ totchld' = total_children
         /\ \/ pc' = "signal" /\ signal_caught
            \/ pc' = "wait" /\ ~signal_caught /\ total_children = NumWorkers
  BY DEF GroupFails, Kick, BarrierFails, LongJmped, ReapWorkers, StopInv, EntryInv, CountersInv
<1>4. EntryInv'
  BY <1>1, <1>2, <1>3 DEF EntryInv
<1>5. CondemnedInv'
  BY <1>1, <1>2, <1>3 DEF CondemnedInv, Worker
<1>6. Unreaped' = Unreaped
  BY <1>1 DEF Unreaped
<1>7. CountInv'
  BY <1>1, <1>2, <1>3, <1>6, UnreapedFinite DEF CountInv
<1>8. QED
  BY <1>4, <1>5, <1>7 DEF StopInv

\* Inside reap_workers.
LEMMA StopInside ==
  ASSUME SafeInv, StopInv, SignalWorker \/ SignalsSent \/ Wait \/ Reaped
  PROVE  StopInv'
<1> USE Sizes DEF SafeInv, TypeOK, StopInv
<1>1. CASE SignalWorker
  <2>1. i \in Worker /\ i \in Targets(i) /\ i < total_children + forked
    BY <1>1 DEF SignalWorker, Targets, ReapInv, Worker
  <2>2. ASSUME NEW w \in Worker, w = i PROVE Condemned(w)'
    <3>1. worker[w] \in Alive \cup Dead
      BY <2>1, <2>2 DEF CreatedInv
    <3>2. CASE worker[w] \in Dead
      BY <1>1, <3>2 DEF SignalWorker, Condemned
    <3>3. CASE worker[w] \in Alive
      BY <1>1, <2>1, <2>2, <3>3 DEF SignalWorker, Condemned
    <3>4. QED
      BY <3>1, <3>2, <3>3
  <2>3. \A w \in Worker : Condemned(w) => Condemned(w)'
    BY <1>1 DEF SignalWorker, Condemned
  <2>4. \A w \in Worker : w < i + 1 => w < i \/ w = i
    BY DEF Worker
  <2>5. CondemnedInv'
    BY <1>1, <2>2, <2>3, <2>4 DEF SignalWorker, CondemnedInv, EntryInv
  <2>6. EntryInv' /\ CountInv'
    BY <1>1 DEF SignalWorker, EntryInv, CountInv
  <2>7. QED
    BY <2>5, <2>6
<1>2. CASE SignalsSent
  <2>1. EntryInv'
    BY <1>2 DEF SignalsSent, EntryInv
  <2>2. CondemnedInv'
    BY <1>2 DEF SignalsSent, CondemnedInv, EntryInv, Condemned, workerVars, Worker
  <2>3. Unreaped' = Unreaped
    BY <1>2 DEF SignalsSent, Unreaped, workerVars
  <2>4. CountInv'
    BY <1>2, <2>3, UnreapedFinite DEF SignalsSent, CountInv, EntryInv
  <2>5. QED
    BY <2>1, <2>2, <2>4
<1>3. CASE Wait
  <2>1. UNCHANGED <<pc, total_children, totchld, failing, signal_caught, status, pending>>
        /\ i' = i + 1 /\ pc = "wait" /\ status # "ok"
    BY <1>3 DEF Wait, EntryInv
  <2>2. EntryInv'
    BY <2>1 DEF EntryInv
  <2>3. \A w \in Worker : Condemned(w) => Condemned(w)'
    BY <1>3 DEF Wait, Condemned, Dead
  <2>4. CondemnedInv'
    BY <2>1, <2>3 DEF CondemnedInv
  <2>5. (Unreaped = {} /\ Unreaped' = {})
        \/ \E w \in Unreaped : Unreaped' = Unreaped \ {w}
    <3>1. CASE \A w \in Worker : worker[w] \in {"none", "reaped"} /\ UNCHANGED worker
      BY <3>1 DEF Unreaped
    <3>2. CASE \E w \in Worker : /\ worker[w] = "zombie"
                                 /\ worker' = [worker EXCEPT ![w] = "reaped"]
      BY <3>2 DEF Unreaped
    <3>3. QED
      BY <1>3, <3>1, <3>2 DEF Wait
  <2>6. Cardinality(Unreaped') = 0 \/ Cardinality(Unreaped') = Cardinality(Unreaped) - 1
    BY <2>5, UnreapedFinite, FS_EmptySet, FS_RemoveElement
  <2>7. i < totchld
    BY <1>3 DEF Wait
  <2>8. CountInv'
    BY <2>1, <2>6, <2>7, UnreapedFinite DEF CountInv
  <2>9. QED
    BY <2>2, <2>4, <2>8
<1>4. CASE Reaped
  <2>1. /\ UNCHANGED <<i, total_children, totchld, failing, signal_caught, worker, pending>>
        /\ pc = "wait" /\ pc' = "exited" /\ i >= totchld
        /\ status' = "ok" => ~failing
    BY <1>4 DEF Reaped, Exit, workerVars
  <2>2. EntryInv'
    BY <2>1 DEF EntryInv
  <2>3. CondemnedInv'
    BY <2>1 DEF CondemnedInv, EntryInv, Condemned
  <2>4. Unreaped' = Unreaped
    BY <2>1 DEF Unreaped
  <2>5. ~failing /\ total_children = NumWorkers => Unreaped = {}
    BY <2>1, UnreapedFinite, FS_EmptySet DEF CountInv
  <2>6. CountInv'
    BY <2>1, <2>4, <2>5 DEF CountInv
  <2>7. QED
    BY <2>2, <2>3, <2>6
<1>5. QED
  BY <1>1, <1>2, <1>3, <1>4

\* Every step keeps the invariant of the clean-up.
LEMMA StopStep == SafeInv /\ StopInv /\ [Next]_vars => StopInv'
<1> SUFFICES ASSUME SafeInv, StopInv, [Next]_vars PROVE StopInv'
  OBVIOUS
<1>1. CASE MainStep
  BY <1>1, StopBefore, StopEnter, StopInside DEF MainStep
<1>2. CASE \E w \in Worker : WorkerStep(w) \/ DeliverStep(w) \/ WorkerKilled(w)
  BY <1>2, StopWorker
<1>3. CASE \E s \in Signals : Signal(s)
  BY <1>3, StopSignal
<1>4. CASE UNCHANGED vars
  BY <1>4 DEF vars, mainVars, workerVars, StopInv, EntryInv, CondemnedInv, CountInv,
              Condemned, Unreaped
<1>5. QED
  BY <1>1, <1>2, <1>3, <1>4 DEF Next

\* A signalled worker stays condemned until it is dead, and main waits once for each.
THEOREM StopInvariant == Spec => [](SafeInv /\ StopInv)
<1>1. Init => SafeInv /\ StopInv
  BY SafeInit, StopInit
<1>2. SafeInv /\ StopInv /\ [Next]_vars => (SafeInv /\ StopInv)'
  BY SafeStep, StopStep
<1>3. QED
  BY <1>1, <1>2, PTL DEF Spec

\* Once all groups exist, a main that exits with status 0 has reaped every worker,
\* whether they finished or a signal cut them short.
THEOREM CleanStopHolds == Spec => []CleanStop
<1>1. SafeInv /\ StopInv => CleanStop
  <2> SUFFICES ASSUME SafeInv, StopInv, status = "ok", total_children = NumWorkers,
                      NEW w \in Worker
               PROVE  worker[w] = "reaped"
    BY DEF CleanStop
  <2>1. worker[w] \in {"none", "reaped"}
    BY DEF StopInv, CountInv, Unreaped
  <2>2. worker[w] # "none"
    BY Sizes DEF SafeInv, TypeOK, CountersInv, CreatedInv, Worker
  <2>3. QED
    BY <2>1, <2>2
<1>2. QED
  BY <1>1, StopInvariant, PTL

\* Wherever a signal hits main, the workers of the complete groups die: what may
\* survive a status of 0 is only the group that was being built.
THEOREM SurvivorsConfinedHolds == Spec => []SurvivorsConfined
<1>1. SafeInv /\ StopInv => SurvivorsConfined
  <2> SUFFICES ASSUME SafeInv, StopInv, status = "ok", NEW w \in Worker,
                      w < total_children
               PROVE  worker[w] \in Dead \cup {"jumped"} \/ w \in pending
    BY DEF SurvivorsConfined
  <2>1. CASE signal_caught
    BY <2>1 DEF StopInv, CondemnedInv, Condemned
  <2>2. CASE ~signal_caught
    <3>1. worker[w] \in {"none", "reaped"}
      BY <2>2 DEF StopInv, EntryInv, CountInv, Unreaped
    <3>2. worker[w] # "none"
      BY DEF SafeInv, TypeOK, CreatedInv, Worker
    <3>3. QED
      BY <3>1, <3>2 DEF Dead
  <2>3. QED
    BY <2>1, <2>2
<1>2. QED
  BY <1>1, StopInvariant, PTL


----------------------------------------------------------------------------
(* What the life depends on, beyond SafeInv and StopInv.                    *)

\* Before the clean-up nothing has gone wrong and no worker has been woken; a main
\* that cleans up although nothing has gone wrong has opened the barrier; and only
\* a clean-up sends or ignores signals.  It leaves no complete group out.
PhaseInv ==
  /\ pc \in {"init", "armed", "spawn", "ready", "kick"} =>
       ~signal_caught /\ ~failing /\ ~woken
  /\ pc \in {"signal", "wait"} => failing \/ signal_caught \/ woken
  /\ pc \in {"signal", "wait"} => total_children <= totchld
  /\ ignored # {} \/ pending # {} \/ (\E w \in Worker : worker[w] = "jumped") =>
       failing \/ signal_caught

\* total_children counts complete groups, wherever main is.
WholeGroups == \E g \in Nat : total_children = g * GroupSize

\* What main leaves behind for good is in the group that was under construction.
ExitInv ==
  pc = "exited" =>
    /\ woken => \A w \in Worker : ~Survives(w)
    /\ failing \/ signal_caught => \A w \in Worker : w < total_children => ~Survives(w)

\* An infinite load that nothing disturbs goes on for ever: no worker dies, and main
\* stays in its first wait().
QuietInv ==
  Infinite /\ Faults = {} /\ ~signal_caught =>
    /\ ~failing /\ pending = {}
    /\ \A w \in Worker : worker[w] \in {"none", "forked", "reset", "polling", "running"}
    /\ pc = "wait" => i = 0

LifeInv == PhaseInv /\ WholeGroups /\ ExitInv /\ QuietInv

----------------------------------------------------------------------------
(* Arithmetic: groups are intervals of workers.                             *)

\* A worker stands in its group.
LEMMA GroupBegins ==
  ASSUME NEW w \in Worker
  PROVE  /\ GroupOf(w) \in Nat
         /\ GroupOf(w) * GroupSize \in Nat
         /\ GroupOf(w) * GroupSize <= w
         /\ w < GroupOf(w) * GroupSize + GroupSize
<1>1. w \in Nat
  BY DEF Worker
<1>2. /\ w \div GroupSize \in Nat
      /\ w = GroupSize * (w \div GroupSize) + (w % GroupSize)
      /\ 0 <= w % GroupSize /\ w % GroupSize < GroupSize
  BY <1>1, Sizes
<1>3. GroupSize * (w \div GroupSize) = (w \div GroupSize) * GroupSize
      /\ (w \div GroupSize) * GroupSize \in Nat
  BY <1>2, Sizes
<1>4. QED
  BY <1>1, <1>2, <1>3, Sizes DEF GroupOf

\* No worker that exists is in a group later than the one under construction.
LEMMA NoLaterGroup ==
  ASSUME SafeInv, WholeGroups, NEW w \in Worker, w < total_children + forked
  PROVE  GroupOf(w) * GroupSize <= total_children
<1>1. PICK g \in Nat : total_children = g * GroupSize
  BY DEF WholeGroups
<1>2. w < g * GroupSize + GroupSize
  BY <1>1, Sizes DEF SafeInv, TypeOK, Worker
<1>3. CASE GroupOf(w) <= g
  BY <1>1, <1>3, GroupBegins, Sizes, TimesMonotone
<1>4. CASE ~(GroupOf(w) <= g)
  <2>1. (g + 1) * GroupSize <= GroupOf(w) * GroupSize
    BY <1>4, GroupBegins, Sizes, TimesMonotone
  <2>2. (g + 1) * GroupSize = g * GroupSize + GroupSize /\ g * GroupSize \in Nat
    BY Sizes
  <2>3. FALSE
    BY <1>2, <2>1, <2>2, GroupBegins, Sizes DEF Worker
  <2>4. QED
    BY <2>3
<1>5. QED
  BY <1>3, <1>4

\* A sender writes to a worker.
LEMMA TargetIsWorker ==
  ASSUME moved \in [Worker -> Nat], NEW w \in Worker
  PROVE  Target(w) \in Worker
<1>1. (moved[w] \div DataSize) \in Nat
  BY LoadAssumption
<1>2. (moved[w] \div DataSize) % NumFds \in 0 .. NumFds - 1
  BY <1>1, NumFdsAssumption
<1>3. Target(w) \in Nat /\ Target(w) < GroupOf(w) * GroupSize + NumFds
  BY <1>2, GroupBegins, NumFdsAssumption DEF Target
<1>4. GroupOf(w) < NumGroups
  <2> SUFFICES ASSUME ~(GroupOf(w) < NumGroups) PROVE FALSE
    OBVIOUS
  <2>1. NumGroups * GroupSize <= GroupOf(w) * GroupSize
    BY GroupBegins, Sizes, NumGroupsAssumption, TimesMonotone
  <2>2. QED
    BY <2>1, GroupBegins, Sizes DEF Worker
<1>5. GroupOf(w) * GroupSize + GroupSize <= NumWorkers
  BY <1>4, GroupBegins, GroupFits
<1>6. QED
  BY <1>3, <1>5, Sizes, GroupBegins, NumFdsAssumption DEF Worker

\* The entry of child_tab that create_worker fills next.
LEMMA NextWorker ==
  ASSUME SafeInv, InGroup
  PROVE  total_children + forked \in Worker
<1>1. i \in Nat /\ i < NumGroups /\ total_children = i * GroupSize
  BY DEF InGroup, SafeInv, TypeOK, CountersInv
<1>2. total_children + GroupSize <= NumWorkers
  BY <1>1, GroupFits
<1>3. total_children \in Nat /\ forked \in Nat /\ forked < GroupSize
  BY Sizes DEF InGroup, SafeInv, TypeOK
<1>4. QED
  BY <1>2, <1>3, Sizes DEF Worker

----------------------------------------------------------------------------
(* LifeInv is an invariant.                                                 *)

\* A step of a worker makes no survivor, jumps only on a signal, and kills nobody
\* in a load that nothing disturbs.
LEMMA WorkerLifeFrame ==
  ASSUME SafeInv, LifeInv, NEW w \in Worker,
         WorkerStep(w) \/ DeliverStep(w) \/ WorkerKilled(w)
  PROVE  /\ \A x \in Worker : Survives(x)' => Survives(x)
         /\ pending' # {} \/ (\E x \in Worker : worker'[x] = "jumped") =>
              pending # {} \/ (\E x \in Worker : worker[x] = "jumped")
         /\ Infinite /\ Faults = {} /\ ~signal_caught =>
              /\ pending' = {}
              /\ \A x \in Worker :
                   worker'[x] \in {"none", "forked", "reset", "polling", "running"}
<1> USE DEF SafeInv, LifeInv, QuietInv, TypeOK, Survives, Alive, Dead
<1>1. CASE ResetSignals(w)
  BY <1>1 DEF ResetSignals
<1>2. CASE Announce(w)
  BY <1>2 DEF Announce
<1>3. CASE Wake(w)
  BY <1>3 DEF Wake
<1>4. CASE Send(w)
  BY <1>4, TargetIsWorker DEF Send, Die
<1>5. CASE Receive(w)
  BY <1>5 DEF Receive
<1>6. CASE Finish(w)
  BY <1>6 DEF Finish, Die, MoreToDo
<1>7. CASE JumpedWorker(w)
  BY <1>7 DEF JumpedWorker
<1>8. CASE Deliver(w)
  BY <1>8 DEF Deliver, Die
<1>9. CASE WorkerKilled(w)
  BY <1>9 DEF WorkerKilled, Die
<1>10. QED
  BY <1>1, <1>2, <1>3, <1>4, <1>5, <1>6, <1>7, <1>8, <1>9 DEF WorkerStep, DeliverStep

\* The steps of a worker keep LifeInv.
LEMMA LifeWorker ==
  ASSUME SafeInv, LifeInv, NEW w \in Worker,
         WorkerStep(w) \/ DeliverStep(w) \/ WorkerKilled(w)
  PROVE  LifeInv'
<1>1. UNCHANGED <<mainVars, woken>>
  BY WorkerFrame DEF SafeInv
<1>2. PhaseInv' /\ WholeGroups'
  BY <1>1, WorkerLifeFrame DEF LifeInv, PhaseInv, WholeGroups, mainVars
<1>3. ExitInv'
  BY <1>1, WorkerLifeFrame DEF LifeInv, ExitInv, mainVars
<1>4. QuietInv'
  BY <1>1, WorkerLifeFrame DEF LifeInv, QuietInv, mainVars
<1>5. QED
  BY <1>2, <1>3, <1>4 DEF LifeInv

\* A signal keeps LifeInv.
LEMMA LifeSignal ==
  ASSUME SafeInv, LifeInv, NEW s \in Signals, Signal(s)
  PROVE  LifeInv'
<1> USE DEF SafeInv, TypeOK, LifeInv, Signal
<1>1. /\ UNCHANGED <<total_children, totchld, worker, woken, i>> /\ pc # "exited"
      /\ pending \subseteq pending'
  OBVIOUS
<1>2. \/ /\ pc \in {"init", "armed"} /\ pc' = "exited" /\ failing' = failing
         /\ pc = "init" => UNCHANGED <<signal_caught, ignored>>
         /\ pc = "armed" => signal_caught'
      \/ /\ UNCHANGED <<pc, signal_caught, ignored, failing>>
         /\ pc \notin {"init", "armed"} /\ s \in ignored
      \/ /\ pc \notin {"init", "armed"}
         /\ pc' = "jumped" /\ ~failing' /\ signal_caught'
  BY DEF Sigcatcher, Exit
<1>3. pc \in {"init", "armed"} => \A w \in Worker : worker[w] = "none"
  BY DEF CountersInv, CreatedInv, Worker
<1>4. pc \in {"init", "armed"} => pending' = pending
  BY <1>3 DEF Alive
<1>5. PhaseInv'
  BY <1>1, <1>2, <1>4 DEF PhaseInv
<1>6. WholeGroups'
  BY <1>1 DEF WholeGroups
<1>7. ExitInv'
  BY <1>1, <1>2, <1>3 DEF ExitInv, Survives, Alive
<1>8. QuietInv'
  <2> SUFFICES ASSUME Infinite, Faults = {}, ~signal_caught' PROVE QuietInv'
    BY DEF QuietInv
  <2>1. pc = "init" /\ UNCHANGED <<failing, signal_caught>> /\ pc' = "exited"
    BY <1>2 DEF PhaseInv, QuietInv
  <2>2. QED
    BY <1>1, <1>4, <2>1 DEF QuietInv
<1>9. QED
  BY <1>5, <1>6, <1>7, <1>8

\* The steps of main before reap_workers.
LEMMA LifeBefore ==
  ASSUME SafeInv, StopInv, LifeInv,
         \/ SetupFails \/ InstallHandlers \/ SetJmp \/ Fork \/ PipeFails
         \/ GroupReturns \/ Spawned \/ ReadReady \/ StartTimer
  PROVE  LifeInv'
<1> USE DEF SafeInv, TypeOK, LifeInv, workerVars
<1>1. /\ pc \in {"init", "armed", "spawn", "ready"}
      /\ pc' \in {"armed", "spawn", "ready", "kick", "exited"}
      /\ UNCHANGED <<failing, signal_caught, ignored, pending, woken>>
  BY DEF SetupFails, InstallHandlers, SetJmp, Fork, PipeFails, GroupReturns,
         Spawned, ReadReady, StartTimer, Exit, InGroup
<1>2. \/ worker' = worker
      \/ \E w \in Worker : worker' = [worker EXCEPT ![w] = "forked"]
  <2>1. CASE Fork
    BY <2>1, NextWorker DEF Fork
  <2>2. CASE ~Fork
    BY <2>2 DEF SetupFails, InstallHandlers, SetJmp, PipeFails, GroupReturns,
                Spawned, ReadReady, StartTimer
  <2>3. QED
    BY <2>1, <2>2
<1>3. total_children' \in {total_children, 0, total_children + GroupSize}
  BY DEF SetupFails, InstallHandlers, SetJmp, Fork, PipeFails, GroupReturns,
         Spawned, ReadReady, StartTimer
<1>4. PhaseInv'
  BY <1>1, <1>2 DEF PhaseInv
<1>5. WholeGroups'
  <2>1. PICK g \in Nat : total_children = g * GroupSize
    BY DEF WholeGroups
  <2>2. 0 = 0 * GroupSize /\ g * GroupSize + GroupSize = (g + 1) * GroupSize
    BY Sizes
  <2>3. QED
    BY <1>3, <2>1, <2>2 DEF WholeGroups
<1>6. ExitInv'
  BY <1>1 DEF ExitInv, PhaseInv
<1>7. QuietInv'
  BY <1>1, <1>2 DEF QuietInv
<1>8. QED
  BY <1>4, <1>5, <1>6, <1>7

\* Entering reap_workers.
LEMMA LifeEnter ==
  ASSUME SafeInv, StopInv, LifeInv, GroupFails \/ Kick \/ BarrierFails \/ LongJmped
  PROVE  LifeInv'
<1> USE DEF SafeInv, TypeOK, LifeInv, workerVars
<1>1. i' = 0 /\ UNCHANGED <<worker, pending, total_children, signal_caught>>
      /\ pc' \in {"signal", "wait"}
  BY DEF GroupFails, Kick, BarrierFails, LongJmped, ReapWorkers
<1>2. \/ failing' /\ Faults # {} /\ woken' = woken
      \/ ~failing' /\ signal_caught /\ woken' = woken
      \/ ~failing /\ ~failing' /\ ~signal_caught /\ woken' /\ ignored' = ignored
  <2>1. CASE GroupFails
    BY <2>1 DEF GroupFails
  <2>2. CASE Kick
    BY <2>2 DEF Kick, ReapWorkers, PhaseInv
  <2>3. CASE BarrierFails
    BY <2>3 DEF BarrierFails, ReapWorkers
  <2>4. CASE LongJmped
    BY <2>4 DEF LongJmped, StopInv, EntryInv
  <2>5. QED
    BY <2>1, <2>2, <2>3, <2>4
<1>3. total_children <= totchld'
  <2>1. Started(forked) \in Nat /\ total_children \in Nat
    BY Sizes DEF Started
  <2>2. totchld' \in {total_children + Started(forked), total_children}
    BY DEF GroupFails, Kick, BarrierFails, LongJmped, ReapWorkers
  <2>3. QED
    BY <2>1, <2>2
<1>4. PhaseInv'
  BY <1>1, <1>2, <1>3 DEF PhaseInv
<1>5. WholeGroups'
  BY <1>1 DEF WholeGroups
<1>6. ExitInv' /\ QuietInv'
  BY <1>1, <1>2 DEF ExitInv, QuietInv
<1>7. QED
  BY <1>4, <1>5, <1>6
\* Inside reap_workers.
LEMMA LifeInside ==
  ASSUME SafeInv, StopInv, LifeInv, SignalWorker \/ SignalsSent \/ Wait \/ Reaped
  PROVE  LifeInv'
<1> USE DEF LifeInv
<1>1. /\ pc \in {"signal", "wait"} /\ pc' \in {"signal", "wait", "exited"}
      /\ UNCHANGED <<total_children, totchld, failing, signal_caught, ignored, woken>>
  BY DEF SignalWorker, SignalsSent, Wait, Reaped, Exit, workerVars
<1>2. /\ \/ pending' = pending
         \/ failing \/ signal_caught
      /\ \A w \in Worker : worker'[w] \in {worker[w], "reaped"}
  BY DEF SignalWorker, SignalsSent, Wait, Reaped, workerVars, SafeInv, TypeOK, StopInv, EntryInv
<1>3. PhaseInv'
  BY <1>1, <1>2 DEF PhaseInv
<1>4. WholeGroups'
  BY <1>1 DEF WholeGroups
<1>5. ExitInv'
  <2> SUFFICES ASSUME Reaped PROVE ExitInv'
    BY DEF ExitInv, SignalWorker, SignalsSent, Wait
  <2>1. UNCHANGED <<worker, pending>> /\ (~failing => status' = "ok")
    BY DEF Reaped, Exit, workerVars
  <2>2. CASE failing \/ signal_caught
    <3>1. ASSUME NEW w \in Worker, w < total_children
          PROVE  ~Survives(w)'
      <4>1. w < totchld
        BY <1>1, <3>1 DEF PhaseInv, SafeInv, TypeOK, Worker
      <4>2. Condemned(w)
        BY <2>2, <4>1 DEF Reaped, StopInv, CondemnedInv
      <4>3. QED
        BY <2>1, <4>2 DEF Condemned, Survives, Alive, Dead
    <3>2. woken => total_children = NumWorkers /\ \A w \in Worker : w < total_children
      BY Sizes DEF SafeInv, CountersInv, Worker
    <3>3. QED
      BY <1>1, <3>1, <3>2 DEF ExitInv
  <2>3. CASE ~failing /\ ~signal_caught
    <3>1. total_children = NumWorkers
      BY <1>1, <2>3 DEF StopInv, EntryInv
    <3>2. Unreaped' = {}
      BY <1>1, <2>1, <2>3, <3>1, StopInside DEF StopInv, CountInv, NumWorkers, GroupSize
    <3>3. QED
      BY <1>1, <2>1, <2>3, <3>2 DEF ExitInv, Unreaped, Survives, Alive
  <2>4. QED
    BY <2>2, <2>3
<1>6. QuietInv'
  <2> SUFFICES ASSUME Infinite, Faults = {}, ~signal_caught PROVE FALSE
    BY <1>1 DEF QuietInv
  <2>1. /\ ~failing /\ i = 0 /\ pc = "wait"
        /\ totchld = total_children /\ total_children = NumWorkers
    BY <1>1 DEF QuietInv, StopInv, EntryInv
  <2>2. 0 \in Worker /\ worker[0] \notin {"none", "reaped"} /\ i < totchld
    <3>1. NumWorkers \in Nat \ {0} /\ forked \in Nat
      BY Sizes DEF SafeInv, TypeOK
    <3>2. 0 \in Worker
      BY <3>1 DEF Worker
    <3>3. ~(0 >= total_children + forked) /\ i < totchld
      BY <2>1, <3>1
    <3>4. worker[0] # "none"
      BY <3>2, <3>3 DEF SafeInv, CreatedInv
    <3>5. worker[0] # "reaped"
      BY <3>2 DEF QuietInv, LifeInv
    <3>6. QED
      BY <3>2, <3>3, <3>4, <3>5
  <2>3. QED
    BY <2>1, <2>2 DEF QuietInv, SignalWorker, SignalsSent, Wait, Reaped, WaitsLeft
<1>7. QED
  BY <1>3, <1>4, <1>5, <1>6

\* LifeInv holds at the start.
LEMMA LifeInit == Init => LifeInv
<1> SUFFICES ASSUME Init PROVE LifeInv
  OBVIOUS
<1>1. WholeGroups
  <2>1. 0 = 0 * GroupSize
    BY Sizes
  <2>2. QED
    BY <2>1 DEF Init, WholeGroups
<1>2. PhaseInv /\ ExitInv /\ QuietInv
  BY DEF Init, PhaseInv, ExitInv, QuietInv
<1>3. QED
  BY <1>1, <1>2 DEF LifeInv

\* Every step keeps LifeInv.
LEMMA LifeStep == SafeInv /\ StopInv /\ LifeInv /\ [Next]_vars => LifeInv'
<1> SUFFICES ASSUME SafeInv, StopInv, LifeInv, [Next]_vars PROVE LifeInv'
  OBVIOUS
<1>1. CASE MainStep
  BY <1>1, LifeBefore, LifeEnter, LifeInside DEF MainStep
<1>2. CASE \E w \in Worker : WorkerStep(w) \/ DeliverStep(w) \/ WorkerKilled(w)
  BY <1>2, LifeWorker
<1>3. CASE \E s \in Signals : Signal(s)
  BY <1>3, LifeSignal
<1>4. CASE UNCHANGED vars
  BY <1>4 DEF vars, mainVars, workerVars, LifeInv, PhaseInv, WholeGroups, ExitInv,
              QuietInv, Survives
<1>5. QED
  BY <1>1, <1>2, <1>3, <1>4 DEF Next

\* LifeInv holds in every reachable state, with the invariants it rests on.
THEOREM LifeInvariant == Spec => [](SafeInv /\ StopInv /\ LifeInv)
<1>1. Spec => [](SafeInv /\ StopInv)
  BY StopInvariant
<1>2. Init => LifeInv
  BY LifeInit
<1>3. SafeInv /\ StopInv /\ LifeInv /\ [Next]_vars => LifeInv'
  BY LifeStep
<1>4. QED
  BY <1>1, <1>2, <1>3, PTL DEF Spec

----------------------------------------------------------------------------
(* Every step of Hackbench is a step of LoadGenerator, or none.             *)

Cleaning == pc \notin {"init", "armed", "exited"} /\ (failing \/ signal_caught)
Building == pc \notin {"init", "armed", "exited"} /\ ~(failing \/ signal_caught)

\* Life, case by case.
LEMMA LifeIs ==
  /\ pc = "exited" /\ (\E w \in Worker : Survives(w)) => Life = "leaky"
  /\ pc = "exited" /\ (\A w \in Worker : ~Survives(w)) => Life = "clean"
  /\ pc \in {"init", "armed"} => Life = "boot"
  /\ Cleaning /\ total_children = NumWorkers => Life = "stopping"
  /\ Cleaning /\ total_children # NumWorkers => Life = "aborting"
  /\ Building /\ total_children < NumWorkers => Life = "spawning"
  /\ Building /\ ~(total_children < NumWorkers) /\ woken => Life = "loaded"
  /\ Building /\ ~(total_children < NumWorkers) /\ ~woken => Life = "spawned"
BY DEF Life, Cleaning, Building

\* The life after a step, for each place of main.
LEMMA LifeIsNext ==
  /\ pc' = "exited" /\ (\E w \in Worker : Survives(w)') => Life' = "leaky"
  /\ pc' = "exited" /\ (\A w \in Worker : ~Survives(w)') => Life' = "clean"
  /\ pc' \in {"init", "armed"} => Life' = "boot"
  /\ Cleaning' /\ total_children' = NumWorkers => Life' = "stopping"
  /\ Cleaning' /\ total_children' # NumWorkers => Life' = "aborting"
  /\ Building' /\ total_children' < NumWorkers => Life' = "spawning"
  /\ Building' /\ ~(total_children' < NumWorkers) /\ woken' => Life' = "loaded"
  /\ Building' /\ ~(total_children' < NumWorkers) /\ ~woken' => Life' = "spawned"
BY DEF Life, Cleaning, Building, NumWorkers, GroupSize, Worker

\* What LoadGenerator allows.
LEMMA Allowed ==
  /\ {<<"boot", "spawning">>, <<"spawning", "spawned">>, <<"spawned", "loaded">>,
      <<"stopping", "clean">>, <<"aborting", "clean">>, <<"aborting", "leaky">>}
       \subseteq LG!SelfMoves
  /\ ~Infinite => <<"loaded", "clean">> \in LG!SelfMoves
  /\ Faults # {} =>
       {<<"boot", "clean">>, <<"spawning", "aborting">>, <<"spawned", "stopping">>,
        <<"loaded", "clean">>, <<"spawning", "clean">>, <<"spawning", "leaky">>,
        <<"spawned", "clean">>, <<"spawned", "leaky">>} \subseteq LG!SelfMoves
  /\ {<<"boot", "clean">>, <<"spawning", "aborting">>, <<"spawned", "stopping">>,
      <<"loaded", "stopping">>} \subseteq LG!SignalMoves
<1>1. LG!Progress \subseteq LG!SelfMoves
  BY DEF LG!SelfMoves
<1>2. LG!LoadMoves \cup LG!StopMoves \subseteq LG!Progress
      /\ (~Infinite => LG!EndMoves \subseteq LG!Progress)
  BY DEF LG!Progress
<1>3. Faults # {} => LG!FaultMoves \subseteq LG!SelfMoves
  BY DEF LG!SelfMoves
<1>4. {"spawning", "spawned"} \X LG!Down =
        {<<"spawning", "clean">>, <<"spawning", "leaky">>,
         <<"spawned", "clean">>, <<"spawned", "leaky">>}
  BY DEF LG!Down
<1>5. QED
  BY <1>1, <1>2, <1>3, <1>4
     DEF LG!LoadMoves, LG!StopMoves, LG!EndMoves, LG!FaultMoves, LG!SignalMoves

AbstractStep == [LG!Move(LG!SelfMoves \cup LG!SignalMoves)]_Life

\* A move of the life that LoadGenerator has is a step of it.
LEMMA AllowedStep ==
  ASSUME Life' = Life \/ <<Life, Life'>> \in LG!SelfMoves \/ <<Life, Life'>> \in LG!SignalMoves
  PROVE  AbstractStep
BY DEF AbstractStep, LG!Move

\* Only the death of main, or a survivor lost after it, would show: a worker that
\* main has left behind is neither woken, nor signalled by one that has jumped.
LEMMA SimWorker ==
  ASSUME SafeInv, LifeInv, NEW w \in Worker,
         WorkerStep(w) \/ DeliverStep(w) \/ WorkerKilled(w)
  PROVE  AbstractStep
<1>1. UNCHANGED <<mainVars, woken>>
  BY WorkerFrame DEF SafeInv
<1>2. CASE pc # "exited"
  <2>1. Life' = Life
    BY <1>1, <1>2 DEF Life, mainVars, Worker, NumWorkers, GroupSize
  <2>2. QED
    BY <2>1, AllowedStep
<1>3. CASE pc = "exited"
  <2>1. ASSUME NEW x \in Worker, Survives(x)
        PROVE  Survives(x)'
    <3> USE DEF SafeInv, TypeOK, Survives, Alive, Dead
    <3>1. ~woken /\ worker[x] \in {"forked", "reset", "polling"} /\ x \notin pending
      BY <1>3, <2>1 DEF LifeInv, ExitInv, BarrierInv
    <3>2. CASE ResetSignals(w)
      BY <3>1, <3>2 DEF ResetSignals
    <3>3. CASE Announce(w)
      BY <3>1, <3>3 DEF Announce
    <3>4. CASE Wake(w)
      BY <3>1, <3>4 DEF Wake, Readable
    <3>5. CASE Send(w) \/ Receive(w) \/ Finish(w)
      BY <3>1, <3>5 DEF Send, Receive, Finish, BarrierInv
    <3>6. CASE JumpedWorker(w)
      <4>1. ~(x < total_children) /\ w < total_children + forked
        BY <1>3, <2>1, <3>6 DEF JumpedWorker, LifeInv, ExitInv, PhaseInv, CreatedInv, Worker
      <4>2. ~(x < GroupOf(w) * GroupSize)
        <5>1. GroupOf(w) * GroupSize <= total_children /\ GroupOf(w) * GroupSize \in Nat
          BY <4>1, NoLaterGroup, GroupBegins DEF LifeInv
        <5>2. total_children \in Nat /\ x \in Nat
          BY DEF Worker
        <5> HIDE DEF SafeInv, TypeOK, Survives
        <5>3. QED
          BY <4>1, <5>1, <5>2
      <4>3. QED
        BY <3>1, <3>6, <4>2 DEF JumpedWorker
    <3>7. CASE Deliver(w)
      BY <3>1, <3>7 DEF Deliver, Die
    <3>8. CASE WorkerKilled(w)
      BY <1>3, <3>8 DEF WorkerKilled
    <3>9. QED
      BY <3>2, <3>3, <3>4, <3>5, <3>6, <3>7, <3>8 DEF WorkerStep, DeliverStep
  <2>2. \A x \in Worker : Survives(x)' <=> Survives(x)
    BY <2>1, WorkerLifeFrame
  <2>3. pc' = "exited"
    BY <1>1, <1>3 DEF mainVars
  <2>4. Life' = Life
    BY <1>3, <2>2, <2>3, LifeIs, LifeIsNext
  <2>5. QED
    BY <2>4, AllowedStep
<1>4. QED
  BY <1>2, <1>3

\* A signal ends a hackbench that boots and turns one that runs to its clean-up.
LEMMA SimSignal ==
  ASSUME SafeInv, LifeInv, NEW s \in Signals, Signal(s)
  PROVE  AbstractStep
<1>1. UNCHANGED <<total_children, worker, woken>> /\ pc # "exited"
  BY DEF Signal
<1>2. CASE pc \in {"init", "armed"}
  <2>1. pc' = "exited"
    BY <1>2 DEF Signal, Sigcatcher, Exit
  <2>2. \A w \in Worker : ~Survives(w)'
    BY <1>1, <1>2 DEF SafeInv, TypeOK, CountersInv, CreatedInv, Worker, Survives, Alive
  <2>3. Life = "boot" /\ Life' = "clean"
    BY <1>2, <2>1, <2>2, LifeIs, LifeIsNext
  <2>4. QED
    BY <2>3, Allowed, AllowedStep
<1>3. CASE pc \notin {"init", "armed"} /\ s \in ignored
  <2>1. UNCHANGED <<pc, failing, signal_caught>>
    BY <1>3 DEF Signal, Sigcatcher
  <2>2. Life' = Life
    BY <1>1, <2>1 DEF Life, NumWorkers, GroupSize, Worker
  <2>3. QED
    BY <2>2, AllowedStep
<1>4. CASE pc \notin {"init", "armed"} /\ s \notin ignored
  <2>1. pc' = "jumped" /\ signal_caught'
    BY <1>4 DEF Signal, Sigcatcher
  <2>2. Cleaning' /\ (Cleaning \/ Building)
    BY <1>1, <1>4, <2>1 DEF Cleaning, Building
  <2>3. total_children \in 0 .. NumWorkers /\ NumWorkers \in Nat
    BY Sizes DEF SafeInv, TypeOK
  <2>4. CASE total_children = NumWorkers
    <3>1. Life' = "stopping" /\ Life \in {"stopping", "loaded", "spawned"}
      BY <1>1, <2>2, <2>3, <2>4, LifeIs, LifeIsNext
    <3>2. QED
      BY <3>1, Allowed, AllowedStep
  <2>5. CASE total_children # NumWorkers
    <3>1. Life' = "aborting" /\ Life \in {"aborting", "spawning"}
      BY <1>1, <2>2, <2>3, <2>5, LifeIs, LifeIsNext
    <3>2. QED
      BY <3>1, Allowed, AllowedStep
  <2>6. QED
    BY <2>4, <2>5
<1>5. QED
  BY <1>2, <1>3, <1>4

\* The start, the groups and the barrier.
LEMMA SimBuild ==
  ASSUME SafeInv, LifeInv,
         \/ SetupFails \/ InstallHandlers \/ SetJmp \/ Fork \/ PipeFails
         \/ GroupReturns \/ Spawned \/ ReadReady \/ StartTimer
  PROVE  AbstractStep
<1> USE DEF workerVars
<1>1. total_children \in 0 .. NumWorkers /\ NumWorkers \in Nat \ {0}
  BY Sizes DEF SafeInv, TypeOK
<1>2. ~failing /\ ~signal_caught /\ ~woken /\ UNCHANGED <<failing, signal_caught, woken>>
  BY DEF SetupFails, InstallHandlers, SetJmp, Fork, PipeFails, GroupReturns,
         Spawned, ReadReady, StartTimer, InGroup, LifeInv, PhaseInv
<1>3. CASE SetupFails
  <2>1. pc = "init" /\ pc' = "exited" /\ Faults # {} /\ UNCHANGED <<worker, pending>>
    BY <1>3 DEF SetupFails, Exit
  <2>2. \A w \in Worker : ~Survives(w)'
    BY <2>1 DEF SafeInv, TypeOK, CountersInv, CreatedInv, Worker, Survives, Alive
  <2>3. Life = "boot" /\ Life' = "clean"
    BY <2>1, <2>2, LifeIs, LifeIsNext
  <2>4. QED
    BY <2>1, <2>3, Allowed, AllowedStep
<1>4. CASE InstallHandlers
  <2>1. pc = "init" /\ pc' = "armed"
    BY <1>4 DEF InstallHandlers
  <2>2. QED
    BY <2>1, LifeIs, LifeIsNext, AllowedStep
<1>5. CASE SetJmp
  <2>1. pc = "armed" /\ pc' = "spawn" /\ total_children' = 0
    BY <1>5 DEF SetJmp
  <2>2. Life = "boot" /\ Life' = "spawning"
    BY <1>1, <1>2, <2>1, LifeIs, LifeIsNext DEF Building
  <2>3. QED
    BY <2>2, Allowed, AllowedStep
<1>6. CASE Fork \/ ReadReady \/ StartTimer \/ (Spawned /\ pc' = "ready")
  <2>1. /\ pc \in {"spawn", "ready"} /\ pc' \in {"spawn", "ready", "kick"}
        /\ total_children' = total_children
    BY <1>6 DEF Fork, InGroup, ReadReady, StartTimer, Spawned
  <2>2. Life' = Life
    BY <1>1, <1>2, <2>1, LifeIs, LifeIsNext DEF Building
  <2>3. QED
    BY <2>2, AllowedStep
<1>7. CASE PipeFails \/ (Spawned /\ pc' # "ready")
  <2>1. pc = "spawn" /\ pc' = "exited" /\ Faults # {}
    BY <1>7 DEF PipeFails, InGroup, Spawned, Exit
  <2>2. Life \in {"spawning", "spawned"} /\ Life' \in {"clean", "leaky"}
    BY <1>1, <1>2, <2>1, LifeIs, LifeIsNext DEF Building
  <2>3. QED
    BY <2>1, <2>2, Allowed, AllowedStep
<1>8. CASE GroupReturns
  <2>1. pc = "spawn" /\ pc' = "spawn" /\ total_children < NumWorkers
    <3>1. i \in Nat /\ i < NumGroups /\ total_children = i * GroupSize
      BY <1>8 DEF GroupReturns, SafeInv, TypeOK, CountersInv
    <3>2. total_children + GroupSize <= NumWorkers
      BY <3>1, GroupFits
    <3>3. QED
      BY <1>1, <1>8, <3>2, Sizes DEF GroupReturns
  <2>2. Life = "spawning" /\ Life' \in {"spawning", "spawned"}
    BY <1>1, <1>2, <2>1, LifeIs, LifeIsNext DEF Building
  <2>3. QED
    BY <2>2, Allowed, AllowedStep
<1>9. QED
  BY <1>3, <1>4, <1>5, <1>6, <1>7, <1>8

\* The ways into reap_workers.
LEMMA SimEnter ==
  ASSUME SafeInv, StopInv, LifeInv, GroupFails \/ Kick \/ BarrierFails \/ LongJmped
  PROVE  AbstractStep
<1>1. total_children \in 0 .. NumWorkers /\ NumWorkers \in Nat \ {0}
  BY Sizes DEF SafeInv, TypeOK
<1>2. UNCHANGED <<total_children, signal_caught>> /\ pc' \in {"signal", "wait"}
  BY DEF GroupFails, Kick, BarrierFails, LongJmped, ReapWorkers
<1>3. CASE GroupFails
  <2>1. pc = "spawn" /\ failing' /\ Faults # {}
    BY <1>3 DEF GroupFails, InGroup
  <2>2. i \in Nat /\ i < NumGroups /\ total_children = i * GroupSize
    BY <1>3 DEF GroupFails, InGroup, SafeInv, TypeOK, CountersInv
  <2>3. total_children < NumWorkers
    BY <1>1, <2>2, GroupFits, Sizes
  <2>4. Life = "spawning" /\ Life' = "aborting"
    BY <1>1, <1>2, <2>1, <2>3, LifeIs, LifeIsNext DEF Building, Cleaning, LifeInv, PhaseInv
  <2>5. QED
    BY <2>1, <2>4, Allowed, AllowedStep
<1>4. CASE Kick
  <2>1. pc = "kick" /\ woken' /\ failing' = failing
    BY <1>4 DEF Kick
  <2>2. Life = "spawned" /\ Life' = "loaded"
    BY <1>1, <1>2, <2>1, LifeIs, LifeIsNext
       DEF Building, LifeInv, PhaseInv, SafeInv, CountersInv
  <2>3. QED
    BY <2>2, Allowed, AllowedStep
<1>5. CASE BarrierFails
  <2>1. pc \in {"ready", "kick"} /\ failing' /\ Faults # {}
    BY <1>5 DEF BarrierFails
  <2>2. Life = "spawned" /\ Life' = "stopping"
    BY <1>1, <1>2, <2>1, LifeIs, LifeIsNext
       DEF Building, Cleaning, LifeInv, PhaseInv, SafeInv, CountersInv
  <2>3. QED
    BY <2>1, <2>2, Allowed, AllowedStep
<1>6. CASE LongJmped
  <2>1. Cleaning /\ Cleaning'
    BY <1>2, <1>6 DEF LongJmped, StopInv, EntryInv, Cleaning
  <2>2. Life' = Life
    BY <1>2, <2>1, LifeIs, LifeIsNext
  <2>3. QED
    BY <2>2, AllowedStep
<1>7. QED
  BY <1>3, <1>4, <1>5, <1>6

\* Inside reap_workers nothing shows but the exit.
LEMMA SimInside ==
  ASSUME SafeInv, StopInv, LifeInv, LifeInv', SignalWorker \/ SignalsSent \/ Wait \/ Reaped
  PROVE  AbstractStep
<1>1. total_children \in 0 .. NumWorkers /\ NumWorkers \in Nat \ {0}
  BY Sizes DEF SafeInv, TypeOK
<1>2. /\ pc \in {"signal", "wait"}
      /\ UNCHANGED <<total_children, failing, signal_caught, woken>>
  BY DEF SignalWorker, SignalsSent, Wait, Reaped, Exit, workerVars
<1>3. CASE ~Reaped
  <2>1. pc' \in {"signal", "wait"}
    BY <1>2, <1>3 DEF SignalWorker, SignalsSent, Wait
  <2>2. Life' = Life
    BY <1>1, <1>2, <2>1, LifeIs, LifeIsNext DEF Building, Cleaning
  <2>3. QED
    BY <2>2, AllowedStep
<1>4. CASE Reaped
  <2>1. pc' = "exited" /\ Life' \in {"clean", "leaky"}
    BY <1>4, LifeIsNext DEF Reaped, Exit
  <2>2. CASE failing \/ signal_caught
    <3>1. CASE total_children = NumWorkers
      <4>1. \A w \in Worker : w < total_children
        BY <1>1, <3>1 DEF Worker
      <4>2. \A w \in Worker : ~Survives(w)'
        BY <1>2, <2>1, <2>2, <4>1 DEF LifeInv, ExitInv, Worker, NumWorkers, GroupSize
      <4>3. Life = "stopping" /\ Life' = "clean"
        BY <1>2, <2>1, <2>2, <3>1, <4>2, LifeIs, LifeIsNext DEF Cleaning
      <4>4. QED
        BY <4>3, Allowed, AllowedStep
    <3>2. CASE total_children # NumWorkers
      <4>1. Life = "aborting"
        BY <1>2, <2>2, <3>2, LifeIs DEF Cleaning
      <4>2. QED
        BY <2>1, <4>1, Allowed, AllowedStep
    <3>3. QED
      BY <3>1, <3>2
  <2>3. CASE ~failing /\ ~signal_caught
    <3>1. woken /\ total_children = NumWorkers /\ totchld = NumWorkers /\ pc = "wait"
      BY <1>2, <2>3 DEF LifeInv, PhaseInv, SafeInv, CountersInv, StopInv, EntryInv
    <3>2. \A w \in Worker : ~Survives(w)'
      BY <1>2, <2>1, <3>1 DEF LifeInv, ExitInv, Worker, NumWorkers, GroupSize
    <3>3. Life = "loaded" /\ Life' = "clean"
      BY <1>1, <1>2, <2>1, <2>3, <3>1, <3>2, LifeIs, LifeIsNext DEF Building
    <3>4. ~Infinite \/ Faults # {}
      BY <1>1, <1>4, <2>3, <3>1 DEF LifeInv, QuietInv, Reaped, WaitsLeft
    <3>5. QED
      BY <3>3, <3>4, Allowed, AllowedStep
  <2>4. QED
    BY <2>2, <2>3
<1>5. QED
  BY <1>3, <1>4

\* A started hackbench lives the life its parent counts on, for every configuration:
\* Hackbench implements LoadGenerator.
THEOREM IsLoadGeneratorHolds == Spec => IsLoadGenerator
<1>1. Init => Life = "boot"
  BY DEF Init, Life
<1>2. SafeInv /\ StopInv /\ LifeInv /\ LifeInv' /\ [Next]_vars => AbstractStep
  <2> SUFFICES ASSUME SafeInv, StopInv, LifeInv, LifeInv', [Next]_vars PROVE AbstractStep
    OBVIOUS
  <2>1. CASE MainStep
    BY <2>1, SimBuild, SimEnter, SimInside DEF MainStep
  <2>2. CASE \E w \in Worker : WorkerStep(w) \/ DeliverStep(w) \/ WorkerKilled(w)
    BY <2>2, SimWorker
  <2>3. CASE \E s \in Signals : Signal(s)
    BY <2>3, SimSignal
  <2>4. CASE UNCHANGED vars
    <3>1. Life' = Life
      BY <2>4 DEF vars, mainVars, workerVars, Life, Survives, Worker, NumWorkers, GroupSize
    <3>2. QED
      BY <3>1, AllowedStep
  <2>5. QED
    BY <2>1, <2>2, <2>3, <2>4 DEF Next
<1>3. QED
  BY <1>1, <1>2, LifeInvariant, PTL DEF Spec, AbstractStep, IsLoadGenerator, LG!Spec

----------------------------------------------------------------------------
(* Delivery: every unit that is written is in a pipe or was read.           *)

Sender(w) == w \in Worker /\ w \notin Receiver

\* The units that were written to a receiver: unit u of a sender belongs to message
\* u \div DataSize, which goes to the receiver whose turn it is.
Units(r) ==
  {m \in Worker \X Nat : /\ Sender(m[1]) /\ GroupOf(m[1]) = GroupOf(r)
                         /\ m[2] < moved[m[1]] /\ (m[2] \div DataSize) % NumFds = r % GroupSize}

\* All the units that a finite run writes to it.
AllUnits(r) ==
  {m \in Worker \X Nat : /\ Sender(m[1]) /\ GroupOf(m[1]) = GroupOf(r)
                         /\ m[2] < SenderGoal /\ (m[2] \div DataSize) % NumFds = r % GroupSize}

ConservationInv ==
  ~Infinite =>
    /\ \A w \in Worker : moved[w] <= Goal(w)
    /\ \A r \in Receiver : /\ IsFiniteSet(Units(r))
                           /\ Cardinality(Units(r)) = moved[r] + pipe[r]

\* Where no worker is killed from outside and main has no reason to clean up, only
\* those are dead that have moved all they had to.
DoneInv ==
  /\ "worker" \notin Faults /\ ~failing /\ ~signal_caught =>
       \A w \in Worker : worker[w] \in Dead => ~Infinite /\ moved[w] = Goal(w)
  /\ status = "ok" => ~failing

DataInv == SafeInv /\ StopInv /\ LifeInv /\ ConservationInv /\ DoneInv

----------------------------------------------------------------------------
(* How many units there are.                                                *)

\* Division with remainder.
LEMMA Split ==
  ASSUME NEW n \in Nat \ {0}, NEW k \in Nat
  PROVE  /\ k \div n \in Nat /\ k % n \in 0 .. n - 1 /\ (k \div n) * n \in Nat
         /\ k = (k \div n) * n + (k % n)
<1> DEFINE q == k \div n
<1>1. q \in Nat /\ k % n \in 0 .. n - 1 /\ k = n * q + (k % n)
  OBVIOUS
<1>2. n * q = q * n /\ q * n \in Nat
  BY <1>1
<1>3. QED
  BY <1>1, <1>2

\* A product and a remainder, taken apart again.
LEMMA Unsplit ==
  ASSUME NEW n \in Nat \ {0}, NEW a \in Nat, NEW b \in 0 .. n - 1
  PROVE  a * n + b \in Nat /\ (a * n + b) \div n = a /\ (a * n + b) % n = b
<1> DEFINE k == a * n + b
<1>1. k \in Nat /\ a * n \in Nat
  OBVIOUS
<1>2. k = a * n + b
  OBVIOUS
<1> DEFINE q == k \div n
<1> HIDE DEF k
<1>3. /\ q \in Nat /\ k % n \in 0 .. n - 1 /\ q * n \in Nat /\ k = q * n + (k % n)
  BY <1>1, Split
<1> HIDE DEF q
<1>4. q = a
  <2>1. CASE q + 1 <= a
    <3>1. (q + 1) * n <= a * n /\ (q + 1) * n = q * n + n
      BY <1>3, <2>1, TimesMonotone
    <3>2. QED
      BY <1>1, <1>2, <1>3, <3>1
  <2>2. CASE a + 1 <= q
    <3>1. (a + 1) * n <= q * n /\ (a + 1) * n = a * n + n
      BY <1>3, <2>2, TimesMonotone
    <3>2. QED
      BY <1>1, <1>2, <1>3, <3>1
  <2>3. QED
    BY <1>3, <2>1, <2>2
<1>5. k % n = b
  BY <1>1, <1>2, <1>3, <1>4
<1>6. QED
  BY <1>1, <1>4, <1>5 DEF k, q

\* The turns of a loop that are over.
LEMMA Below ==
  ASSUME NEW n \in Nat \ {0}, NEW a \in Nat, NEW k \in Nat
  PROVE  k < a * n <=> k \div n < a
<1> DEFINE q == k \div n
<1>1. /\ q \in Nat /\ q * n \in Nat /\ a * n \in Nat
      /\ q * n <= k /\ k < q * n + n
  BY Split
<1> HIDE DEF q
<1>2. CASE q + 1 <= a
  <2>1. (q + 1) * n <= a * n /\ (q + 1) * n = q * n + n
    BY <1>1, <1>2, TimesMonotone
  <2>2. k < a * n
    BY <1>1, <2>1
  <2>3. QED
    BY <1>1, <1>2, <2>2 DEF q
<1>3. CASE a <= q
  <2>1. a * n <= q * n
    BY <1>1, <1>3, TimesMonotone
  <2>2. ~(k < a * n)
    BY <1>1, <2>1
  <2>3. QED
    BY <1>1, <1>3, <2>2 DEF q
<1>4. QED
  BY <1>1, <1>2, <1>3

\* A number below GroupSize is a place in every group.
LEMMA PlaceInGroup ==
  ASSUME NEW w \in Worker, NEW j \in Nat, j < GroupSize
  PROVE  /\ GroupOf(w) * GroupSize + j \in Worker
         /\ GroupOf(GroupOf(w) * GroupSize + j) = GroupOf(w)
         /\ (GroupOf(w) * GroupSize + j) % GroupSize = j
<1>1. GroupOf(w) \in Nat /\ GroupOf(w) * GroupSize \in Nat /\ j \in 0 .. GroupSize - 1
  BY GroupBegins, Sizes
<1>2. GroupOf(w) < NumGroups
  BY Below, Sizes, NumGroupsAssumption DEF Worker, GroupOf
<1>3. GroupOf(w) * GroupSize + GroupSize <= NumWorkers
  BY <1>1, <1>2, GroupFits
<1>4. GroupOf(w) * GroupSize + j \in Worker
  <2> DEFINE b == GroupOf(w) * GroupSize
  <2>1. b \in Nat /\ b + GroupSize <= NumWorkers
    BY <1>1, <1>3
  <2> HIDE DEF b
  <2>2. b + j \in Worker
    BY <2>1, Sizes DEF Worker
  <2>3. QED
    BY <2>2 DEF b
<1>5. /\ (GroupOf(w) * GroupSize + j) \div GroupSize = GroupOf(w)
      /\ (GroupOf(w) * GroupSize + j) % GroupSize = j
  BY <1>1, Unsplit, Sizes
<1>6. QED
  BY <1>4, <1>5 DEF GroupOf

\* A worker is its group and its place in it.
LEMMA WorkerIs ==
  ASSUME NEW w \in Worker
  PROVE  /\ w \in Nat /\ GroupOf(w) * GroupSize \in Nat
         /\ w % GroupSize \in 0 .. GroupSize - 1
         /\ w = GroupOf(w) * GroupSize + (w % GroupSize)
BY Split, Sizes DEF Worker, GroupOf

SendersOf(r) == {s \in Worker : Sender(s) /\ GroupOf(s) = GroupOf(r)}

\* A receiver has a sender for each descriptor.
LEMMA SendersCount ==
  ASSUME NEW r \in Receiver
  PROVE  IsFiniteSet(SendersOf(r)) /\ Cardinality(SendersOf(r)) = NumFds
<1> DEFINE b == GroupOf(r) * GroupSize
<1>1. r \in Worker /\ b \in Nat /\ GroupSize = NumFds + NumFds
  BY WorkerIs, NumFdsAssumption DEF Receiver, GroupSize
<1>2. \A s \in SendersOf(r) : s \in b + NumFds .. b + NumFds + NumFds - 1
  <2> TAKE s \in SendersOf(r)
  <2>1. s \in Worker /\ GroupOf(s) * GroupSize = b /\ s \notin Receiver
    BY DEF SendersOf, Sender
  <2>2. s = b + (s % GroupSize) /\ s % GroupSize \in 0 .. GroupSize - 1 /\ s \in Nat
    BY <2>1, WorkerIs
  <2>3. s % GroupSize >= NumFds
    BY <2>1, <2>2, NumFdsAssumption DEF Receiver
  <2> HIDE DEF b
  <2>4. QED
    BY <1>1, <2>2, <2>3, NumFdsAssumption
<1>3. \A n \in b + NumFds .. b + NumFds + NumFds - 1 : n \in SendersOf(r)
  <2> TAKE n \in b + NumFds .. b + NumFds + NumFds - 1
  <2>1. n - b \in Nat /\ n - b < GroupSize /\ n - b >= NumFds /\ b + (n - b) = n
    <3> HIDE DEF b
    <3>1. QED
      BY <1>1, NumFdsAssumption
  <2>2. n \in Worker /\ GroupOf(n) = GroupOf(r) /\ n % GroupSize = n - b
    BY <1>1, <2>1, PlaceInGroup
  <2>3. QED
    BY <2>1, <2>2, NumFdsAssumption DEF SendersOf, Sender, Receiver
<1>4. SendersOf(r) = b + NumFds .. b + NumFds + NumFds - 1
  BY <1>2, <1>3
<1> HIDE DEF b
<1>5. QED
  BY <1>1, <1>4, FS_Interval, NumFdsAssumption

\* The units of a sender for one receiver: one message in each round, DataSize units
\* in each message.
LEMMA InTurn ==
  ASSUME NEW j \in 0 .. NumFds - 1, NEW q \in 0 .. Loops - 1, NEW e \in 0 .. DataSize - 1
  PROVE  LET u == (q * NumFds + j) * DataSize + e IN
         /\ u \in Nat /\ u < SenderGoal /\ (u \div DataSize) % NumFds = j
         /\ u % DataSize = e /\ (u \div DataSize) \div NumFds = q
<1> DEFINE t == q * NumFds + j
           u == t * DataSize + e
<1>1. /\ NumFds \in Nat \ {0} /\ DataSize \in Nat \ {0} /\ Loops \in Nat /\ q \in Nat /\ q < Loops
  BY NumFdsAssumption, LoadAssumption
<1>2. t \in Nat /\ t \div NumFds = q /\ t % NumFds = j
  BY <1>1, Unsplit
<1>3. t < Loops * NumFds /\ Loops * NumFds \in Nat
  BY <1>1, <1>2, Below
<1> HIDE DEF t
<1>4. u \in Nat /\ u \div DataSize = t /\ u % DataSize = e
  BY <1>1, <1>2, Unsplit
<1>5. u < Loops * NumFds * DataSize
  BY <1>1, <1>3, <1>4, Below
<1>6. QED
  BY <1>2, <1>4, <1>5 DEF SenderGoal, t

\* Every receiver is sent as much as it waits for.
LEMMA AllUnitsCount ==
  ASSUME NEW r \in Receiver
  PROVE  IsFiniteSet(AllUnits(r)) /\ Cardinality(AllUnits(r)) = ReceiverGoal
<1> DEFINE j == r % GroupSize
           T == (0 .. Loops - 1) \X (0 .. DataSize - 1)
           S == SendersOf(r) \X T
           unit(q, e) == (q * NumFds + j) * DataSize + e
           f == [p \in S |-> <<p[1], unit(p[2][1], p[2][2])>>]
<1>1. j \in 0 .. NumFds - 1 /\ r \in Worker
  BY WorkerIs, NumFdsAssumption DEF Receiver
<1>2. /\ NumFds \in Nat \ {0} /\ DataSize \in Nat \ {0} /\ Loops \in Nat \ {0}
  BY NumFdsAssumption, LoadAssumption
<1>3. \A q \in 0 .. Loops - 1, e \in 0 .. DataSize - 1 :
         /\ unit(q, e) \in Nat /\ unit(q, e) < SenderGoal
         /\ (unit(q, e) \div DataSize) % NumFds = j
         /\ unit(q, e) % DataSize = e /\ (unit(q, e) \div DataSize) \div NumFds = q
  BY <1>1, InTurn
<1> HIDE DEF unit, j
<1>4. f \in [S -> AllUnits(r)]
  <2> SUFFICES ASSUME NEW s \in SendersOf(r), NEW q \in 0 .. Loops - 1,
                      NEW e \in 0 .. DataSize - 1
               PROVE  <<s, unit(q, e)>> \in AllUnits(r)
    OBVIOUS
  <2>1. s \in Worker /\ Sender(s) /\ GroupOf(s) = GroupOf(r)
    BY DEF SendersOf
  <2>2. QED
    BY <1>3, <2>1 DEF AllUnits, j
<1>5. \A a, b \in S : f[a] = f[b] => a = b
  <2> SUFFICES ASSUME NEW a \in S, NEW b \in S, f[a] = f[b] PROVE a = b
    OBVIOUS
  <2>1. a[1] = b[1] /\ unit(a[2][1], a[2][2]) = unit(b[2][1], b[2][2])
    OBVIOUS
  <2>2. a[2][1] = b[2][1] /\ a[2][2] = b[2][2]
    BY <1>3, <2>1
  <2>3. QED
    BY <2>1, <2>2
<1>6. \A m \in AllUnits(r) : \E a \in S : f[a] = m
  <2> TAKE m \in AllUnits(r)
  <2> DEFINE t == m[2] \div DataSize
             q == t \div NumFds
             e == m[2] % DataSize
  <2>1. /\ m = <<m[1], m[2]>> /\ m[1] \in SendersOf(r) /\ m[2] \in Nat
        /\ m[2] < Loops * NumFds * DataSize /\ t % NumFds = j
    BY DEF AllUnits, SendersOf, SenderGoal, j
  <2>2. t \in Nat /\ e \in 0 .. DataSize - 1 /\ m[2] = t * DataSize + e
    BY <1>2, <2>1, Split
  <2>3. t < Loops * NumFds
    <3>1. Loops * NumFds \in Nat
      BY <1>2
    <3>2. QED
      BY <1>2, <2>1, <3>1, Below
  <2> HIDE DEF t, e
  <2>4. q \in Nat /\ t = q * NumFds + (t % NumFds)
    BY <1>2, <2>2, Split
  <2>5. q < Loops
    BY <1>2, <2>2, <2>3, Below
  <2> HIDE DEF q
  <2>6. q \in 0 .. Loops - 1
    BY <1>2, <2>4, <2>5
  <2>7. m[2] = unit(q, e)
    BY <2>1, <2>2, <2>4 DEF unit
  <2>8. <<m[1], <<q, e>>>> \in S /\ f[<<m[1], <<q, e>>>>] = m
    BY <2>1, <2>2, <2>6, <2>7
  <2>9. QED
    BY <2>8
<1>7. ExistsBijection(S, AllUnits(r))
  <2>1. DOMAIN f = S
    OBVIOUS
  <2> HIDE DEF f, S
  <2>2. f \in Injection(S, AllUnits(r)) /\ f \in Surjection(S, AllUnits(r))
    BY <1>4, <1>5, <1>6, <2>1 DEF Injection, Surjection, IsInjective
  <2>3. QED
    BY <2>2 DEF ExistsBijection, Bijection
<1>8. IsFiniteSet(S) /\ Cardinality(S) = NumFds * (Loops * DataSize)
  <2>1. IsFiniteSet(0 .. Loops - 1) /\ Cardinality(0 .. Loops - 1) = Loops
    BY FS_Interval, <1>2
  <2>2. IsFiniteSet(0 .. DataSize - 1) /\ Cardinality(0 .. DataSize - 1) = DataSize
    BY FS_Interval, <1>2
  <2> DEFINE A == 0 .. Loops - 1
             B == 0 .. DataSize - 1
  <2> HIDE DEF A, B
  <2>3. IsFiniteSet(A \X B) /\ Cardinality(A \X B) = Cardinality(A) * Cardinality(B)
    BY <2>1, <2>2, FS_Product DEF A, B
  <2>4. IsFiniteSet(T) /\ Cardinality(T) = Loops * DataSize
    BY <2>1, <2>2, <2>3 DEF A, B
  <2> HIDE DEF T
  <2>5. QED
    BY <2>4, SendersCount, FS_Product
<1>9. NumFds * (Loops * DataSize) = NumFds * Loops * DataSize
  BY <1>2
<1>10. QED
  BY <1>7, <1>8, <1>9, FS_Bijection DEF ReceiverGoal
----------------------------------------------------------------------------
(* Conservation.                                                            *)

\* A sender writes to the receiver of its group whose turn it is.
LEMMA TargetIs ==
  ASSUME moved \in [Worker -> Nat], NEW w \in Worker
  PROVE  /\ Target(w) \in Receiver /\ GroupOf(Target(w)) = GroupOf(w)
         /\ Target(w) % GroupSize = (moved[w] \div DataSize) % NumFds
<1>1. (moved[w] \div DataSize) \in Nat
  BY LoadAssumption
<1>2. (moved[w] \div DataSize) % NumFds \in 0 .. NumFds - 1
  BY <1>1, NumFdsAssumption
<1> DEFINE j == (moved[w] \div DataSize) % NumFds
<1> HIDE DEF j
<1>3. j \in Nat /\ j < GroupSize /\ j < NumFds
  BY <1>2, NumFdsAssumption, Sizes DEF j
<1>4. Target(w) = GroupOf(w) * GroupSize + j
  BY DEF Target, j
<1>5. QED
  BY <1>3, <1>4, PlaceInGroup DEF Receiver, j

\* Senders and receivers have the same goal.
LEMMA Goals ==
  /\ SenderGoal \in Nat /\ ReceiverGoal = SenderGoal
  /\ \A w \in Worker : Goal(w) = SenderGoal
<1>1. Loops * NumFds \in Nat /\ Loops * NumFds = NumFds * Loops
  BY NumFdsAssumption, LoadAssumption
<1>2. SenderGoal \in Nat /\ ReceiverGoal = SenderGoal
  BY <1>1, LoadAssumption DEF SenderGoal, ReceiverGoal
<1>3. QED
  BY <1>2 DEF Goal

\* Who moves nothing writes nothing.
LEMMA SameUnits ==
  ASSUME ConservationInv, UNCHANGED <<moved, pipe>>
  PROVE  ConservationInv'
<1>1. \A r \in Receiver : Units(r)' = Units(r)
  BY DEF Units
<1>2. (\A w \in Worker : moved[w] <= Goal(w))' <=> \A w \in Worker : moved[w] <= Goal(w)
  BY DEF Goal
<1>3. QED
  BY <1>1, <1>2 DEF ConservationInv

\* A worker that has more to do stays within its goal when it moves one more unit.
LEMMA WithinGoal ==
  ASSUME TypeOK, ConservationInv, ~Infinite, NEW w \in Worker, MoreToDo(w), moved' = Advance(w)
  PROVE  /\ moved' = [moved EXCEPT ![w] = moved[w] + 1] /\ moved[w] \in Nat
         /\ \A x \in Worker : moved'[x] <= Goal(x)
<1>1. moved' = [moved EXCEPT ![w] = moved[w] + 1] /\ moved \in [Worker -> Nat]
      /\ moved[w] < Goal(w) /\ \A x \in Worker : moved[x] <= Goal(x)
  BY DEF TypeOK, Advance, MoreToDo, ConservationInv
<1>2. \A x \in Worker : Goal(x) \in Nat
  BY Goals
<1>3. QED
  BY <1>1, <1>2

\* The units written to r, one step later.
LEMMA UnitsNext ==
  ASSUME NEW r \in Receiver
  PROVE  Units(r)' = {m \in Worker \X Nat :
            /\ Sender(m[1]) /\ GroupOf(m[1]) = GroupOf(r)
            /\ m[2] < moved'[m[1]] /\ (m[2] \div DataSize) % NumFds = r % GroupSize}
BY DEF Units, Sender, GroupOf, Worker, Receiver, GroupSize, NumWorkers

\* A unit that is written is one more for its target and in its pipe.
LEMMA ConserveSend ==
  ASSUME TypeOK, ConservationInv, NEW w \in Worker, Send(w)
  PROVE  ConservationInv'
<1>1. CASE UNCHANGED <<moved, pipe>>
  BY <1>1, SameUnits
<1>2. ASSUME ~UNCHANGED <<moved, pipe>>, ~Infinite PROVE ConservationInv'
  <2>1. /\ Sender(w) /\ MoreToDo(w) /\ moved' = Advance(w)
        /\ pipe' = [pipe EXCEPT ![Target(w)] = pipe[Target(w)] + 1]
        /\ moved \in [Worker -> Nat] /\ pipe \in [Receiver -> 0 .. PipeCap]
    BY <1>2 DEF Send, Sender, TypeOK
  <2>2. /\ moved' = [moved EXCEPT ![w] = moved[w] + 1] /\ moved[w] \in Nat
        /\ \A x \in Worker : moved'[x] <= Goal(x)
    BY <1>2, <2>1, WithinGoal
  <2>3. /\ Target(w) \in Receiver /\ GroupOf(Target(w)) = GroupOf(w)
        /\ Target(w) % GroupSize = (moved[w] \div DataSize) % NumFds
    BY <2>1, TargetIs
  <2>4. ASSUME NEW r \in Receiver
        PROVE  IsFiniteSet(Units(r)') /\ Cardinality(Units(r)') = moved'[r] + pipe'[r]
    <3>1. /\ r \in Worker /\ moved'[r] = moved[r] /\ moved[r] \in Nat /\ pipe[r] \in Nat
          /\ IsFiniteSet(Units(r)) /\ Cardinality(Units(r)) = moved[r] + pipe[r]
      BY <1>2, <2>1, <2>2, <2>4, LoadAssumption DEF ConservationInv, Sender, Receiver
    <3>2. \A x \in Worker, k \in Nat : k < moved'[x] <=> k < moved[x] \/ (x = w /\ k = moved[w])
      BY <2>1, <2>2
    <3>3. CASE r = Target(w)
      <4>1. Units(r)' = Units(r) \cup {<<w, moved[w]>>}
        <5>1. \A m \in Worker \X Nat : m = <<m[1], m[2]>> /\ m[1] \in Worker /\ m[2] \in Nat
          OBVIOUS
        <5>2. <<w, moved[w]>> \in Worker \X Nat /\ GroupOf(w) = GroupOf(r)
              /\ (moved[w] \div DataSize) % NumFds = r % GroupSize
          BY <2>2, <2>3, <3>3
        <5>3. \A m \in Worker \X Nat : m[2] < moved'[m[1]] <=>
                                         m[2] < moved[m[1]] \/ m = <<w, moved[w]>>
          BY <3>2, <5>1
        <5>4. QED
          BY <2>1, <5>2, <5>3, UnitsNext DEF Units
      <4>2. <<w, moved[w]>> \notin Units(r)
        BY <2>2 DEF Units
      <4>3. IsFiniteSet(Units(r)') /\ Cardinality(Units(r)') = Cardinality(Units(r)) + 1
        BY <3>1, <4>1, <4>2, FS_AddElement
      <4>4. pipe'[r] = pipe[r] + 1
        BY <2>1, <3>3
      <4>5. QED
        BY <3>1, <4>3, <4>4
    <3>4. CASE r # Target(w)
      <4>1. ~(GroupOf(w) = GroupOf(r) /\ (moved[w] \div DataSize) % NumFds = r % GroupSize)
        <5> SUFFICES ASSUME GroupOf(w) = GroupOf(r),
                            (moved[w] \div DataSize) % NumFds = r % GroupSize
                     PROVE  FALSE
          OBVIOUS
        <5>1. r = GroupOf(r) * GroupSize + (r % GroupSize)
          BY <3>1, WorkerIs
        <5>2. QED
          BY <3>4, <5>1 DEF Target
      <4>2. Units(r)' = Units(r)
        <5>1. \A m \in Worker \X Nat : m[1] \in Worker /\ m[2] \in Nat
          OBVIOUS
        <5>2. QED
          BY <3>2, <4>1, <5>1, UnitsNext DEF Units
      <4>3. pipe'[r] = pipe[r]
        BY <2>1, <3>4
      <4>4. QED
        BY <3>1, <4>2, <4>3
    <3>5. QED
      BY <3>3, <3>4
  <2>5. QED
    BY <2>2, <2>4 DEF ConservationInv, Receiver, Worker, NumWorkers, GroupSize, Goal,
                      SenderGoal, ReceiverGoal
<1>3. CASE Infinite
  BY <1>3 DEF ConservationInv
<1>4. QED
  BY <1>1, <1>2, <1>3

\* A unit that is read is in no pipe any more and counted by its receiver.
LEMMA ConserveReceive ==
  ASSUME TypeOK, ConservationInv, NEW w \in Worker, Receive(w)
  PROVE  ConservationInv'
<1>1. ASSUME ~Infinite PROVE ConservationInv'
  <2>1. /\ w \in Receiver /\ MoreToDo(w) /\ moved' = Advance(w)
        /\ pipe' = [pipe EXCEPT ![w] = pipe[w] - 1] /\ pipe[w] > 0
        /\ moved \in [Worker -> Nat] /\ pipe \in [Receiver -> 0 .. PipeCap]
    BY DEF Receive, TypeOK
  <2>2. /\ moved' = [moved EXCEPT ![w] = moved[w] + 1] /\ moved[w] \in Nat
        /\ \A x \in Worker : moved'[x] <= Goal(x)
    BY <1>1, <2>1, WithinGoal
  <2>3. ASSUME NEW r \in Receiver
        PROVE  IsFiniteSet(Units(r)') /\ Cardinality(Units(r)') = moved'[r] + pipe'[r]
    <3>1. \A x \in Worker : Sender(x) => moved'[x] = moved[x]
      BY <2>1, <2>2 DEF Sender
    <3>2. Units(r)' = Units(r)
      <4>1. \A m \in Worker \X Nat : m[1] \in Worker
        OBVIOUS
      <4>2. QED
        BY <3>1, <4>1, UnitsNext DEF Units
    <3>3. r \in Worker /\ moved[r] \in Nat /\ pipe[r] \in Nat
      BY <2>1, LoadAssumption DEF Receiver
    <3>4. moved'[r] + pipe'[r] = moved[r] + pipe[r]
      BY <2>1, <2>2, <3>3
    <3>5. QED
      BY <1>1, <3>2, <3>4 DEF ConservationInv
  <2>4. QED
    BY <2>2, <2>3 DEF ConservationInv, Receiver, Worker, NumWorkers, GroupSize, Goal,
                      SenderGoal, ReceiverGoal
<1>2. QED
  BY <1>1 DEF ConservationInv

\* Every step keeps the balance of sent and received units.
LEMMA ConserveStep ==
  ASSUME TypeOK, ConservationInv, [Next]_vars
  PROVE  ConservationInv'
<1>1. ASSUME NEW w \in Worker, WorkerStep(w) \/ DeliverStep(w) \/ WorkerKilled(w)
      PROVE  ConservationInv'
  <2>1. CASE Send(w) \/ Receive(w)
    BY <2>1, ConserveSend, ConserveReceive
  <2>2. CASE ~(Send(w) \/ Receive(w))
    <3>1. UNCHANGED <<moved, pipe>>
      BY <1>1, <2>2 DEF WorkerStep, DeliverStep, WorkerKilled, ResetSignals, Announce, Wake,
                        Finish, JumpedWorker, Deliver
    <3>2. QED
      BY <3>1, SameUnits
  <2>3. QED
    BY <2>1, <2>2
<1>2. ASSUME MainStep PROVE UNCHANGED <<moved, pipe>>
  BY <1>2 DEF MainStep, SetupFails, InstallHandlers, SetJmp, Fork, GroupFails, PipeFails,
              GroupReturns, Spawned, ReadReady, StartTimer, Kick, BarrierFails, LongJmped,
              SignalWorker, SignalsSent, Wait, Reaped, workerVars
<1>3. ASSUME NEW s \in Signals, Signal(s) PROVE UNCHANGED <<moved, pipe>>
  BY <1>3 DEF Signal
<1>4. CASE UNCHANGED vars
  BY <1>4, SameUnits DEF vars, workerVars
<1>5. QED
  BY <1>1, <1>2, <1>3, <1>4, SameUnits DEF Next

----------------------------------------------------------------------------
(* Who is dead is done.                                                     *)

\* A sender with more to write has left some of the units of its target unwritten, so
\* that its target has not read as much as it waits for.
LEMMA TargetNotDone ==
  ASSUME TypeOK, ConservationInv, ~Infinite, NEW w \in Worker, Sender(w), MoreToDo(w)
  PROVE  moved[Target(w)] # Goal(Target(w))
<1> DEFINE r == Target(w)
           u == <<w, moved[w]>>
<1>1. moved \in [Worker -> Nat] /\ pipe \in [Receiver -> 0 .. PipeCap] /\ moved[w] < SenderGoal
  BY Goals DEF TypeOK, MoreToDo
<1>2. /\ r \in Receiver /\ r \in Worker /\ GroupOf(r) = GroupOf(w)
      /\ r % GroupSize = (moved[w] \div DataSize) % NumFds
  BY <1>1, TargetIs, TargetIsWorker
<1> HIDE DEF r
<1>3. u \in AllUnits(r) /\ u \notin Units(r)
  BY <1>1, <1>2 DEF AllUnits, Units
<1>4. Units(r) \subseteq AllUnits(r)
  <2>1. \A x \in Worker : moved[x] <= SenderGoal
    BY Goals DEF ConservationInv
  <2>2. \A m \in Worker \X Nat : m[1] \in Worker /\ m[2] \in Nat
    OBVIOUS
  <2>3. \A m \in Worker \X Nat : m[2] < moved[m[1]] => m[2] < SenderGoal
    BY <1>1, <2>1, <2>2, Goals
  <2>4. QED
    BY <2>3 DEF Units, AllUnits
<1>5. Cardinality(Units(r)) < Cardinality(AllUnits(r))
  <2>1. /\ Cardinality(Units(r)) <= Cardinality(AllUnits(r))
        /\ Cardinality(AllUnits(r)) = Cardinality(Units(r)) => AllUnits(r) = Units(r)
    BY <1>2, <1>4, AllUnitsCount, FS_Subset
  <2>2. IsFiniteSet(Units(r)) /\ Cardinality(Units(r)) \in Nat /\ Cardinality(AllUnits(r)) \in Nat
    BY <1>2, AllUnitsCount, FS_CardinalityType DEF ConservationInv
  <2>3. QED
    BY <1>3, <2>1, <2>2
<1>6. Cardinality(Units(r)) = moved[r] + pipe[r] /\ Cardinality(AllUnits(r)) = SenderGoal
  BY <1>2, AllUnitsCount, Goals DEF ConservationInv
<1>7. moved[r] < SenderGoal
  BY <1>1, <1>2, <1>5, <1>6, Goals, LoadAssumption
<1>8. QED
  BY <1>1, <1>2, <1>7, Goals DEF r

\* The steps of a worker keep DoneInv.
LEMMA DoneWorker ==
  ASSUME SafeInv, LifeInv, ConservationInv, DoneInv, NEW w \in Worker,
         WorkerStep(w) \/ DeliverStep(w) \/ WorkerKilled(w)
  PROVE  DoneInv'
<1>1. TypeOK /\ UNCHANGED mainVars
  BY DEF SafeInv, WorkerStep, DeliverStep, WorkerKilled
<1>2. ASSUME "worker" \notin Faults, ~failing, ~signal_caught
      PROVE  \A x \in Worker : worker'[x] \in Dead => ~Infinite /\ moved'[x] = Goal(x)
  <2>1. \A x \in Worker : worker[x] \in Dead => ~Infinite /\ moved[x] = Goal(x)
    BY <1>2 DEF DoneInv
  <2>2. pending = {} /\ worker[w] # "jumped"
    BY <1>2 DEF LifeInv, PhaseInv
  <2>3. CASE ResetSignals(w) \/ Announce(w) \/ Wake(w)
    BY <1>1, <2>1, <2>3 DEF ResetSignals, Announce, Wake, TypeOK, Dead
  <2>4. CASE Send(w)
    <3>1. Sender(w) /\ MoreToDo(w) /\ worker[w] = "running" /\ Target(w) \in Worker
      BY <1>1, <2>4, TargetIsWorker DEF Send, Sender, TypeOK
    <3>2. worker[Target(w)] \notin Dead
      BY <1>1, <2>1, <3>1, TargetNotDone
    <3>3. moved' = Advance(w) /\ UNCHANGED worker
      BY <2>4, <3>2 DEF Send
    <3>4. \A x \in Worker \ {w} : moved'[x] = moved[x]
      BY <1>1, <3>3 DEF Advance, TypeOK
    <3>5. QED
      BY <2>1, <3>1, <3>3, <3>4 DEF Dead
  <2>5. CASE Receive(w)
    <3>1. moved' = Advance(w) /\ UNCHANGED worker /\ worker[w] = "running"
      BY <2>5 DEF Receive
    <3>2. \A x \in Worker \ {w} : moved'[x] = moved[x]
      BY <1>1, <3>1 DEF Advance, TypeOK
    <3>3. QED
      BY <2>1, <3>1, <3>2 DEF Dead
  <2>6. CASE Finish(w)
    <3>1. ~Infinite /\ moved[w] = Goal(w)
      <4>1. ~Infinite /\ ~(moved[w] < Goal(w))
        BY <2>6 DEF Finish, MoreToDo
      <4>2. moved[w] <= Goal(w) /\ moved[w] \in Nat /\ Goal(w) \in Nat
        BY <1>1, <4>1, Goals DEF ConservationInv, TypeOK
      <4>3. QED
        BY <4>1, <4>2
    <3>2. \A x \in Worker : moved'[x] = moved[x] /\ (x = w \/ worker'[x] = worker[x])
      BY <1>1, <2>6 DEF Finish, Die, TypeOK
    <3>3. QED
      BY <2>1, <3>1, <3>2
  <2>7. ~(JumpedWorker(w) \/ Deliver(w) \/ WorkerKilled(w))
    BY <1>2, <2>2 DEF JumpedWorker, Deliver, WorkerKilled
  <2>8. QED
    BY <2>3, <2>4, <2>5, <2>6, <2>7 DEF WorkerStep, DeliverStep
<1>3. \A x \in Worker : Goal(x)' = Goal(x)
  BY DEF Goal
<1>4. QED
  BY <1>1, <1>2, <1>3 DEF DoneInv, mainVars, Worker, NumWorkers, GroupSize

\* The steps of main keep DoneInv.
LEMMA DoneMain ==
  ASSUME SafeInv, StopInv, DoneInv, MainStep
  PROVE  DoneInv'
<1>1. TypeOK
  BY DEF SafeInv
<1>2. moved' = moved /\ \A x \in Worker : worker'[x] \in Dead => worker[x] \in Dead
  <2>1. CASE Fork
    BY <1>1, <2>1 DEF Fork, TypeOK, Dead
  <2>2. CASE Wait
    BY <1>1, <2>2 DEF Wait, TypeOK, Dead
  <2>3. CASE ~(Fork \/ Wait)
    BY <2>3 DEF MainStep, SetupFails, InstallHandlers, SetJmp, GroupFails, PipeFails,
       GroupReturns, Spawned, ReadReady, StartTimer, Kick, BarrierFails, LongJmped,
       SignalWorker, SignalsSent, Reaped, workerVars
  <2>4. QED
    BY <2>1, <2>2, <2>3
<1>3. failing' \in {failing, TRUE} /\ UNCHANGED signal_caught
  <2>1. CASE GroupFails \/ BarrierFails
    BY <2>1 DEF GroupFails, BarrierFails
  <2>2. CASE ~(GroupFails \/ BarrierFails)
    BY <2>2 DEF MainStep, SetupFails, InstallHandlers, SetJmp, Fork, PipeFails, GroupReturns,
       Spawned, ReadReady, StartTimer, Kick, LongJmped, SignalWorker, SignalsSent, Wait, Reaped
  <2>3. QED
    BY <2>1, <2>2
<1>4. status' = "ok" => ~failing'
  <2>1. pc # "exited" /\ status # "ok"
    BY DEF StopInv, EntryInv, MainStep, SetupFails, InstallHandlers, SetJmp, Fork, GroupFails,
           PipeFails, GroupReturns, Spawned, ReadReady, StartTimer, Kick, BarrierFails,
           LongJmped, SignalWorker, SignalsSent, Wait, Reaped, InGroup
  <2>2. CASE Reaped
    BY <2>2 DEF Reaped, Exit
  <2>3. CASE ~Reaped
    BY <2>1, <2>3 DEF MainStep, SetupFails, InstallHandlers, SetJmp, Fork, GroupFails,
       PipeFails, GroupReturns, Spawned, ReadReady, StartTimer, Kick, BarrierFails, LongJmped,
       SignalWorker, SignalsSent, Wait, Exit
  <2>4. QED
    BY <2>2, <2>3
<1>5. QED
  BY <1>1, <1>2, <1>3, <1>4 DEF DoneInv, TypeOK, Goal, Worker, NumWorkers, GroupSize

\* A signal keeps DoneInv.
LEMMA DoneSignal ==
  ASSUME SafeInv, StopInv, DoneInv, NEW s \in Signals, Signal(s)
  PROVE  DoneInv'
<1>1. UNCHANGED <<worker, moved>> /\ pc # "exited" /\ Sigcatcher(s)
  BY DEF Signal
<1>2. /\ ~signal_caught' /\ ~failing' => ~signal_caught /\ ~failing
      /\ status' # "ok"
  BY <1>1 DEF Sigcatcher, Exit, StopInv, EntryInv
<1>3. QED
  BY <1>1, <1>2 DEF DoneInv, Goal, Worker, NumWorkers, GroupSize

\* The invariants of the data hold at the start.
LEMMA DataInit == Init => ConservationInv /\ DoneInv
<1> SUFFICES ASSUME Init PROVE ConservationInv /\ DoneInv
  OBVIOUS
<1>1. /\ \A w \in Worker : moved[w] = 0 /\ worker[w] = "none"
      /\ \A r \in Receiver : r \in Worker /\ pipe[r] = 0
  BY DEF Init, Receiver
<1>2. \A w \in Worker : moved[w] <= Goal(w)
  BY <1>1, Goals
<1>3. \A r \in Receiver : Units(r) = {} /\ moved[r] + pipe[r] = 0
  <2> TAKE r \in Receiver
  <2>1. \A m \in Worker \X Nat : ~(m[2] < moved[m[1]])
    BY <1>1
  <2>2. QED
    BY <1>1, <2>1 DEF Units
<1>4. ConservationInv
  BY <1>2, <1>3, FS_EmptySet DEF ConservationInv
<1>5. QED
  BY <1>1, <1>4 DEF Init, DoneInv, Dead

\* Every step keeps the invariants of the data.
LEMMA DataStep == DataInv /\ [Next]_vars => DataInv'
<1> SUFFICES ASSUME DataInv, [Next]_vars PROVE DataInv'
  OBVIOUS
<1>1. SafeInv /\ StopInv /\ LifeInv /\ ConservationInv /\ DoneInv /\ TypeOK
  BY DEF DataInv, SafeInv
<1>2. SafeInv' /\ StopInv' /\ LifeInv' /\ ConservationInv'
  BY <1>1, SafeStep, StopStep, LifeStep, ConserveStep
<1>3. DoneInv'
  <2>1. CASE MainStep
    BY <1>1, <2>1, DoneMain
  <2>2. CASE \E w \in Worker : WorkerStep(w) \/ DeliverStep(w) \/ WorkerKilled(w)
    BY <1>1, <2>2, DoneWorker
  <2>3. CASE \E s \in Signals : Signal(s)
    BY <1>1, <2>3, DoneSignal
  <2>4. CASE UNCHANGED vars
    BY <1>1, <2>4 DEF DoneInv, Goal, vars, mainVars, workerVars
  <2>5. QED
    BY <2>1, <2>2, <2>3, <2>4 DEF Next
<1>4. QED
  BY <1>2, <1>3 DEF DataInv

\* In every reachable state of a finite load, whatever faults and signals strike, each
\* unit a sender has written is in its receiver's pipe or was read, and where nothing
\* disturbed the run only those are dead that have moved all they had to.
THEOREM DataInvariant == Spec => []DataInv
<1>1. Init => DataInv
  BY SafeInit, StopInit, LifeInit, DataInit DEF DataInv
<1>2. QED
  BY <1>1, DataStep, PTL DEF Spec

\* Unless a worker is killed from outside, a run that ends with status 0 and that no
\* signal cut short has passed every message to its receiver, and left none in a pipe.
THEOREM FiniteDeliveryHolds == "worker" \notin Faults => (Spec => []FiniteDelivery)
<1> SUFFICES ASSUME "worker" \notin Faults PROVE Spec => []FiniteDelivery
  OBVIOUS
<1>1. DataInv => FiniteDelivery
  <2> SUFFICES ASSUME DataInv, status = "ok", ~signal_caught
               PROVE  (\A w \in Worker : moved[w] = Goal(w)) /\ (\A r \in Receiver : pipe[r] = 0)
    BY DEF FiniteDelivery
  <2>1. total_children = NumWorkers /\ Unreaped = {} /\ ~failing
    BY DEF DataInv, StopInv, EntryInv, CountInv, DoneInv
  <2>2. \A w \in Worker : worker[w] = "reaped"
    BY <2>1, Sizes DEF DataInv, SafeInv, TypeOK, CreatedInv, Worker, Unreaped
  <2>3. \A w \in Worker : ~Infinite /\ moved[w] = SenderGoal /\ moved[w] = Goal(w)
    BY <2>1, <2>2, Goals DEF DataInv, DoneInv, Dead
  <2>4. ASSUME NEW r \in Receiver PROVE pipe[r] = 0
    <3>1. r \in Worker /\ moved[r] = SenderGoal /\ ~Infinite
      BY <2>3 DEF Receiver
    <3>2. Units(r) = AllUnits(r)
      <4>1. \A m \in Worker \X Nat : m[1] \in Worker
        OBVIOUS
      <4>2. QED
        BY <2>3, <4>1 DEF Units, AllUnits
    <3>3. moved[r] + pipe[r] = SenderGoal
      BY <3>1, <3>2, AllUnitsCount, Goals DEF DataInv, ConservationInv
    <3>4. pipe[r] \in Int /\ SenderGoal \in Nat
      BY Goals DEF DataInv, SafeInv, TypeOK
    <3>5. QED
      BY <3>1, <3>3, <3>4
  <2>5. QED
    BY <2>3, <2>4
<1>2. QED
  BY <1>1, DataInvariant, PTL
============================================================================
