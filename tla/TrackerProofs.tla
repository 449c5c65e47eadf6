---------------------------- MODULE TrackerProofs ----------------------------
(***************************************************************************)
(* Proofs about the samplers: for every number of processes, whatever they *)
(* do while a snapshot is taken, and for every period and duration.  The   *)
(* invariant of the schedule relates the number of snapshots and the time  *)
(* of each to the start of the cycle; that of the scan relates what it has *)
(* recorded to what readdir has passed.                                    *)
(***************************************************************************)
EXTENDS Tracker, FiniteSetTheorems, WellFoundedInduction, TLAPS

Value    == {None} \cup 0 .. MaxClock
Snapshot == [time : 0 .. MaxClock, records : Seq(Pid \X Value)]
Recs(n)  == file[n].records

FileInv ==
  /\ TypeOK /\ file \in Seq(Snapshot)
  /\ ~opened => file = <<>>
  /\ pc = "setup" => file = <<>>
  /\ \A p \in Pid : sum_exec[p] <= clock

\* The snapshots of n cycles take n periods.
CycleInv ==
  /\ OnSchedule
  /\ cycle_start <= clock
  /\ pc = "cycle" => clock >= Len(file) * Period
  /\ pc = "stamp" => cycle_start >= Len(file) * Period /\ cycle_start < MaxDuration
  /\ pc \in {"scan", "sleep"} => cycle_start + Period >= Len(file) * Period

\* When the next snapshot is due, going by the m-th one and those after it.
Due(m) == file[m].time + (Len(file) - m) * Period

\* The cycle that is begun next starts when the next snapshot is due at the earliest,
\* going by any of them; the last one may have been stamped late in its own cycle.
SpacedInv ==
  /\ \A m \in 1 .. Len(file) : file[m].time <= clock
  /\ pc = "cycle" => \A m \in 1 .. Len(file) : Due(m) <= clock
  /\ pc = "stamp" => \A m \in 1 .. Len(file) : Due(m) <= cycle_start
  /\ pc \in {"scan", "sleep"} =>
       \A m \in 1 .. Len(file) : m < Len(file) => Due(m) <= cycle_start + Period

\* A snapshot has each process once, in the order of the pids.
Ordered == \A n \in 1 .. Len(file) : \A i, j \in 1 .. Len(Recs(n)) :
             i < j => Recs(n)[i][1] < Recs(n)[j][1]

\* A value is missing only at the end of the last snapshot of a tracker that was killed,
\* and none is above what the process has run by now.
Valued == \A n \in 1 .. Len(file) : \A i \in 1 .. Len(Recs(n)) :
            IF Recs(n)[i][2] = None THEN killed /\ n = Len(file) /\ i = Len(Recs(n))
                                    ELSE Recs(n)[i][2] <= sum_exec[Recs(n)[i][1]]

\* The value of a process never falls from one snapshot to a later one.
Rising == \A m, n \in 1 .. Len(file) : m < n =>
            \A i \in 1 .. Len(Recs(m)), j \in 1 .. Len(Recs(n)) :
              Recs(m)[i][1] = Recs(n)[j][1] /\ Recs(n)[j][2] # None => Recs(m)[i][2] <= Recs(n)[j][2]

RecordsInv == Ordered /\ Valued /\ Rising /\ (killed => pc = "stopped")

\* The scan is between the recorded processes and the listed ones, and those that were
\* there all along are on one of the two sides of it.
ScanInv ==
  pc = "scan" /\ opened =>
    /\ file # <<>>
    /\ \A i \in 1 .. Len(Recs(Len(file))) :
         LET r == Recs(Len(file))[i][1] IN r <= cursor /\ \A p \in listed : r < p
    /\ \A p \in steady : p <= cursor =>
         p \in listed \/ \E i \in 1 .. Len(Recs(Len(file))) : Recs(Len(file))[i][1] = p

TrackerInv == FileInv /\ CycleInv /\ SpacedInv /\ RecordsInv /\ ScanInv

----------------------------------------------------------------------------
(* What happens to the file.                                                *)

\* The snapshots in the file and the records in a snapshot.
LEMMA SnapshotType ==
  ASSUME FileInv
  PROVE  /\ Len(file) \in Nat
         /\ \A n \in 1 .. Len(file) :
              /\ file[n] \in Snapshot /\ Recs(n) \in Seq(Pid \X Value) /\ Len(Recs(n)) \in Nat
              /\ \A i \in 1 .. Len(Recs(n)) : Recs(n)[i] \in Pid \X Value
<1>1. file \in Seq(Snapshot)
  BY DEF FileInv
<1>2. \A n \in 1 .. Len(file) : file[n] \in Snapshot
  BY <1>1
<1>3. \A n \in 1 .. Len(file) : Recs(n) \in Seq(Pid \X Value)
  BY <1>2 DEF Recs, Snapshot
<1>4. \A q \in Seq(Pid \X Value) : Len(q) \in Nat /\ \A i \in 1 .. Len(q) : q[i] \in Pid \X Value
  OBVIOUS
<1>5. QED
  BY <1>1, <1>2, <1>3, <1>4

\* A new snapshot, with no records yet.
LEMMA Stamped ==
  ASSUME FileInv, file' = Append(file, [time |-> clock, records |-> <<>>])
  PROVE  /\ file' \in Seq(Snapshot) /\ Len(file') = Len(file) + 1
         /\ \A n \in 1 .. Len(file) : file'[n] = file[n]
         /\ file'[Len(file')].time = clock /\ file'[Len(file')].records = <<>>
<1> DEFINE s == [time |-> clock, records |-> <<>>]
<1>1. s \in Snapshot
  <2>1. <<>> \in Seq(Pid \X Value)
    OBVIOUS
  <2>2. clock \in 0 .. MaxClock
    BY DEF FileInv, TypeOK
  <2>3. QED
    BY <2>1, <2>2 DEF Snapshot
<1>2. s.time = clock /\ s.records = <<>>
  OBVIOUS
<1>3. file \in Seq(Snapshot) /\ file' = Append(file, s)
  BY DEF FileInv
<1>4. /\ file' \in Seq(Snapshot) /\ Len(file') = Len(file) + 1
      /\ \A n \in 1 .. Len(file) : file'[n] = file[n]
      /\ file'[Len(file) + 1] = s
  <2> HIDE DEF s
  <2>1. QED
    BY <1>1, <1>3
<1>5. QED
  BY <1>2, <1>4

\* One more record in the last snapshot.
LEMMA Written ==
  ASSUME FileInv, opened, file # <<>>, NEW p \in Pid, NEW v \in Value, Write(p, v)
  PROVE  /\ file' \in Seq(Snapshot) /\ Len(file') = Len(file) /\ Len(file) \in 1 .. Len(file)
         /\ \A n \in 1 .. Len(file) : /\ file'[n].time = file[n].time
                                      /\ n # Len(file) => file'[n] = file[n]
         /\ file'[Len(file)].records = Append(file[Len(file)].records, <<p, v>>)
<1>1. file \in Seq(Snapshot) /\ Len(file) \in 1 .. Len(file)
  BY DEF FileInv
<1>2. PICK L \in Nat : L = Len(file) /\ L \in 1 .. L
  BY <1>1
<1>3. file[L] \in Snapshot /\ Append(file[L].records, <<p, v>>) \in Seq(Pid \X Value)
  <2>1. file[L] \in Snapshot
    BY <1>1, <1>2
  <2>2. file[L].records \in Seq(Pid \X Value) /\ <<p, v>> \in Pid \X Value
    BY <2>1 DEF Snapshot
  <2>3. QED
    BY <2>1, <2>2
<1>4. file' = [file EXCEPT ![L].records = Append(file[L].records, <<p, v>>)]
  BY <1>2 DEF Write
<1> DEFINE q == Append(file[L].records, <<p, v>>)
<1>5. file' = [file EXCEPT ![L] = [file[L] EXCEPT !.records = q]]
  BY <1>4
<1>6. [file[L] EXCEPT !.records = q] \in Snapshot
  BY <1>3 DEF Snapshot
<1>7. [file[L] EXCEPT !.records = q].time = file[L].time /\ [file[L] EXCEPT !.records = q].records = q
  BY <1>3 DEF Snapshot
<1> DEFINE s == [file[L] EXCEPT !.records = q]
<1>8. /\ file' \in Seq(Snapshot) /\ Len(file') = Len(file)
      /\ file'[L] = s /\ \A n \in 1 .. Len(file) : n # L => file'[n] = file[n]
  <2> HIDE DEF s
  <2>1. file' = [file EXCEPT ![L] = s] /\ s \in Snapshot
    BY <1>5, <1>6 DEF s
  <2>2. QED
    BY <1>1, <1>2, <2>1
<1>9. QED
  BY <1>1, <1>2, <1>7, <1>8

\* An element of a sequence is replaced.
LEMMA Replaced ==
  ASSUME NEW S, NEW q \in Seq(S), NEW k \in 1 .. Len(q), NEW e \in S
  PROVE  /\ [q EXCEPT ![k] = e] \in Seq(S) /\ Len([q EXCEPT ![k] = e]) = Len(q)
         /\ [q EXCEPT ![k] = e][k] = e
         /\ \A n \in 1 .. Len(q) : n # k => [q EXCEPT ![k] = e][n] = q[n]
OBVIOUS

\* The second part of a pair is replaced.
LEMMA Cleared ==
  ASSUME NEW P, NEW V, NEW e \in P \X V, NEW v \in V
  PROVE  [e EXCEPT ![2] = v] = <<e[1], v>> /\ <<e[1], v>> \in P \X V
OBVIOUS

\* The last record loses its value.
LEMMA Cut ==
  ASSUME FileInv, file # <<>>, Last(file).records # <<>>,
         file' = [file EXCEPT ![Len(file)].records[Len(Last(file).records)][2] = None]
  PROVE  /\ file' \in Seq(Snapshot) /\ Len(file') = Len(file)
         /\ \A n \in 1 .. Len(file) :
              /\ file'[n].time = file[n].time /\ Len(file'[n].records) = Len(Recs(n))
              /\ \A i \in 1 .. Len(Recs(n)) :
                   /\ file'[n].records[i][1] = Recs(n)[i][1]
                   /\ file'[n].records[i][2] =
                        IF n = Len(file) /\ i = Len(Recs(n)) THEN None ELSE Recs(n)[i][2]
<1>1. PICK L \in Nat : L = Len(file) /\ L \in 1 .. L /\ file \in Seq(Snapshot)
  BY DEF FileInv
<1>2. file[L] \in Snapshot /\ Last(file) = file[L]
  BY <1>1 DEF Last
<1> DEFINE q == file[L].records
<1>3. q \in Seq(Pid \X Value) /\ q # <<>>
  BY <1>2 DEF Snapshot
<1>4. PICK K \in Nat : K = Len(q) /\ K \in 1 .. K
  <2> HIDE DEF q
  <2>1. Len(q) \in Nat
    BY <1>3
  <2>2. Len(q) # 0
    BY <1>3
  <2>3. QED
    BY <2>1, <2>2
<1>5. q[K] \in Pid \X Value
  <2> HIDE DEF q
  <2>1. QED
    BY <1>3, <1>4
<1> DEFINE r  == <<q[K][1], None>>
           q2 == [q EXCEPT ![K] = r]
           s  == [file[L] EXCEPT !.records = q2]
<1>6. r \in Pid \X Value /\ [q[K] EXCEPT ![2] = None] = r
  <2>1. None \in Value
    BY DEF Value
  <2> HIDE DEF q
  <2>2. QED
    BY <1>5, <2>1, Cleared
<1>7. file' = [file EXCEPT ![L] = s]
  BY <1>1, <1>2, <1>4, <1>6
<1>8. /\ q2 \in Seq(Pid \X Value) /\ Len(q2) = Len(q) /\ q2[K] = r
      /\ \A i \in 1 .. Len(q) : i # K => q2[i] = q[i]
  <2> HIDE DEF q, r
  <2>1. QED
    BY <1>3, <1>4, <1>6, Replaced
<1>9. s \in Snapshot /\ s.time = file[L].time /\ s.records = q2
  <2> HIDE DEF q2
  <2>1. QED
    BY <1>2, <1>8 DEF Snapshot
<1>10. /\ file' \in Seq(Snapshot) /\ Len(file') = Len(file)
       /\ file'[L] = s /\ \A n \in 1 .. Len(file) : n # L => file'[n] = file[n]
  <2> HIDE DEF s
  <2>1. file' = [file EXCEPT ![L] = s] /\ s \in Snapshot
    BY <1>7, <1>9
  <2>2. L \in 1 .. Len(file)
    BY <1>1
  <2> DEFINE g == [file EXCEPT ![L] = s]
  <2>3. /\ g \in Seq(Snapshot) /\ Len(g) = Len(file) /\ g[L] = s
        /\ \A n \in 1 .. Len(file) : n # L => g[n] = file[n]
    <3>1. file \in Seq(Snapshot) /\ s \in Snapshot
      BY <1>1, <2>1
    <3>2. QED
      BY <2>2, <3>1, Replaced
  <2>4. file' = g
    BY <2>1
  <2> HIDE DEF g
  <2>5. QED
    BY <2>3, <2>4
<1>11. r[1] = q[K][1] /\ r[2] = None
  OBVIOUS
<1>12. ASSUME NEW n \in 1 .. Len(file)
       PROVE  /\ file'[n].time = file[n].time /\ Len(file'[n].records) = Len(Recs(n))
              /\ \A i \in 1 .. Len(Recs(n)) :
                   /\ file'[n].records[i][1] = Recs(n)[i][1]
                   /\ file'[n].records[i][2] =
                        IF n = Len(file) /\ i = Len(Recs(n)) THEN None ELSE Recs(n)[i][2]
  <2>1. CASE n = L
    <3>1. Recs(n) = q /\ file'[n].records = q2 /\ file'[n].time = file[n].time
      BY <2>1, <1>9, <1>10 DEF Recs
    <3> HIDE DEF q, q2, r
    <3>2. QED
      BY <1>1, <1>4, <1>8, <1>11, <2>1, <3>1
  <2>2. CASE n # L
    BY <1>1, <1>10, <2>2 DEF Recs
  <2>3. QED
    BY <2>1, <2>2
<1>13. QED
  BY <1>10, <1>12

\* A file of snapshots has the type the module gives it.
LEMMA FileTyped ==
  ASSUME NEW f \in Seq(Snapshot)
  PROVE  \A n \in DOMAIN f : /\ f[n].time \in 0 .. MaxClock
                             /\ f[n].records \in Seq(Pid \X ({None} \cup 0 .. MaxClock))
<1>1. \A n \in DOMAIN f : f[n] \in Snapshot
  OBVIOUS
<1>2. QED
  BY <1>1 DEF Snapshot, Value

\* min of what is listed.
LEMMA LeastNumber ==
  ASSUME NEW S, S \subseteq Nat, S # {}
  PROVE  Min(S) \in S /\ \A y \in S : Min(S) <= y
<1> DEFINE R == OpToRel(<, Nat)
<1>1. IsWellFoundedOn(R, Nat)
  BY NatLessThanWellFounded
<1>2. PICK x \in S : \A y \in S : <<y, x>> \notin R
  <2> HIDE DEF R
  <2>1. QED
    BY <1>1, WFMin
<1>3. \A y \in S : ~(y < x)
  BY <1>2 DEF OpToRel
<1>4. \A y \in S : x <= y
  BY <1>3
<1>5. QED
  BY <1>4 DEF Min

\* The next process of the loop is the first that is listed.
LEMMA NextListed ==
  ASSUME TypeOK, listed # {}
  PROVE  /\ Min(listed) \in listed /\ Min(listed) \in Pid /\ Min(listed) <= cursor
         /\ \A p \in listed : Min(listed) <= p
<1>1. listed \subseteq 1 .. cursor /\ cursor \in 0 .. Pids /\ Pids \in Nat
  BY PidsAssumption DEF TypeOK
<1>2. listed \subseteq Nat
  BY <1>1
<1>3. Min(listed) \in listed /\ \A p \in listed : Min(listed) <= p
  BY <1>2, LeastNumber
<1>4. Min(listed) \in 1 .. cursor
  BY <1>1, <1>3
<1>5. Min(listed) \in Pid /\ Min(listed) <= cursor
  BY <1>1, <1>4 DEF Pid
<1>6. QED
  BY <1>3, <1>5

\* One more period.
LEMMA NextPeriod ==
  ASSUME NEW n \in Nat
  PROVE  (n + 1) * Period = n * Period + Period /\ n * Period \in Nat
BY TimeAssumption

----------------------------------------------------------------------------
(* The types.                                                               *)

\* The invariant holds at the start.
LEMMA InitTracker == Init => TrackerInv
<1> SUFFICES ASSUME Init PROVE TrackerInv
  OBVIOUS
<1>1. /\ clock = 0 /\ present \subseteq Pid /\ unborn = Pid \ present
      /\ sum_exec = [p \in Pid |-> 0] /\ pc = "setup" /\ cycle_start = 0 /\ cursor = 0
      /\ listed = {} /\ steady = {} /\ file = <<>> /\ opened \in BOOLEAN /\ killed = FALSE
  BY DEF Init
<1>2. Pids \in Nat /\ MaxClock \in Nat /\ Period \in Nat \ {0} /\ MaxDuration \in Nat
  BY PidsAssumption, TimeAssumption
<1>3. file \in Seq(Snapshot) /\ Len(file) = 0
  BY <1>1
<1>4. FileInv
  <2>1. /\ clock \in 0 .. MaxClock /\ cycle_start \in 0 .. MaxClock /\ cursor \in 0 .. Pids
        /\ sum_exec \in [Pid -> 0 .. MaxClock] /\ \A p \in Pid : sum_exec[p] <= clock
    BY <1>1, <1>2
  <2>2. killed \in BOOLEAN
    BY <1>1
  <2>3. TypeOK
    BY <1>1, <1>3, <2>1, <2>2, FileTyped DEF TypeOK
  <2>4. QED
    BY <1>1, <1>3, <2>1, <2>3 DEF FileInv
<1>5. CycleInv
  <2>1. DOMAIN file = {}
    BY <1>1
  <2>2. QED
    BY <1>1, <1>2, <1>3, <2>1 DEF CycleInv, OnSchedule
<1>6. RecordsInv /\ ScanInv /\ SpacedInv
  BY <1>1, <1>3 DEF RecordsInv, Ordered, Valued, Rising, ScanInv, SpacedInv
<1>7. QED
  BY <1>4, <1>5, <1>6 DEF TrackerInv

\* Every step keeps the types.
LEMMA StepFile ==
  ASSUME FileInv, RecordsInv, ScanInv, [Next]_vars
  PROVE  FileInv'
<1> USE DEF Value
<1>1. TypeOK /\ file \in Seq(Snapshot) /\ (~opened => file = <<>>) /\ (pc = "setup" => file = <<>>)
      /\ (\A p \in Pid : sum_exec[p] <= clock)
  BY DEF FileInv
<1>2. Pids \in Nat /\ MaxClock \in Nat /\ Pid = 1 .. Pids
  BY PidsAssumption, TimeAssumption DEF Pid
<1>3. CASE Tick
  <2>1. /\ clock < MaxClock /\ clock' = clock + 1
        /\ UNCHANGED <<present, unborn, steady, opened, pc, cycle_start, cursor, listed, file, killed>>
    BY <1>3 DEF Tick, tracker
  <2>2. sum_exec' = sum_exec \/ \E p \in present : sum_exec' = [sum_exec EXCEPT ![p] = @ + 1]
    BY <1>3 DEF Tick
  <2>3. clock \in 0 .. MaxClock /\ sum_exec \in [Pid -> 0 .. MaxClock] /\ present \subseteq Pid
    BY <1>1 DEF TypeOK
  <2>4. sum_exec' \in [Pid -> 0 .. MaxClock] /\ \A p \in Pid : sum_exec'[p] <= clock'
    <3>1. \A p \in Pid : sum_exec[p] \in 0 .. MaxClock /\ sum_exec[p] <= clock
      BY <1>1, <2>3
    <3>2. \A p \in Pid : sum_exec[p] <= clock + 1 /\ sum_exec[p] + 1 \in 0 .. MaxClock
                         /\ sum_exec[p] + 1 <= clock + 1
      <4> TAKE p \in Pid
      <4>1. sum_exec[p] \in Int /\ clock \in Int /\ 0 <= sum_exec[p] /\ sum_exec[p] <= clock
        BY <1>2, <2>3, <3>1
      <4>2. QED
        BY <1>2, <2>1, <4>1
    <3>3. CASE sum_exec' = sum_exec
      BY <2>1, <2>3, <3>2, <3>3
    <3>4. ASSUME NEW q \in present, sum_exec' = [sum_exec EXCEPT ![q] = @ + 1]
          PROVE  sum_exec' \in [Pid -> 0 .. MaxClock] /\ \A p \in Pid : sum_exec'[p] <= clock'
      <4>1. \A p \in Pid : sum_exec'[p] = IF p = q THEN sum_exec[p] + 1 ELSE sum_exec[p]
        BY <2>3, <3>4
      <4>2. sum_exec' \in [Pid -> 0 .. MaxClock]
        BY <2>3, <3>2, <3>4
      <4>3. QED
        BY <2>1, <3>2, <4>1, <4>2
    <3>5. QED
      BY <2>2, <3>3, <3>4
  <2>5. clock' \in 0 .. MaxClock
    BY <1>2, <2>1, <2>3
  <2>6. QED
    BY <1>1, <2>1, <2>4, <2>5 DEF FileInv, TypeOK
<1>4. CASE \E p \in Pid : Appears(p) \/ Vanishes(p)
  <2>1. /\ UNCHANGED <<clock, sum_exec, opened, pc, cycle_start, cursor, listed, file, killed>>
        /\ present' \subseteq Pid /\ unborn' \subseteq Pid \ present' /\ steady' \subseteq present'
    BY <1>1, <1>4 DEF Appears, Vanishes, tracker, TypeOK
  <2>2. QED
    BY <1>1, <2>1 DEF FileInv, TypeOK
<1>5. CASE Kill
  <2>1. /\ pc' = "stopped" /\ killed' = TRUE /\ UNCHANGED <<world, steady, cycle_start, cursor, listed>>
        /\ \/ UNCHANGED file
           \/ /\ file # <<>> /\ Last(file).records # <<>>
              /\ file' = [file EXCEPT ![Len(file)].records[Len(Last(file).records)][2] = None]
    BY <1>5 DEF Kill
  <2>2. file' \in Seq(Snapshot) /\ (file = <<>> => file' = <<>>)
    BY <1>1, <2>1, Cut
  <2>3. TypeOK'
    <3>1. killed' \in BOOLEAN
      BY <2>1
    <3>2. QED
      BY <1>1, <2>1, <2>2, <3>1, FileTyped DEF TypeOK, world
  <2>4. QED
    BY <1>1, <2>1, <2>2, <2>3 DEF FileInv, world
<1>6. CASE Setup \/ BeginCycle \/ EndCycle \/ Wake
  <2>1. /\ UNCHANGED <<world, steady, cursor, listed, file, killed>> /\ cycle_start' \in {cycle_start, clock}
        /\ pc' \in {"cycle", "stamp", "sleep", "stopped"}
    BY <1>6 DEF Setup, BeginCycle, EndCycle, Wake
  <2>2. TypeOK'
    BY <1>1, <2>1 DEF TypeOK, world
  <2>3. QED
    BY <1>1, <2>1, <2>2 DEF FileInv, world
<1>7. CASE StampTime
  <2>1. /\ pc' = "scan" /\ cursor' = 0 /\ listed' = {} /\ steady' = present
        /\ UNCHANGED <<world, cycle_start, killed>>
        /\ IF opened THEN file' = Append(file, [time |-> clock, records |-> <<>>]) ELSE file' = file
    BY <1>7 DEF StampTime
  <2>2. file' \in Seq(Snapshot) /\ (~opened => file' = <<>>)
    BY <1>1, <2>1, Stamped
  <2>3. TypeOK'
    <3>1. cursor' \in 0 .. Pids /\ listed' \subseteq 1 .. cursor' /\ steady' \subseteq present'
      BY <1>2, <2>1 DEF world
    <3>2. QED
      BY <1>1, <2>1, <2>2, <3>1, FileTyped DEF TypeOK, world
  <2>4. QED
    BY <1>1, <2>1, <2>2, <2>3 DEF FileInv, world
<1>8. CASE ReadDir
  <2>1. PICK upto \in cursor + 1 .. Pids : cursor' = upto /\ listed' = present \cap (cursor + 1 .. upto)
    BY <1>8 DEF ReadDir
  <2>2. UNCHANGED <<world, steady, pc, cycle_start, file, killed>> /\ cursor \in 0 .. Pids
    BY <1>1, <1>8 DEF ReadDir, TypeOK
  <2>3. cursor' \in 0 .. Pids /\ listed' \subseteq 1 .. cursor'
    BY <1>2, <2>1, <2>2
  <2>4. QED
    BY <1>1, <2>2, <2>3 DEF FileInv, TypeOK, world
<1>9. CASE ReadProcess
  <2> DEFINE p == Min(listed)
  <2>1. /\ pc = "scan" /\ listed # {} /\ UNCHANGED <<world, steady, pc, cycle_start, killed, cursor>>
        /\ listed' = listed \ {p} /\ ReadSched(p)
    BY <1>9 DEF ReadProcess, GoesOn
  <2>2. p \in Pid
    BY <1>1, <2>1, NextListed
  <2>3. file' \in Seq(Snapshot) /\ (~opened => file' = <<>>)
    <3>1. sum_exec[p] \in Value
      BY <1>1, <2>2 DEF TypeOK
    <3>2. CASE opened /\ Write(p, sum_exec[p])
      BY <1>1, <2>1, <2>2, <3>1, <3>2, Written DEF ScanInv
    <3>3. CASE UNCHANGED file
      BY <1>1, <3>3
    <3>4. QED
      BY <2>1, <3>2, <3>3 DEF ReadSched, Write
  <2>4. TypeOK'
    BY <1>1, <2>1, <2>3, FileTyped DEF TypeOK, world
  <2>5. QED
    BY <1>1, <2>1, <2>3, <2>4 DEF FileInv, world
<1>10. CASE UNCHANGED vars
  BY <1>1, <1>10 DEF FileInv, TypeOK, vars, world, tracker
<1>11. QED
  BY <1>3, <1>4, <1>5, <1>6, <1>7, <1>8, <1>9, <1>10 DEF Next, Sample

----------------------------------------------------------------------------
(* The schedule.                                                            *)

\* A step that takes no snapshot and keeps the times of those there are.
LEMMA SameSchedule ==
  ASSUME OnSchedule, FileInv, Len(file') = Len(file),
         \A n \in 1 .. Len(file) : file'[n].time = file[n].time
  PROVE  OnSchedule' /\ \A n \in 1 .. Len(file) : Due(n)' = Due(n)
<1>1. \A n \in 1 .. Len(file) : \A m \in 1 .. n - 1 : m \in 1 .. Len(file)
  BY DEF FileInv
<1>2. OnSchedule'
  BY <1>1 DEF OnSchedule
<1>3. QED
  BY <1>2 DEF Due

\* The steps that take no snapshot: what becomes of the times, by where they lead.
LEMMA StaySpaced ==
  ASSUME FileInv, CycleInv, SpacedInv, Len(file') = Len(file),
         \A n \in 1 .. Len(file) : file'[n].time = file[n].time,
         clock \in Nat, clock' \in Nat, clock <= clock',
         \/ UNCHANGED <<pc, cycle_start>>
         \/ pc' = "stopped"
         \/ pc = "setup"
         \/ pc = "cycle" /\ cycle_start' = clock /\ pc' = "stamp"
         \/ pc \in {"scan", "sleep"} /\ UNCHANGED cycle_start /\ pc' = "sleep"
         \/ pc \in {"scan", "sleep"} /\ UNCHANGED clock /\ clock >= cycle_start + Period /\ pc' = "cycle"
  PROVE  SpacedInv'
<1>1. /\ Len(file) \in Nat /\ cycle_start \in Nat /\ Period \in Nat
      /\ \A n \in 1 .. Len(file) : Due(n)' = Due(n) /\ Due(n) \in Nat /\ file[n].time \in Nat
  <2>1. /\ Len(file) \in Nat /\ cycle_start \in Nat /\ Period \in Nat /\ DOMAIN file = 1 .. Len(file)
    BY TimeAssumption DEF FileInv, TypeOK
  <2>2. ASSUME NEW n \in 1 .. Len(file)
        PROVE  Due(n)' = Due(n) /\ Due(n) \in Nat /\ file[n].time \in Nat
    <3>1. file[n].time \in Nat
      BY <2>1, TimeAssumption DEF FileInv, TypeOK
    <3>2. Len(file) - n \in Nat
      BY <2>1
    <3>3. (Len(file) - n) * Period \in Nat
      BY <3>2, NextPeriod
    <3>4. Due(n)' = Due(n)
      BY SameSchedule DEF CycleInv
    <3>5. QED
      BY <3>1, <3>3, <3>4 DEF Due
  <2>3. QED
    BY <2>1, <2>2
<1>2. (\A m \in 1 .. Len(file) : file[m].time <= clock)'
  BY <1>1 DEF SpacedInv
<1>3. ASSUME pc = "setup" PROVE Len(file) = 0
  BY <1>3 DEF FileInv
<1>4. CASE UNCHANGED <<pc, cycle_start>>
  BY <1>1, <1>2, <1>4 DEF SpacedInv
<1>5. CASE pc' = "stopped"
  BY <1>2, <1>5 DEF SpacedInv
<1>6. CASE pc = "setup"
  BY <1>1, <1>2, <1>3, <1>6 DEF SpacedInv
<1>7. CASE pc = "cycle" /\ cycle_start' = clock /\ pc' = "stamp"
  BY <1>1, <1>2, <1>7 DEF SpacedInv
<1>8. CASE pc \in {"scan", "sleep"} /\ UNCHANGED cycle_start /\ pc' = "sleep"
  BY <1>1, <1>2, <1>8 DEF SpacedInv
<1>9. CASE pc \in {"scan", "sleep"} /\ UNCHANGED clock /\ clock >= cycle_start + Period /\ pc' = "cycle"
  <2>1. ASSUME NEW m \in 1 .. Len(file) PROVE Due(m) <= clock
    <3>1. CASE m = Len(file)
      <4>1. (Len(file) - m) * Period = 0
        BY <1>1, <3>1
      <4>2. Due(m) = file[m].time
        BY <1>1, <4>1 DEF Due
      <4>3. QED
        BY <4>2 DEF SpacedInv
    <3>2. CASE m < Len(file)
      BY <1>1, <1>9, <3>2 DEF SpacedInv
    <3>3. QED
      BY <1>1, <3>1, <3>2
  <2>2. QED
    BY <1>1, <1>2, <1>9, <2>1 DEF SpacedInv
<1>10. QED
  BY <1>4, <1>5, <1>6, <1>7, <1>8, <1>9

\* A snapshot is stamped: each that there was is due one period later.
LEMMA StampSpaced ==
  ASSUME FileInv, CycleInv, SpacedInv, StampTime, opened
  PROVE  SpacedInv' /\ OnSchedule'
<1>1. /\ pc = "stamp" /\ pc' = "scan" /\ UNCHANGED <<cycle_start, clock>>
      /\ Len(file') = Len(file) + 1 /\ file'[Len(file')].time = clock
      /\ \A n \in 1 .. Len(file) : file'[n] = file[n]
  BY Stamped DEF StampTime, world
<1>2. PICK k \in Nat : k = Len(file) /\ Len(file') = k + 1
  BY <1>1 DEF FileInv
<1>3. clock \in Nat /\ cycle_start \in Nat /\ Period \in Nat /\ MaxDuration \in Nat
  BY TimeAssumption DEF FileInv, TypeOK
<1>4. k * Period <= cycle_start /\ cycle_start < MaxDuration /\ cycle_start <= clock
  BY <1>1, <1>2 DEF CycleInv
<1>5. ASSUME NEW m \in 1 .. k
      PROVE  /\ file'[m].time = file[m].time /\ file[m].time \in Nat
             /\ file[m].time + (k - m) * Period <= cycle_start /\ (k - m) * Period \in Nat
             /\ file[m].time <= cycle_start
             /\ (k + 1 - m) * Period = (k - m) * Period + Period
  <2>1. m \in 1 .. Len(file) /\ m \in DOMAIN file /\ k - m \in Nat
    BY <1>2 DEF FileInv
  <2>2. file[m].time \in Nat
    BY <2>1, TimeAssumption DEF FileInv, TypeOK
  <2>3. Due(m) <= cycle_start /\ file'[m].time = file[m].time
    BY <1>1, <2>1 DEF SpacedInv
  <2>4. (k - m + 1) * Period = (k - m) * Period + Period /\ (k - m) * Period \in Nat
    BY <2>1, NextPeriod
  <2>5. k + 1 - m = k - m + 1
    BY <2>1
  <2>6. file[m].time + (k - m) * Period <= cycle_start
    BY <1>2, <2>3 DEF Due
  <2>7. file[m].time <= cycle_start
    BY <1>3, <2>2, <2>4, <2>6
  <2>8. QED
    BY <2>2, <2>3, <2>4, <2>5, <2>6, <2>7
<1>6. SpacedInv'
  <2>1. ASSUME NEW m \in 1 .. Len(file') PROVE file'[m].time <= clock
    <3>1. m = k + 1 \/ m \in 1 .. k
      BY <1>2, <2>1
    <3>2. ASSUME m \in 1 .. k PROVE file'[m].time <= clock
      <4>1. PICK t \in Nat : t = file[m].time /\ t = file'[m].time /\ t <= cycle_start
        BY <1>5, <3>2
      <4>2. QED
        BY <1>3, <1>4, <4>1
    <3>3. QED
      BY <1>1, <1>2, <1>3, <3>1, <3>2
  <2>2. ASSUME NEW m \in 1 .. Len(file'), m < Len(file') PROVE Due(m)' <= cycle_start + Period
    <3>1. m \in 1 .. k
      BY <1>2, <2>2
    <3>2. Due(m)' = file'[m].time + (k + 1 - m) * Period
      BY <1>2 DEF Due
    <3>3. QED
      BY <1>3, <1>5, <3>1, <3>2
  <2>3. QED
    BY <1>1, <2>1, <2>2 DEF SpacedInv
<1>7. Len(file') * Period < MaxDuration + Period /\ k * Period \in Nat
  BY <1>2, <1>3, <1>4, NextPeriod
<1>8. ASSUME NEW n \in 1 .. Len(file')
      PROVE  /\ file'[n].time >= (n - 1) * Period
             /\ \A m \in 1 .. n - 1 : file'[n].time >= file'[m].time + (n - m - 1) * Period
             /\ n < Len(file') => file'[n].time < MaxDuration
  <2>1. CASE n = k + 1
    <3>1. file'[n].time = clock /\ n - 1 = k /\ ~(n < Len(file'))
      BY <1>1, <1>2, <2>1
    <3>2. ASSUME NEW m \in 1 .. n - 1 PROVE file'[n].time >= file'[m].time + (n - m - 1) * Period
      <4>1. m \in 1 .. k /\ n - m - 1 = k - m
        BY <2>1
      <4>2. PICK t \in Nat : t = file[m].time /\ t = file'[m].time
        BY <1>5, <4>1
      <4>3. PICK p \in Nat : p = (k - m) * Period /\ p = (n - m - 1) * Period
        BY <1>5, <4>1
      <4>4. t + p <= cycle_start
        BY <1>5, <4>1, <4>2, <4>3
      <4>5. clock >= t + p
        BY <1>3, <1>4, <4>4
      <4>6. QED
        BY <3>1, <4>2, <4>3, <4>5
    <3>3. file'[n].time >= (n - 1) * Period
      <4>1. PICK t \in Nat : t = (n - 1) * Period /\ t <= cycle_start
        BY <1>4, <1>7, <3>1
      <4>2. QED
        BY <1>3, <1>4, <3>1, <4>1
    <3>4. QED
      BY <3>1, <3>2, <3>3
  <2>2. CASE n \in 1 .. k
    <3>1. file'[n].time = file[n].time /\ \A m \in 1 .. n - 1 : file'[m].time = file[m].time
      BY <1>5, <2>2
    <3>2. /\ file[n].time >= (n - 1) * Period
          /\ \A m \in 1 .. n - 1 : file[n].time >= file[m].time + (n - m - 1) * Period
      BY <1>2, <2>2 DEF CycleInv, OnSchedule
    <3>3. file[n].time < MaxDuration
      <4>1. file[n].time \in Nat /\ file[n].time <= cycle_start
        BY <1>5, <2>2
      <4>2. QED
        BY <1>3, <1>4, <4>1
    <3>4. QED
      BY <3>1, <3>2, <3>3
  <2>3. QED
    BY <1>2, <2>1, <2>2
<1>9. QED
  BY <1>6, <1>7, <1>8 DEF OnSchedule

\* Every step keeps the schedule.
LEMMA StepCycle ==
  ASSUME FileInv, FileInv', RecordsInv, ScanInv, CycleInv, SpacedInv, [Next]_vars
  PROVE  CycleInv' /\ SpacedInv'
<1>1. /\ Len(file) \in Nat /\ clock \in Nat /\ cycle_start \in Nat /\ OnSchedule
      /\ DOMAIN file = 1 .. Len(file)
  BY TimeAssumption DEF FileInv, TypeOK, CycleInv
<1>2. Period \in Nat /\ MaxDuration \in Nat
  BY TimeAssumption
<1>3. PICK P \in Nat : P = Len(file) * Period /\ (Len(file) + 1) * Period = P + Period
  BY <1>1, NextPeriod
<1>4. CASE Tick \/ (\E p \in Pid : Appears(p) \/ Vanishes(p)) \/ UNCHANGED vars \/ ReadDir
  <2>1. UNCHANGED <<pc, cycle_start, file>> /\ clock' \in {clock, clock + 1}
    BY <1>4 DEF Tick, Appears, Vanishes, ReadDir, vars, world, tracker
  <2>2. OnSchedule'
    BY <1>1, <2>1, SameSchedule
  <2>3. SpacedInv'
    BY <1>1, <2>1, StaySpaced
  <2>4. QED
    BY <1>1, <1>3, <2>1, <2>2, <2>3 DEF CycleInv
<1>5. CASE Kill
  <2>1. /\ pc' = "stopped" /\ UNCHANGED <<cycle_start, clock>>
        /\ \/ UNCHANGED file
           \/ /\ file # <<>> /\ Last(file).records # <<>>
              /\ file' = [file EXCEPT ![Len(file)].records[Len(Last(file).records)][2] = None]
    BY <1>5 DEF Kill, world
  <2>2. Len(file') = Len(file) /\ \A n \in 1 .. Len(file) : file'[n].time = file[n].time
    BY <2>1, Cut
  <2>3. OnSchedule'
    BY <1>1, <2>2, SameSchedule
  <2>4. SpacedInv'
    BY <1>1, <2>1, <2>2, StaySpaced
  <2>5. QED
    BY <1>1, <2>1, <2>3, <2>4 DEF CycleInv
<1>6. CASE ReadProcess
  <2> DEFINE p == Min(listed)
  <2>1. pc = "scan" /\ listed # {} /\ UNCHANGED <<pc, cycle_start, clock>> /\ ReadSched(p) /\ TypeOK
    BY <1>6 DEF ReadProcess, world, FileInv
  <2>2. p \in Pid /\ sum_exec[p] \in Value
    BY <2>1, NextListed DEF TypeOK, Value
  <2>3. Len(file') = Len(file) /\ \A n \in 1 .. Len(file) : file'[n].time = file[n].time
    <3>1. CASE opened /\ Write(p, sum_exec[p])
      BY <2>1, <2>2, <3>1, Written DEF ScanInv
    <3>2. CASE UNCHANGED file
      BY <3>2
    <3>3. QED
      BY <2>1, <3>1, <3>2 DEF ReadSched, Write
  <2>4. OnSchedule'
    BY <1>1, <2>3, SameSchedule
  <2>5. SpacedInv'
    BY <1>1, <2>1, <2>3, StaySpaced
  <2>6. QED
    BY <1>1, <1>3, <2>1, <2>3, <2>4, <2>5 DEF CycleInv
<1>7. CASE Setup
  <2>1. pc = "setup" /\ pc' \in {"cycle", "stopped"} /\ UNCHANGED <<cycle_start, clock, file>>
    BY <1>7 DEF Setup, world
  <2>2. Len(file) = 0
    BY <2>1 DEF FileInv
  <2>3. OnSchedule'
    BY <1>1, <2>1, SameSchedule
  <2>4. SpacedInv'
    BY <1>1, <2>1, StaySpaced
  <2>5. QED
    BY <1>1, <1>2, <2>1, <2>2, <2>3, <2>4 DEF CycleInv
<1>8. CASE BeginCycle
  <2>1. /\ pc = "cycle" /\ cycle_start' = clock /\ UNCHANGED <<clock, file>>
        /\ IF clock >= MaxDuration THEN pc' = "stopped" ELSE pc' = "stamp"
    BY <1>8 DEF BeginCycle, TimeIsUp, world
  <2>2. OnSchedule'
    BY <1>1, <2>1, SameSchedule
  <2>3. SpacedInv'
    BY <1>1, <2>1, StaySpaced
  <2>4. QED
    BY <1>1, <1>2, <1>3, <2>1, <2>2, <2>3 DEF CycleInv
<1>9. CASE EndCycle \/ Wake
  <2>1. /\ pc \in {"scan", "sleep"} /\ UNCHANGED <<clock, cycle_start, file>>
        /\ pc' \in {"cycle", "sleep"} /\ (pc' = "cycle" => clock >= cycle_start + Period)
    BY <1>1, <1>2, <1>9 DEF EndCycle, Wake, Overrun, world
  <2>2. OnSchedule'
    BY <1>1, <2>1, SameSchedule
  <2>3. cycle_start + Period >= P
    BY <1>3, <2>1 DEF CycleInv
  <2>4. SpacedInv'
    BY <1>1, <2>1, StaySpaced
  <2>5. QED
    BY <1>1, <1>2, <1>3, <2>1, <2>2, <2>3, <2>4 DEF CycleInv
<1>10. CASE StampTime
  <2>1. /\ pc = "stamp" /\ pc' = "scan" /\ UNCHANGED <<cycle_start, clock, opened>>
        /\ IF opened THEN file' = Append(file, [time |-> clock, records |-> <<>>]) ELSE file' = file
    BY <1>10 DEF StampTime, world
  <2>2. cycle_start >= P /\ cycle_start < MaxDuration /\ cycle_start <= clock
    BY <1>3, <2>1 DEF CycleInv
  <2>3. CASE ~opened
    <3>1. OnSchedule' /\ Len(file) = 0
      BY <1>1, <2>1, <2>3, SameSchedule DEF FileInv
    <3>2. SpacedInv'
      BY <2>1, <2>3, <3>1 DEF SpacedInv
    <3>3. QED
      BY <1>1, <1>2, <1>3, <2>1, <2>2, <2>3, <3>1, <3>2 DEF CycleInv
  <2>4. CASE opened
    <3>1. Len(file') = Len(file) + 1
      BY <2>1, <2>4, Stamped
    <3>2. Len(file') * Period = P + Period
      BY <1>3, <3>1
    <3>3. OnSchedule' /\ SpacedInv'
      BY <1>10, <2>4, StampSpaced
    <3>4. QED
      BY <1>1, <1>2, <1>3, <2>1, <2>2, <3>2, <3>3 DEF CycleInv
  <2>5. QED
    BY <2>3, <2>4
<1>11. QED
  BY <1>4, <1>5, <1>6, <1>7, <1>8, <1>9, <1>10 DEF Next, Sample

----------------------------------------------------------------------------
(* The records.                                                             *)

\* One more record.
LEMMA Appended ==
  ASSUME NEW q \in Seq(Pid \X Value), NEW r \in Pid \X Value
  PROVE  /\ Len(Append(q, r)) = Len(q) + 1 /\ Append(q, r)[Len(q) + 1] = r
         /\ \A i \in 1 .. Len(q) : Append(q, r)[i] = q[i]
OBVIOUS

\* Steps that record nothing, while the processes run on.
LEMMA SameRecords ==
  ASSUME FileInv, RecordsInv, UNCHANGED <<file, killed>>, killed => pc' = "stopped",
         \A p \in Pid : sum_exec'[p] \in Nat /\ sum_exec[p] <= sum_exec'[p]
  PROVE  RecordsInv'
<1>1. Ordered' /\ Rising'
  BY DEF RecordsInv, Ordered, Rising, Recs
<1>2. Valued'
  <2>1. ASSUME NEW n \in 1 .. Len(file), NEW i \in 1 .. Len(Recs(n))
        PROVE  IF Recs(n)[i][2] = None THEN killed /\ n = Len(file) /\ i = Len(Recs(n))
                                       ELSE Recs(n)[i][2] <= sum_exec'[Recs(n)[i][1]]
    <3>1. Recs(n)[i] \in Pid \X Value
      BY SnapshotType
    <3>2. Recs(n)[i][1] \in Pid /\ (Recs(n)[i][2] # None => Recs(n)[i][2] \in Nat)
      BY <3>1, TimeAssumption DEF Value
    <3>3. sum_exec[Recs(n)[i][1]] \in Nat
      BY <3>2, TimeAssumption DEF FileInv, TypeOK
    <3>4. QED
      BY <3>2, <3>3 DEF RecordsInv, Valued
  <2>2. QED
    BY <2>1 DEF Valued, Recs
<1>3. QED
  BY <1>1, <1>2 DEF RecordsInv

\* ReadProcess records a process that is behind all that are recorded.
LEMMA OneRecord ==
  ASSUME FileInv, RecordsInv, ScanInv, pc = "scan", opened, NEW p \in listed, p \in Pid,
         Write(p, sum_exec[p]), UNCHANGED <<sum_exec, killed, pc>>
  PROVE  RecordsInv'
<1>1. ~killed /\ file # <<>> /\ sum_exec[p] \in Value /\ sum_exec[p] \in Nat
  BY TimeAssumption DEF RecordsInv, ScanInv, FileInv, TypeOK, Value
<1>2. PICK L \in Nat : L = Len(file) /\ L \in 1 .. Len(file)
  BY <1>1, Written, SnapshotType
<1> DEFINE r == <<p, sum_exec[p]>>
           q == Recs(L)
<1>3. /\ file' \in Seq(Snapshot) /\ Len(file') = L
      /\ \A n \in 1 .. L : n # L => Recs(n)' = Recs(n)
      /\ Recs(L)' = Append(q, r)
  BY <1>1, <1>2, Written DEF Recs
<1>4. q \in Seq(Pid \X Value) /\ r \in Pid \X Value /\ r[1] = p /\ r[2] = sum_exec[p]
  BY <1>1, <1>2, SnapshotType
<1>5. PICK K \in Nat : K = Len(q)
  BY <1>4
<1>6. /\ Len(Recs(L)') = K + 1 /\ Recs(L)'[K + 1] = r
      /\ \A i \in 1 .. K : Recs(L)'[i] = q[i]
  <2> HIDE DEF q, r
  <2>1. QED
    BY <1>3, <1>4, <1>5, Appended
<1>7. \A i \in 1 .. K : q[i] \in Pid \X Value /\ q[i][1] < p
  <2>1. \A i \in 1 .. K : q[i][1] < p
    BY <1>1, <1>2, <1>5 DEF ScanInv
  <2>2. QED
    BY <1>2, <1>5, <2>1, SnapshotType
<1>8. r[2] # None /\ r[2] \in Nat /\ p \in Nat
  BY <1>1, <1>4, PidsAssumption DEF None, Pid
<1> HIDE DEF q, r
<1>9. Ordered'
  <2>1. ASSUME NEW i \in 1 .. K + 1, NEW j \in 1 .. K + 1, i < j PROVE Recs(L)'[i][1] < Recs(L)'[j][1]
    <3>1. CASE j = K + 1
      BY <1>4, <1>6, <1>7, <2>1, <3>1
    <3>2. CASE j # K + 1
      BY <1>2, <1>5, <1>6, <2>1, <3>2 DEF RecordsInv, Ordered, q
    <3>3. QED
      BY <3>1, <3>2
  <2>2. \A n \in 1 .. L : n # L => \A i, j \in 1 .. Len(Recs(n)') : i < j => Recs(n)'[i][1] < Recs(n)'[j][1]
    BY <1>2, <1>3 DEF RecordsInv, Ordered
  <2>3. QED
    BY <1>3, <1>6, <2>1, <2>2 DEF Ordered
<1>10. Valued'
  <2>1. ASSUME NEW i \in 1 .. K + 1
        PROVE  Recs(L)'[i][2] # None /\ Recs(L)'[i][2] <= sum_exec[Recs(L)'[i][1]]
    <3>1. CASE i = K + 1
      BY <1>4, <1>6, <1>8, <3>1
    <3>2. CASE i \in 1 .. K
      BY <1>1, <1>2, <1>5, <1>6, <3>2 DEF RecordsInv, Valued, q
    <3>3. QED
      BY <3>1, <3>2
  <2>2. \A n \in 1 .. L : n # L => \A i \in 1 .. Len(Recs(n)') :
          Recs(n)'[i][2] # None /\ Recs(n)'[i][2] <= sum_exec[Recs(n)'[i][1]]
    BY <1>1, <1>2, <1>3 DEF RecordsInv, Valued
  <2>3. QED
    BY <1>3, <1>6, <2>1, <2>2 DEF Valued
<1>11. Rising'
  <2>1. ASSUME NEW m \in 1 .. L, NEW n \in 1 .. L, m < n, NEW i \in 1 .. Len(Recs(m)'),
               NEW j \in 1 .. Len(Recs(n)'), Recs(m)'[i][1] = Recs(n)'[j][1], Recs(n)'[j][2] # None
        PROVE  Recs(m)'[i][2] <= Recs(n)'[j][2]
    <3>1. Recs(m)' = Recs(m)
      BY <1>2, <1>3, <2>1
    <3>2. CASE n = L /\ j = K + 1
      <4>1. Recs(m)[i][1] = p /\ Recs(n)'[j][2] = sum_exec[p]
        BY <1>4, <1>6, <2>1, <3>1, <3>2
      <4>2. QED
        BY <1>1, <1>2, <2>1, <3>1, <4>1 DEF RecordsInv, Valued
    <3>3. CASE n = L /\ j \in 1 .. K
      <4>1. Recs(n)'[j] = Recs(n)[j] /\ j \in 1 .. Len(Recs(n))
        BY <1>5, <1>6, <3>3 DEF q
      <4>2. QED
        BY <1>2, <2>1, <3>1, <4>1 DEF RecordsInv, Rising
    <3>4. CASE n # L
      <4>1. Recs(n)' = Recs(n)
        BY <1>3, <3>4
      <4>2. QED
        BY <1>2, <2>1, <3>1, <4>1 DEF RecordsInv, Rising
    <3>5. QED
      BY <1>6, <2>1, <3>2, <3>3, <3>4
  <2>2. QED
    BY <1>3, <2>1 DEF Rising
<1>12. QED
  BY <1>1, <1>9, <1>10, <1>11 DEF RecordsInv

\* Every step keeps the records in order, with values that rise.
LEMMA StepRecords ==
  ASSUME FileInv, FileInv', RecordsInv, ScanInv, [Next]_vars
  PROVE  RecordsInv'
<1>1. /\ TypeOK /\ (killed => pc = "stopped") /\ killed \in BOOLEAN
      /\ \A p \in Pid : sum_exec[p] \in Nat /\ sum_exec'[p] \in Nat
  BY TimeAssumption DEF FileInv, RecordsInv, TypeOK
<1>2. CASE Tick
  <2>1. UNCHANGED <<file, killed, pc>>
    BY <1>2 DEF Tick, tracker
  <2>2. \A p \in Pid : sum_exec[p] <= sum_exec'[p]
    <3>1. sum_exec' = sum_exec \/ \E p \in present : sum_exec' = [sum_exec EXCEPT ![p] = @ + 1]
      BY <1>2 DEF Tick
    <3>2. QED
      BY <1>1, <3>1 DEF TypeOK
  <2>3. QED
    BY <1>1, <2>1, <2>2, SameRecords
<1>3. CASE (\E p \in Pid : Appears(p) \/ Vanishes(p)) \/ ReadDir \/ UNCHANGED vars
  <2>1. UNCHANGED <<file, killed, pc, sum_exec>>
    BY <1>3 DEF Appears, Vanishes, ReadDir, vars, world, tracker
  <2>2. QED
    BY <1>1, <2>1, SameRecords
<1>4. CASE Setup \/ BeginCycle \/ EndCycle \/ Wake
  <2>1. UNCHANGED <<file, killed, sum_exec>> /\ pc # "stopped"
    BY <1>4 DEF Setup, BeginCycle, EndCycle, Wake, world
  <2>2. QED
    BY <1>1, <2>1, SameRecords
<1>5. CASE StampTime
  <2>1. /\ pc = "stamp" /\ UNCHANGED <<killed, sum_exec>>
        /\ IF opened THEN file' = Append(file, [time |-> clock, records |-> <<>>]) ELSE file' = file
    BY <1>5 DEF StampTime, world
  <2>2. ~killed
    BY <1>1, <2>1
  <2>3. CASE ~opened
    BY <1>1, <2>1, <2>2, <2>3, SameRecords
  <2>4. CASE opened
    <3>1. PICK L \in Nat : L = Len(file)
      BY SnapshotType
    <3>2. /\ Len(file') = L + 1 /\ Recs(L + 1)' = <<>> /\ Len(Recs(L + 1)') = 0
          /\ \A n \in 1 .. L : Recs(n)' = Recs(n)
      BY <2>1, <2>4, <3>1, Stamped DEF Recs
    <3>3. \A n \in 1 .. Len(file') : n \in 1 .. L \/ n = L + 1
      BY <3>1, <3>2
    <3>4. \A n : Len(Recs(n)') = 0 => 1 .. Len(Recs(n)') = {}
      OBVIOUS
    <3>5. Ordered'
      BY <3>1, <3>2, <3>3, <3>4 DEF RecordsInv, Ordered
    <3>6. Valued'
      BY <2>1, <2>2, <3>1, <3>2, <3>3, <3>4 DEF RecordsInv, Valued
    <3>7. Rising'
      <4>1. ASSUME NEW m \in 1 .. L + 1, NEW n \in 1 .. L + 1, m < n, NEW i \in 1 .. Len(Recs(m)'),
                   NEW j \in 1 .. Len(Recs(n)')
            PROVE  m \in 1 .. L /\ n \in 1 .. L
        BY <3>1, <3>2, <4>1
      <4>2. QED
        BY <3>1, <3>2, <4>1 DEF RecordsInv, Rising
    <3>8. QED
      BY <2>1, <2>2, <3>5, <3>6, <3>7 DEF RecordsInv
  <2>5. QED
    BY <2>3, <2>4
<1>6. CASE ReadProcess
  <2> DEFINE p == Min(listed)
  <2>1. pc = "scan" /\ listed # {} /\ UNCHANGED <<pc, killed, sum_exec>> /\ ReadSched(p)
    BY <1>6 DEF ReadProcess, world
  <2>2. p \in Pid /\ p \in listed
    BY <1>1, <2>1, NextListed
  <2>3. CASE opened /\ Write(p, sum_exec[p])
    <3> HIDE DEF p
    <3>1. QED
      BY <2>1, <2>2, <2>3, OneRecord
  <2>4. CASE UNCHANGED file
    BY <1>1, <2>1, <2>4, SameRecords
  <2>5. QED
    BY <2>1, <2>3, <2>4 DEF ReadSched, Write
<1>7. CASE Kill
  <2>1. /\ pc # "stopped" /\ pc' = "stopped" /\ killed' = TRUE /\ UNCHANGED sum_exec
        /\ \/ UNCHANGED file
           \/ /\ file # <<>> /\ Last(file).records # <<>>
              /\ file' = [file EXCEPT ![Len(file)].records[Len(Last(file).records)][2] = None]
    BY <1>7 DEF Kill, Running, world
  <2>2. ~killed
    BY <1>1, <2>1
  <2>3. CASE UNCHANGED file
    BY <2>1, <2>2, <2>3 DEF RecordsInv, Ordered, Valued, Rising, Recs
  <2>4. CASE file # <<>> /\ Last(file).records # <<>>
             /\ file' = [file EXCEPT ![Len(file)].records[Len(Last(file).records)][2] = None]
    <3>1. Len(file') = Len(file)
      BY <2>4, Cut
    <3>2. \A n \in 1 .. Len(file) :
            /\ Len(Recs(n)') = Len(Recs(n))
            /\ \A i \in 1 .. Len(Recs(n)) :
                 /\ Recs(n)'[i][1] = Recs(n)[i][1]
                 /\ Recs(n)'[i][2] = IF n = Len(file) /\ i = Len(Recs(n)) THEN None ELSE Recs(n)[i][2]
      BY <2>4, Cut DEF Recs
    <3>3. Ordered'
      BY <3>1, <3>2 DEF RecordsInv, Ordered
    <3>4. Valued'
      <4>1. ASSUME NEW n \in 1 .. Len(file), NEW i \in 1 .. Len(Recs(n))
            PROVE  IF Recs(n)'[i][2] = None THEN n = Len(file) /\ i = Len(Recs(n))
                                            ELSE Recs(n)'[i][2] <= sum_exec[Recs(n)'[i][1]]
        BY <2>2, <3>2 DEF RecordsInv, Valued
      <4>2. QED
        BY <2>1, <3>1, <3>2, <4>1 DEF Valued
    <3>5. Rising'
      <4>1. ASSUME NEW m \in 1 .. Len(file), NEW n \in 1 .. Len(file), m < n,
                   NEW i \in 1 .. Len(Recs(m)), NEW j \in 1 .. Len(Recs(n)),
                   Recs(m)'[i][1] = Recs(n)'[j][1], Recs(n)'[j][2] # None
            PROVE  Recs(m)'[i][2] <= Recs(n)'[j][2]
        <5>1. Recs(m)'[i][2] = Recs(m)[i][2] /\ Recs(n)'[j][2] = Recs(n)[j][2]
          BY <3>2, <4>1, SnapshotType
        <5>2. QED
          BY <3>2, <4>1, <5>1 DEF RecordsInv, Rising
      <4>2. QED
        BY <3>1, <3>2, <4>1 DEF Rising
    <3>6. QED
      BY <2>1, <3>3, <3>4, <3>5 DEF RecordsInv
  <2>5. QED
    BY <2>1, <2>3, <2>4
<1>8. QED
  BY <1>2, <1>3, <1>4, <1>5, <1>6, <1>7 DEF Next, Sample

----------------------------------------------------------------------------
(* The scan.                                                                *)

\* Every step keeps the scan between what is recorded and what is listed.
LEMMA StepScan ==
  ASSUME FileInv, FileInv', RecordsInv, ScanInv, [Next]_vars
  PROVE  ScanInv'
<1>1. TypeOK /\ Pids \in Nat /\ cursor \in 0 .. Pids /\ listed \subseteq 1 .. cursor
      /\ steady \subseteq present /\ present \subseteq Pid /\ Pid = 1 .. Pids
  BY PidsAssumption DEF FileInv, TypeOK, Pid
<1>2. CASE Tick \/ (\E p \in Pid : Appears(p) \/ Vanishes(p)) \/ UNCHANGED vars
  <2>1. UNCHANGED <<pc, opened, file, cursor, listed>> /\ steady' \subseteq steady
    BY <1>2 DEF Tick, Appears, Vanishes, vars, world, tracker
  <2>2. QED
    BY <2>1 DEF ScanInv, Recs
<1>3. CASE Kill \/ Setup \/ BeginCycle \/ EndCycle \/ Wake
  BY <1>3 DEF Kill, Setup, BeginCycle, EndCycle, Wake, ScanInv
<1>4. CASE StampTime
  <2>1. cursor' = 0 /\ listed' = {} /\ steady' = present /\ UNCHANGED <<opened, present>>
        /\ IF opened THEN file' = Append(file, [time |-> clock, records |-> <<>>]) ELSE file' = file
    BY <1>4 DEF StampTime, world
  <2>2. ASSUME opened PROVE file' # <<>> /\ Len(Recs(Len(file))') = 0
    BY <2>1, <2>2, Stamped DEF Recs
  <2>3. \A p \in steady' : ~(p <= cursor')
    BY <1>1, <2>1
  <2>4. QED
    BY <2>1, <2>2, <2>3 DEF ScanInv
<1>5. CASE ReadDir
  <2>1. PICK upto \in cursor + 1 .. Pids : cursor' = upto /\ listed' = present \cap (cursor + 1 .. upto)
    BY <1>5 DEF ReadDir
  <2>2. listed = {} /\ UNCHANGED <<pc, opened, file, steady>>
    BY <1>5 DEF ReadDir, world
  <2>3. SUFFICES ASSUME pc = "scan", opened PROVE ScanInv'
    BY <2>2 DEF ScanInv
  <2> DEFINE R == Recs(Len(file))
  <2>4. \A i \in 1 .. Len(R) : R[i] \in Pid \X Value
    BY <2>3, SnapshotType DEF ScanInv
  <2>5. \A i \in 1 .. Len(R) : R[i][1] \in Nat /\ R[i][1] <= cursor' /\ \A p \in listed' : R[i][1] < p
    BY <1>1, <2>1, <2>3, <2>4 DEF ScanInv
  <2>6. ASSUME NEW p \in steady, p <= cursor'
        PROVE  p \in listed' \/ \E i \in 1 .. Len(R) : R[i][1] = p
    <3>1. p \in Nat /\ p \in present
      BY <1>1
    <3>2. CASE p <= cursor
      BY <2>2, <2>3, <3>2 DEF ScanInv
    <3>3. CASE p > cursor
      BY <1>1, <2>1, <2>6, <3>1, <3>3
    <3>4. QED
      BY <1>1, <3>1, <3>2, <3>3
  <2>7. QED
    BY <2>2, <2>3, <2>5, <2>6 DEF ScanInv, Recs
<1>6. CASE ReadProcess
  <2>1. PICK p \in Pid : p = Min(listed) /\ p \in listed /\ p <= cursor /\ \A x \in listed : p <= x
    <3>1. listed # {}
      BY <1>6 DEF ReadProcess
    <3>2. QED
      BY <1>1, <3>1, NextListed
  <2>2. /\ listed' = listed \ {p} /\ UNCHANGED <<pc, opened, cursor, steady, present, sum_exec>>
        /\ ReadSched(p)
    BY <1>6, <2>1 DEF ReadProcess, GoesOn, world
  <2>3. SUFFICES ASSUME pc = "scan", opened PROVE ScanInv'
    BY <2>2 DEF ScanInv
  <2>4. file # <<>> /\ sum_exec[p] \in Value
    BY <1>1, <2>3 DEF ScanInv, TypeOK, Value
  <2>5. PICK L \in Nat : L = Len(file) /\ L \in 1 .. Len(file)
    BY <2>4, SnapshotType, Written DEF FileInv
  <2> DEFINE R == Recs(L)
  <2>6. /\ \A i \in 1 .. Len(R) : R[i][1] <= cursor /\ (\A x \in listed : R[i][1] < x)
        /\ \A x \in steady : x <= cursor => x \in listed \/ \E i \in 1 .. Len(R) : R[i][1] = x
    BY <2>3, <2>5 DEF ScanInv
  <2>7. \A x \in listed' : p < x
    BY <1>1, <2>1, <2>2
  <2>8. CASE Write(p, sum_exec[p])
    <3>1. Len(file') = L /\ file' # <<>> /\ Recs(L)' = Append(R, <<p, sum_exec[p]>>)
      BY <2>3, <2>4, <2>5, <2>8, Written DEF Recs
    <3> DEFINE r == <<p, sum_exec[p]>>
    <3>2. R \in Seq(Pid \X Value) /\ Len(R) \in Nat /\ r \in Pid \X Value /\ r[1] = p
      BY <2>4, <2>5, SnapshotType
    <3>3. /\ Len(Recs(L)') = Len(R) + 1 /\ Recs(L)'[Len(R) + 1] = r
          /\ \A i \in 1 .. Len(R) : Recs(L)'[i] = R[i]
      <4> HIDE DEF R, r
      <4>1. Recs(L)' = Append(R, r)
        BY <3>1 DEF r
      <4>2. QED
        BY <3>2, <4>1, Appended
    <3> HIDE DEF R, r
    <3>4. \A i \in 1 .. Len(R) + 1 : Recs(L)'[i][1] <= cursor /\ \A x \in listed' : Recs(L)'[i][1] < x
      <4>1. ASSUME NEW i \in 1 .. Len(R) + 1
            PROVE  Recs(L)'[i][1] <= cursor /\ \A x \in listed' : Recs(L)'[i][1] < x
        <5>1. CASE i = Len(R) + 1
          BY <2>1, <2>7, <3>2, <3>3, <5>1
        <5>2. CASE i \in 1 .. Len(R)
          BY <2>2, <2>6, <3>3, <5>2
        <5>3. QED
          BY <3>2, <5>1, <5>2
      <4>2. QED
        BY <4>1
    <3>5. ASSUME NEW x \in steady, x <= cursor
          PROVE  x \in listed' \/ \E i \in 1 .. Len(R) + 1 : Recs(L)'[i][1] = x
      <4>1. x = p \/ x \in listed' \/ \E i \in 1 .. Len(R) : R[i][1] = x
        BY <2>2, <2>6, <3>5
      <4>2. QED
        BY <3>2, <3>3, <4>1
    <3>6. QED
      BY <2>2, <3>1, <3>3, <3>4, <3>5 DEF ScanInv
  <2>9. CASE p \notin present
    <3>1. UNCHANGED file /\ p \notin steady
      BY <1>1, <2>2, <2>9 DEF ReadSched
    <3>2. QED
      BY <2>2, <2>4, <2>5, <2>6, <3>1 DEF ScanInv, Recs
  <2>10. QED
    BY <2>2, <2>8, <2>9 DEF ReadSched
<1>7. QED
  BY <1>2, <1>3, <1>4, <1>5, <1>6 DEF Next, Sample

\* The file, the schedule and the scan agree.
THEOREM TrackerInvariant == Spec => []TrackerInv
<1>1. Init => TrackerInv
  BY InitTracker
<1>2. TrackerInv /\ [Next]_vars => TrackerInv'
  BY StepFile, StepCycle, StepRecords, StepScan DEF TrackerInv
<1>3. QED
  BY <1>1, <1>2, PTL DEF Spec

\* Every variable keeps its type; in particular readdir's names are none it has not passed.
THEOREM TypeCorrect == Spec => []TypeOK
<1>1. TrackerInv => TypeOK
  BY DEF TrackerInv, FileInv
<1>2. QED
  BY <1>1, TrackerInvariant, PTL

\* For every period and duration, however late a snapshot is stamped in its cycle and
\* however long its scan runs over: between two snapshots lie at least as many whole
\* periods as snapshots, there are no more of them than periods have begun, and only the
\* last one can be stamped after the time is up.
THEOREM OnScheduleHolds == Spec => []OnSchedule
<1>1. TrackerInv => OnSchedule
  BY DEF TrackerInv, CycleInv
<1>2. QED
  BY <1>1, TrackerInvariant, PTL

\* The records the plotter gets to see: each process at most once in a snapshot, in the
\* order of the pids; a value missing only at the very end of the file of a tracker that
\* was killed; values that never fall from one snapshot to a later one.
THEOREM RecordsHold == Spec => [](Ordered /\ Valued /\ Rising)
<1>1. TrackerInv => Ordered /\ Valued /\ Rising
  BY DEF TrackerInv, RecordsInv
<1>2. QED
  BY <1>1, TrackerInvariant, PTL

\* A scan has recorded every process that was there all along exactly once when it ends,
\* whatever vanished or appeared next to it.
THEOREM SeesSteadyHolds == Spec => SeesSteady
<1> DEFINE Places(p) == {i \in DOMAIN Last(file).records : Last(file).records[i][1] = p}
<1>1. ASSUME TrackerInv, EndCycle, opened, NEW p \in steady PROVE Cardinality(Places(p)) = 1
  <2>1. /\ FileInv /\ Ordered /\ ScanInv /\ pc = "scan" /\ listed = {} /\ cursor = Pids
        /\ p \in Pid /\ p <= Pids
    <3>1. /\ FileInv /\ Ordered /\ ScanInv
      BY <1>1 DEF TrackerInv, RecordsInv
    <3>2. pc = "scan" /\ listed = {} /\ cursor = Pids
      BY <1>1 DEF EndCycle
    <3>3. p \in Pid
      BY <1>1, <3>1 DEF FileInv, TypeOK
    <3>4. QED
      BY <3>1, <3>2, <3>3, PidsAssumption DEF Pid
  <2>2. file # <<>> /\ \E i \in 1 .. Len(Recs(Len(file))) : Recs(Len(file))[i][1] = p
    BY <1>1, <2>1 DEF ScanInv
  <2>3. PICK L \in Nat : L = Len(file) /\ L \in 1 .. Len(file) /\ Last(file) = file[L]
    BY <2>1, <2>2, SnapshotType DEF Last, FileInv
  <2>4. DOMAIN Last(file).records = 1 .. Len(Recs(L)) /\ Last(file).records = Recs(L)
    BY <2>1, <2>3, SnapshotType DEF Recs
  <2>5. PICK i \in 1 .. Len(Recs(L)) : Recs(L)[i][1] = p
    BY <2>2, <2>3
  <2>6. \A j \in 1 .. Len(Recs(L)) : Recs(L)[j][1] = p => j = i
    <3>1. ASSUME NEW j \in 1 .. Len(Recs(L)), Recs(L)[j][1] = p, j # i PROVE FALSE
      <4>1. i < j \/ j < i
        BY <3>1, <2>1, <2>3, SnapshotType
      <4>2. p \in Nat /\ ~(p < p)
        BY <2>1, PidsAssumption DEF Pid
      <4>3. QED
        BY <2>1, <2>3, <2>5, <3>1, <4>1, <4>2 DEF Ordered
    <3>2. QED
      BY <3>1
  <2>7. Places(p) = {i}
    BY <2>4, <2>5, <2>6
  <2>8. QED
    <3> HIDE DEF Places
    <3>1. QED
      BY <2>7, FS_Singleton
<1>2. TrackerInv => [EndCycle /\ opened => \A p \in steady : Cardinality(Places(p)) = 1]_vars
  BY <1>1
<1>3. QED
  BY <1>2, TrackerInvariant, PTL DEF SeesSteady

----------------------------------------------------------------------------
(* What is plotted.                                                         *)

\* A set of numbers up to a bound is finite.
LEMMA FiniteInterval ==
  ASSUME NEW n \in Nat, NEW S, S \subseteq 1 .. n
  PROVE  IsFiniteSet(S)
<1>1. IsFiniteSet(1 .. n)
  <2>1. 1 \in Int /\ n \in Int
    OBVIOUS
  <2>2. QED
    BY <2>1, FS_Interval
<1>2. QED
  BY <1>1, FS_Subset

\* The records of a snapshot, as the parser sees them.
LEMMA PlottedType ==
  ASSUME TrackerInv, NEW n \in DOMAIN file
  PROVE  /\ n \in 1 .. Len(file) /\ Len(file) \in Nat /\ Len(Recs(n)) \in Nat
         /\ Shown(file[n]) \subseteq 1 .. Len(Recs(n)) /\ IsFiniteSet(Shown(file[n]))
         /\ Hackbench \subseteq Nat /\ IsFiniteSet(Hackbench)
         /\ \A i \in 1 .. Len(Recs(n)) : i \in Shown(file[n]) <=> Recs(n)[i][1] \in Hackbench
         /\ \A i \in Shown(file[n]) : i \in Times(file[n]) <=> Recs(n)[i][2] # None
         /\ Times(file[n]) \subseteq Shown(file[n])
         /\ \A i, j \in 1 .. Len(Recs(n)) : i < j => Recs(n)[i][1] < Recs(n)[j][1]
<1>1. FileInv /\ Ordered
  BY DEF TrackerInv, RecordsInv
<1>2. n \in 1 .. Len(file) /\ Len(file) \in Nat /\ Recs(n) \in Seq(Pid \X Value) /\ Len(Recs(n)) \in Nat
  BY <1>1, SnapshotType DEF FileInv
<1>3. DOMAIN file[n].records = 1 .. Len(Recs(n)) /\ file[n].records = Recs(n)
  BY <1>2 DEF Recs
<1>4. /\ Shown(file[n]) \subseteq 1 .. Len(Recs(n))
      /\ \A i \in 1 .. Len(Recs(n)) : i \in Shown(file[n]) <=> Recs(n)[i][1] \in Hackbench
      /\ \A i \in Shown(file[n]) : i \in Times(file[n]) <=> Recs(n)[i][2] # None
      /\ Times(file[n]) \subseteq Shown(file[n])
  BY <1>3 DEF Shown, Times
<1>5. IsFiniteSet(Shown(file[n]))
  BY <1>2, <1>4, FiniteInterval
<1>6. Hackbench \subseteq Nat /\ IsFiniteSet(Hackbench)
  <2>1. Hackbench \subseteq 1 .. Pids /\ Pids \in Nat
    BY PidsAssumption
  <2>2. IsFiniteSet(Hackbench)
    BY <2>1, FiniteInterval
  <2>3. \A h \in 1 .. Pids : h \in Nat
    OBVIOUS
  <2>4. QED
    BY <2>1, <2>2, <2>3
<1>7. QED
  BY <1>1, <1>2, <1>4, <1>5, <1>6 DEF Ordered

\* A snapshot that is plotted shows every hackbench there ever was.
LEMMA ShowsAll ==
  ASSUME TrackerInv, Cardinality(Hackbench) <= Expected, NEW n \in Processed
  PROVE  \A h \in Hackbench : \E i \in Shown(file[n]) : Recs(n)[i][1] = h
<1>1. n \in DOMAIN file /\ Cardinality(Shown(file[n])) = Expected
  BY DEF Processed, HasAll
<1> DEFINE S == Shown(file[n])
           f == [i \in S |-> Recs(n)[i][1]]
<1>2. /\ S \subseteq 1 .. Len(Recs(n)) /\ Len(Recs(n)) \in Nat /\ IsFiniteSet(S) /\ IsFiniteSet(Hackbench)
      /\ Hackbench \subseteq Nat /\ \A i \in S : Recs(n)[i][1] \in Hackbench
      /\ \A i, j \in S : i < j => Recs(n)[i][1] < Recs(n)[j][1]
  BY <1>1, PlottedType
<1> HIDE DEF S
<1>3. \A i, j \in S : Recs(n)[i][1] = Recs(n)[j][1] => i = j
  <2>1. ASSUME NEW i \in S, NEW j \in S, Recs(n)[i][1] = Recs(n)[j][1] PROVE i = j
    <3>1. Recs(n)[i][1] \in Nat /\ i \in Nat /\ j \in Nat
      <4>1. i \in 1 .. Len(Recs(n)) /\ j \in 1 .. Len(Recs(n)) /\ Recs(n)[i][1] \in Hackbench
        BY <1>2
      <4>2. \A h \in Hackbench : h \in Nat
        BY <1>2
      <4>3. \A k \in 1 .. Len(Recs(n)) : k \in Nat
        BY <1>2
      <4>4. QED
        BY <4>1, <4>2, <4>3
    <3>2. ~(i < j) /\ ~(j < i)
      BY <1>2, <2>1, <3>1
    <3>3. QED
      BY <3>1, <3>2
  <2>2. QED
    BY <2>1
<1>4. f \in Injection(S, Hackbench)
  BY <1>2, <1>3 DEF Injection, IsInjective
<1>5. Cardinality(S) = Cardinality(Hackbench)
  <2>1. Cardinality(S) <= Cardinality(Hackbench)
    BY <1>2, <1>4, FS_Injection
  <2>2. Cardinality(S) \in Nat /\ Cardinality(Hackbench) \in Nat /\ Cardinality(S) = Expected
    BY <1>1, <1>2, FS_CardinalityType DEF S
  <2>3. QED
    BY <2>1, <2>2
<1>6. f \in Surjection(S, Hackbench)
  <2> HIDE DEF f
  <2>1. QED
    BY <1>2, <1>4, <1>5, FS_Injection
<1>7. QED
  BY <1>6 DEF Surjection, S

\* Then the number of a record is how many hackbenches have no higher pid: a value that is
\* missing is at the very end, and shifts no other.
LEMMA NumberIs ==
  ASSUME TrackerInv, Cardinality(Hackbench) <= Expected, NEW n \in Processed,
         NEW i \in Times(file[n])
  PROVE  Number(file[n], i) = Cardinality({h \in Hackbench : h <= Recs(n)[i][1]})
<1>1. n \in DOMAIN file
  BY DEF Processed
<1> DEFINE R == Recs(n)
           I == {j \in Times(file[n]) : j <= i}
           T == {h \in Hackbench : h <= R[i][1]}
           g == [j \in I |-> R[j][1]]
<1>2. /\ n \in 1 .. Len(file) /\ Len(file) \in Nat /\ Len(R) \in Nat
      /\ Shown(file[n]) \subseteq 1 .. Len(R) /\ IsFiniteSet(Shown(file[n])) /\ Hackbench \subseteq Nat
      /\ \A j \in Shown(file[n]) : R[j][1] \in Hackbench
      /\ \A j \in Shown(file[n]) : j \in Times(file[n]) <=> R[j][2] # None
      /\ Times(file[n]) \subseteq Shown(file[n])
      /\ \A j, k \in 1 .. Len(R) : j < k => R[j][1] < R[k][1]
  BY <1>1, PlottedType
<1>3. \A h \in Hackbench : \E j \in Shown(file[n]) : R[j][1] = h
  BY ShowsAll
<1>4. \A j \in 1 .. Len(R) : R[j][2] = None => j = Len(R)
  BY <1>2 DEF TrackerInv, RecordsInv, Valued
<1> HIDE DEF R
<1>5. \A j \in I : j \in Shown(file[n]) /\ j \in 1 .. Len(R) /\ R[j][1] \in Nat /\ j \in Nat
  <2>1. ASSUME NEW j \in I
        PROVE  j \in Shown(file[n]) /\ j \in 1 .. Len(R) /\ R[j][1] \in Hackbench
    BY <1>2
  <2>2. \A j \in 1 .. Len(R) : j \in Nat
    BY <1>2
  <2>3. \A h \in Hackbench : h \in Nat
    BY <1>2
  <2> HIDE DEF I
  <2>4. QED
    BY <2>1, <2>2, <2>3
<1>6. i \in I /\ i \in Nat /\ i \in 1 .. Len(R) /\ R[i][1] \in Nat
  <2>1. i \in Shown(file[n]) /\ i \in 1 .. Len(R) /\ R[i][1] \in Hackbench
    BY <1>2
  <2>2. i \in Nat
    BY <1>2, <2>1
  <2>3. \A h \in Hackbench : h \in Nat
    BY <1>2
  <2>4. i \in I
    BY <2>2
  <2> HIDE DEF I
  <2>5. QED
    BY <2>1, <2>2, <2>3, <2>4
<1>7. g \in Injection(I, T)
  <2>1. \A j \in I : R[j][1] \in T
    <3>1. ASSUME NEW j \in I PROVE R[j][1] <= R[i][1]
      <4>1. j \in Nat /\ j <= i
        BY <1>5
      <4>2. CASE j = i
        BY <1>6, <4>2
      <4>3. CASE j < i
        BY <1>2, <1>5, <1>6, <4>3
      <4>4. QED
        BY <1>6, <4>1, <4>2, <4>3
    <3>2. QED
      BY <1>2, <1>5, <3>1
  <2>2. ASSUME NEW j \in I, NEW k \in I, R[j][1] = R[k][1] PROVE j = k
    <3>1. ~(j < k) /\ ~(k < j)
      BY <1>2, <1>5, <2>2
    <3>2. QED
      BY <1>5, <3>1
  <2> HIDE DEF I, T
  <2>3. QED
    BY <2>1, <2>2 DEF Injection, IsInjective
<1>8. g \in Surjection(I, T)
  <2>1. ASSUME NEW h \in T PROVE \E j \in I : R[j][1] = h
    <3>1. PICK j \in Shown(file[n]) : R[j][1] = h
      BY <1>3
    <3>2. j \in 1 .. Len(R) /\ j \in Nat /\ h \in Nat /\ h <= R[i][1]
      BY <1>2
    <3>3. j <= i
      <4>1. ~(i < j)
        BY <1>2, <1>6, <3>1, <3>2
      <4>2. QED
        BY <1>6, <3>2, <4>1
    <3>4. R[j][2] # None
      <4>1. ASSUME R[j][2] = None PROVE FALSE
        <5>1. j = i
          BY <1>4, <1>6, <3>2, <3>3, <4>1
        <5>2. QED
          BY <1>2, <4>1, <5>1
      <4>2. QED
        BY <4>1
    <3>5. QED
      BY <1>2, <3>1, <3>3, <3>4
  <2>2. g \in [I -> T]
    BY <1>7 DEF Injection
  <2> HIDE DEF I, T
  <2>3. QED
    BY <2>1, <2>2 DEF Surjection
<1>9. ExistsBijection(I, T)
  BY <1>7, <1>8 DEF ExistsBijection, Bijection
<1>10. IsFiniteSet(I)
  <2>1. I \subseteq Shown(file[n])
    BY <1>5
  <2> HIDE DEF I
  <2>2. QED
    BY <1>2, <2>1, FS_Subset
<1>11. Cardinality(T) = Cardinality(I)
  <2> HIDE DEF I, T
  <2>1. QED
    BY <1>9, <1>10, FS_Bijection
<1>12. QED
  BY <1>11 DEF Number, R

\* Of two pids the higher has more of the hackbenches at or below it.
LEMMA NumbersDiffer ==
  ASSUME NEW p \in Hackbench, NEW q \in Hackbench, p < q
  PROVE  Cardinality({h \in Hackbench : h <= p}) # Cardinality({h \in Hackbench : h <= q})
<1> DEFINE P == {h \in Hackbench : h <= p}
           Q == {h \in Hackbench : h <= q}
<1>1. Hackbench \subseteq 1 .. Pids /\ Pids \in Nat
  BY PidsAssumption
<1>2. IsFiniteSet(Q)
  <2>1. Q \subseteq 1 .. Pids
    BY <1>1
  <2> HIDE DEF Q
  <2>2. QED
    BY <1>1, <2>1, FiniteInterval
<1>3. P \subseteq Q /\ q \in Q /\ q \notin P
  <2>1. \A h \in Hackbench : h \in Int
    BY <1>1
  <2>2. p \in Int /\ q \in Int
    BY <2>1
  <2>3. \A h \in Hackbench : h <= p => h <= q
    BY <2>1, <2>2
  <2>4. q <= q /\ ~(q <= p)
    BY <2>2
  <2>5. QED
    BY <2>3, <2>4
<1> HIDE DEF P, Q
<1>4. Cardinality(P) # Cardinality(Q)
  BY <1>2, <1>3, FS_Subset
<1>5. QED
  BY <1>4 DEF P, Q

\* What is plotted under a number is one process, and its time never falls, in the file of
\* every tracker: for any number of processes that come, go or are half listed.
THEOREM SameProcessHolds == Spec => []SameProcess
<1>1. ASSUME TrackerInv, Cardinality(Hackbench) <= Expected, NEW m \in Processed, NEW n \in Processed,
             m < n, NEW i \in Times(file[m]), NEW j \in Times(file[n]),
             Number(file[m], i) = Number(file[n], j)
      PROVE  Recs(m)[i][1] = Recs(n)[j][1] /\ Recs(m)[i][2] <= Recs(n)[j][2]
  <2>1. m \in DOMAIN file /\ n \in DOMAIN file
    BY DEF Processed
  <2>2. /\ i \in 1 .. Len(Recs(m)) /\ Recs(m)[i][1] \in Hackbench
        /\ m \in 1 .. Len(file) /\ Hackbench \subseteq Nat
    BY <1>1, <2>1, PlottedType
  <2>3. /\ j \in 1 .. Len(Recs(n)) /\ Recs(n)[j][1] \in Hackbench /\ n \in 1 .. Len(file)
        /\ Recs(n)[j][2] # None
    BY <1>1, <2>1, PlottedType
  <2> DEFINE p == Recs(m)[i][1]
             q == Recs(n)[j][1]
  <2>4. Cardinality({h \in Hackbench : h <= p}) = Cardinality({h \in Hackbench : h <= q})
    BY <1>1, NumberIs
  <2>5. p \in Hackbench /\ q \in Hackbench
    BY <2>2, <2>3
  <2> HIDE DEF p, q
  <2>6. p = q
    <3>1. ~(p < q) /\ ~(q < p)
      BY <2>4, <2>5, NumbersDiffer
    <3>2. p \in Nat /\ q \in Nat
      BY <2>2, <2>5
    <3>3. QED
      BY <3>1, <3>2
  <2>7. Recs(m)[i][2] <= Recs(n)[j][2]
    BY <1>1, <2>2, <2>3, <2>6 DEF TrackerInv, RecordsInv, Rising, p, q
  <2>8. QED
    BY <2>6, <2>7 DEF p, q
<1>2. TrackerInv => SameProcess
  BY <1>1 DEF SameProcess, Recs
<1>3. QED
  BY <1>2, TrackerInvariant, PTL

\* Every snapshot that is plotted has all its values, but for the last of a killed tracker.
THEOREM CompletePointsHolds == Spec => []CompletePoints
<1>1. ASSUME TrackerInv, NEW n \in Processed, ~(killed /\ n = Len(file))
      PROVE  Cardinality(Times(file[n])) = Expected
  <2>1. n \in DOMAIN file /\ Cardinality(Shown(file[n])) = Expected
    BY DEF Processed, HasAll
  <2>2. /\ n \in 1 .. Len(file) /\ Shown(file[n]) \subseteq 1 .. Len(Recs(n))
        /\ Times(file[n]) \subseteq Shown(file[n])
        /\ \A i \in Shown(file[n]) : i \in Times(file[n]) <=> Recs(n)[i][2] # None
    BY <1>1, <2>1, PlottedType
  <2>3. \A i \in 1 .. Len(Recs(n)) : Recs(n)[i][2] # None
    BY <1>1, <2>2 DEF TrackerInv, RecordsInv, Valued
  <2>4. Times(file[n]) = Shown(file[n])
    BY <2>2, <2>3
  <2>5. QED
    BY <2>1, <2>4
<1>2. TrackerInv => CompletePoints
  BY <1>1 DEF CompletePoints
<1>3. QED
  BY <1>2, TrackerInvariant, PTL
============================================================================
