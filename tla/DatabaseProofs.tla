--------------------------- MODULE DatabaseProofs ---------------------------
(***************************************************************************)
(* What holds of Database for every number of rows and queries and every   *)
(* set of runs of seed_db and query_test, one after the other or together. *)
(***************************************************************************)
EXTENDS Database, SequenceTheorems, TLAPS

\* Operators that have a name of their own for the mutants only.
USE DEF DropTable, ExitFailure, AllIn

SeedState == {"none", "connect", "drop", "create", "insert", "ok", "failed"}

----------------------------------------------------------------------------
(* The inductive invariant.                                                 *)

\* Nobody has inserted before it has created the table, and nobody succeeds before
\* it has inserted everything.
ProgressInv ==
  \A s \in Seeders : /\ seed[s] \in {"none", "connect", "drop", "create"} => i[s] = 1
                     /\ seed[s] = "ok" => i[s] = Entries + 1

\* The table has the orders below n, once each.
HasBelow(n) == \A id \in OrderId : id < n => orders # NoTable /\ orders[id] = 1

\* A run during which no other is active owns the table: what it holds is what this
\* run has put there.
AloneInv ==
  \A s \in alone :
    /\ seed[s] # "none"
    /\ s \in Active =>
         /\ Active = {s}
         /\ seed[s] = "create" => orders = NoTable
         /\ seed[s] = "insert" => orders = [id \in OrderId |-> IF id < i[s] THEN 1 ELSE 0]

\* Of the runs that have dropped the table the last one has found, or will find, room
\* for all of its rows, unless it fails.
OwnerInv ==
  /\ \A s \in Seeders : seed[s] # "failed"
  /\ \E s \in Seeders : seed[s] \in {"create", "insert", "ok"}
  => \E s \in Seeders : \/ seed[s] = "create"
                        \/ seed[s] \in {"insert", "ok"} /\ HasBelow(i[s])

\* How far each run of query_test has come, and what its stream has written.
TimesInv ==
  \A q \in Queriers : /\ offset[q] <= iter[q] /\ (q \in good => offset[q] = iter[q])
                      /\ query[q] = "none" => iter[q] = 0 /\ q \notin good
                      /\ query[q] = "exec" => iter[q] < Iterations
                      /\ query[q] = "ok" => iter[q] = Iterations

\* Nobody runs beside a run that is alone.
LoneInv == \A q \in lone : query[q] # "none" /\ (q \in Querying => Querying = {q})

\* Whoever has truncated the file last, with a stream that is good, finds its lines
\* there: filled, and with its own times as long as nobody else writes.
FileInv ==
  \A q \in latest :
    /\ latest = {q} /\ query[q] # "none"
    /\ q \in good =>
         /\ Len(measurements) >= iter[q]
         /\ \A n \in 1 .. iter[q] : measurements[n] # Hole
         /\ q \in lone => /\ Len(measurements) = iter[q]
                          /\ \A n \in 1 .. iter[q] : measurements[n] = <<q, n>>
                          /\ \A r \in Querying \cap good : r = q

QueryInv == TimesInv /\ LoneInv /\ FileInv

DatabaseInv == TypeOK /\ ProgressInv /\ AloneInv /\ OwnerInv /\ QueryInv

----------------------------------------------------------------------------
(* Tables.                                                                  *)

\* A table with its rows is not the absence of a table.
LEMMA TableIsThere ==
  ASSUME NEW t, NEW V, t \in [OrderId -> V]
  PROVE  t # NoTable
<1>1. 1 \in OrderId /\ DOMAIN t = OrderId
  BY CountsAssumption DEF OrderId
<1>2. DOMAIN <<>> = {}
  OBVIOUS
<1>3. QED
  BY <1>1, <1>2 DEF NoTable

\* An empty and a whole table are tables, and no missing ones.
LEMMA Tables ==
  /\ Empty \in [OrderId -> 0 .. 1] /\ Whole \in [OrderId -> 0 .. 1]
  /\ Empty # NoTable /\ Whole # NoTable
<1>1. Empty \in [OrderId -> 0 .. 1] /\ Whole \in [OrderId -> 0 .. 1]
  BY DEF Empty, Whole
<1>2. QED
  BY <1>1, TableIsThere

\* What an insert that is not refused does.
LEMMA InsertIs ==
  ASSUME TypeOK, NEW s \in Seeders, Insert(s)
  PROVE  /\ i[s] \in OrderId /\ orders \in [OrderId -> 0 .. 1] /\ orders[i[s]] = 0
         /\ orders' \in [OrderId -> 0 .. 1] /\ orders' # NoTable /\ orders # NoTable
         /\ orders'[i[s]] = 1
         /\ \A id \in OrderId : id # i[s] => orders'[id] = orders[id]
         /\ i' \in [Seeders -> 1 .. Entries + 1] /\ i'[s] = i[s] + 1
         /\ \A t \in Seeders : t # s => i'[t] = i[t]
<1>1. i[s] \in OrderId /\ orders \in [OrderId -> 0 .. 1] /\ orders # NoTable
  BY CountsAssumption DEF TypeOK, Insert, Refused, OrderId
<1>2. orders[i[s]] = 0
  BY <1>1 DEF Insert, Refused
<1>3. orders' = [orders EXCEPT ![i[s]] = orders[i[s]] + 1]
  BY DEF Insert
<1>4. /\ orders' \in [OrderId -> 0 .. 1] /\ orders'[i[s]] = 1
      /\ \A id \in OrderId : id # i[s] => orders'[id] = orders[id]
  BY <1>1, <1>2, <1>3
<1>5. orders' # NoTable
  BY <1>4, TableIsThere
<1>6. i' = [i EXCEPT ![s] = i[s] + 1] /\ i \in [Seeders -> 1 .. Entries + 1]
  BY DEF Insert, TypeOK
<1>7. /\ i' \in [Seeders -> 1 .. Entries + 1] /\ i'[s] = i[s] + 1
      /\ \A t \in Seeders : t # s => i'[t] = i[t]
  BY <1>1, <1>6, CountsAssumption DEF OrderId
<1>8. QED
  BY <1>1, <1>2, <1>4, <1>5, <1>7

----------------------------------------------------------------------------
(* The steps keep it.                                                       *)

\* The steps of a seed_db keep the types.
LEMMA TypeSeed ==
  ASSUME DatabaseInv, NEW s \in Seeders, SeedStep(s)
  PROVE  TypeOK'
<1> USE DEF TypeOK, Seed, queryVars, fileVars
<1>1. TypeOK
  BY DEF DatabaseInv
<1>2. CASE StartSeed(s) \/ Connect(s)
  BY <1>1, <1>2 DEF StartSeed, Connect, Active
<1>3. CASE Drop(s) \/ Create(s)
  BY <1>1, <1>3, Tables DEF Drop, Create
<1>4. CASE Insert(s)
  BY <1>1, <1>4, InsertIs DEF Insert
<1>5. CASE InsertRefused(s) \/ Seeded(s) \/ SeedFails(s)
  BY <1>1, <1>5 DEF InsertRefused, Seeded, SeedFails
<1>6. QED
  BY <1>2, <1>3, <1>4, <1>5 DEF SeedStep

\* The steps of a seed_db keep what its progress says of the table.
LEMMA ProgressSeed ==
  ASSUME DatabaseInv, NEW s \in Seeders, SeedStep(s)
  PROVE  ProgressInv'
<1> USE DEF ProgressInv, Seed
<1>1. TypeOK /\ ProgressInv /\ seed \in [Seeders -> SeedState]
  BY DEF DatabaseInv, TypeOK, SeedState
<1>2. CASE StartSeed(s) \/ Connect(s) \/ Drop(s) \/ Create(s)
  BY <1>1, <1>2 DEF StartSeed, Connect, Drop, Create
<1>3. CASE Insert(s)
  BY <1>1, <1>3, InsertIs DEF Insert
<1>4. CASE Seeded(s)
  <2>1. i[s] = Entries + 1
    BY <1>1, <1>4, CountsAssumption DEF Seeded, TypeOK
  <2>2. QED
    BY <1>1, <1>4, <2>1 DEF Seeded
<1>5. CASE InsertRefused(s) \/ SeedFails(s)
  BY <1>1, <1>5 DEF InsertRefused, SeedFails
<1>6. QED
  BY <1>2, <1>3, <1>4, <1>5 DEF SeedStep

\* Only the step of a run itself, or the start of another, touches what it has alone.
LEMMA AloneSeed ==
  ASSUME DatabaseInv, NEW s \in Seeders, SeedStep(s)
  PROVE  AloneInv'
<1> USE DEF Seed, SeedState
<1>1. /\ TypeOK /\ AloneInv /\ ProgressInv /\ seed \in [Seeders -> SeedState]
      /\ alone \subseteq Seeders
  BY DEF DatabaseInv, TypeOK
<1>2. CASE StartSeed(s)
  <2>1. /\ seed[s] = "none" /\ seed'[s] = "connect" /\ Active' = Active \cup {s}
        /\ alone' = (alone \ Active) \cup (IF Active = {} THEN {s} ELSE {})
    BY <1>1, <1>2 DEF StartSeed, Active
  <2>2. \A t \in Seeders : t # s => seed'[t] = seed[t]
    BY <1>1, <1>2 DEF StartSeed
  <2>3. s \notin alone
    BY <1>1, <2>1 DEF AloneInv
  <2>4. SUFFICES ASSUME NEW t \in alone'
                 PROVE  seed'[t] # "none" /\ (t \in Active' => t = s /\ Active' = {s})
    BY <2>1 DEF AloneInv
  <2>5. CASE t = s
    BY <2>1, <2>3, <2>5
  <2>6. CASE t # s
    BY <1>1, <2>1, <2>2, <2>6 DEF AloneInv
  <2>7. QED
    BY <2>5, <2>6
<1>3. CASE ~StartSeed(s)
  <2>1. /\ alone' = alone /\ s \in Active /\ Active' \subseteq Active
        /\ \A t \in Seeders : t # s => seed'[t] = seed[t]
    BY <1>1, <1>3 DEF SeedStep, Connect, Drop, Create, Insert, InsertRefused, Seeded,
                      SeedFails, Active
  <2>8. \A t \in alone : seed'[t] # "none"
    BY <1>1, <1>3, <2>1
       DEF AloneInv, SeedStep, Connect, Drop, Create, Insert, InsertRefused, Seeded, SeedFails
  <2>2. SUFFICES ASSUME NEW t \in alone, t \in Active'
                 PROVE  /\ Active' = {t}
                        /\ seed'[t] = "create" => orders' = NoTable
                        /\ seed'[t] = "insert" =>
                             orders' = [id \in OrderId |-> IF id < i'[t] THEN 1 ELSE 0]
    BY <2>1, <2>8 DEF AloneInv
  <2>3. t = s /\ Active = {s} /\ Active' = {s} /\ s \in alone
    BY <1>1, <2>1, <2>2 DEF AloneInv
  <2>4. CASE Connect(s) \/ Drop(s) \/ InsertRefused(s) \/ Seeded(s) \/ SeedFails(s)
    BY <1>1, <2>3, <2>4 DEF Connect, Drop, InsertRefused, Seeded, SeedFails
  <2>5. CASE Create(s)
    <3>1. orders = NoTable /\ i[s] = 1 /\ i' = i /\ orders' = Empty
      BY <1>1, <2>3, <2>5 DEF Create, AloneInv, ProgressInv
    <3>2. Empty = [id \in OrderId |-> IF id < 1 THEN 1 ELSE 0]
      BY CountsAssumption DEF Empty, OrderId
    <3>3. QED
      BY <1>1, <2>3, <2>5, <3>1, <3>2 DEF Create
  <2>6. CASE Insert(s)
    <3>1. /\ seed'[s] = "insert" /\ orders = [id \in OrderId |-> IF id < i[s] THEN 1 ELSE 0]
          /\ i[s] \in Int
      BY <1>1, <2>3, <2>6 DEF Insert, AloneInv, TypeOK
    <3>2. \A id \in OrderId : orders'[id] = IF id < i'[s] THEN 1 ELSE 0
      <4> TAKE id \in OrderId
      <4>1. orders[id] = IF id < i[s] THEN 1 ELSE 0
        BY <3>1
      <4>2. CASE id = i[s]
        BY <1>1, <2>6, <3>1, <4>2, InsertIs
      <4>3. CASE id # i[s]
        <5>1. orders'[id] = orders[id] /\ i'[s] = i[s] + 1
          BY <1>1, <2>6, <4>3, InsertIs
        <5>2. id \in Int
          BY DEF OrderId
        <5>3. QED
          BY <3>1, <4>1, <4>3, <5>1, <5>2
      <4>4. QED
        BY <4>2, <4>3
    <3>3. orders' = [id \in OrderId |-> IF id < i'[s] THEN 1 ELSE 0]
      <4>1. orders' \in [OrderId -> 0 .. 1]
        BY <1>1, <2>6, InsertIs
      <4>2. QED
        BY <3>2, <4>1
    <3>4. QED
      BY <2>3, <3>1, <3>3
  <2>7. QED
    BY <1>3, <2>4, <2>5, <2>6 DEF SeedStep
<1>4. QED
  BY <1>2, <1>3

\* The run that has dropped the table last keeps what it has of it: a row that is
\* there refuses the insert of another.
LEMMA OwnerSeed ==
  ASSUME DatabaseInv, NEW s \in Seeders, SeedStep(s)
  PROVE  OwnerInv'
<1> USE DEF Seed, SeedState
<1>1. TypeOK /\ OwnerInv /\ ProgressInv /\ seed \in [Seeders -> SeedState]
  BY DEF DatabaseInv, TypeOK
<1>2. CASE StartSeed(s) \/ Connect(s)
  BY <1>1, <1>2 DEF StartSeed, Connect, OwnerInv, HasBelow
<1>3. CASE Drop(s)
  <2>1. seed'[s] = "create"
    BY <1>1, <1>3 DEF Drop
  <2>2. QED
    BY <2>1 DEF OwnerInv
<1>4. CASE Create(s)
  <2>1. seed'[s] = "insert" /\ i'[s] = 1
    BY <1>1, <1>4 DEF Create, ProgressInv
  <2>2. HasBelow(1)'
    BY CountsAssumption DEF HasBelow, OrderId
  <2>3. QED
    BY <2>1, <2>2 DEF OwnerInv, HasBelow
<1>5. CASE Insert(s)
  <2> SUFFICES ASSUME \A t \in Seeders : seed'[t] # "failed"
               PROVE  \E t \in Seeders : \/ seed'[t] = "create"
                                         \/ seed'[t] \in {"insert", "ok"} /\ HasBelow(i[t])'
    BY DEF OwnerInv, HasBelow
  <2>1. seed' = seed /\ seed[s] = "insert"
    BY <1>5 DEF Insert
  <2>2. PICK t \in Seeders : \/ seed[t] = "create"
                             \/ seed[t] \in {"insert", "ok"} /\ HasBelow(i[t])
    BY <1>1, <2>1 DEF OwnerInv
  <2>3. CASE seed[t] = "create"
    BY <2>1, <2>3
  <2>4. CASE seed[t] \in {"insert", "ok"} /\ HasBelow(i[t])
    <3>1. \A id \in OrderId : id < i'[t] => orders' # NoTable /\ orders'[id] = 1
      <4> SUFFICES ASSUME NEW id \in OrderId, id < i'[t], id # i[s] PROVE orders'[id] = 1
        BY <1>1, <1>5, InsertIs
      <4>1. id < i[t]
        <5>1. /\ i[t] \in Int /\ id \in Int /\ i'[s] = i[s] + 1
              /\ t # s => i'[t] = i[t]
          BY <1>1, <1>5, InsertIs DEF TypeOK, OrderId
        <5>2. QED
          BY <5>1
      <4>2. QED
        BY <1>1, <1>5, <2>4, <4>1, InsertIs DEF HasBelow
    <3>2. HasBelow(i[t])'
      BY <3>1 DEF HasBelow
    <3>3. QED
      BY <2>1, <2>4, <3>2
  <2>5. QED
    BY <2>2, <2>3, <2>4
<1>6. CASE Seeded(s)
  BY <1>1, <1>6 DEF Seeded, OwnerInv, HasBelow
<1>7. CASE InsertRefused(s) \/ SeedFails(s)
  BY <1>1, <1>7 DEF InsertRefused, SeedFails, OwnerInv
<1>8. QED
  BY <1>2, <1>3, <1>4, <1>5, <1>6, <1>7 DEF SeedStep

\* The steps of a seed_db touch nothing of query_test.
LEMMA QuerySeed ==
  ASSUME DatabaseInv, NEW s \in Seeders, SeedStep(s)
  PROVE  QueryInv'
<1>1. UNCHANGED queryVars
  BY DEF SeedStep, StartSeed, Connect, Drop, Create, Insert, InsertRefused, Seeded, SeedFails
<1>2. QED
  BY <1>1 DEF DatabaseInv, QueryInv, TimesInv, LoneInv, FileInv, Querying, queryVars, fileVars

----------------------------------------------------------------------------
(* The steps of query_test.                                                 *)

\* A line is not a hole.
LEMMA LineIsNoHole == \A q, n : <<q, n>> # Hole
<1> TAKE q, n
<1>1. DOMAIN <<q, n>> = {1, 2} /\ DOMAIN <<>> = {}
  OBVIOUS
<1>2. QED
  BY <1>1 DEF Hole

\* What a line that is written does to the file.
LEMMA WriteLineIs ==
  ASSUME TypeOK, NEW q \in Queriers, offset[q] <= iter[q], iter[q] < Iterations, WriteLine(q)
  PROVE  /\ measurements' \in Seq(Line)
         /\ Len(measurements') = IF offset[q] + 1 >= Len(measurements) THEN offset[q] + 1
                                 ELSE Len(measurements)
         /\ measurements'[offset[q] + 1] = <<q, iter[q] + 1>>
         /\ \A n \in 1 .. Len(measurements) : n # offset[q] + 1 =>
              measurements'[n] = measurements[n]
         /\ offset' = [offset EXCEPT ![q] = offset[q] + 1]
<1>1. /\ measurements \in Seq(Line) /\ Len(measurements) \in Nat
      /\ offset[q] \in Nat /\ iter[q] \in Nat /\ Iterations \in Nat
      /\ DOMAIN measurements = 1 .. Len(measurements)
  BY CountsAssumption, LenProperties DEF TypeOK
<1>2. PICK at : at = offset[q] + 1
  OBVIOUS
<1>3. PICK top : top = IF at >= Len(measurements) THEN at ELSE Len(measurements)
  OBVIOUS
<1>4. at \in Nat \ {0} /\ top \in Nat /\ at <= top /\ Len(measurements) <= top
  <2>1. PICK len : len = Len(measurements)
    OBVIOUS
  <2>2. len \in Nat /\ at \in Int /\ at >= 1
    BY <1>1, <1>2, <2>1
  <2>3. top = IF at >= len THEN at ELSE len
    BY <1>3, <2>1
  <2>4. at \in Nat \ {0} /\ top \in Nat /\ at <= top /\ len <= top
    BY <2>2, <2>3
  <2>5. QED
    BY <2>1, <2>4
<1>5. Max({at, Len(measurements)}) = top
  <2>1. top \in {at, Len(measurements)} /\ \A x \in {at, Len(measurements)} : top >= x
    BY <1>1, <1>3, <1>4
  <2>2. ASSUME NEW x \in {at, Len(measurements)}, \A y \in {at, Len(measurements)} : x >= y
        PROVE  x = top
    <3>1. x >= at /\ x >= Len(measurements) /\ x \in Int /\ at \in Int
      <4>1. at \in Int /\ Len(measurements) \in Int
        <5>1. at \in Nat \ {0}
          BY <1>4
        <5>2. Len(measurements) \in Nat
          BY <1>1
        <5>3. QED
          BY <5>1, <5>2
      <4>2. x >= at /\ x >= Len(measurements)
        BY <2>2
      <4>3. QED
        BY <2>2, <4>1, <4>2
    <3>2. x >= top /\ top >= x
      BY <1>3, <2>1, <2>2, <3>1
    <3>3. QED
      BY <1>4, <3>1, <3>2
  <2>3. QED
    BY <2>1, <2>2 DEF Max
<1>6. measurements' = [n \in 1 .. top |->
                         IF n = at THEN <<q, iter[q] + 1>>
                         ELSE IF n <= Len(measurements) THEN measurements[n] ELSE Hole]
  BY <1>2, <1>5 DEF WriteLine
<1>7. \A n \in 1 .. top : measurements'[n] \in Line
  <2> TAKE n \in 1 .. top
  <2>1. CASE n = at
    BY <1>1, <1>4, <1>6, <2>1 DEF Line
  <2>2. CASE n # at /\ n <= Len(measurements)
    <3>1. measurements'[n] = measurements[n] /\ n \in 1 .. Len(measurements)
      BY <1>1, <1>4, <1>6, <2>2
    <3>2. QED
      BY <1>1, <3>1, ElementOfSeq
  <2>3. CASE n # at /\ ~(n <= Len(measurements))
    BY <1>4, <1>6, <2>3 DEF Line
  <2>4. QED
    BY <2>1, <2>2, <2>3
<1>8. measurements' \in [1 .. top -> Line]
  BY <1>6, <1>7
<1>9. measurements' \in Seq(Line) /\ Len(measurements') = top
  BY <1>4, <1>8, SeqDef, LenProperties
<1>10. /\ measurements'[at] = <<q, iter[q] + 1>>
       /\ \A n \in 1 .. Len(measurements) : n # at => measurements'[n] = measurements[n]
  BY <1>1, <1>4, <1>6
<1>11. QED
  BY <1>2, <1>3, <1>9, <1>10 DEF WriteLine

\* A run starts: it truncates the file, or the stream is not good.
LEMMA QueryStarts ==
  ASSUME DatabaseInv, NEW q \in Queriers, StartQuery(q)
  PROVE  TypeOK' /\ QueryInv'
<1>1. TypeOK /\ TimesInv /\ LoneInv /\ FileInv
  BY DEF DatabaseInv, QueryInv
<1>2. /\ query[q] = "none" /\ query' = [query EXCEPT ![q] = "connect"]
      /\ lone' = (lone \ Querying) \cup (IF Querying = {} THEN {q} ELSE {})
      /\ UNCHANGED <<orders, seed, i, alone, iter, offset>>
  BY DEF StartQuery, Query, seedVars
<1>3. /\ query \in [Queriers -> {"none", "connect", "exec", "ok", "failed"}]
      /\ query'[q] = "connect" /\ \A r \in Queriers : r # q => query'[r] = query[r]
      /\ iter[q] = 0 /\ q \notin good /\ q \notin lone /\ q \notin latest
      /\ Querying' = Querying \cup {q} /\ q \notin Querying
      /\ lone \subseteq Queriers /\ latest \subseteq Queriers
  BY <1>1, <1>2 DEF TypeOK, TimesInv, LoneInv, FileInv, Querying
<1>4. \/ measurements' = <<>> /\ latest' = {q} /\ good' = good \cup {q}
      \/ UNCHANGED <<measurements, latest, good>>
  BY DEF StartQuery, OpenLog
<1>5. TypeOK'
  <2>1. <<>> \in Seq(Line) /\ Len(<<>>) = 0
    BY EmptySeq
  <2>2. Len(measurements') <= Iterations /\ measurements' \in Seq(Line)
    <3>1. Iterations \in Nat /\ measurements \in Seq(Line) /\ Len(measurements) <= Iterations
      BY <1>1, CountsAssumption DEF TypeOK
    <3>2. CASE measurements' = <<>>
      BY <2>1, <3>1, <3>2
    <3>3. CASE measurements' = measurements
      BY <3>1, <3>3
    <3>4. QED
      BY <1>4, <3>2, <3>3
  <2>3. QED
    BY <1>1, <1>2, <1>3, <1>4, <2>2 DEF TypeOK
<1>6. offset[q] = 0
  BY <1>1, <1>3 DEF TypeOK, TimesInv
<1>7. TimesInv'
  BY <1>1, <1>2, <1>3, <1>4, <1>6 DEF TimesInv
<1>8. LoneInv'
  <2> SUFFICES ASSUME NEW r \in lone'
               PROVE  query'[r] # "none" /\ (r \in Querying' => Querying' = {r})
    BY DEF LoneInv
  <2>1. CASE r = q
    BY <1>2, <1>3, <2>1
  <2>2. CASE r # q
    BY <1>1, <1>2, <1>3, <2>2 DEF LoneInv
  <2>3. QED
    BY <2>1, <2>2
<1>9. FileInv'
  <2>1. CASE measurements' = <<>> /\ latest' = {q} /\ good' = good \cup {q}
    <3>1. Len(measurements') = 0 /\ iter'[q] = 0
      BY <1>2, <1>3, <2>1
    <3>2. q \in lone' => Querying' = {q}
      BY <1>2, <1>3
    <3>3. QED
      BY <1>3, <2>1, <3>1, <3>2 DEF FileInv
  <2>2. CASE UNCHANGED <<measurements, latest, good>>
    <3>1. \A r \in latest : r # q /\ query'[r] = query[r] /\ (r \in lone' => r \in lone)
      BY <1>2, <1>3
    <3>2. Querying' \cap good' = Querying \cap good
      BY <1>3, <2>2
    <3>3. QED
      BY <1>1, <1>2, <2>2, <3>1, <3>2 DEF FileInv
  <2>3. QED
    BY <1>4, <2>1, <2>2
<1>10. QED
  BY <1>5, <1>7, <1>8, <1>9 DEF QueryInv

\* A run connects, ends or fails: the file stays.
LEMMA QueryMoves ==
  ASSUME DatabaseInv, NEW q \in Queriers, ConnectQuery(q) \/ QueryFails(q) \/ QueryDone(q)
  PROVE  TypeOK' /\ QueryInv'
<1>1. TypeOK /\ TimesInv /\ LoneInv /\ FileInv
  BY DEF DatabaseInv, QueryInv
<1>2. PICK to \in {"exec", "failed", "ok"} :
        /\ q \in Querying /\ query' = [query EXCEPT ![q] = to]
        /\ to = "exec" => iter[q] < Iterations
        /\ to = "ok" => iter[q] = Iterations
  BY DEF ConnectQuery, QueryFails, QueryDone, Query, Querying
<1>3. UNCHANGED <<orders, seed, i, alone, iter, lone, offset, good, measurements, latest>>
  BY DEF ConnectQuery, QueryFails, QueryDone, seedVars, fileVars
<1>4. /\ query \in [Queriers -> {"none", "connect", "exec", "ok", "failed"}]
      /\ query'[q] = to /\ \A r \in Queriers : r # q => query'[r] = query[r]
  BY <1>1, <1>2 DEF TypeOK
<1>5. Querying' \subseteq Querying /\ (q \notin Querying' \/ Querying' = Querying)
  BY <1>2, <1>4 DEF Querying
<1>6. TypeOK'
  BY <1>1, <1>2, <1>3 DEF TypeOK
<1>7. TimesInv'
  BY <1>1, <1>2, <1>3, <1>4 DEF TimesInv
<1>8. \A r \in Queriers : query[r] # "none" => query'[r] # "none"
  BY <1>2, <1>4
<1>9. LoneInv'
  <2>1. lone \subseteq Queriers
    BY <1>1 DEF TypeOK
  <2>2. QED
    BY <1>1, <1>3, <1>5, <1>8, <2>1 DEF LoneInv
<1>10. FileInv'
  <2>1. latest \subseteq Queriers
    BY <1>1 DEF TypeOK
  <2>2. QED
    BY <1>1, <1>3, <1>5, <1>8, <2>1 DEF FileInv
<1>11. QED
  BY <1>6, <1>7, <1>9, <1>10 DEF QueryInv

\* A time is taken, and written unless the stream is not good any more.
LEMMA QueryTimes ==
  ASSUME DatabaseInv, NEW q \in Queriers, TimeQuery(q)
  PROVE  TypeOK' /\ QueryInv'
<1>1. TypeOK /\ TimesInv /\ LoneInv /\ FileInv
  BY DEF DatabaseInv, QueryInv
<1>2. /\ query[q] = "exec" /\ query' = [query EXCEPT ![q] = "connect"]
      /\ iter' = [iter EXCEPT ![q] = iter[q] + 1]
      /\ UNCHANGED <<orders, seed, i, alone, lone, latest>>
  BY DEF TimeQuery, Query, seedVars
<1>3. /\ query \in [Queriers -> {"none", "connect", "exec", "ok", "failed"}]
      /\ query'[q] = "connect" /\ \A r \in Queriers : r # q => query'[r] = query[r]
      /\ Querying' = Querying /\ q \in Querying
      /\ good \subseteq Queriers /\ lone \subseteq Queriers /\ latest \subseteq Queriers
  BY <1>1, <1>2 DEF TypeOK, Querying
<1>4. /\ iter \in [Queriers -> 0 .. Iterations] /\ offset \in [Queriers -> 0 .. Iterations]
      /\ iter[q] < Iterations /\ offset[q] <= iter[q] /\ (q \in good => offset[q] = iter[q])
      /\ Iterations \in Nat
  BY <1>1, <1>2, CountsAssumption DEF TypeOK, TimesInv
<1>5. /\ iter' \in [Queriers -> 0 .. Iterations] /\ iter'[q] = iter[q] + 1
      /\ \A r \in Queriers : r # q => iter'[r] = iter[r]
  BY <1>2, <1>4
<1>6. LoneInv'
  BY <1>1, <1>2, <1>3 DEF LoneInv
<1>7. CASE q \in good /\ WriteLine(q) /\ UNCHANGED good
  <2>1. /\ measurements' \in Seq(Line)
        /\ Len(measurements') = IF offset[q] + 1 >= Len(measurements) THEN offset[q] + 1
                                ELSE Len(measurements)
        /\ measurements'[offset[q] + 1] = <<q, iter[q] + 1>>
        /\ \A n \in 1 .. Len(measurements) : n # offset[q] + 1 =>
             measurements'[n] = measurements[n]
        /\ offset' = [offset EXCEPT ![q] = offset[q] + 1]
    BY <1>1, <1>4, <1>7, WriteLineIs
  <2>2. Len(measurements) \in Nat /\ Len(measurements) <= Iterations
    BY <1>1, LenProperties DEF TypeOK
  <2>3. /\ offset' \in [Queriers -> 0 .. Iterations] /\ offset'[q] = offset[q] + 1
        /\ \A r \in Queriers : r # q => offset'[r] = offset[r]
    BY <1>4, <2>1
  <2>4. Len(measurements') <= Iterations
    BY <1>4, <2>1, <2>2
  <2>5. TypeOK'
    BY <1>1, <1>2, <1>5, <1>7, <2>1, <2>3, <2>4 DEF TypeOK
  <2>6. TimesInv'
    <3> SUFFICES ASSUME NEW r \in Queriers
                 PROVE  /\ offset'[r] <= iter'[r] /\ (r \in good => offset'[r] = iter'[r])
                        /\ query'[r] = "none" => iter'[r] = 0 /\ r \notin good
                        /\ query'[r] = "exec" => iter'[r] < Iterations
                        /\ query'[r] = "ok" => iter'[r] = Iterations
      BY <1>7 DEF TimesInv
    <3>1. CASE r = q
      BY <1>3, <1>4, <1>5, <2>3, <3>1
    <3>2. CASE r # q
      BY <1>1, <1>3, <1>5, <2>3, <3>2 DEF TimesInv
    <3>3. QED
      BY <3>1, <3>2
  <2>7. FileInv'
    <3> SUFFICES ASSUME NEW r \in latest
                 PROVE  /\ latest = {r} /\ query'[r] # "none"
                        /\ r \in good =>
                             /\ Len(measurements') >= iter'[r]
                             /\ \A n \in 1 .. iter'[r] : measurements'[n] # Hole
                             /\ r \in lone => /\ Len(measurements') = iter'[r]
                                              /\ \A n \in 1 .. iter'[r] :
                                                   measurements'[n] = <<r, n>>
                                              /\ \A t \in Querying \cap good : t = r
      BY <1>2, <1>3, <1>7 DEF FileInv
    <3>1. latest = {r} /\ query'[r] # "none" /\ r \in Queriers
      BY <1>1, <1>3 DEF FileInv
    <3>2. SUFFICES ASSUME r \in good
                   PROVE  /\ Len(measurements') >= iter'[r]
                          /\ \A n \in 1 .. iter'[r] : measurements'[n] # Hole
                          /\ r \in lone => /\ Len(measurements') = iter'[r]
                                           /\ \A n \in 1 .. iter'[r] :
                                                measurements'[n] = <<r, n>>
                                           /\ \A t \in Querying \cap good : t = r
      BY <3>1
    <3>3. /\ Len(measurements) >= iter[r] /\ iter[r] \in Nat
          /\ \A n \in 1 .. iter[r] : measurements[n] # Hole
          /\ r \in lone => /\ Len(measurements) = iter[r]
                           /\ \A n \in 1 .. iter[r] : measurements[n] = <<r, n>>
                           /\ \A t \in Querying \cap good : t = r
      BY <1>1, <1>4, <3>1, <3>2 DEF FileInv
    <3>4. \A n \in 1 .. iter[r] : n \in 1 .. Len(measurements)
      BY <2>2, <3>3
    <3>5. \A n \in 1 .. iter[r] : measurements'[n] # Hole
      <4> TAKE n \in 1 .. iter[r]
      <4>1. CASE n = offset[q] + 1
        BY <2>1, <4>1, LineIsNoHole
      <4>2. CASE n # offset[q] + 1
        <5>1. measurements'[n] = measurements[n]
          BY <2>1, <3>4, <4>2
        <5>2. QED
          BY <3>3, <5>1
      <4>3. QED
        BY <4>1, <4>2
    <3>6. CASE r = q
      <4>1. offset[q] = iter[q] /\ iter'[q] = iter[q] + 1
        BY <1>4, <1>5, <1>7
      <4>2. Len(measurements') >= iter'[q]
        BY <1>4, <2>1, <2>2, <4>1
      <4>3. \A n \in 1 .. iter'[q] : measurements'[n] # Hole
        <5> TAKE n \in 1 .. iter'[q]
        <5>1. CASE n = iter[q] + 1
          BY <2>1, <4>1, <5>1, LineIsNoHole
        <5>2. CASE n # iter[q] + 1
          BY <1>4, <3>5, <3>6, <4>1, <5>2
        <5>3. QED
          BY <5>1, <5>2
      <4>4. ASSUME q \in lone
            PROVE  /\ Len(measurements') = iter'[q]
                   /\ \A n \in 1 .. iter'[q] : measurements'[n] = <<q, n>>
        <5>1. Len(measurements) = iter[q]
          BY <3>3, <3>6, <4>4
        <5>2. Len(measurements') = iter'[q]
          BY <1>4, <2>1, <4>1, <5>1
        <5>3. \A n \in 1 .. iter'[q] : measurements'[n] = <<q, n>>
          <6> TAKE n \in 1 .. iter'[q]
          <6>1. CASE n = iter[q] + 1
            BY <2>1, <4>1, <6>1
          <6>2. CASE n # iter[q] + 1
            <7>1. n \in 1 .. Len(measurements) /\ n # offset[q] + 1
              BY <1>4, <4>1, <5>1, <6>2
            <7>2. measurements'[n] = measurements[n] /\ n \in 1 .. iter[q]
              BY <2>1, <5>1, <7>1
            <7>3. QED
              BY <3>3, <3>6, <4>4, <7>2
          <6>3. QED
            BY <6>1, <6>2
        <5>4. QED
          BY <5>2, <5>3
      <4>5. QED
        BY <3>3, <3>6, <4>2, <4>3, <4>4
    <3>7. CASE r # q
      <4>1. r \notin lone
        BY <1>3, <1>7, <3>3, <3>7
      <4>2. iter'[r] = iter[r] /\ Len(measurements') >= Len(measurements)
        BY <1>4, <1>5, <2>1, <2>2, <3>1, <3>7
      <4>3. Len(measurements') \in Int
        BY <1>4, <2>1, <2>2
      <4>4. QED
        BY <2>2, <3>3, <3>5, <4>1, <4>2, <4>3
    <3>8. QED
      BY <3>6, <3>7
  <2>8. QED
    BY <1>6, <2>5, <2>6, <2>7 DEF QueryInv
<1>8. CASE good' = good \ {q} /\ UNCHANGED <<measurements, offset>>
  <2>1. TypeOK'
    BY <1>1, <1>2, <1>5, <1>8 DEF TypeOK
  <2>2. TimesInv'
    <3> SUFFICES ASSUME NEW r \in Queriers
                 PROVE  /\ offset[r] <= iter'[r] /\ (r \in good' => offset[r] = iter'[r])
                        /\ query'[r] = "none" => iter'[r] = 0 /\ r \notin good'
                        /\ query'[r] = "exec" => iter'[r] < Iterations
                        /\ query'[r] = "ok" => iter'[r] = Iterations
      BY <1>8 DEF TimesInv
    <3>1. CASE r = q
      BY <1>3, <1>4, <1>5, <1>8, <3>1
    <3>2. CASE r # q
      BY <1>1, <1>3, <1>5, <1>8, <3>2 DEF TimesInv
    <3>3. QED
      BY <3>1, <3>2
  <2>3. \A r \in good' : r \in good /\ r # q /\ iter'[r] = iter[r]
    BY <1>3, <1>5, <1>8
  <2>4. \A r \in latest : latest = {r} /\ query'[r] # "none"
    BY <1>1, <1>3 DEF FileInv
  <2>5. FileInv'
    BY <1>1, <1>2, <1>3, <1>8, <2>3, <2>4 DEF FileInv
  <2>6. QED
    BY <1>6, <2>1, <2>2, <2>5 DEF QueryInv
<1>9. QED
  BY <1>7, <1>8 DEF TimeQuery

\* query_test reads the table and writes nothing but its file.
LEMMA QueryKeeps ==
  ASSUME DatabaseInv, NEW q \in Queriers, QueryStep(q)
  PROVE  DatabaseInv'
<1>1. UNCHANGED <<orders, seed, i, alone>>
  BY DEF QueryStep, StartQuery, ConnectQuery, TimeQuery, QueryFails, QueryDone, seedVars
<1>2. ProgressInv' /\ AloneInv' /\ OwnerInv'
  BY <1>1 DEF DatabaseInv, ProgressInv, AloneInv, OwnerInv, HasBelow, Active
<1>3. TypeOK' /\ QueryInv'
  BY QueryStarts, QueryMoves, QueryTimes DEF QueryStep
<1>4. QED
  BY <1>2, <1>3 DEF DatabaseInv

----------------------------------------------------------------------------
(* The invariant and the properties.                                        *)

\* The invariant holds at the start.
LEMMA DatabaseInit == Init => DatabaseInv
<1> SUFFICES ASSUME Init PROVE DatabaseInv
  OBVIOUS
<1>1. measurements \in Seq(Line) /\ Len(measurements) = 0
  BY EmptySeq DEF Init
<1>2. TypeOK
  BY <1>1, CountsAssumption DEF Init, TypeOK
<1>3. ProgressInv /\ AloneInv /\ OwnerInv /\ QueryInv
  BY CountsAssumption DEF Init, ProgressInv, AloneInv, OwnerInv, QueryInv, TimesInv, LoneInv,
                          FileInv
<1>4. QED
  BY <1>2, <1>3 DEF DatabaseInv

\* Every step keeps the invariant.
LEMMA DatabaseStep == DatabaseInv /\ [Next]_vars => DatabaseInv'
<1> SUFFICES ASSUME DatabaseInv, [Next]_vars PROVE DatabaseInv'
  OBVIOUS
<1>1. ASSUME NEW s \in Seeders, SeedStep(s) PROVE DatabaseInv'
  BY <1>1, TypeSeed, ProgressSeed, AloneSeed, OwnerSeed, QuerySeed DEF DatabaseInv
<1>2. CASE UNCHANGED vars
  BY <1>2 DEF DatabaseInv, TypeOK, ProgressInv, AloneInv, OwnerInv, HasBelow, Active,
              QueryInv, TimesInv, LoneInv, FileInv, Querying,
              vars, seedVars, queryVars, fileVars
<1>3. QED
  BY <1>1, <1>2, QueryKeeps DEF Next

\* Who owns the table, and what is in it and in the file, in every reachable state.
THEOREM DatabaseInvariant == Spec => []DatabaseInv
BY DatabaseInit, DatabaseStep, PTL DEF Spec

\* The types of Database: the primary key keeps every order in the table at most once.
THEOREM TypeCorrect == Spec => []TypeOK
<1>1. DatabaseInv => TypeOK
  BY DEF DatabaseInv
<1>2. QED
  BY <1>1, DatabaseInvariant, PTL

\* However many runs of seed_db overlap: if all of them succeed the table is whole.
THEOREM AllSeededHolds == Spec => []AllSeeded
<1>1. DatabaseInv => AllSeeded
  <2> SUFFICES ASSUME DatabaseInv, Active = {}, \A s \in Seeders : seed[s] # "failed",
                      NEW t \in Seeders, seed[t] = "ok"
               PROVE  orders = Whole
    BY DEF AllSeeded
  <2>1. PICK s \in Seeders : \/ seed[s] = "create"
                             \/ seed[s] \in {"insert", "ok"} /\ HasBelow(i[s])
    BY DEF DatabaseInv, OwnerInv
  <2>2. seed[s] = "ok" /\ HasBelow(i[s]) /\ i[s] = Entries + 1
    BY <2>1 DEF Active, DatabaseInv, ProgressInv
  <2>3. \A id \in OrderId : orders # NoTable /\ orders[id] = 1
    BY <2>2, CountsAssumption DEF HasBelow, OrderId
  <2>4. 1 \in OrderId
    BY CountsAssumption DEF OrderId
  <2>5. orders \in [OrderId -> 0 .. 1]
    BY <2>3, <2>4 DEF DatabaseInv, TypeOK
  <2>6. QED
    BY <2>3, <2>5 DEF Whole
<1>2. QED
  BY <1>1, DatabaseInvariant, PTL

\* However many runs of query_test overlap and whatever becomes of their streams: the
\* one that truncated the file last, if its stream stays good, ends with a file without
\* holes, and with its own times in order, as they are taken, if no other run was active.
THEOREM MeasurementsHolds == Spec => []Measurements
<1>1. DatabaseInv => Measurements
  <2> SUFFICES ASSUME DatabaseInv, NEW q \in latest \cap good
               PROVE  /\ query[q] = "ok" => /\ Len(measurements) = Iterations
                                            /\ \A n \in 1 .. Iterations : measurements[n] # Hole
                      /\ q \in lone => /\ Len(measurements) = iter[q]
                                       /\ \A n \in 1 .. iter[q] : measurements[n] = <<q, n>>
    BY DEF Measurements
  <2>1. /\ q \in Queriers /\ Len(measurements) \in Nat /\ Len(measurements) <= Iterations
        /\ Iterations \in Nat
    BY CountsAssumption, LenProperties DEF DatabaseInv, TypeOK
  <2>2. query[q] = "ok" => iter[q] = Iterations
    BY <2>1 DEF DatabaseInv, QueryInv, TimesInv
  <2>3. /\ Len(measurements) >= iter[q] /\ \A n \in 1 .. iter[q] : measurements[n] # Hole
        /\ q \in lone => /\ Len(measurements) = iter[q]
                         /\ \A n \in 1 .. iter[q] : measurements[n] = <<q, n>>
    BY DEF DatabaseInv, QueryInv, FileInv
  <2>4. QED
    BY <2>1, <2>2, <2>3
<1>2. QED
  BY <1>1, DatabaseInvariant, PTL

\* A run of seed_db that no other overlaps repairs whatever it finds.
THEOREM RepairsHolds == Spec => Repairs
<1>1. ASSUME DatabaseInv
      PROVE  \A s \in alone : ~InsertRefused(s) /\ (Seeded(s) => orders = Whole)
  <2> SUFFICES ASSUME NEW s \in alone, seed[s] = "insert"
               PROVE  ~InsertRefused(s) /\ (Seeded(s) => orders = Whole)
    BY DEF InsertRefused, Seeded, Seed
  <2>1. s \in Seeders /\ i[s] \in 1 .. Entries + 1
    BY <1>1 DEF DatabaseInv, TypeOK
  <2>2. orders = [id \in OrderId |-> IF id < i[s] THEN 1 ELSE 0]
    BY <1>1, <2>1 DEF DatabaseInv, AloneInv, Active
  <2>3. orders # NoTable
    <3>1. orders \in [OrderId -> {0, 1}]
      BY <2>2
    <3>2. QED
      BY <3>1, TableIsThere
  <2>4. ~InsertRefused(s)
    <3>1. i[s] <= Entries => orders[i[s]] = 0
      BY <2>1, <2>2, CountsAssumption DEF OrderId
    <3>2. QED
      BY <2>1, <2>3, <3>1, CountsAssumption DEF InsertRefused, Refused
  <2>5. ASSUME Seeded(s) PROVE orders = Whole
    <3>1. i[s] > Entries
      BY <2>5 DEF Seeded
    <3>2. \A id \in OrderId : id < i[s]
      BY <2>1, <3>1, CountsAssumption DEF OrderId
    <3>3. QED
      BY <2>2, <3>2 DEF Whole
  <2>6. QED
    BY <2>4, <2>5
<1>2. DatabaseInv /\ [Next]_vars =>
        [\A s \in alone : ~InsertRefused(s) /\ (Seeded(s) => orders = Whole)]_vars
  BY <1>1
<1>3. QED
  BY <1>2, DatabaseInvariant, PTL DEF Spec, Repairs
=============================================================================
