------------------------------ MODULE Database ------------------------------
(***************************************************************************)
(* The PostgreSQL experiment: postgresql/seed_db.cpp fills the table       *)
(* orders, postgresql/query_test.cpp times a query over it again and again.*)
(* Both are started by hand, in any order and as often as one likes, even  *)
(* at the same time and in the same directory; each statement is a         *)
(* transaction of its own, and the server, which is external, may refuse   *)
(* any of them.                                                            *)
(***************************************************************************)
EXTENDS Integers, Sequences, FiniteSetsExt

CONSTANTS
  Entries,     \* rows to insert: 10000000
  Iterations,  \* queries to time: 100
  Seeders,     \* bound: the runs of seed_db
  Queriers     \* bound: the runs of query_test

ASSUME CountsAssumption == {Entries, Iterations} \subseteq Nat \ {0}

OrderId == 1 .. Entries
NoTable == <<>>  \* what orders is when there is no such table
Empty   == [id \in OrderId |-> 0]
Whole   == [id \in OrderId |-> 1]

VARIABLES
  orders,   \* how many rows the table has for each order_id
  seed,     \* where each run of seed_db is, and its exit status
  i,        \* the next order_id of each
  alone,    \* history: the runs during which no other was active
  query,    \* where each run of query_test is, and its exit status
  iter,     \* its iteration
  offset,   \* how many lines it has written through its stream log
  good,     \* the runs whose stream is good: never checked
  measurements, \* the lines of the file: the iteration of the run whose time it is
  latest,   \* history: the run that has truncated the file last
  lone      \* history: the runs during which no other was active

seedVars  == <<seed, i, alone>>
fileVars  == <<offset, good, measurements, latest>>
queryVars == <<query, iter, lone, fileVars>>
vars      == <<orders, seedVars, queryVars>>

Hole == <<>>  \* zeros where nothing was written: a line, for short
Line == (Queriers \X (1 .. Iterations)) \cup {Hole}

TypeOK ==
  /\ orders \in [OrderId -> 0 .. 1] \cup {NoTable}
  /\ seed \in [Seeders -> {"none", "connect", "drop", "create", "insert", "ok", "failed"}]
  /\ i \in [Seeders -> 1 .. Entries + 1] /\ alone \subseteq Seeders
  /\ query \in [Queriers -> {"none", "connect", "exec", "ok", "failed"}]
  /\ iter \in [Queriers -> 0 .. Iterations] /\ offset \in [Queriers -> 0 .. Iterations]
  /\ good \subseteq Queriers /\ latest \subseteq Queriers /\ lone \subseteq Queriers
  /\ measurements \in Seq(Line) /\ Len(measurements) <= Iterations

Init ==
  /\ orders = NoTable
  /\ seed = [s \in Seeders |-> "none"] /\ i = [s \in Seeders |-> 1] /\ alone = {}
  /\ query = [q \in Queriers |-> "none"] /\ iter = [q \in Queriers |-> 0] /\ lone = {}
  /\ offset = [q \in Queriers |-> 0] /\ good = {} /\ measurements = <<>> /\ latest = {}

----------------------------------------------------------------------------
(* seed_db.                                                                 *)

Seed(s, from, to) == seed[s] = from /\ seed' = [seed EXCEPT ![s] = to]

Active == {s \in Seeders : seed[s] \in {"connect", "drop", "create", "insert"}}

StartSeed(s) ==
  /\ Seed(s, "none", "connect")
  /\ alone' = (alone \ Active) \cup (IF Active = {} THEN {s} ELSE {})
  /\ UNCHANGED <<orders, i, queryVars>>

Connect(s) == Seed(s, "connect", "drop") /\ UNCHANGED <<orders, i, alone, queryVars>>

KeepTable == UNCHANGED orders  \* mutant: the old table stays
DropTable == orders' = NoTable

Drop(s) == Seed(s, "drop", "create") /\ DropTable /\ UNCHANGED <<i, alone, queryVars>>

\* IF NOT EXISTS: a table that is there is no error and keeps its rows.
Create(s) ==
  /\ Seed(s, "create", "insert")
  /\ orders' = IF orders = NoTable THEN Empty ELSE orders
  /\ UNCHANGED <<i, alone, queryVars>>

\* order_id is the primary key: a row that is there is an error.
NoKey(s)   == orders = NoTable  \* mutant: the table has no primary key
Refused(s) == orders = NoTable \/ (orders # NoTable /\ orders[i[s]] > 0)

NotLast(s) == i[s] >= Entries  \* mutant: < for <=
AllIn(s)   == i[s] > Entries

Insert(s) ==
  /\ seed[s] = "insert" /\ ~AllIn(s) /\ ~Refused(s)
  /\ orders' = [orders EXCEPT ![i[s]] = @ + 1]
  /\ i' = [i EXCEPT ![s] = @ + 1]
  /\ UNCHANGED <<seed, alone, queryVars>>

InsertRefused(s) ==
  /\ Seed(s, "insert", "failed") /\ ~AllIn(s) /\ Refused(s)
  /\ UNCHANGED <<orders, i, alone, queryVars>>

Seeded(s) == AllIn(s) /\ Seed(s, "insert", "ok") /\ UNCHANGED <<orders, i, alone, queryVars>>

\* The connection or a statement fails; nothing is undone.
SeedFails(s) ==
  /\ s \in Active /\ ~(seed[s] = "insert" /\ AllIn(s))
  /\ seed' = [seed EXCEPT ![s] = "failed"]
  /\ UNCHANGED <<orders, i, alone, queryVars>>

SeedStep(s) == \/ StartSeed(s) \/ Connect(s) \/ Drop(s) \/ Create(s) \/ Insert(s)
               \/ InsertRefused(s) \/ Seeded(s) \/ SeedFails(s)

----------------------------------------------------------------------------
(* query_test.                                                              *)

Query(q, from, to) == query[q] = from /\ query' = [query EXCEPT ![q] = to]

Querying == {q \in Queriers : query[q] \in {"connect", "exec"}}

\* The stream truncates the file; if that fails the file stays as it is, and nobody knows.
OpenLog(q) == \/ measurements' = <<>> /\ latest' = {q} /\ good' = good \cup {q}
              \/ UNCHANGED <<measurements, latest, good>>

StartQuery(q) ==
  /\ Query(q, "none", "connect")
  /\ OpenLog(q)
  /\ lone' = (lone \ Querying) \cup (IF Querying = {} THEN {q} ELSE {})
  /\ UNCHANGED <<orders, seedVars, iter, offset>>

ConnectQuery(q) ==
  /\ Query(q, "connect", "exec") /\ iter[q] < Iterations
  /\ UNCHANGED <<orders, seedVars, iter, lone, fileVars>>

\* No table is an error, any table an answer.
Answered == orders # NoTable

\* endl flushes: the line goes to the stream's own place in the file, whatever is there
\* and however long the file is now.  Lines count as equally long: where they are not,
\* runs that overlap tear each other's.
WriteLine(q) ==
  LET at == offset[q] + 1
  IN  /\ measurements' = [n \in 1 .. Max({at, Len(measurements)}) |->
                            IF n = at THEN <<q, iter[q] + 1>>
                            ELSE IF n <= Len(measurements) THEN measurements[n] ELSE Hole]
      /\ offset' = [offset EXCEPT ![q] = at]

\* A stream that is not good, or not any more, swallows what is written to it.
TimeQuery(q) ==
  /\ Query(q, "exec", "connect") /\ Answered
  /\ iter' = [iter EXCEPT ![q] = @ + 1]
  /\ \/ q \in good /\ WriteLine(q) /\ UNCHANGED good
     \/ good' = good \ {q} /\ UNCHANGED <<measurements, offset>>
  /\ UNCHANGED <<orders, seedVars, lone, latest>>

\* mutant: go on with the next
Ignored(q)     == query' = [query EXCEPT ![q] = "connect"] /\ iter' = [iter EXCEPT ![q] = @ + 1]
ExitFailure(q) == query' = [query EXCEPT ![q] = "failed"] /\ UNCHANGED iter

QueryFails(q) ==
  /\ q \in Querying /\ iter[q] < Iterations
  /\ ExitFailure(q)
  /\ UNCHANGED <<orders, seedVars, lone, fileVars>>

QueryDone(q) ==
  /\ Query(q, "connect", "ok") /\ iter[q] = Iterations
  /\ UNCHANGED <<orders, seedVars, iter, lone, fileVars>>

QueryStep(q) == StartQuery(q) \/ ConnectQuery(q) \/ TimeQuery(q) \/ QueryFails(q) \/ QueryDone(q)

Next == (\E q \in Queriers : QueryStep(q)) \/ \E s \in Seeders : SeedStep(s)

Spec == Init /\ [][Next]_vars

----------------------------------------------------------------------------
(* Properties.                                                              *)

\* Whatever an earlier run left, a run of seed_db that no other one overlaps never
\* meets a row it did not insert itself, and if it exits with 0 the table holds
\* each order once.
Repairs ==
  [][\A s \in alone : ~InsertRefused(s) /\ (Seeded(s) => orders = Whole)]_vars

\* If runs of seed_db overlap and all of them exit with 0, the table is whole all
\* the same: the primary key makes one of them fail when it is not.
AllSeeded ==
  Active = {} /\ (\A s \in Seeders : seed[s] # "failed") /\ (\E s \in Seeders : seed[s] = "ok") =>
    orders = Whole

\* Exit status 0 says nothing of the file: nobody checks the stream.  But if the stream
\* of the run that truncated the file last has stayed good, then no time is missing from
\* it: every line is there once the run has exited with 0, its own or one that another
\* run wrote over it.  And if no other run was active at the same time the file is, as
\* soon as each time is taken, the times of this run in their order and nothing else.
Measurements ==
  \A q \in latest \cap good :
    /\ query[q] = "ok" => /\ Len(measurements) = Iterations
                          /\ \A n \in 1 .. Iterations : measurements[n] # Hole
    /\ q \in lone => /\ Len(measurements) = iter[q]
                     /\ \A n \in 1 .. iter[q] : measurements[n] = <<q, n>>
=============================================================================
