---------------------------- MODULE OptionsProofs ----------------------------
(***************************************************************************)
(* Proofs about the command lines: for every table of options, command     *)
(* line and width of an int, an accepted line has nothing bad in it and    *)
(* sets what it says.  The invariant says both of the part read so far; it *)
(* can say nothing once an error has been noted, since an option whose     *)
(* argument is missing has no value.  It speaks of what the code refuses    *)
(* and converts; that this is what the words say is shown afterwards.      *)
(***************************************************************************)
EXTENDS Options, FiniteSetTheorems, WellFoundedInduction, TLAPS

\* The words read so far: GoodAt of one of them, and which of them set v.
GoodAt(n)    == LET e == argv[n] IN
  /\ e.opt \in Known
  /\ e.opt \notin Flags => e.arg # NoArg /\ ~Throws(e) /\ ~Refused(e)
SetsAt(n, v) == v \in Sets(argv[n])
ValAt(n, v)  == ValueOf(argv[n], v)

\* The last option that sets v, of those before k, has given it its value.
DecidedBy(k, v) ==
  \/ value[v] = Default[v] /\ \A n \in 1 .. k - 1 : ~SetsAt(n, v)
  \/ \E n \in 1 .. k - 1 :
       /\ SetsAt(n, v) /\ value[v] = ValAt(n, v)
       /\ \A m \in n + 1 .. k - 1 : ~SetsAt(m, v)

LineInv ==
  /\ program \in Programs /\ argv \in Seq(Element) /\ next \in 1 .. Len(argv) + 1
  /\ DOMAIN value = DOMAIN Default
  /\ error \in BOOLEAN /\ status \in {"parsing", "ok", "failed", "exit_0", "aborted"}

ReadInv ==
  status \in {"parsing", "ok"} /\ ~error =>
    /\ \A n \in 1 .. next - 1 : GoodAt(n)
    /\ \A v \in DOMAIN value : DecidedBy(next, v)

EndInv == status = "ok" => ~error /\ next = Len(argv) + 1

OptionsInv == LineInv /\ ReadInv /\ EndInv

----------------------------------------------------------------------------
(* What reading does not change.                                            *)

\* What an option means depends on the program alone.
LEMMA SameMeaning ==
  ASSUME UNCHANGED <<program, argv>>
  PROVE  /\ Element' = Element /\ Default' = Default /\ Known' = Known
         /\ \A n : GoodAt(n)' <=> GoodAt(n)
         /\ \A n, v : (SetsAt(n, v)' <=> SetsAt(n, v)) /\ ValAt(n, v)' = ValAt(n, v)
<1>1. InC' = InC /\ Table' = Table /\ Flags' = Flags
  BY DEF InC, Table, Flags
<1>2. Known' = Known /\ Counts' = Counts /\ Numbers' = Numbers
  BY <1>1 DEF Known, Counts, Numbers
<1>3. Element' = Element
  BY <1>1, <1>2 DEF Element
<1>4. Default' = Default
  BY DEF Default
<1>5. \A n, v : (SetsAt(n, v)' <=> SetsAt(n, v))
  BY <1>1 DEF SetsAt, Sets
<1>6. \A n, v : ValAt(n, v)' = ValAt(n, v)
  BY <1>1, <1>2 DEF ValAt, ValueOf, Convert
<1>7. \A n : GoodAt(n)' <=> GoodAt(n)
  BY <1>1, <1>2, <1>6 DEF GoodAt, Throws, Refused, ValueOf, Convert
<1>8. QED
  BY <1>2, <1>3, <1>4, <1>5, <1>6, <1>7

\* The word at next belongs to the table, or is the unknown one.
LEMMA WordAt ==
  ASSUME LineInv, next <= Len(argv)
  PROVE  /\ next \in 1 .. Len(argv) /\ argv[next] \in Element
         /\ argv[next].opt \in Known \cup {"unknown"}
<1>1. next \in 1 .. Len(argv) /\ argv \in Seq(Element)
  BY DEF LineInv
<1>2. argv[next] \in Element
  BY <1>1
<1>3. QED
  BY <1>1, <1>2 DEF Element

\* An option whose value is assigned, or that sets nothing, decides what it sets.
LEMMA OneMore ==
  ASSUME LineInv, next <= Len(argv), NEW v, v \in DOMAIN value, DecidedBy(next, v),
         UNCHANGED <<program, argv>>, next' = next + 1, value' = Assign(argv[next])
  PROVE  DecidedBy(next, v)'
<1>1. PICK k \in Nat : k = next /\ k > 0 /\ next' = k + 1
  BY DEF LineInv
<1>2. value'[v] = IF SetsAt(k, v) THEN ValAt(k, v) ELSE value[v]
  BY <1>1 DEF Assign, SetsAt, ValAt
<1>3. Default' = Default /\ (\A n : SetsAt(n, v)' <=> SetsAt(n, v)) /\ \A n : ValAt(n, v)' = ValAt(n, v)
  BY SameMeaning
<1>4. CASE SetsAt(k, v)
  <2>1. k \in 1 .. next' - 1 /\ k + 1 .. next' - 1 = {}
    BY <1>1
  <2>2. value'[v] = ValAt(k, v)
    BY <1>2, <1>4
  <2>3. QED
    BY <1>3, <1>4, <2>1, <2>2 DEF DecidedBy
<1>5. CASE ~SetsAt(k, v)
  <2>1. value'[v] = value[v] /\ \A n : n \in 1 .. next' - 1 <=> n \in 1 .. next - 1 \/ n = k
    BY <1>1, <1>2, <1>5
  <2>2. CASE value[v] = Default[v] /\ \A n \in 1 .. next - 1 : ~SetsAt(n, v)
    BY <1>3, <1>5, <2>1, <2>2 DEF DecidedBy
  <2>3. ASSUME NEW n \in 1 .. next - 1, SetsAt(n, v), value[v] = ValAt(n, v),
               \A m \in n + 1 .. next - 1 : ~SetsAt(m, v)
        PROVE  DecidedBy(next, v)'
    <3>1. \A m \in n + 1 .. next' - 1 : ~SetsAt(m, v)
      BY <1>1, <1>5, <2>3
    <3>2. QED
      BY <1>3, <2>1, <2>3, <3>1 DEF DecidedBy
  <2>4. QED
    BY <2>2, <2>3 DEF DecidedBy
<1>6. QED
  BY <1>4, <1>5

----------------------------------------------------------------------------
(* The invariant.                                                           *)

\* The invariant holds at the start.
LEMMA InitOptions == Init => OptionsInv
<1> SUFFICES ASSUME Init PROVE OptionsInv
  OBVIOUS
<1>1. /\ program \in Programs /\ argv \in CommandLine /\ next = 1
      /\ value = Default /\ error = FALSE /\ status = "parsing"
  BY DEF Init
<1>2. argv \in Seq(Element)
  <2>1. PICK n \in 0 .. MaxLength : argv \in [1 .. n -> Element]
    BY <1>1 DEF CommandLine
  <2>2. MaxLength \in Nat
    BY OptionsAssumption
  <2>3. n \in Nat
    BY <2>2
  <2>4. QED
    BY <2>1, <2>3
<1>3. LineInv
  <2>1. next \in 1 .. Len(argv) + 1
    BY <1>1, <1>2
  <2>2. error \in BOOLEAN
    BY <1>1
  <2>3. QED
    BY <1>1, <1>2, <2>1, <2>2 DEF LineInv
<1>4. \A v \in DOMAIN value : DecidedBy(next, v)
  BY <1>1 DEF DecidedBy
<1>5. QED
  BY <1>1, <1>3, <1>4 DEF ReadInv, EndInv, OptionsInv

\* getopt_long goes on by one word.
LEMMA NextWord ==
  ASSUME LineInv, NEW opts, GetOpt(opts), DOMAIN value' = DOMAIN value, error' \in BOOLEAN,
         status' \in {"parsing", "ok", "failed", "exit_0", "aborted"}
  PROVE  LineInv'
<1>1. UNCHANGED <<program, argv>> /\ next' = next + 1 /\ next <= Len(argv)
  BY DEF GetOpt
<1>2. Element' = Element /\ Default' = Default
  BY <1>1, SameMeaning
<1>3. next' \in 1 .. Len(argv) + 1
  BY <1>1 DEF LineInv
<1>4. QED
  BY <1>1, <1>2, <1>3 DEF LineInv

\* A good word whose value is assigned.
LEMMA GoodWord ==
  ASSUME LineInv, ReadInv, NEW opts, GetOpt(opts), status' = status, value' = Assign(argv[next]),
         error' \in BOOLEAN, ~error' => ~error /\ GoodAt(next)
  PROVE  LineInv' /\ ReadInv'
<1>1. /\ UNCHANGED <<program, argv>> /\ next' = next + 1 /\ next <= Len(argv) /\ status = "parsing"
  BY DEF GetOpt
<1>2. DOMAIN value' = DOMAIN value
  BY DEF Assign
<1>3. LineInv'
  BY <1>1, <1>2, NextWord DEF LineInv
<1>4. ASSUME ~error' PROVE (\A n \in 1 .. next - 1 : GoodAt(n))' /\ \A v \in DOMAIN value' : DecidedBy(next, v)'
  <2>1. ~error /\ GoodAt(next) /\ (\A n \in 1 .. next - 1 : GoodAt(n))
        /\ \A v \in DOMAIN value : DecidedBy(next, v)
    BY <1>1, <1>4 DEF ReadInv
  <2>2. \A n \in 1 .. next' - 1 : GoodAt(n)
    BY <1>1, <2>1 DEF LineInv
  <2>3. \A n : GoodAt(n)' <=> GoodAt(n)
    BY <1>1, SameMeaning
  <2>4. ASSUME NEW v \in DOMAIN value' PROVE DecidedBy(next, v)'
    BY <1>1, <1>2, <2>1, OneMore
  <2>5. QED
    BY <2>2, <2>3, <2>4
<1>5. QED
  BY <1>3, <1>4 DEF ReadInv

\* A word that is an error, or ends the program.
LEMMA BadWord ==
  ASSUME LineInv, NEW opts, GetOpt(opts), UNCHANGED value, error' \in BOOLEAN,
         status' \in {"parsing", "failed", "exit_0", "aborted"}, status' = "parsing" => error'
  PROVE  LineInv' /\ ReadInv' /\ EndInv'
BY NextWord DEF ReadInv, EndInv

\* Every step keeps the invariant.
LEMMA StepOptions ==
  ASSUME OptionsInv, [Next]_vars
  PROVE  OptionsInv'
<1>1. LineInv /\ ReadInv /\ EndInv
  BY DEF OptionsInv
<1>2. ASSUME NEW opts, Take(opts), opts \subseteq Known \cup Counts PROVE OptionsInv'
  <2>1. GetOpt(opts) /\ argv[next].arg # NoArg /\ status = "parsing" /\ next <= Len(argv)
        /\ argv[next].opt \in opts
    BY <1>2 DEF Take, GetOpt
  <2>2. argv[next].opt \in Known
    <3>1. "unknown" \notin Counts
      BY DEF Counts
    <3>2. QED
      BY <1>1, <1>2, <2>1, <3>1, WordAt
  <2>3. CASE Flag(TRUE) /\ UNCHANGED <<value, status>>
    BY <1>1, <2>1, <2>3, BadWord DEF Flag, OptionsInv
  <2>4. CASE /\ ~Throws(argv[next]) /\ value' = Assign(argv[next])
             /\ Flag(Refused(argv[next])) /\ UNCHANGED status
    <3>1. error' = (error \/ Refused(argv[next]))
      BY <2>4 DEF Flag
    <3>2. ~error' => ~error /\ GoodAt(next)
      BY <2>1, <2>2, <2>4, <3>1 DEF GoodAt
    <3>3. error' \in BOOLEAN
      BY <3>1
    <3>4. LineInv' /\ ReadInv'
      BY <1>1, <2>1, <2>4, <3>2, <3>3, GoodWord
    <3>5. QED
      BY <2>1, <2>4, <3>4 DEF EndInv, OptionsInv
  <2>5. CASE status' = "aborted" /\ UNCHANGED <<value, error>>
    <3>1. error' \in BOOLEAN
      BY <1>1, <2>5 DEF LineInv
    <3>2. QED
      BY <1>1, <2>1, <2>5, <3>1, BadWord DEF OptionsInv
  <2>6. QED
    BY <1>2, <2>3, <2>4, <2>5 DEF Take
<1>3. CASE TakeCount
  BY <1>2, <1>3 DEF TakeCount
<1>4. CASE TakeValue
  BY <1>2, <1>4 DEF TakeValue
<1>5. CASE TakeFlag
  <2>1. /\ GetOpt((Flags \cap Known) \ {"help"}) /\ value' = Assign(argv[next])
        /\ UNCHANGED <<status, error>> /\ status = "parsing"
        /\ argv[next].opt \in Flags \cap Known
    BY <1>5 DEF TakeFlag, GetOpt
  <2>2. GoodAt(next) /\ error' \in BOOLEAN
    BY <1>1, <2>1 DEF GoodAt, LineInv
  <2>3. LineInv' /\ ReadInv'
    BY <1>1, <2>1, <2>2, GoodWord
  <2>4. QED
    BY <2>1, <2>3 DEF EndInv, OptionsInv
<1>6. CASE TakeHelp
  <2>1. GetOpt({"help"}) /\ UNCHANGED <<value, error>> /\ status' \in {"exit_0", "failed"}
    BY <1>6 DEF TakeHelp, GivesUp
  <2>2. error' \in BOOLEAN
    BY <1>1, <2>1 DEF LineInv
  <2>3. QED
    BY <1>1, <2>1, <2>2, BadWord DEF OptionsInv
<1>7. CASE Unrecognised
  <2>1. GetOpt(Options) /\ Flag(TRUE) /\ UNCHANGED <<value, status>> /\ status = "parsing"
    BY <1>7 DEF Unrecognised, GetOpt
  <2>2. QED
    BY <1>1, <2>1, BadWord DEF Flag, OptionsInv
<1>8. CASE Finish
  <2>1. /\ status = "parsing" /\ next > Len(argv) /\ UNCHANGED <<program, argv, next, optind, value, error>>
        /\ IF error THEN status' \in {"exit_0", "failed"} ELSE status' = "ok"
    BY <1>8 DEF Finish, GivesUp
  <2>2. \A k, v : DecidedBy(k, v)' <=> DecidedBy(k, v)
    BY <2>1, SameMeaning DEF DecidedBy
  <2>3. Element' = Element /\ Default' = Default /\ \A n : GoodAt(n)' <=> GoodAt(n)
    BY <2>1, SameMeaning
  <2>4. LineInv'
    BY <1>1, <2>1, <2>3 DEF LineInv
  <2>5. ReadInv'
    BY <1>1, <2>1, <2>2, <2>3 DEF ReadInv
  <2>6. EndInv'
    BY <1>1, <2>1 DEF LineInv, EndInv
  <2>7. QED
    BY <2>4, <2>5, <2>6 DEF OptionsInv
<1>9. CASE UNCHANGED vars
  <2>1. UNCHANGED <<program, argv, next, value, error, status>>
    BY <1>9 DEF vars
  <2>2. \A k, v : DecidedBy(k, v)' <=> DecidedBy(k, v)
    BY <2>1, SameMeaning DEF DecidedBy
  <2>3. Element' = Element /\ Default' = Default /\ \A n : GoodAt(n)' <=> GoodAt(n)
    BY <2>1, SameMeaning
  <2>4. QED
    BY <1>1, <2>1, <2>2, <2>3 DEF LineInv, ReadInv, EndInv, OptionsInv
<1>10. QED
  BY <1>3, <1>4, <1>5, <1>6, <1>7, <1>8, <1>9 DEF Next

\* What has been read so far is good and set as given, or an error has been noted.
THEOREM OptionsInvariant == Spec => []OptionsInv
BY InitOptions, StepOptions, PTL DEF Spec

----------------------------------------------------------------------------
(* Types of values.  A count is converted modulo 2^IntBits.                 *)

\* A set of natural numbers has a least one.
LEMMA LeastNumber ==
  ASSUME NEW S, S \subseteq Nat, S # {}
  PROVE  \E x \in S : \A y \in S : x <= y
<1> DEFINE R == OpToRel(<, Nat)
<1>1. IsWellFoundedOn(R, Nat)
  BY NatLessThanWellFounded
<1>2. PICK x \in S : \A y \in S : <<y, x>> \notin R
  <2> HIDE DEF R
  <2>1. QED
    BY <1>1, WFMin
<1>3. \A y \in S : ~(y < x)
  BY <1>2 DEF OpToRel
<1>4. QED
  BY <1>3

\* There is an unsigned int at least.
LEMMA IntSize == 2^IntBits \in Nat /\ 2^IntBits > 0
<1> DEFINE B == 1 .. IntBits
<1>1. IntBits \in Nat /\ IntBits > 0
  BY OptionsAssumption
<1>2. IsFiniteSet(B) /\ Cardinality(B) = IntBits
  BY <1>1, FS_Interval
<1>3. IsFiniteSet(SUBSET B) /\ Cardinality(SUBSET B) = 2^IntBits
  <2> HIDE DEF B
  <2>1. QED
    BY <1>2, FS_SUBSET
<1>4. SUBSET B # {}
  OBVIOUS
<1>5. Cardinality(SUBSET B) \in Nat /\ Cardinality(SUBSET B) # 0
  <2> HIDE DEF B
  <2>1. IsFiniteSet(SUBSET B)
    BY <1>3
  <2>2. QED
    BY <1>4, <2>1, FS_CardinalityType, FS_EmptySet
<1>6. QED
  BY <1>3, <1>5

\* The names in the tables, and what kinds of option they are.
Names == {"pipe", "datasize", "loops", "groups", "fds", "threads", "processes", "fifo", "help",
          "pin", "infinite", "reps", "file", "hack", "ip", "num", "core", "time"}
\* What the tables of the five programs have in common.
LEMMA Tables ==
  ASSUME program \in AllPrograms
  PROVE  /\ Len(Table) \in Nat /\ Known = {Table[i] : i \in 1 .. Len(Table)}
         /\ Known \subseteq Names /\ Known \cap {"threads", "processes"} \subseteq Flags
         /\ Flags \cap Paths = {} /\ (~InC => Counts = {})
<1>1. Len(ToyTable) \in Nat /\ DOMAIN ToyTable = 1 .. Len(ToyTable)
        /\ \A i \in 1 .. Len(ToyTable) : ToyTable[i] \in Names
  <2>1. Len(ToyTable) = 11 /\ DOMAIN ToyTable = 1 .. 11
    BY DEF ToyTable
  <2>2. \A i \in 1 .. 11 : ToyTable[i] \in Names
    BY DEF ToyTable, Names
  <2>3. QED
    BY <2>1, <2>2
<1>2. CASE program = "hackbench"
  <2>1. Table = <<"datasize", "loops", "groups", "fds", "fifo", "help", "pin", "infinite">>
    BY <1>2 DEF Table
  <2>0. Len(Table) = 8 /\ DOMAIN Table = 1 .. 8
    BY <2>1
  <2>2. Len(Table) \in Nat /\ DOMAIN Table = 1 .. Len(Table)
        /\ \A i \in 1 .. Len(Table) : Table[i] \in Names \ {"threads", "processes"}
    BY <2>0, <2>1 DEF Names
  <2>3. Known = {Table[i] : i \in 1 .. Len(Table)}
    BY <2>2 DEF Known, ToSet
  <2>4. QED
    BY <1>2, <2>2, <2>3 DEF Flags, Paths, Numbers, Counts, InC
<1>3. CASE program = "toy_hackbench"
  <2>1. Table = ToyTable
    BY <1>3 DEF Table
  <2>2. Known = {Table[i] : i \in 1 .. Len(Table)}
    BY <1>1, <2>1 DEF Known, ToSet
  <2>3. QED
    BY <1>1, <1>3, <2>1, <2>2 DEF Flags, ToyFlags, Paths, Numbers, Counts, InC
<1>4. CASE program = "launcher"
  <2>1. Table = <<"groups", "pin", "reps", "file", "hack", "help">>
    BY <1>4 DEF Table
  <2>0. Len(Table) = 6 /\ DOMAIN Table = 1 .. 6
    BY <2>1
  <2>2. Len(Table) \in Nat /\ DOMAIN Table = 1 .. Len(Table)
        /\ \A i \in 1 .. Len(Table) : Table[i] \in Names \ {"threads", "processes"}
    BY <2>0, <2>1 DEF Names
  <2>3. Known = {Table[i] : i \in 1 .. Len(Table)}
    BY <2>2 DEF Known, ToSet
  <2>4. QED
    BY <1>4, <2>2, <2>3 DEF Flags, Paths, Numbers, Counts, InC
<1>5. CASE program = "http_client"
  <2>1. Table = <<"ip", "num", "file", "help">>
    BY <1>5 DEF Table
  <2>0. Len(Table) = 4 /\ DOMAIN Table = 1 .. 4
    BY <2>1
  <2>2. Len(Table) \in Nat /\ DOMAIN Table = 1 .. Len(Table)
        /\ \A i \in 1 .. Len(Table) : Table[i] \in Names \ {"threads", "processes"}
    BY <2>0, <2>1 DEF Names
  <2>3. Known = {Table[i] : i \in 1 .. Len(Table)}
    BY <2>2 DEF Known, ToSet
  <2>4. QED
    BY <1>5, <2>2, <2>3 DEF Flags, Paths, Numbers, Counts, InC
<1>6. CASE program = "tracker"
  <2>1. Table = <<"core", "file", "time", "help">>
    BY <1>6 DEF Table
  <2>0. Len(Table) = 4 /\ DOMAIN Table = 1 .. 4
    BY <2>1
  <2>2. Len(Table) \in Nat /\ DOMAIN Table = 1 .. Len(Table)
        /\ \A i \in 1 .. Len(Table) : Table[i] \in Names \ {"threads", "processes"}
    BY <2>0, <2>1 DEF Names
  <2>3. Known = {Table[i] : i \in 1 .. Len(Table)}
    BY <2>2 DEF Known, ToSet
  <2>4. QED
    BY <1>6, <2>2, <2>3 DEF Flags, Paths, Numbers, Counts, InC
<1>7. QED
  BY <1>2, <1>3, <1>4, <1>5, <1>6 DEF AllPrograms

Typed(v, val) == IF v \in Paths THEN val \in Arguments \cup {BuiltIn}
                 ELSE val \in IF v \in Counts THEN Nat ELSE Int

ValuesInv == /\ \A v \in DOMAIN value : Typed(v, value[v])
             /\ optind \in 0 .. Len(Table)

\* The defaults have the types of their variables.
LEMMA DefaultTyped ==
  ASSUME program \in AllPrograms
  PROVE  \A v \in DOMAIN Default : Typed(v, Default[v])
<1>1. CASE program = "hackbench"
  <2>1. Default = HackbenchDefault
    BY <1>1 DEF Default
  <2>2. QED
    BY <1>1, <2>1 DEF HackbenchDefault, Typed, Paths, Counts, InC
<1>2. CASE program = "toy_hackbench"
  <2>1. Default = ToyDefault
    BY <1>2 DEF Default
  <2>2. QED
    BY <1>2, <2>1 DEF ToyDefault, Typed, Paths, Counts, InC
<1>3. CASE program = "launcher"
  <2>1. Default = [lower |-> 1, upper |-> 1, step |-> 1, pin |-> -1, reps |-> 1,
                   file |-> BuiltIn, hack |-> BuiltIn]
    BY <1>3 DEF Default
  <2>2. QED
    BY <1>3, <2>1 DEF Typed, Paths, Counts, InC
<1>4. CASE program = "http_client"
  <2>1. Default = [ip |-> BuiltIn, num |-> 100, file |-> BuiltIn]
    BY <1>4 DEF Default
  <2>2. QED
    BY <1>4, <2>1 DEF Typed, Paths, Counts, InC
<1>5. CASE program = "tracker"
  <2>1. Default = [core |-> 0, file |-> BuiltIn, time |-> 1000]
    BY <1>5 DEF Default
  <2>2. QED
    BY <1>5, <2>1 DEF Typed, Paths, Counts, InC
<1>6. QED
  BY <1>1, <1>2, <1>3, <1>4, <1>5 DEF AllPrograms

\* What an option with a good argument gives each variable it sets.
LEMMA AssignTyped ==
  ASSUME program \in AllPrograms, NEW e \in Element, e.opt \in Known,
         e.opt \notin Flags => e.arg # NoArg /\ ~Throws(e),
         NEW v \in Sets(e), v \in DOMAIN Default
  PROVE  Typed(v, ValueOf(e, v))
<1>1. CASE e.opt \in Flags
  <2>1. e.opt # "groups" /\ e.opt \in Names /\ e.opt \notin Paths
    BY <1>1, Tables DEF Flags, ToyFlags
  <2>2. v \in {"process_mode", e.opt}
    BY <2>1 DEF Sets
  <2>3. v \notin Paths /\ v \notin {"upper", "lower", "step"}
    BY <2>1, <2>2 DEF Paths, Names
  <2>4. ValueOf(e, v) = IF e.opt \in {"threads", "pin"} THEN 0 ELSE 1
    BY <1>1, <2>3 DEF ValueOf
  <2>5. QED
    BY <2>3, <2>4 DEF Typed
<1>2. CASE e.opt \notin Flags
  <2>1. PICK w \in Arguments : e.arg = <<w>> /\ ~Throws(e)
    BY <1>2 DEF Element, NoArg
  <2>2. e.arg[1] = w /\ w \in Seq(Int) /\ Len(w) \in {0, 1, 3}
    BY <2>1, OptionsAssumption
  <2>3. e.opt \in Names \ {"threads", "processes"}
    BY <1>2, Tables
  <2>4. Atoi(w) \in Int
    BY <2>2 DEF Atoi
  <2>5. CASE e.opt = "groups" /\ ~InC
    <3>1. v \in {"lower", "upper"} \cup (IF Len(w) = 3 THEN {"step"} ELSE {})
      BY <2>2, <2>5 DEF Sets
    <3>2. Len(w) \in {1, 3}
      <4>1. e.opt \in Numbers
        BY <2>5, Tables DEF Numbers
      <4>2. QED
        BY <2>1, <2>2, <2>5, <4>1 DEF Throws
    <3>3. v \notin Paths \cup Counts
      BY <2>5, <3>1, Tables DEF Paths
    <3>4. CASE v = "upper"
      <4>1. ValueOf(e, v) = Atoi(IF Len(w) = 3 THEN <<w[2]>> ELSE w)
        BY <1>2, <2>2, <3>4 DEF ValueOf
      <4>2. \A i : Atoi(<<i>>) = i
        BY DEF Atoi
      <4>3. ASSUME Len(w) = 3 PROVE w[2] \in Int
        <5>1. w \in Seq(Int) /\ 2 \in 1 .. Len(w)
          BY <2>2, <4>3
        <5>2. QED
          BY <5>1
      <4>4. QED
        BY <2>4, <3>3, <4>1, <4>2, <4>3 DEF Typed
    <3>5. CASE v \in {"lower", "step"}
      <4>1. ValueOf(e, v) = w[IF v = "step" THEN 3 ELSE 1]
        BY <1>2, <2>2, <3>5 DEF ValueOf
      <4>2. w[IF v = "step" THEN 3 ELSE 1] \in Int
        BY <2>2, <3>1, <3>2, <3>5
      <4>3. QED
        BY <3>3, <4>1, <4>2 DEF Typed
    <3>6. QED
      BY <3>1, <3>4, <3>5
  <2>6. CASE ~(e.opt = "groups" /\ ~InC)
    <3>1. v = e.opt
      BY <2>3, <2>6 DEF Sets
    <3>2. ValueOf(e, v) = Convert(v, w)
      BY <1>2, <2>2, <2>3, <3>1 DEF ValueOf, Names
    <3>3. v \in Counts => Atoi(w) % 2^IntBits \in Nat
      <4>1. \A i \in Int, n \in Nat : n > 0 => i % n \in Nat
        OBVIOUS
      <4>2. QED
        BY <2>4, <4>1, IntSize
    <3>4. Paths \cap Counts = {}
      BY DEF Paths, Counts
    <3>5. QED
      BY <2>4, <3>2, <3>3, <3>4 DEF Convert, Typed
  <2>7. QED
    BY <2>5, <2>6
<1>3. QED
  BY <1>1, <1>2

----------------------------------------------------------------------------
(* What the code does with an argument, against what it says.              *)

\* The number of an argument that is one number.
LEMMA OneNumber == \A u \in Seq(Int) : Len(u) = 1 => u[1] \in Int
OBVIOUS

\* A number that fits is converted to 0 only if it is 0.
LEMMA SmallRemainder ==
  ASSUME NEW k \in Nat, k > 0, NEW x \in Int, -k < x, x < k
  PROVE  x % k = 0 <=> x = 0
<1>1. CASE x >= 0
  BY <1>1
<1>2. CASE x < 0
  <2>1. x % k = (x + k) % k
    BY <1>2
  <2>2. (x + k) % k = x + k
    BY <1>2
  <2>3. QED
    BY <1>2, <2>1, <2>2
<1>3. QED
  BY <1>1, <1>2

\* What is thrown at or refused is bad in words, and nothing else is.
LEMMA RefusedIsBad ==
  ASSUME program \in AllPrograms, NEW e \in Element, e.opt \in Known,
         e.opt \notin Flags => e.arg # NoArg
  PROVE  Bad(e) <=> e.opt \notin Flags /\ (Throws(e) \/ Refused(e))
<1> DEFINE w == e.arg[1]
           ThrownAt == e.opt \in Numbers \ Flags /\ ~InC /\ ~(Len(w) = 1 \/ (Len(w) = 3 /\ e.opt = "groups"))
           ZeroCount == e.opt \in Counts /\ (Len(w) # 1 \/ w[1] = 0)
           BadCore == program = "hackbench" /\ e.opt = "pin" /\ Len(w) = 1 /\ w[1] < 0
<1>1. Bad(e) <=> ThrownAt \/ ZeroCount \/ BadCore
  BY DEF Bad
<1>2. CASE e.opt \in Flags
  <2>1. e.opt \notin Counts /\ ~(program = "hackbench" /\ e.opt = "pin")
    BY <1>2 DEF Flags, ToyFlags, Counts
  <2>2. QED
    BY <1>1, <1>2, <2>1
<1>3. CASE e.opt \notin Flags
  <2>1. PICK u \in Arguments : e.arg = <<u>>
    BY <1>3 DEF Element, NoArg
  <2>2. w = u
    BY <2>1
  <2>3. u \in Seq(Int) /\ (Len(u) = 1 => u[1] \in Int /\ -(2^IntBits) < u[1] /\ u[1] < 2^IntBits)
    <3>1. u \in Seq(Int) /\ \A k \in 1 .. Len(u) : -(2^IntBits) < u[k] /\ u[k] < 2^IntBits
      BY OptionsAssumption
    <3>2. Len(u) = 1 => 1 \in 1 .. Len(u)
      OBVIOUS
    <3>3. QED
      BY <3>1, <3>2, OneNumber
  <2>4. Throws(e) <=> ThrownAt
    <3>1. Len(w) \notin (IF e.opt = "groups" THEN {1, 3} ELSE {1})
            <=> ~(Len(w) = 1 \/ (Len(w) = 3 /\ e.opt = "groups"))
      OBVIOUS
    <3>2. QED
      BY <1>3, <3>1 DEF Throws
  <2>5. e.opt \in Counts /\ ValueOf(e, e.opt) = 0 <=> ZeroCount
    <3>1. CASE e.opt \notin Counts
      BY <3>1
    <3>2. CASE e.opt \in Counts
      <4>1. e.opt \in {"datasize", "loops", "groups", "fds"}
        BY <3>2 DEF Counts
      <4>2. ValueOf(e, e.opt) = Atoi(u) % 2^IntBits
        BY <1>3, <2>2, <3>2, <4>1 DEF ValueOf, Convert
      <4>3. CASE Len(u) = 1
        <5>1. Atoi(u) = u[1]
          BY <4>3 DEF Atoi
        <5>2. u[1] % 2^IntBits = 0 <=> u[1] = 0
          BY <2>3, <4>3, IntSize, SmallRemainder
        <5>3. QED
          BY <2>2, <3>2, <4>2, <4>3, <5>1, <5>2
      <4>4. CASE Len(u) # 1
        <5>1. Atoi(u) = 0
          BY <4>4 DEF Atoi
        <5>2. \A k \in Nat : k > 0 => 0 % k = 0
          OBVIOUS
        <5>3. Atoi(u) % 2^IntBits = 0
          BY <5>1, <5>2, IntSize
        <5>4. QED
          BY <2>2, <3>2, <4>2, <4>4, <5>3
      <4>5. QED
        BY <4>3, <4>4
    <3>3. QED
      BY <3>1, <3>2
  <2>6. program = "hackbench" /\ e.opt = "pin" /\ ValueOf(e, "pin") < 0 <=> BadCore
    <3>1. CASE ~(program = "hackbench" /\ e.opt = "pin")
      BY <3>1
    <3>2. CASE program = "hackbench" /\ e.opt = "pin"
      <4>1. e.opt \notin Counts \cup Paths
        BY <3>2 DEF Counts, Paths
      <4>2. ValueOf(e, "pin") = Atoi(u)
        BY <1>3, <2>2, <3>2, <4>1 DEF ValueOf, Convert
      <4>3. Atoi(u) < 0 <=> Len(u) = 1 /\ u[1] < 0
        BY DEF Atoi
      <4>4. QED
        BY <2>2, <3>2, <4>2, <4>3
    <3>3. QED
      BY <3>1, <3>2
  <2>7. QED
    BY <1>1, <1>3, <2>4, <2>5, <2>6 DEF Refused
<1>4. QED
  BY <1>2, <1>3

\* An argument that is what the usage asks for is converted to what it says.
LEMMA MeantIsSet ==
  ASSUME program \in AllPrograms, NEW e \in Element, e.opt \in Known,
         e.opt \notin Flags => e.arg # NoArg, AsAsked(e), NEW v \in Sets(e)
  PROVE  ValueOf(e, v) = Meaning(e, v)
<1>1. CASE e.opt \in Flags
  <2>1. e.opt # "groups" /\ e.opt \in Names /\ e.opt \notin Paths
    BY <1>1, Tables DEF Flags, ToyFlags
  <2>2. v \in {"process_mode", e.opt}
    BY <2>1 DEF Sets
  <2>3. v \notin {"upper", "lower", "step"}
    BY <2>1, <2>2 DEF Names
  <2>4. QED
    BY <1>1, <2>1, <2>3 DEF ValueOf, Meaning
<1>2. CASE e.opt \notin Flags
  <2>1. PICK w \in Arguments : e.arg = <<w>>
    BY <1>2 DEF Element, NoArg
  <2>2. e.arg[1] = w /\ w \in Seq(Int) /\ Len(w) \in {0, 1, 3}
    BY <2>1, OptionsAssumption
  <2>3. e.opt \in Names \ {"threads", "processes"}
    BY <1>2, Tables
  <2>4. ASSUME Len(w) = 1 PROVE Atoi(w) = w[1] /\ w[1] \in Int
    <3>1. Atoi(w) = w[1]
      BY <2>4 DEF Atoi
    <3>2. QED
      BY <2>2, <2>4, <3>1, OneNumber
  <2>5. CASE e.opt = "groups" /\ ~InC
    <3>1. v \in {"lower", "upper"} \cup (IF Len(w) = 3 THEN {"step"} ELSE {})
      BY <2>2, <2>5 DEF Sets
    <3>2. Len(w) \in {1, 3}
      BY <1>2, <2>2, <2>5, Tables DEF AsAsked, Paths
    <3>3. Meaning(e, v) = IF Len(w) = 3 THEN w[IF v = "lower" THEN 1 ELSE IF v = "upper" THEN 2 ELSE 3]
                          ELSE w[1]
      BY <1>2, <2>2, <2>5 DEF Meaning, Paths
    <3>4. CASE v = "upper"
      <4>1. ValueOf(e, v) = Atoi(IF Len(w) = 3 THEN <<w[2]>> ELSE w)
        BY <1>2, <2>2, <3>4 DEF ValueOf
      <4>2. \A i : Atoi(<<i>>) = i
        BY DEF Atoi
      <4>3. QED
        BY <2>4, <3>2, <3>3, <3>4, <4>1, <4>2
    <3>5. CASE v \in {"lower", "step"}
      <4>1. ValueOf(e, v) = w[IF v = "step" THEN 3 ELSE 1]
        BY <1>2, <2>2, <3>5 DEF ValueOf
      <4>2. QED
        BY <3>1, <3>2, <3>3, <3>5, <4>1
    <3>6. QED
      BY <3>1, <3>4, <3>5
  <2>6. CASE ~(e.opt = "groups" /\ ~InC)
    <3>1. v = e.opt
      BY <2>3, <2>6 DEF Sets
    <3>2. ValueOf(e, v) = Convert(v, w)
      BY <1>2, <2>2, <2>3, <3>1 DEF ValueOf, Names
    <3>3. CASE e.opt \in Paths
      <4>1. e.opt \notin Counts
        BY <3>3 DEF Paths, Counts
      <4>2. QED
        BY <1>2, <2>2, <3>1, <3>2, <3>3, <4>1 DEF Convert, Meaning
    <3>4. CASE e.opt \notin Paths
      <4>1. Len(w) = 1 /\ (e.opt \in Counts => 0 < w[1] /\ w[1] < 2^IntBits)
        <5>0. Len(w) = 1 => w[1] < 2^IntBits
          BY <2>1, OptionsAssumption
        <5>1. e.opt \in Counts \/ e.opt \in Numbers
          BY <1>2, <3>4 DEF AsAsked
        <5>2. e.opt \in Numbers => e.opt \notin Counts /\ e.opt # "groups"
          BY <2>6 DEF Numbers, Counts
        <5>3. QED
          BY <1>2, <2>2, <3>4, <5>0, <5>1, <5>2 DEF AsAsked
      <4>2. Meaning(e, v) = w[1]
        BY <1>2, <2>2, <3>4, <4>1 DEF Meaning
      <4>3. \A k \in Nat, i \in Int : 0 < i /\ i < k => i % k = i
        OBVIOUS
      <4>4. e.opt \in Counts => Atoi(w) % 2^IntBits = w[1]
        BY <2>4, <4>1, <4>3, IntSize
      <4>5. QED
        BY <2>4, <3>1, <3>2, <3>4, <4>1, <4>2, <4>4 DEF Convert
    <3>5. QED
      BY <3>3, <3>4
  <2>7. QED
    BY <2>5, <2>6
<1>3. QED
  BY <1>1, <1>2

\* In the short form nothing but a bad word leads to an error.
AllShort == \A n \in 1 .. Len(argv) : argv[n].form = "short"
Blamed   == \E n \in 1 .. Len(argv) : Bad(argv[n]) \/ argv[n].opt = "help"
ShortInv == AllShort => /\ optind = 0
                        /\ error \/ status \notin {"parsing", "ok"} => Blamed

\* argv[0] is the name of the program.
LEMMA SomeWords ==
  ASSUME LineInv
  PROVE  0 < argc
<1> DEFINE S == {n \in 1 .. Len(argv) : TwoWords(argv[n])}
<1>1. Len(argv) \in Nat
  BY DEF LineInv
<1>2. IsFiniteSet(1 .. Len(argv))
  BY <1>1, FS_Interval
<1>3. Cardinality(S) \in Nat
  <2>1. S \subseteq 1 .. Len(argv)
    OBVIOUS
  <2> HIDE DEF S
  <2>2. QED
    BY <1>2, <2>1, FS_Subset, FS_CardinalityType
<1>4. QED
  BY <1>1, <1>3 DEF argc

\* Every step keeps it: optind stays 0, so that an argument is never missed.
LEMMA StepShort ==
  ASSUME OptionsInv, ShortInv, [Next]_vars
  PROVE  ShortInv'
<1>1. LineInv /\ program \in AllPrograms
  BY ProgramsAssumption DEF OptionsInv, LineInv
<1>2. UNCHANGED <<program, argv>>
  BY DEF Next, TakeCount, TakeValue, TakeFlag, TakeHelp, Unrecognised, Finish, Take, GetOpt, vars
<1>3. (AllShort' <=> AllShort) /\ (Blamed' <=> Blamed)
  <2>1. \A n : Bad(argv[n])' <=> Bad(argv[n])
    BY <1>2 DEF Bad, Known, Table, Flags, Numbers, Counts, InC
  <2>2. QED
    BY <1>2, <2>1 DEF AllShort, Blamed
<1> SUFFICES ASSUME AllShort PROVE ShortInv'
  BY <1>3 DEF ShortInv
<1>4. optind = 0 /\ (error \/ status \notin {"parsing", "ok"} => Blamed)
  BY DEF ShortInv
<1>5. ASSUME NEW opts, GetOpt(opts)
      PROVE  /\ next \in 1 .. Len(argv) /\ argv[next] \in Element /\ argv[next].opt \in opts
             /\ optind' = 0 /\ status = "parsing"
             /\ Bad(argv[next]) \/ argv[next].opt = "help" => Blamed
  <2>1. next \in 1 .. Len(argv) /\ argv[next] \in Element
    BY <1>1, <1>5, WordAt DEF GetOpt
  <2>2. argv[next].form = "short"
    BY <2>1 DEF AllShort
  <2>3. optind' = 0
    BY <1>4, <1>5, <2>2 DEF GetOpt
  <2>4. QED
    BY <1>5, <2>1, <2>3 DEF GetOpt, Blamed
<1>6. ASSUME NEW opts, Take(opts), opts \subseteq Known \cup Counts, opts \cap Flags = {}
      PROVE  ShortInv'
  <2>1. GetOpt(opts) /\ argv[next].arg # NoArg
    BY <1>6 DEF Take
  <2>2. NullAt(optind') = {FALSE}
    <3>1. argc' = argc
      BY <1>2 DEF argc
    <3>2. QED
      BY <1>1, <1>5, <2>1, SomeWords DEF NullAt
  <2>3. argv[next].opt \in Known
    <3>1. "unknown" \notin Counts
      BY DEF Counts
    <3>2. QED
      BY <1>1, <1>6, <2>1, <3>1, WordAt DEF GetOpt
  <2>4. argv[next].opt \notin Flags
    BY <1>5, <1>6, <2>1
  <2>5. Throws(argv[next]) \/ Refused(argv[next]) => Blamed
    BY <1>1, <1>5, <2>1, <2>3, <2>4, RefusedIsBad
  <2>6. \/ error' = (error \/ Refused(argv[next])) /\ status' = status
        \/ Throws(argv[next]) /\ error' = error
    BY <1>6, <2>2 DEF Take, Flag
  <2>7. QED
    BY <1>3, <1>4, <1>5, <2>1, <2>5, <2>6 DEF ShortInv
<1>7. CASE TakeCount
  <2>1. Counts \cap Flags = {}
    BY DEF Flags, ToyFlags, Counts
  <2>2. QED
    BY <1>6, <1>7, <2>1 DEF TakeCount
<1>8. CASE TakeValue
  BY <1>6, <1>8 DEF TakeValue
<1>9. CASE TakeFlag
  <2>1. GetOpt((Flags \cap Known) \ {"help"}) /\ UNCHANGED <<status, error>>
    BY <1>9 DEF TakeFlag
  <2>2. QED
    BY <1>3, <1>4, <1>5, <2>1 DEF ShortInv
<1>10. CASE TakeHelp
  <2>1. GetOpt({"help"})
    BY <1>10 DEF TakeHelp
  <2>2. QED
    BY <1>3, <1>5, <2>1 DEF ShortInv
<1>11. CASE Unrecognised
  <2>1. /\ GetOpt(Options) /\ argv[next].opt \notin Flags \cap Known
        /\ argv[next].opt \in Known \ Flags => argv[next].arg = NoArg
    BY <1>11 DEF Unrecognised
  <2>2. Bad(argv[next])
    BY <2>1 DEF Bad
  <2>3. QED
    BY <1>3, <1>5, <2>1, <2>2 DEF ShortInv
<1>12. CASE Finish
  <2>1. /\ UNCHANGED <<optind, error>> /\ status = "parsing"
        /\ ~error => status' = "ok"
    BY <1>12 DEF Finish
  <2>2. QED
    BY <1>3, <1>4, <2>1 DEF ShortInv
<1>13. CASE UNCHANGED vars
  <2>1. UNCHANGED <<optind, error, status>>
    BY <1>13 DEF vars
  <2>2. QED
    BY <1>3, <1>4, <2>1 DEF ShortInv
<1>14. QED
  BY <1>7, <1>8, <1>9, <1>10, <1>11, <1>12, <1>13 DEF Next

\* An accepted command line has no unknown option in it, no missing argument, no word
\* where stoi reads a number or where a count is read, no count of 0, and for hackbench
\* no negative core, wherever it stands and whatever good options come after it; a line
\* of short options is refused or ended for nothing else but its help.
THEOREM BadRejectedHolds == Spec => []BadRejected
<1>1. OptionsInv /\ ShortInv => BadRejected
  <2> SUFFICES ASSUME OptionsInv, ShortInv PROVE BadRejected
    OBVIOUS
  <2>1. ASSUME status = "ok", NEW n \in 1 .. Len(argv) PROVE ~Bad(argv[n])
    <3>1. ~error /\ next = Len(argv) + 1 /\ argv \in Seq(Element) /\ program \in AllPrograms
      BY <2>1, ProgramsAssumption DEF OptionsInv, EndInv, LineInv
    <3>2. n \in 1 .. next - 1
      BY <3>1
    <3>3. GoodAt(n) /\ argv[n] \in Element
      BY <2>1, <3>1, <3>2 DEF OptionsInv, ReadInv
    <3>4. QED
      BY <3>1, <3>3, RefusedIsBad DEF GoodAt
  <2>2. QED
    BY <2>1 DEF BadRejected, ShortInv, AllShort, Blamed
<1>2. Init => ShortInv
  BY DEF Init, ShortInv
<1>3. OptionsInv /\ ShortInv /\ [Next]_vars => ShortInv'
  BY StepShort
<1>4. QED
  BY <1>1, <1>2, <1>3, OptionsInvariant, PTL DEF Spec

\* In an accepted command line the last option that sets a variable decides its value, in
\* whatever form it came, and the value is what the words of the argument say when they
\* are what the usage asks for; a variable that no option sets keeps its default.
THEOREM AcceptedAsGivenHolds == Spec => []AcceptedAsGiven
<1>1. OptionsInv => AcceptedAsGiven
  <2> SUFFICES ASSUME OptionsInv, status = "ok", NEW v \in DOMAIN value
               PROVE  LET given == {n \in 1 .. Len(argv) : v \in Sets(argv[n])}
                          last  == argv[CHOOSE n \in given : \A m \in given : m <= n]
                      IN  IF given = {} THEN value[v] = Default[v]
                          ELSE AsAsked(last) => value[v] = Meaning(last, v)
    BY DEF AcceptedAsGiven
  <2> DEFINE given == {n \in 1 .. Len(argv) : v \in Sets(argv[n])}
  <2>1. /\ ~error /\ next = Len(argv) + 1 /\ argv \in Seq(Element) /\ program \in AllPrograms
        /\ \A n \in 1 .. next - 1 : GoodAt(n)
    BY ProgramsAssumption DEF OptionsInv, EndInv, LineInv, ReadInv
  <2>2. \/ value[v] = Default[v] /\ \A n \in 1 .. Len(argv) : ~SetsAt(n, v)
        \/ \E n \in 1 .. Len(argv) : /\ SetsAt(n, v) /\ value[v] = ValAt(n, v)
                                     /\ \A m \in n + 1 .. Len(argv) : ~SetsAt(m, v)
    <3>1. next - 1 = Len(argv)
      BY <2>1
    <3>2. DecidedBy(next, v)
      BY <2>1 DEF OptionsInv, ReadInv
    <3>3. QED
      BY <3>1, <3>2 DEF DecidedBy
  <2>3. CASE value[v] = Default[v] /\ \A n \in 1 .. Len(argv) : ~SetsAt(n, v)
    <3>1. given = {}
      BY <2>3 DEF SetsAt
    <3>2. QED
      BY <2>3, <3>1
  <2>4. ASSUME NEW n \in 1 .. Len(argv), SetsAt(n, v), value[v] = ValAt(n, v),
               \A m \in n + 1 .. Len(argv) : ~SetsAt(m, v)
        PROVE  LET last == argv[CHOOSE k \in given : \A m \in given : m <= k]
               IN  given # {} /\ (AsAsked(last) => value[v] = Meaning(last, v))
    <3>1. n \in given
      BY <2>4 DEF SetsAt
    <3>2. \A m \in given : m <= n /\ m \in Int
      BY <2>1, <2>4 DEF SetsAt
    <3>3. \A k \in given : (\A m \in given : m <= k) => k = n
      BY <3>1, <3>2
    <3>4. (CHOOSE k \in given : \A m \in given : m <= k) = n
      <4> HIDE DEF given
      <4>1. QED
        BY <3>1, <3>2, <3>3
    <3>5. argv[n] \in Element /\ GoodAt(n)
      BY <2>1
    <3>6. AsAsked(argv[n]) => ValAt(n, v) = Meaning(argv[n], v)
      BY <2>1, <2>4, <3>5, MeantIsSet DEF GoodAt, SetsAt, ValAt
    <3>7. QED
      BY <2>4, <3>1, <3>4, <3>6
  <2>5. QED
    BY <2>2, <2>3, <2>4
<1>2. QED
  BY <1>1, OptionsInvariant, PTL

----------------------------------------------------------------------------
(* Types kept by every step.                                               *)

\* getopt_long sets optind to an index of the table, if at all.
LEMMA IndexTyped ==
  ASSUME program \in AllPrograms, ValuesInv, NEW opts, GetOpt(opts)
  PROVE  (optind \in 0 .. Len(Table))'
<1>1. Table' = Table
  BY DEF GetOpt, Table
<1>2. CASE argv[next].form # "short" /\ argv[next].opt \in Known
  <2> DEFINE I == {i \in 1 .. Len(Table) : Table[i] = argv[next].opt}
  <2>1. I \subseteq Nat /\ I # {} /\ Len(Table) \in Nat
    BY <1>2, Tables
  <2>2. SelectInSeq(Table, LAMBDA o : o = argv[next].opt) = Min(I)
    BY <2>1 DEF SelectInSeq
  <2>3. Min(I) \in I
    <3> HIDE DEF I
    <3>1. \E x \in I : \A y \in I : x <= y
      BY <2>1, LeastNumber
    <3>2. QED
      BY <3>1 DEF Min
  <2>4. optind' = Min(I) - 1
    BY <1>2, <2>2 DEF GetOpt
  <2>5. QED
    BY <1>1, <2>1, <2>3, <2>4
<1>3. CASE ~(argv[next].form # "short" /\ argv[next].opt \in Known)
  <2>1. optind' \in {0, optind}
    BY <1>3 DEF GetOpt
  <2>2. QED
    BY <1>1, <2>1, Tables DEF ValuesInv
<1>4. QED
  BY <1>2, <1>3

\* The values have their types at the start.
LEMMA InitValues == Init => ValuesInv
<1> SUFFICES ASSUME Init PROVE ValuesInv
  OBVIOUS
<1>1. program \in AllPrograms /\ value = Default /\ optind = 0
  BY ProgramsAssumption DEF Init
<1>2. QED
  BY <1>1, DefaultTyped, Tables DEF ValuesInv

\* Every step keeps the types of the values.
LEMMA StepValues ==
  ASSUME OptionsInv, ValuesInv, [Next]_vars
  PROVE  ValuesInv'
<1>1. LineInv /\ program \in AllPrograms
  BY ProgramsAssumption DEF OptionsInv, LineInv
<1>2. CASE UNCHANGED vars \/ Finish
  <2>1. UNCHANGED <<program, value, optind>>
    BY <1>2 DEF vars, Finish
  <2>2. Table' = Table /\ Counts' = Counts
    BY <2>1 DEF Table, Counts, InC
  <2>3. QED
    BY <2>1, <2>2 DEF ValuesInv, Typed
<1>3. ASSUME NEW opts, GetOpt(opts),
             \/ UNCHANGED value
             \/ /\ value' = Assign(argv[next]) /\ argv[next].opt \in Known
                /\ argv[next].opt \notin Flags => argv[next].arg # NoArg /\ ~Throws(argv[next])
      PROVE  ValuesInv'
  <2>1. (optind \in 0 .. Len(Table))'
    BY <1>1, <1>3, IndexTyped
  <2>2. Counts' = Counts /\ next <= Len(argv)
    BY <1>3 DEF GetOpt, Counts, InC
  <2>3. \A v, val : Typed(v, val)' <=> Typed(v, val)
    BY <2>2 DEF Typed
  <2>4. ASSUME NEW v \in DOMAIN value', value' = Assign(argv[next]), argv[next].opt \in Known,
               argv[next].opt \notin Flags => argv[next].arg # NoArg /\ ~Throws(argv[next])
        PROVE  Typed(v, value'[v])
    <3>1. v \in DOMAIN value /\ v \in DOMAIN Default
          /\ value'[v] = IF v \in Sets(argv[next]) THEN ValueOf(argv[next], v) ELSE value[v]
      BY <1>1, <2>4 DEF Assign, LineInv
    <3>2. argv[next] \in Element
      BY <1>1, <2>2, WordAt
    <3>3. v \in Sets(argv[next]) => Typed(v, ValueOf(argv[next], v))
      BY <1>1, <2>4, <3>1, <3>2, AssignTyped
    <3>4. QED
      BY <3>1, <3>3 DEF ValuesInv
  <2>5. \A v \in DOMAIN value' : Typed(v, value'[v])
    BY <1>3, <2>4 DEF ValuesInv
  <2>6. QED
    BY <2>1, <2>3, <2>5 DEF ValuesInv
<1>4. ASSUME NEW opts, Take(opts), opts \subseteq Known \cup Counts PROVE ValuesInv'
  <2>1. GetOpt(opts) /\ argv[next].arg # NoArg
    BY <1>4 DEF Take
  <2>2. argv[next].opt \in Known
    <3>1. "unknown" \notin Counts
      BY DEF Counts
    <3>2. QED
      BY <1>1, <1>4, <2>1, <3>1, WordAt DEF GetOpt
  <2>3. UNCHANGED value \/ (value' = Assign(argv[next]) /\ ~Throws(argv[next]))
    BY <1>4 DEF Take
  <2>4. QED
    BY <1>3, <2>1, <2>2, <2>3
<1>5. CASE TakeCount
  BY <1>4, <1>5 DEF TakeCount
<1>6. CASE TakeValue
  BY <1>4, <1>6 DEF TakeValue
<1>7. CASE TakeFlag
  <2>1. GetOpt((Flags \cap Known) \ {"help"}) /\ value' = Assign(argv[next])
        /\ argv[next].opt \in Flags \cap Known
    BY <1>7 DEF TakeFlag, GetOpt
  <2>2. QED
    BY <1>3, <2>1
<1>8. CASE TakeHelp
  BY <1>3, <1>8 DEF TakeHelp
<1>9. CASE Unrecognised
  BY <1>3, <1>9 DEF Unrecognised
<1>10. QED
  BY <1>2, <1>5, <1>6, <1>7, <1>8, <1>9 DEF Next

\* Every variable keeps its type; in particular a count never gets a negative value,
\* however it was given, and optind is an index of the table.
THEOREM TypeCorrect == Spec => []TypeOK
<1>1. OptionsInv /\ ValuesInv => TypeOK
  <2> SUFFICES ASSUME OptionsInv, ValuesInv PROVE TypeOK
    OBVIOUS
  <2>1. LineInv
    BY DEF OptionsInv
  <2>2. \A v \in DOMAIN value : IF v \in Paths THEN value[v] \in Arguments \cup {BuiltIn}
                                ELSE value[v] \in IF v \in Counts THEN Nat ELSE Int
    BY DEF ValuesInv, Typed
  <2>3. QED
    BY <2>1, <2>2 DEF LineInv, ValuesInv, TypeOK
<1>2. Init => ValuesInv
  BY InitValues
<1>3. OptionsInv /\ ValuesInv /\ [Next]_vars => ValuesInv'
  BY StepValues
<1>4. QED
  BY <1>1, <1>2, <1>3, OptionsInvariant, PTL DEF Spec
============================================================================
