------------------------------- MODULE Options -------------------------------
(***************************************************************************)
(* The command lines of both hackbenches (process_options), of the         *)
(* launchers, the HTTP client and the trackers (parse_args).  All loop     *)
(* over getopt_long and then look at argv[optind] to see whether an        *)
(* argument is missing; their optind is a local variable that getopt_long  *)
(* only sets to the table index of a long option.  An element of argv is   *)
(* an option with its form and argument, not a string; an argument is the  *)
(* integers it has: none, one, or the three of (lower,upper,step).         *)
(***************************************************************************)
EXTENDS Integers, Sequences, FiniteSets, SequencesExt

CONSTANTS
  Programs,   \* of AllPrograms
  Options,    \* the options that occur on a command line
  Arguments,  \* the arguments that occur, as sequences of integers
  MaxLength,  \* how many options a command line has at most
  IntBits     \* the width of an int: 32 in the code

VARIABLES program, argv, next, optind, value, error, status
vars == <<program, argv, next, optind, value, error, status>>

AllPrograms == {"hackbench", "toy_hackbench", "launcher", "http_client", "tracker"}

ToyTable == <<"pipe", "datasize", "loops", "groups", "fds", "threads", "processes", "fifo",
              "help", "pin", "infinite">>
Table ==  \* longopts
  [hackbench     |-> <<"datasize", "loops", "groups", "fds", "fifo", "help", "pin", "infinite">>,
   toy_hackbench |-> ToyTable,
   launcher      |-> <<"groups", "pin", "reps", "file", "hack", "help">>,
   http_client   |-> <<"ip", "num", "file", "help">>,
   tracker       |-> <<"core", "file", "time", "help">>][program]

Known == ToSet(Table)
ToyFlags == {"pipe", "threads", "processes", "fifo", "help", "pin", "infinite"}
Flags == IF program = "toy_hackbench" THEN ToyFlags          \* no_argument
                                      ELSE {"fifo", "infinite", "help"}
InC    == program \in {"hackbench", "toy_hackbench"}
Counts  == IF InC THEN {"datasize", "loops", "groups", "fds"} ELSE {}  \* unsigned int, "> 0"
Numbers == {"groups", "pin", "reps", "num", "core", "time"} \ Counts   \* int
Paths   == {"ip", "file", "hack"}

ASSUME ProgramsAssumption == Programs \subseteq AllPrograms
ASSUME OptionsAssumption ==
  /\ \A w \in Arguments : /\ w \in Seq(Int) /\ Len(w) \in {0, 1, 3}
                          /\ \A k \in 1 .. Len(w) : -(2^IntBits) < w[k] /\ w[k] < 2^IntBits
  /\ MaxLength \in Nat /\ IntBits \in Nat \ {0}

NoArg == <<>>
Element ==
  {e \in [opt  : Options \cap (Known \cup {"unknown"}), form : {"short", "long", "joined"},
          arg  : {NoArg} \cup {<<w>> : w \in Arguments}] :
     /\ e.opt \in Flags \cup {"unknown"} => e.arg = NoArg /\ e.form # "joined"
     /\ e.form = "joined" => e.arg # NoArg}

\* getopt takes the next word as the argument: only the last one can be missing.
CommandLine ==
  {s \in UNION {[1 .. n -> Element] : n \in 0 .. MaxLength} :
     \A n \in 1 .. Len(s) - 1 : s[n].opt \in Known \ Flags => s[n].arg # NoArg}

\* -f 2 and --fds 2 are two words, --fds=2 is one.
TwoWords(e) == e.arg # NoArg /\ e.form # "joined"
argc        == 1 + Len(argv) + Cardinality({n \in 1 .. Len(argv) : TwoWords(argv[n])})

HackbenchDefault == [datasize |-> 100, loops |-> 100, groups |-> 10, fds |-> 1,
                     fifo |-> 0, infinite |-> 0, pin |-> -1]
\* process_mode: 0 for threads.
ToyDefault == [datasize |-> 100, loops |-> 100, groups |-> 10, fds |-> 20, fifo |-> 0,
               infinite |-> 0, pin |-> -1, pipe |-> 0, process_mode |-> 1]
BuiltIn == <<0>>  \* stands for the path or address a program has built in
Default ==
  CASE program = "hackbench"     -> HackbenchDefault
    [] program = "toy_hackbench" -> ToyDefault
    [] program = "launcher"      -> [lower |-> 1, upper |-> 1, step |-> 1, pin |-> -1, reps |-> 1,
                                     file |-> BuiltIn, hack |-> BuiltIn]
    [] program = "http_client"   -> [ip |-> BuiltIn, num |-> 100, file |-> BuiltIn]
    [] program = "tracker"       -> [core |-> 0, file |-> BuiltIn, time |-> 1000]

TypeOK ==
  /\ program \in Programs
  /\ argv \in Seq(Element) /\ next \in 1 .. Len(argv) + 1 /\ optind \in 0 .. Len(Table)
  /\ DOMAIN value = DOMAIN Default
  /\ \A v \in DOMAIN value : IF v \in Paths THEN value[v] \in Arguments \cup {BuiltIn}
                             ELSE value[v] \in IF v \in Counts THEN Nat ELSE Int
  /\ error \in BOOLEAN
  /\ status \in {"parsing", "ok", "failed", "exit_0", "aborted"}

Init ==
  /\ program \in Programs
  /\ argv \in CommandLine /\ next = 1 /\ optind = 0
  /\ value = Default /\ error = FALSE /\ status = "parsing"

----------------------------------------------------------------------------

\* argv[argc] is NULL; what lies beyond is the environment, or its end.
NullAt(k) == IF k < argc THEN {FALSE} ELSE IF k = argc THEN {TRUE} ELSE BOOLEAN

\* atoi knows no errors; stoi, of the C++ programs, throws, and nobody catches it.
Atoi(w)   == IF Len(w) = 1 THEN w[1] ELSE 0
Throws(e) == e.opt \in Numbers /\ ~InC /\ Len(e.arg[1]) \notin IF e.opt = "groups" THEN {1, 3} ELSE {1}

Convert(o, w) == IF o \in Counts THEN Atoi(w) % 2^IntBits
                 ELSE IF o \in Paths THEN w ELSE Atoi(w)

\* The variables an option sets: the step only if it is given.
Sets(e) ==
  CASE e.opt \in {"threads", "processes"} -> {"process_mode"}
    [] e.opt = "groups" /\ ~InC -> {"lower", "upper"} \cup (IF Len(e.arg[1]) = 3 THEN {"step"} ELSE {})
    [] OTHER -> {e.opt}

ValueOf(e, v) ==
  CASE e.opt \in Flags -> IF e.opt \in {"threads", "pin"} THEN 0 ELSE 1
    [] v = "upper" -> Atoi(IF Len(e.arg[1]) = 3 THEN <<e.arg[1][2]>> ELSE e.arg[1])
    [] v \in {"lower", "step"} -> e.arg[1][IF v = "step" THEN 3 ELSE 1]
    [] OTHER -> Convert(e.opt, e.arg[1])

\* Counts are tested after the conversion; of the others hackbench tests the core.
Refused(e) == \/ e.opt \in Counts /\ ValueOf(e, e.opt) = 0
              \/ program = "hackbench" /\ e.opt = "pin" /\ ValueOf(e, "pin") < 0

\* mutant: the break after case 's' is lost, and its argument goes to case 'l' as well
FallThrough(e) ==
  [v \in DOMAIN value |->
     IF v \in Sets(e) \cup (IF e.opt = "datasize" THEN {"loops"} ELSE {})
       THEN ValueOf(e, v) ELSE value[v]]
Assign(e) == [v \in DOMAIN value |-> IF v \in Sets(e) THEN ValueOf(e, v) ELSE value[v]]

LastOnly(bad) == error' = bad  \* mutant: error is overwritten
Flag(bad)     == error' = (error \/ bad)

\* The hackbenches declare optind inside the loop, the others before it.
GetOpt(opts) ==
  /\ status = "parsing" /\ next <= Len(argv) /\ argv[next].opt \in opts
  /\ next' = next + 1
  /\ optind' = IF argv[next].form # "short" /\ argv[next].opt \in Known
                 THEN SelectInSeq(Table, LAMBDA o : o = argv[next].opt) - 1
                 ELSE IF InC THEN 0 ELSE optind
  /\ UNCHANGED <<program, argv>>

Take(opts) ==
  /\ GetOpt(opts) /\ argv[next].arg # NoArg
  /\ \E missing \in NullAt(optind') :
       \/ missing /\ Flag(TRUE) /\ UNCHANGED <<value, status>>
       \/ /\ ~missing /\ ~Throws(argv[next])
          /\ value' = Assign(argv[next]) /\ Flag(Refused(argv[next])) /\ UNCHANGED status
       \/ ~missing /\ Throws(argv[next]) /\ status' = "aborted" /\ UNCHANGED <<value, error>>

TakeCount == Take(Counts)
TakeValue == Take(Known \ (Flags \cup Counts))

TakeFlag ==
  /\ GetOpt((Flags \cap Known) \ {"help"})
  /\ value' = Assign(argv[next])
  /\ UNCHANGED <<status, error>>

\* The HTTP client and the trackers exit with status 0 after an error too.
GivesUp == status' = IF program \in {"http_client", "tracker"} THEN "exit_0" ELSE "failed"

\* print_usage_and_exit: nothing that follows is looked at.
TakeHelp == GetOpt({"help"}) /\ GivesUp /\ UNCHANGED <<value, error>>

\* getopt_long returns '?': an unknown option, or no word left for an argument.
Unrecognised ==
  /\ GetOpt(Options)
  /\ argv[next].opt \in Known \ Flags => argv[next].arg = NoArg
  /\ argv[next].opt \notin Flags \cap Known
  /\ Flag(TRUE)
  /\ UNCHANGED <<value, status>>

Finish ==
  /\ status = "parsing" /\ next > Len(argv)
  /\ IF error THEN GivesUp ELSE status' = "ok"
  /\ UNCHANGED <<program, argv, next, optind, value, error>>

Next == TakeCount \/ TakeValue \/ TakeFlag \/ TakeHelp \/ Unrecognised \/ Finish

Spec == Init /\ [][Next]_vars

----------------------------------------------------------------------------
(* Properties.                                                              *)

\* An argument is what the usage asks for: of a count a number that is greater than 0,
\* otherwise an integer, or three for the groups of a launcher.
AsAsked(e) ==
  LET w == e.arg[1]
  IN  \/ e.opt \in Flags \cup Paths
      \/ e.opt \in Counts /\ Len(w) = 1 /\ w[1] > 0
      \/ e.opt \in Numbers /\ (Len(w) = 1 \/ (Len(w) = 3 /\ e.opt = "groups"))

\* What such an argument says of a variable: the words themselves, not what a
\* conversion makes of them.
Meaning(e, v) ==
  LET w == e.arg[1]
  IN  CASE e.opt \in Flags -> IF e.opt \in {"threads", "pin"} THEN 0 ELSE 1
        [] e.opt \in Paths -> w
        [] e.opt \notin Flags \cup Paths /\ Len(w) = 3 ->
             w[IF v = "lower" THEN 1 ELSE IF v = "upper" THEN 2 ELSE 3]
        [] OTHER -> w[1]

\* An accepted command line means what it says, in whatever form and order the
\* options came: the last one that sets a variable decides, if its argument is what
\* the usage asks for; a variable that no option sets has its default.
AcceptedAsGiven ==
  status = "ok" =>
    \A v \in DOMAIN value :
      LET given == {n \in 1 .. Len(argv) : v \in Sets(argv[n])}
          last  == argv[CHOOSE n \in given : \A m \in given : m <= n]
      IN  IF given = {} THEN value[v] = Default[v]
          ELSE AsAsked(last) => value[v] = Meaning(last, v)

\* What is refused, in words: an unknown option, a missing argument, a word where a C++
\* program reads a number, a word or 0 as a count, a negative core of hackbench.
Bad(e) ==
  LET w == e.arg[1]
  IN  \/ e.opt \notin Known
      \/ e.opt \notin Flags /\ e.arg = NoArg
      \/ e.opt \in Numbers \ Flags /\ ~InC /\ ~(Len(w) = 1 \/ (Len(w) = 3 /\ e.opt = "groups"))
      \/ e.opt \in Counts /\ (Len(w) # 1 \/ w[1] = 0)
      \/ program = "hackbench" /\ e.opt = "pin" /\ Len(w) = 1 /\ w[1] < 0

\* One bad option is enough, a later good one does not make up for it.  And in the short
\* form, whose argument is not looked for in the wrong place, nothing else ends the
\* program: not a negative count, no repetitions, or a word as the core of hackbench,
\* though the messages say "requires an integer > 0" (hackbench.c:348), "Has to be
\* greater than 0" (launcher.cpp:82) and "requires an integer >= 0" (hackbench.c:366).
BadRejected ==
  /\ status = "ok" => \A n \in 1 .. Len(argv) : ~Bad(argv[n])
  /\ status \notin {"parsing", "ok"} /\ (\A n \in 1 .. Len(argv) : argv[n].form = "short") =>
       \E n \in 1 .. Len(argv) : Bad(argv[n]) \/ argv[n].opt = "help"

----------------------------------------------------------------------------
(* What the source says of itself and the programs do not do.               *)

WellFormed == \A n \in 1 .. Len(argv) :
  /\ argv[n].opt \in Known \ {"help"}
  /\ argv[n].opt \notin Flags => argv[n].arg # NoArg /\ Atoi(argv[n].arg[1]) > 0

\* hackbench.c:348 "--groups|-g requires an integer > 0" and launcher.cpp:183
\* "Missing arg for -f": who gives every option an argument, and a positive one,
\* is not told so.
NothingMissing == WellFormed => status # "failed"
============================================================================
