------------------------- MODULE ToyLauncherProofs -------------------------
(***************************************************************************)
(* What holds of ToyLauncher for all arguments of the program, every size  *)
(* of the process table and every choice of faults.                        *)
(***************************************************************************)
EXTENDS ToyLauncher, WellFoundedInduction, TLAPS

\* Operators that have a name of their own for the mutants only.
USE DEF MorePairs, GotFib, Await

----------------------------------------------------------------------------
(* The inductive invariant.                                                 *)

Places == {"loop", "fork_hackbench", "sleep", "fork_fib", "wait_fib", "check", "kill",
           "wait_hackbench", "next", "dead"}
Lives  == L(1)!Lives
Down   == L(1)!Down

\* A process is where its program can be, and only dead ones are reaped.
KindOf(p) ==
  /\ proc[p].prog = "launcher"  => proc[p].at \in Places
  /\ proc[p].prog = "hackbench" => proc[p].at \in Lives
  /\ proc[p].prog = "fib"       => proc[p].at \in {"running", "dead"}
  /\ proc[p].reaped             => proc[p].at \in Down \cup {"dead"}

KindInv == \A p \in Pid : KindOf(p)

\* The hackbench of any launcher, also of one that is the copy of another, stays its own
\* unreaped child from its fork to the kill; what wait() returns before is fib or makes
\* the launcher give up the trial.  In a copy that failed to become fib, the pid of
\* hackbench is its parent's; but then the pid of fib is 0, which wait() never returns.
HoldsOwn(p) == proc[p].hackbench > 0 => proc[p].hackbench \in Unreaped(p)

OwnOf(p) ==
  /\ proc[p].at \in {"sleep", "fork_fib", "kill"} => HoldsOwn(p)
  /\ proc[p].at = "wait_fib" /\ proc[p].fib # 0 =>
       HoldsOwn(p) /\ (proc[p].hackbench > 0 => proc[p].hackbench # proc[p].fib)
  /\ proc[p].at = "check" => proc[p].wait_pid # 0 /\ (GotFib(p) => HoldsOwn(p))

OwnInv == \A p \in Pid : proc[p].prog = "launcher" => OwnOf(p)

\* As long as nothing has failed there is one launcher, and its children are dead and
\* reaped, but for the hackbench and the fib of the trial while it needs them.
Main == proc[1]

Held == CASE Main.at = "wait_fib" -> {Main.hackbench, Main.fib}
          [] Main.at \in {"sleep", "fork_fib", "check", "kill", "wait_hackbench"} ->
               {Main.hackbench}
          [] OTHER -> {}

Child(c, prog) ==
  /\ c \in Pid \ {1} /\ proc[c].prog = prog /\ proc[c].trial = Main.trial /\ ~proc[c].reaped

SoleInv ==
  /\ Main.prog = "launcher" /\ ~Main.reaped
  /\ \A q \in Pid \ {1} : proc[q].prog # "none" =>
       /\ proc[q].prog \in {"hackbench", "fib"} /\ proc[q].parent = 1
       /\ proc[q].reaped \/ q \in Held

LoadInv ==
  /\ Main.hackbench \in Held => Child(Main.hackbench, "hackbench")
  /\ Main.at = "sleep" =>
       proc[Main.hackbench].at \in {"boot", "spawning", "spawned", "loaded"}
  /\ Main.at \in {"fork_fib", "wait_fib", "check", "kill"} => proc[Main.hackbench].at = "loaded"
  /\ Main.at = "wait_hackbench" => proc[Main.hackbench].at \in {"stopping", "clean"}
  /\ Main.at = "wait_fib" => Child(Main.fib, "fib")
  /\ Main.at = "check" => GotFib(1)

\* The log follows the loops: a steps of pairs and b of fib have been made.
Fibs  == (MaxFib - MinFib) \div FibStep + 1
Pairs == (MaxPairs - MinPairs) \div PairsStep + 1

Logged == \/ Main.at \in {"check", "kill", "wait_hackbench", "next"}
          \/ Main.at = "wait_fib" /\ proc[Main.fib].at = "dead"

Entry(n) == [pairs |-> MinPairs + PairsStep * ((n - 1) \div (Fibs * NumReps)),
             fib   |-> MinFib + FibStep * (((n - 1) \div NumReps) % Fibs),
             rep   |-> (n - 1) % NumReps]

Counts(a, b) ==
  /\ Main.trial.pairs = MinPairs + PairsStep * a /\ Main.trial.fib = MinFib + FibStep * b
  /\ Len(log) = (a * Fibs + b) * NumReps + Main.trial.rep + (IF Logged THEN 1 ELSE 0)

LogInv ==
  /\ \E a \in 0 .. Pairs, b \in 0 .. Fibs - 1 : Counts(a, b)
  /\ Main.trial.pairs > MaxPairs =>
       Main.trial.fib = MinFib /\ Main.trial.rep = 0 /\ Main.at \in {"loop", "dead"}
  /\ Main.at = "dead" => Main.trial.pairs > MaxPairs
  /\ \A n \in 1 .. Len(log) : log[n] = Entry(n)

CalmInv == faults = 0 => SoleInv /\ LoadInv /\ LogInv

LauncherInv == TypeOK /\ KindInv /\ OwnInv /\ CalmInv

----------------------------------------------------------------------------
(* Values.                                                                  *)

Ats == Places \cup {"running"} \cup Lives

\* The children as LoadGenerator has them.
LEMMA LifeSets ==
  /\ Down = {"clean", "leaky"}
  /\ Lives = {"clean", "leaky", "boot", "spawning", "spawned", "loaded", "stopping", "aborting"}
  /\ L(1)!SignalMoves = {<<"boot", "clean">>, <<"spawning", "aborting">>,
                         <<"spawned", "stopping">>, <<"loaded", "stopping">>}
  /\ L(1)!Progress = {<<"boot", "spawning">>, <<"spawning", "spawned">>, <<"spawned", "loaded">>,
                      <<"stopping", "clean">>, <<"aborting", "clean">>, <<"aborting", "leaky">>}
  /\ \A m \in L(1)!SelfMoves : m[1] \notin Down /\ m[1] \in Lives /\ m[2] \in Lives
BY DEF Down, Lives, L!Down, L!Lives, L!SignalMoves, L!Progress, L!LoadMoves, L!StopMoves,
       L!EndMoves, L!SelfMoves, L!FaultMoves

\* A process is a record.
LEMMA Records ==
  Process = [prog : {"none", "launcher", "hackbench", "fib"}, parent : Pid \cup {0}, at : Ats,
             reaped : BOOLEAN, trial : Trial,
             hackbench : Pid \cup {-1, 0}, fib : Pid \cup {-1, 0}, wait_pid : Pid \cup {-1, 0}]
<1>1. {"loop", "fork_hackbench", "sleep", "fork_fib", "wait_fib", "check", "kill",
       "wait_hackbench", "next", "running", "dead"} \cup L(1)!Lives = Ats
  BY DEF Ats, Places, Lives
<1>2. QED
  BY <1>1 DEF Process

\* The fields of a process.
LEMMA Fields ==
  ASSUME TypeOK, NEW p \in Pid
  PROVE  /\ proc[p] \in Process /\ p > 0
         /\ proc[p].prog \in {"none", "launcher", "hackbench", "fib"}
         /\ proc[p].parent \in Pid \cup {0} /\ proc[p].at \in Ats /\ proc[p].reaped \in BOOLEAN
         /\ proc[p].trial \in Trial
         /\ proc[p].hackbench \in Pid \cup {-1, 0} /\ proc[p].fib \in Pid \cup {-1, 0}
         /\ proc[p].wait_pid \in Pid \cup {-1, 0}
<1>1. proc[p] \in Process /\ p > 0
  BY DEF TypeOK, Pid
<1>2. QED
  BY <1>1, Records

\* A process that is somewhere else.
LEMMA Changed ==
  ASSUME NEW r \in Process, NEW a \in Ats
  PROVE  [r EXCEPT !.at = a] \in Process
BY Records

\* There is a process table, and the first trial is one.
LEMMA Arguments ==
  /\ MinPairs \in Nat \ {0} /\ MaxPairs \in Nat \ {0} /\ PairsStep \in Nat \ {0}
  /\ MinFib \in Nat \ {0} /\ MaxFib \in Nat \ {0} /\ FibStep \in Nat \ {0}
  /\ NumReps \in Nat \ {0} /\ MinPairs <= MaxPairs /\ MinFib <= MaxFib
  /\ MaxPids \in Nat \ {0} /\ MaxFaults \in Nat \ {0} /\ 1 \in Pid
  /\ [pairs |-> MinPairs, fib |-> MinFib, rep |-> 0] \in Trial
<1>1. /\ MinPairs \in Nat \ {0} /\ MaxPairs \in Nat \ {0} /\ PairsStep \in Nat \ {0}
      /\ MinFib \in Nat \ {0} /\ MaxFib \in Nat \ {0} /\ FibStep \in Nat \ {0}
      /\ NumReps \in Nat \ {0} /\ MinPairs <= MaxPairs /\ MinFib <= MaxFib
  BY ArgumentsAssumption
<1>2. MaxPids \in Nat \ {0} /\ MaxFaults \in Nat \ {0}
  BY FaultsAssumption
<1>3. 0 \in 0 .. NumReps - 1 /\ 1 \in Pid
  BY <1>1, <1>2 DEF Pid
<1>4. QED
  BY <1>1, <1>2, <1>3 DEF Trial

\* An entry of the process table that is not used.
LEMMA UnusedType == Unused \in Process /\ Unused.prog = "none" /\ ~Unused.reaped
<1>1. "dead" \in Ats
  BY DEF Ats, Places
<1>2. QED
  BY <1>1, Arguments, Records DEF Unused

----------------------------------------------------------------------------
(* What a step leaves alone.                                                *)

Kept(q) == proc'[q] = proc[q]

\* Only the place may differ.
Rest(q) ==
  /\ proc'[q].prog = proc[q].prog /\ proc'[q].parent = proc[q].parent
  /\ proc'[q].reaped = proc[q].reaped /\ proc'[q].trial = proc[q].trial
  /\ proc'[q].hackbench = proc[q].hackbench /\ proc'[q].fib = proc[q].fib
  /\ proc'[q].wait_pid = proc[q].wait_pid

\* A free entry of the table is found when there is one.
LEMMA NewIsFree ==
  ASSUME Free # {}
  PROVE  New \in Free /\ New \in Pid /\ proc[New].prog = "none"
<1> DEFINE R == OpToRel(<, Nat)
<1>1. Free \subseteq Nat /\ Free \subseteq Pid
  BY DEF Free, Pid
<1>2. IsWellFoundedOn(R, Nat)
  BY NatLessThanWellFounded
<1>3. PICK x \in Free : \A y \in Free : <<y, x>> \notin R
  <2> HIDE DEF R
  <2>1. QED
    BY <1>1, <1>2, WFMin
<1>4. \A y \in Free : ~(y < x) /\ x \in Nat /\ y \in Nat
  BY <1>1, <1>3 DEF OpToRel
<1>5. \A y \in Free : x <= y
  BY <1>4
<1>6. New \in Free
  BY <1>5 DEF New
<1>7. QED
  BY <1>1, <1>6 DEF Free

\* A process that moves.
LEMMA MoveFrame ==
  ASSUME TypeOK, NEW p \in Pid, NEW to \in Ats, proc' = [proc EXCEPT ![p].at = to]
  PROVE  /\ \A q \in Pid : q # p => Kept(q)
         /\ \A q \in Pid : Rest(q)
         /\ proc'[p].at = to
         /\ proc' \in [Pid -> Process]
<1>1. proc \in [Pid -> Process] /\ proc[p] \in Process
  BY DEF TypeOK
<1>2. proc' = [proc EXCEPT ![p] = [proc[p] EXCEPT !.at = to]]
  OBVIOUS
<1>3. [proc[p] EXCEPT !.at = to] \in Process
  BY <1>1, Changed
<1>4. \A q \in Pid : q # p => Kept(q)
  BY <1>1, <1>2 DEF Kept
<1>5. proc'[p] = [proc[p] EXCEPT !.at = to]
  BY <1>1, <1>2
<1>6. Rest(p) /\ proc'[p].at = to
  BY <1>1, <1>5, Records DEF Rest
<1>7. QED
  BY <1>1, <1>2, <1>3, <1>4, <1>6 DEF Rest, Kept

\* A launcher that goes on to the next trial.
LEMMA NextFrame ==
  ASSUME TypeOK, NEW p \in Pid, NextTrial(p)
  PROVE  /\ proc[p].at = "next" /\ proc'[p].at = "loop"
         /\ \A q \in Pid : q # p => Kept(q)
         /\ proc'[p].prog = proc[p].prog /\ proc'[p].parent = proc[p].parent
         /\ proc'[p].reaped = proc[p].reaped /\ proc'[p].trial = After(proc[p].trial)
         /\ proc'[p].hackbench = proc[p].hackbench /\ proc'[p].fib = proc[p].fib
         /\ proc'[p].wait_pid = proc[p].wait_pid
         /\ After(proc[p].trial) \in Trial
         /\ proc' \in [Pid -> Process]
<1>1. proc \in [Pid -> Process] /\ proc[p] \in Process /\ proc[p].trial \in Trial
  BY Fields DEF TypeOK
<1> DEFINE t == proc[p].trial
<1>2. After(t) \in Trial
  <2>1. /\ t \in Trial /\ t.pairs \in Nat /\ t.fib \in Nat /\ t.rep \in 0 .. NumReps - 1
    BY <1>1 DEF Trial
  <2> HIDE DEF t
  <2>2. t.rep + 1 < NumReps => [t EXCEPT !.rep = @ + 1] \in Trial
    BY <2>1, Arguments DEF Trial
  <2>3. [t EXCEPT !.rep = 0, !.fib = @ + FibStep] \in Trial
    <3> DEFINE u == [t EXCEPT !.rep = 0]
    <3>1. u \in Trial /\ u.fib = t.fib
      BY <2>1, Arguments DEF Trial
    <3>2. [t EXCEPT !.rep = 0, !.fib = @ + FibStep] = [u EXCEPT !.fib = t.fib + FibStep]
      BY <2>1 DEF Trial
    <3>3. t.fib + FibStep \in Nat
      BY <2>1, Arguments
    <3> HIDE DEF u
    <3>4. [u EXCEPT !.fib = t.fib + FibStep] \in Trial
      BY <3>1, <3>3 DEF Trial
    <3>5. QED
      BY <3>2, <3>4
  <2>4. [pairs |-> t.pairs + PairsStep, fib |-> MinFib, rep |-> 0] \in Trial
    BY <2>1, Arguments DEF Trial
  <2>5. QED
    BY <2>2, <2>3, <2>4 DEF After
<1>3. /\ proc[p].at = "next"
      /\ proc' = [proc EXCEPT ![p] = [proc[p] EXCEPT !.at = "loop", !.trial = After(t)]]
  BY DEF NextTrial
<1>4. [proc[p] EXCEPT !.at = "loop", !.trial = After(t)] \in Process
  <2>1. "loop" \in Ats
    BY DEF Ats, Places
  <2>2. QED
    BY <1>1, <1>2, <2>1, Records
<1>5. proc'[p] = [proc[p] EXCEPT !.at = "loop", !.trial = After(t)]
  BY <1>1, <1>3
<1>6. \A q \in Pid : q # p => Kept(q)
  BY <1>1, <1>3 DEF Kept
<1>7. proc' \in [Pid -> Process]
  BY <1>1, <1>3, <1>4
<1> HIDE DEF t
<1>8. QED
  BY <1>1, <1>2, <1>3, <1>5, <1>6, <1>7, Records DEF t

\* A fork that succeeds: the launcher holds the new pid.
LEMMA ForkFrame ==
  ASSUME TypeOK, NEW p \in Pid, proc[p].prog = "launcher", NEW var \in {"hackbench", "fib"},
         NEW to \in Ats, NEW child \in Process, Fork(p, var, to, child)
  PROVE  /\ New \in Pid /\ New # p /\ New > 0 /\ proc[New].prog = "none"
         /\ \A q \in Pid : q # p /\ q # New => Kept(q)
         /\ proc'[p].at = to
         /\ proc'[p].hackbench = IF var = "hackbench" THEN New ELSE proc[p].hackbench
         /\ proc'[p].fib = IF var = "fib" THEN New ELSE proc[p].fib
         /\ proc'[p].prog = proc[p].prog /\ proc'[p].parent = proc[p].parent
         /\ proc'[p].reaped = proc[p].reaped /\ proc'[p].trial = proc[p].trial
         /\ proc'[p].wait_pid = proc[p].wait_pid
         /\ proc'[New].parent = p /\ proc'[New].trial = proc[p].trial
         /\ proc'[New].prog = child.prog /\ proc'[New].at = child.at
         /\ proc'[New].reaped = child.reaped /\ proc'[New].hackbench = child.hackbench
         /\ proc'[New].fib = child.fib /\ proc'[New].wait_pid = child.wait_pid
         /\ proc' \in [Pid -> Process]
<1> DEFINE n == New
           r == [proc[p] EXCEPT ![var] = n, !.at = to]
           c == [child EXCEPT !.parent = p, !.trial = proc[p].trial]
<1>1. proc \in [Pid -> Process] /\ proc[p] \in Process /\ proc[p].trial \in Trial
  BY Fields DEF TypeOK
<1>2. n \in Pid /\ proc[n].prog = "none" /\ n # p /\ n > 0
  <2>1. Free # {}
    BY DEF Fork
  <2>2. New \in Pid /\ proc[New].prog = "none"
    BY <2>1, NewIsFree
  <2>3. New > 0
    BY <2>2 DEF Pid
  <2>4. QED
    BY <2>2, <2>3
<1>3. proc' = [proc EXCEPT ![p] = r, ![n] = c]
  BY DEF Fork
<1> HIDE DEF n
<1>4. /\ r \in Process /\ r.at = to /\ r.prog = proc[p].prog /\ r.parent = proc[p].parent
      /\ r.reaped = proc[p].reaped /\ r.trial = proc[p].trial /\ r.wait_pid = proc[p].wait_pid
      /\ r.hackbench = IF var = "hackbench" THEN n ELSE proc[p].hackbench
      /\ r.fib = IF var = "fib" THEN n ELSE proc[p].fib
  <2>1. CASE var = "hackbench"
    BY <1>1, <1>2, <2>1, Records
  <2>2. CASE var = "fib"
    BY <1>1, <1>2, <2>2, Records
  <2>3. QED
    BY <2>1, <2>2
<1>5. /\ c \in Process /\ c.parent = p /\ c.trial = proc[p].trial /\ c.prog = child.prog
      /\ c.at = child.at /\ c.reaped = child.reaped /\ c.hackbench = child.hackbench
      /\ c.fib = child.fib /\ c.wait_pid = child.wait_pid
  BY <1>1, Records
<1> HIDE DEF r, c
<1>6. proc'[p] = r /\ proc'[n] = c /\ \A q \in Pid : q # p /\ q # n => Kept(q)
  BY <1>1, <1>2, <1>3 DEF Kept
<1>7. proc' \in [Pid -> Process]
  BY <1>1, <1>3, <1>4, <1>5
<1>8. QED
  BY <1>2, <1>4, <1>5, <1>6, <1>7 DEF n

\* The child of a fork, if the program can be executed.
Exec(prog, start) == [Unused EXCEPT !.prog = prog, !.at = start]

LEMMA Executed ==
  ASSUME NEW prog \in {"hackbench", "fib"}, NEW start \in {"boot", "running"}
  PROVE  /\ Exec(prog, start) \in Process /\ Exec(prog, start).prog = prog
         /\ Exec(prog, start).at = start /\ ~Exec(prog, start).reaped
<1> USE DEF Exec
<1>1. start \in Ats
  BY LifeSets DEF Ats
<1>2. QED
  BY <1>1, UnusedType, Arguments, Records DEF Unused

\* The copy goes on with its own variables, in which the fork returned 0.
CopyOf(p, var, to) == [proc[p] EXCEPT ![var] = 0, !.at = to]

LEMMA Copied ==
  ASSUME TypeOK, NEW p \in Pid, NEW var \in {"hackbench", "fib"}, NEW to \in Ats
  PROVE  LET c == CopyOf(p, var, to)
         IN  /\ c \in Process /\ c.prog = proc[p].prog /\ c.at = to /\ c.reaped = proc[p].reaped
             /\ c.hackbench = IF var = "hackbench" THEN 0 ELSE proc[p].hackbench
             /\ c.fib = IF var = "fib" THEN 0 ELSE proc[p].fib
<1> USE DEF CopyOf
<1>1. proc[p] \in Process
  BY Fields
<1>2. CASE var = "hackbench"
  BY <1>1, <1>2, Records
<1>3. CASE var = "fib"
  BY <1>1, <1>3, Records
<1>4. QED
  BY <1>2, <1>3

\* A fork that fails: the launcher holds -1.
NoFork(p, var, to) == proc' = [proc EXCEPT ![p] = [@ EXCEPT ![var] = -1, !.at = to]]

LEMMA NoForkFrame ==
  ASSUME TypeOK, NEW p \in Pid, NEW var \in {"hackbench", "fib"}, NEW to \in Ats,
         NoFork(p, var, to)
  PROVE  /\ \A q \in Pid : q # p => Kept(q)
         /\ proc'[p].at = to
         /\ proc'[p].hackbench = IF var = "hackbench" THEN -1 ELSE proc[p].hackbench
         /\ proc'[p].fib = IF var = "fib" THEN -1 ELSE proc[p].fib
         /\ proc'[p].prog = proc[p].prog /\ proc'[p].parent = proc[p].parent
         /\ proc'[p].reaped = proc[p].reaped /\ proc'[p].trial = proc[p].trial
         /\ proc'[p].wait_pid = proc[p].wait_pid
         /\ proc' \in [Pid -> Process]
<1> DEFINE r == [proc[p] EXCEPT ![var] = -1, !.at = to]
<1>1. proc \in [Pid -> Process] /\ proc[p] \in Process
  BY DEF TypeOK
<1>2. /\ r \in Process /\ r.at = to /\ r.prog = proc[p].prog /\ r.parent = proc[p].parent
      /\ r.reaped = proc[p].reaped /\ r.trial = proc[p].trial /\ r.wait_pid = proc[p].wait_pid
      /\ r.hackbench = IF var = "hackbench" THEN -1 ELSE proc[p].hackbench
      /\ r.fib = IF var = "fib" THEN -1 ELSE proc[p].fib
  <2>1. CASE var = "hackbench"
    BY <1>1, <2>1, Records
  <2>2. CASE var = "fib"
    BY <1>1, <2>2, Records
  <2>3. QED
    BY <2>1, <2>2
<1>3. proc' = [proc EXCEPT ![p] = r]
  BY DEF NoFork
<1> HIDE DEF r
<1>4. QED
  BY <1>1, <1>2, <1>3 DEF Kept

\* What is alive, and whose child is still to be reaped.
LEMMA AliveIs ==
  /\ \A q : q \in Alive <=> q \in Pid /\ proc[q].prog # "none" /\ proc[q].at \notin Down \cup {"dead"}
  /\ \A p, c : c \in Unreaped(p) <=>
       c \in Pid /\ proc[c].prog # "none" /\ proc[c].parent = p /\ ~proc[c].reaped
<1>1. \A q : q \in Alive <=> q \in Pid /\ proc[q].prog # "none" /\ proc[q].at \notin Down \cup {"dead"}
  BY DEF Alive, Free, Down
<1>2. \A p, c : c \in Unreaped(p) <=>
        c \in Pid /\ proc[c].prog # "none" /\ proc[c].parent = p /\ ~proc[c].reaped
  BY DEF Unreaped, Free
<1>3. QED
  BY <1>1, <1>2

\* wait(NULL): one child is reaped, or there is none.
LEMMA WaitFrame ==
  ASSUME TypeOK, NEW p \in Pid, p \in Alive, NEW to \in Ats, Wait(p, to)
  PROVE  /\ \/ Unreaped(p) = {} /\ proc'[p].wait_pid = -1 /\ \A q \in Pid : q # p => Kept(q)
            \/ \E c \in Unreaped(p) :
                 /\ c \in Pid /\ c \notin Alive /\ c # p /\ proc'[p].wait_pid = c /\ proc'[c].reaped
                 /\ proc'[c].prog = proc[c].prog /\ proc'[c].parent = proc[c].parent
                 /\ proc'[c].at = proc[c].at /\ proc'[c].trial = proc[c].trial
                 /\ proc'[c].hackbench = proc[c].hackbench /\ proc'[c].fib = proc[c].fib
                 /\ proc'[c].wait_pid = proc[c].wait_pid
                 /\ \A q \in Pid : q # p /\ q # c => Kept(q)
         /\ proc'[p].at = to
         /\ proc'[p].prog = proc[p].prog /\ proc'[p].parent = proc[p].parent
         /\ proc'[p].reaped = proc[p].reaped /\ proc'[p].trial = proc[p].trial
         /\ proc'[p].hackbench = proc[p].hackbench /\ proc'[p].fib = proc[p].fib
         /\ proc' \in [Pid -> Process]
<1>1. proc \in [Pid -> Process] /\ proc[p] \in Process
  BY DEF TypeOK
<1>2. CASE Unreaped(p) = {} /\ proc' = [proc EXCEPT ![p].wait_pid = -1, ![p].at = to]
  <2> DEFINE r == [proc[p] EXCEPT !.wait_pid = -1, !.at = to]
  <2>1. proc' = [proc EXCEPT ![p] = r]
    BY <1>1, <1>2
  <2>2. /\ r \in Process /\ r.at = to /\ r.wait_pid = -1
        /\ r.prog = proc[p].prog /\ r.parent = proc[p].parent /\ r.reaped = proc[p].reaped
        /\ r.trial = proc[p].trial /\ r.hackbench = proc[p].hackbench /\ r.fib = proc[p].fib
    BY <1>1, Records
  <2> HIDE DEF r
  <2>3. QED
    BY <1>1, <1>2, <2>1, <2>2 DEF Kept
<1>3. ASSUME NEW c \in Unreaped(p) \ Alive,
             proc' = [proc EXCEPT ![c].reaped = TRUE, ![p].wait_pid = c, ![p].at = to]
      PROVE  /\ c \in Pid /\ c \notin Alive /\ c # p /\ proc'[p].wait_pid = c /\ proc'[c].reaped
             /\ proc'[c].prog = proc[c].prog /\ proc'[c].parent = proc[c].parent
             /\ proc'[c].at = proc[c].at /\ proc'[c].trial = proc[c].trial
             /\ proc'[c].hackbench = proc[c].hackbench /\ proc'[c].fib = proc[c].fib
             /\ proc'[c].wait_pid = proc[c].wait_pid
             /\ \A q \in Pid : q # p /\ q # c => Kept(q)
             /\ proc'[p].at = to
             /\ proc'[p].prog = proc[p].prog /\ proc'[p].parent = proc[p].parent
             /\ proc'[p].reaped = proc[p].reaped /\ proc'[p].trial = proc[p].trial
             /\ proc'[p].hackbench = proc[p].hackbench /\ proc'[p].fib = proc[p].fib
             /\ proc' \in [Pid -> Process]
  <2> DEFINE r == [proc[p] EXCEPT !.wait_pid = c, !.at = to]
             s == [proc[c] EXCEPT !.reaped = TRUE]
  <2>1. c \in Pid /\ c # p /\ proc[c] \in Process
    BY <1>1, AliveIs
  <2>2. proc' = [proc EXCEPT ![c] = s, ![p] = r]
    BY <1>1, <1>3, <2>1
  <2>3. /\ r \in Process /\ r.at = to /\ r.wait_pid = c
        /\ r.prog = proc[p].prog /\ r.parent = proc[p].parent /\ r.reaped = proc[p].reaped
        /\ r.trial = proc[p].trial /\ r.hackbench = proc[p].hackbench /\ r.fib = proc[p].fib
    BY <1>1, <2>1, Records
  <2>4. /\ s \in Process /\ s.reaped /\ s.at = proc[c].at
        /\ s.prog = proc[c].prog /\ s.parent = proc[c].parent /\ s.trial = proc[c].trial
        /\ s.hackbench = proc[c].hackbench /\ s.fib = proc[c].fib /\ s.wait_pid = proc[c].wait_pid
    BY <2>1, Records
  <2> HIDE DEF r, s
  <2>5. proc'[p] = r /\ proc'[c] = s /\ \A q \in Pid : q # p /\ q # c => Kept(q)
    BY <1>1, <2>1, <2>2 DEF Kept
  <2>6. proc' \in [Pid -> Process]
    BY <1>1, <2>2, <2>3, <2>4
  <2>7. QED
    BY <2>1, <2>3, <2>4, <2>5, <2>6
<1>4. QED
  BY <1>2, <1>3 DEF Wait

\* What SIGTERM makes of a process.
LEMMA TerminatedIs ==
  ASSUME TypeOK, NEW q \in Pid
  PROVE  /\ Terminated(q) \in Ats
         /\ proc[q].prog # "hackbench" => Terminated(q) = "dead"
         /\ proc[q].prog = "hackbench" /\ proc[q].at \in Lives => Terminated(q) \in Lives
         /\ proc[q].prog = "hackbench" /\ proc[q].at = "loaded" => Terminated(q) = "stopping"
<1> DEFINE to == {l \in L(1)!Lives : <<proc[q].at, l>> \in L(1)!SignalMoves}
<1>1. proc[q].prog # "hackbench" => Terminated(q) = "dead"
  BY DEF Terminated
<1>2. proc[q].prog = "hackbench" /\ to = {} => Terminated(q) = proc[q].at
  BY DEF Terminated
<1>3. proc[q].prog = "hackbench" /\ to # {} => Terminated(q) \in to
  BY DEF Terminated
<1>4. to \subseteq Lives /\ \A l \in Lives : l \in to <=> <<proc[q].at, l>> \in L(1)!SignalMoves
  BY DEF Lives
<1>5. proc[q].at = "loaded" => to = {"stopping"}
  <2>1. ASSUME proc[q].at = "loaded" PROVE \A l \in Lives : l \in to <=> l = "stopping"
    BY <1>4, <2>1, LifeSets
  <2>2. "stopping" \in Lives
    BY LifeSets
  <2> HIDE DEF to
  <2>3. QED
    BY <1>4, <2>1, <2>2
<1> HIDE DEF to
<1>6. proc[q].at \in Ats /\ "dead" \in Ats /\ Lives \subseteq Ats
  BY Fields DEF Ats, Places
<1>7. QED
  BY <1>1, <1>2, <1>3, <1>4, <1>5, <1>6

\* A signal: only what is alive and has the pid is reached.
LEMMA SignalFrame ==
  ASSUME TypeOK, NEW p \in Pid, NEW pid, Signal(p, pid)
  PROVE  /\ \A q \in Pid : Rest(q)
         /\ \A q \in Reached(p, pid) : q \in Alive /\ proc'[q].at = Terminated(q)
         /\ p \notin Reached(p, pid) => proc'[p].at = "wait_hackbench"
         /\ \A q \in Pid : q # p /\ q \notin Reached(p, pid) => Kept(q)
         /\ proc' \in [Pid -> Process]
<1> DEFINE R == Reached(p, pid)
           new(q) == IF q \in R THEN [proc[q] EXCEPT !.at = Terminated(q)]
                     ELSE IF q = p THEN [proc[q] EXCEPT !.at = "wait_hackbench"]
                     ELSE proc[q]
<1>1. proc \in [Pid -> Process] /\ "wait_hackbench" \in Ats
  BY DEF TypeOK, Ats, Places
<1>2. R \subseteq Alive
  BY DEF Reached
<1> HIDE DEF R
<1>3. \A q \in Pid : proc'[q] = new(q)
  BY DEF Signal, R
<1>4. ASSUME NEW q \in Pid
      PROVE  /\ new(q) \in Process
             /\ new(q).prog = proc[q].prog /\ new(q).parent = proc[q].parent
             /\ new(q).reaped = proc[q].reaped /\ new(q).trial = proc[q].trial
             /\ new(q).hackbench = proc[q].hackbench /\ new(q).fib = proc[q].fib
             /\ new(q).wait_pid = proc[q].wait_pid
             /\ new(q).at = IF q \in R THEN Terminated(q)
                            ELSE IF q = p THEN "wait_hackbench" ELSE proc[q].at
  <2>1. proc[q] \in Process /\ Terminated(q) \in Ats
    BY <1>1, TerminatedIs
  <2>2. \A a \in Ats : LET r == [proc[q] EXCEPT !.at = a]
                       IN  /\ r \in Process /\ r.at = a
                           /\ r.prog = proc[q].prog /\ r.parent = proc[q].parent
                           /\ r.reaped = proc[q].reaped /\ r.trial = proc[q].trial
                           /\ r.hackbench = proc[q].hackbench /\ r.fib = proc[q].fib
                           /\ r.wait_pid = proc[q].wait_pid
    BY <2>1, Records
  <2>3. QED
    BY <1>1, <2>1, <2>2
<1>5. proc' = [q \in Pid |-> new(q)]
  BY DEF Signal, R
<1>6. proc' \in [Pid -> Process]
  <2> HIDE DEF new
  <2>1. QED
    BY <1>4, <1>5
<1>7. \A q \in Pid : Rest(q)
  <2> HIDE DEF new
  <2>1. QED
    BY <1>3, <1>4 DEF Rest
<1>8. \A q \in R : q \in Alive /\ proc'[q].at = Terminated(q)
  BY <1>2, <1>3, <1>4, AliveIs
<1>9. p \notin R => proc'[p].at = "wait_hackbench"
  BY <1>3, <1>4
<1>10. \A q \in Pid : q # p /\ q \notin R => Kept(q)
  BY <1>3 DEF Kept
<1>11. QED
  BY <1>6, <1>7, <1>8, <1>9, <1>10 DEF R

----------------------------------------------------------------------------
(* Types, and where a process can be.                                       *)

\* A launcher that can take a step is alive.
LEMMA AtWork ==
  ASSUME TypeOK, NEW p \in Pid, proc[p].prog = "launcher", proc[p].at \in Places \ {"dead"}
  PROVE  p \in Alive
BY AliveIs, LifeSets DEF Places

\* The steps of a launcher that change its place only.
LEMMA PlainFrame ==
  ASSUME TypeOK, NEW p \in Pid, BeginTrial(p) \/ SleepOver(p) \/ Check(p)
  PROVE  /\ \A q \in Pid : q # p => Kept(q)
         /\ \A q \in Pid : Rest(q)
         /\ proc'[p].at \in {"fork_hackbench", "dead", "fork_fib", "kill", "next"}
         /\ proc' \in [Pid -> Process]
         /\ BeginTrial(p) => proc[p].at = "loop" /\ proc'[p].at = IF MorePairs(proc[p].trial)
                                                                    THEN "fork_hackbench" ELSE "dead"
         /\ SleepOver(p) => proc[p].at = "sleep" /\ proc'[p].at = "fork_fib"
         /\ Check(p) => proc[p].at = "check" /\ proc'[p].at = IF GotFib(p) THEN "kill" ELSE "next"
<1>1. \A a \in {"fork_hackbench", "dead", "fork_fib", "kill", "next"} : a \in Ats
  BY DEF Ats, Places
<1>2. CASE BeginTrial(p)
  <2>1. PICK a \in {"fork_hackbench", "dead"} :
           /\ proc' = [proc EXCEPT ![p].at = a]
           /\ a = IF MorePairs(proc[p].trial) THEN "fork_hackbench" ELSE "dead"
    BY <1>2 DEF BeginTrial
  <2>2. proc[p].at = "loop"
    BY <1>2 DEF BeginTrial
  <2>3. QED
    BY <1>1, <2>1, <2>2, MoveFrame DEF SleepOver, Check
<1>3. CASE SleepOver(p)
  BY <1>1, <1>3, MoveFrame DEF SleepOver, BeginTrial, Check
<1>4. CASE Check(p)
  <2>1. PICK a \in {"kill", "next"} :
           proc' = [proc EXCEPT ![p].at = a] /\ a = IF GotFib(p) THEN "kill" ELSE "next"
    BY <1>4 DEF Check
  <2>2. proc[p].at = "check"
    BY <1>4 DEF Check
  <2>3. QED
    BY <1>1, <2>1, <2>2, MoveFrame DEF SleepOver, BeginTrial
<1>5. QED
  BY <1>2, <1>3, <1>4

\* The two forks of a trial: a program is executed, the child is a copy, or there is none.
LEMMA ForksCases ==
  ASSUME TypeOK, NEW p \in Pid, proc[p].prog = "launcher",
         NEW var \in {"hackbench", "fib"}, NEW from, NEW to \in Ats,
         NEW start \in {"boot", "running"}, Forks(p, var, from, to, var, start)
  PROVE  /\ proc[p].at = from /\ UNCHANGED log
         /\ \/ Fork(p, var, to, Exec(var, start)) /\ UNCHANGED faults
            \/ Fork(p, var, to, CopyOf(p, var, to)) /\ Fault("exec")
            \/ NoFork(p, var, to) /\ Fault("fork")
BY DEF Forks, Exec, CopyOf, NoFork

\* The table stays one of processes.
LEMMA TableStep ==
  ASSUME TypeOK, NEW p \in Pid,
         LauncherStep(p) \/ HackbenchMoves(p, L(1)!SelfMoves) \/ FibEnds(p)
  PROVE  proc' \in [Pid -> Process]
<1>1. {"sleep", "wait_fib", "check", "next", "dead"} \subseteq Ats /\ Lives \subseteq Ats
  BY DEF Ats, Places
<1>2. CASE LauncherStep(p)
  <2>1. proc[p].prog = "launcher"
    BY <1>2 DEF LauncherStep
  <2>2. CASE BeginTrial(p) \/ SleepOver(p) \/ Check(p)
    BY <2>2, PlainFrame
  <2>3. CASE ForkHackbench(p) \/ ForkFib(p)
    <3>1. ASSUME NEW var \in {"hackbench", "fib"}, NEW from, NEW to \in Ats,
                 NEW start \in {"boot", "running"}, Forks(p, var, from, to, var, start)
          PROVE  proc' \in [Pid -> Process]
      <4>1. /\ Exec(var, start) \in Process /\ CopyOf(p, var, to) \in Process
            /\ \/ Fork(p, var, to, Exec(var, start)) \/ Fork(p, var, to, CopyOf(p, var, to))
               \/ NoFork(p, var, to)
        BY <2>1, <3>1, ForksCases, Executed, Copied
      <4>2. ASSUME NEW c \in Process, Fork(p, var, to, c) PROVE proc' \in [Pid -> Process]
        BY <2>1, <4>2, ForkFrame
      <4>3. CASE NoFork(p, var, to)
        BY <4>3, NoForkFrame
      <4>4. QED
        BY <4>1, <4>2, <4>3
    <3>2. CASE ForkHackbench(p)
      BY <1>1, <3>1, <3>2 DEF ForkHackbench
    <3>3. CASE ForkFib(p)
      BY <1>1, <3>1, <3>3 DEF ForkFib
    <3>4. QED
      BY <2>3, <3>2, <3>3
  <2>4. CASE WaitFib(p) \/ WaitHackbench(p)
    <3>1. PICK to \in {"check", "next"} : Wait(p, to) /\ proc[p].at \in {"wait_fib", "wait_hackbench"}
      BY <2>4 DEF WaitFib, WaitHackbench
    <3>2. to \in Ats /\ p \in Alive
      BY <1>1, <2>1, <3>1, AtWork DEF Places
    <3>3. QED
      BY <3>1, <3>2, WaitFrame
  <2>5. CASE Kill(p)
    BY <2>5, SignalFrame DEF Kill
  <2>6. CASE NextTrial(p)
    BY <2>6, NextFrame
  <2>7. QED
    BY <1>2, <2>2, <2>3, <2>4, <2>5, <2>6 DEF LauncherStep
<1>3. CASE HackbenchMoves(p, L(1)!SelfMoves)
  <2>1. PICK m \in L(1)!SelfMoves : proc' = [proc EXCEPT ![p].at = m[2]]
    BY <1>3 DEF HackbenchMoves
  <2>2. m[2] \in Ats
    BY <1>1, LifeSets
  <2>3. QED
    BY <2>1, <2>2, MoveFrame
<1>4. CASE FibEnds(p)
  BY <1>1, <1>4, MoveFrame DEF FibEnds
<1>5. QED
  BY <1>2, <1>3, <1>4

\* Every step keeps the types.
LEMMA TypeStep ==
  ASSUME TypeOK, [Next]_vars
  PROVE  TypeOK'
<1>1. CASE UNCHANGED vars
  BY <1>1 DEF TypeOK, vars
<1>2. ASSUME NEW p \in Pid, LauncherStep(p) \/ HackbenchMoves(p, L(1)!SelfMoves) \/ FibEnds(p)
      PROVE  TypeOK'
  <2>1. proc' \in [Pid -> Process]
    BY <1>2, TableStep
  <2>2. log' = log \/ log' = Append(log, proc[p].trial)
    BY <1>2 DEF LauncherStep, BeginTrial, SleepOver, Check, ForkHackbench, ForkFib, Forks,
       WaitFib, WaitHackbench, Kill, NextTrial, HackbenchMoves, FibEnds
  <2>3. faults' = faults \/ (faults < MaxFaults /\ faults' = faults + 1)
    <3>1. CASE LauncherStep(p)
      BY <3>1 DEF LauncherStep, BeginTrial, SleepOver, Check, ForkHackbench, ForkFib, Forks,
         WaitFib, WaitHackbench, Kill, NextTrial, Fault
    <3>2. CASE HackbenchMoves(p, L(1)!SelfMoves)
      BY <3>2 DEF HackbenchMoves, Fault
    <3>3. CASE FibEnds(p)
      BY <3>3 DEF FibEnds
    <3>4. QED
      BY <1>2, <3>1, <3>2, <3>3
  <2>4. proc[p].trial \in Trial
    BY Fields
  <2>5. log' \in Seq(Trial)
    BY <2>2, <2>4 DEF TypeOK
  <2>6. faults' \in 0 .. MaxFaults
    BY <2>3, Arguments DEF TypeOK
  <2>7. QED
    BY <2>1, <2>5, <2>6 DEF TypeOK
<1>3. QED
  BY <1>1, <1>2 DEF Next

\* A process that is left alone, or that SIGTERM ends, is still where it can be.
LEMMA KindKept ==
  ASSUME NEW q \in Pid, KindOf(q),
         Kept(q) \/ (Rest(q) /\ proc'[q].at = "dead" /\ proc[q].prog \in {"launcher", "fib"})
                 \/ (Rest(q) /\ proc[q].prog = "hackbench" /\ proc'[q].at \in Lives /\ ~proc[q].reaped)
  PROVE  KindOf(q)'
<1>1. "dead" \in Places
  BY DEF Places
<1>2. QED
  BY <1>1 DEF KindOf, Kept, Rest, Down, Lives, Places

\* Every step keeps every process where it can be.
LEMMA KindStep ==
  ASSUME TypeOK, KindInv, NEW p \in Pid,
         LauncherStep(p) \/ HackbenchMoves(p, L(1)!SelfMoves) \/ FibEnds(p)
  PROVE  KindInv'
<1>1. /\ {"sleep", "wait_fib", "check", "next", "dead", "fork_hackbench", "fork_fib", "kill",
          "loop", "wait_hackbench"} \subseteq Places
      /\ Places \subseteq Ats /\ Lives \subseteq Ats
  BY DEF Ats, Places
<1>2. SUFFICES ASSUME NEW q \in Pid PROVE KindOf(q)'
  BY DEF KindInv
<1>3. KindOf(p) /\ KindOf(q)
  BY DEF KindInv
<1>4. CASE LauncherStep(p)
  <2>1. proc[p].prog = "launcher" /\ proc[p].at \in Places
    BY <1>3, <1>4 DEF LauncherStep, KindOf
  <2>2. proc[p].at # "dead"
    BY <1>4 DEF LauncherStep, BeginTrial, SleepOver, Check, ForkHackbench, ForkFib, Forks,
       WaitFib, WaitHackbench, Kill, NextTrial
  <2>3. ~proc[p].reaped /\ p \in Alive
    BY <1>3, <2>1, <2>2, AtWork, LifeSets DEF KindOf, Places
  <2>4. ASSUME proc'[p].prog = "launcher", proc'[p].at \in Places, proc'[p].reaped = proc[p].reaped
        PROVE  KindOf(p)'
    BY <2>3, <2>4 DEF KindOf
  <2>5. CASE BeginTrial(p) \/ SleepOver(p) \/ Check(p)
    <3>1. (q # p => Kept(q)) /\ Rest(p) /\ proc'[p].at \in Places
      BY <1>1, <2>5, PlainFrame
    <3>2. QED
      BY <1>3, <2>1, <2>4, <3>1, KindKept DEF Rest
  <2>6. CASE ForkHackbench(p) \/ ForkFib(p)
    <3>1. ASSUME NEW var \in {"hackbench", "fib"}, NEW from, NEW to \in Places,
                 NEW start \in {"boot", "running"}, Forks(p, var, from, to, var, start),
                 var = "hackbench" <=> start = "boot"
          PROVE  KindOf(q)'
      <4>1. to \in Ats
        BY <1>1
      <4>2. \/ Fork(p, var, to, Exec(var, start)) \/ Fork(p, var, to, CopyOf(p, var, to))
            \/ NoFork(p, var, to)
        BY <2>1, <3>1, <4>1, ForksCases
      <4>3. ASSUME NEW c \in Process, Fork(p, var, to, c), ~c.reaped,
                   \/ c.prog = "launcher" /\ c.at = to
                   \/ c.prog = var /\ c.at = start
            PROVE  KindOf(q)'
        <5>1. /\ New \in Pid /\ New # p /\ \A x \in Pid : x # p /\ x # New => Kept(x)
              /\ proc'[p].prog = proc[p].prog /\ proc'[p].at = to /\ proc'[p].reaped = proc[p].reaped
              /\ proc'[New].prog = c.prog /\ proc'[New].at = c.at /\ proc'[New].reaped = c.reaped
          BY <2>1, <4>1, <4>3, ForkFrame
        <5>2. ASSUME q = New PROVE KindOf(q)'
          <6>1. start = "boot" => start \in Lives
            BY LifeSets
          <6>2. QED
            BY <3>1, <4>3, <5>1, <5>2, <6>1 DEF KindOf
        <5>3. q = p => KindOf(q)'
          BY <2>1, <2>4, <5>1
        <5>4. QED
          BY <1>3, <5>1, <5>2, <5>3, KindKept
      <4>4. CASE Fork(p, var, to, Exec(var, start))
        BY <4>3, <4>4, Executed
      <4>5. CASE Fork(p, var, to, CopyOf(p, var, to))
        BY <2>1, <2>3, <4>1, <4>3, <4>5, Copied
      <4>6. CASE NoFork(p, var, to)
        <5>1. /\ \A x \in Pid : x # p => Kept(x)
              /\ proc'[p].prog = proc[p].prog /\ proc'[p].at = to /\ proc'[p].reaped = proc[p].reaped
          BY <4>1, <4>6, NoForkFrame
        <5>2. QED
          BY <1>3, <2>1, <2>4, <5>1, KindKept
      <4>7. QED
        BY <4>2, <4>4, <4>5, <4>6
    <3>2. CASE ForkHackbench(p)
      BY <1>1, <3>1, <3>2 DEF ForkHackbench
    <3>3. CASE ForkFib(p)
      BY <1>1, <3>1, <3>3 DEF ForkFib
    <3>4. QED
      BY <2>6, <3>2, <3>3
  <2>7. CASE WaitFib(p) \/ WaitHackbench(p)
    <3>1. PICK to \in {"check", "next"} : Wait(p, to)
      BY <2>7 DEF WaitFib, WaitHackbench
    <3>2. to \in Ats /\ to \in Places
      BY <1>1
    <3>3. q = p => KindOf(q)'
      BY <2>1, <2>3, <2>4, <3>1, <3>2, WaitFrame
    <3>4. ASSUME q # p PROVE KindOf(q)'
      <4>1. Kept(q) \/ (q \notin Alive /\ proc'[q].prog = proc[q].prog /\ proc'[q].at = proc[q].at
                        /\ proc[q].prog # "none")
        BY <2>3, <3>1, <3>2, <3>4, WaitFrame, AliveIs
      <4>2. CASE Kept(q)
        BY <1>3, <4>2, KindKept
      <4>3. CASE q \notin Alive /\ proc'[q].prog = proc[q].prog /\ proc'[q].at = proc[q].at
                 /\ proc[q].prog # "none"
        <5>1. proc'[q].at \in Down \cup {"dead"}
          BY <4>3, AliveIs
        <5>2. QED
          BY <1>3, <4>3, <5>1 DEF KindOf, Down, Lives
      <4>4. QED
        BY <4>1, <4>2, <4>3
    <3>5. QED
      BY <3>3, <3>4
  <2>8. CASE Kill(p)
    <3>1. Signal(p, proc[p].hackbench)
      BY <2>8 DEF Kill
    <3> DEFINE R == Reached(p, proc[p].hackbench)
    <3>2. /\ Rest(q) /\ (q \in R => q \in Alive /\ proc'[q].at = Terminated(q))
          /\ (q # p /\ q \notin R => Kept(q))
          /\ (q = p /\ q \notin R => proc'[q].at = "wait_hackbench")
      BY <3>1, SignalFrame
    <3> HIDE DEF R
    <3>3. CASE q \in R
      <4>1. proc[q].prog # "none" /\ proc[q].prog \in {"none", "launcher", "hackbench", "fib"}
            /\ proc[q].at \notin Down \cup {"dead"}
        BY <3>2, <3>3, AliveIs, Fields
      <4>2. ~proc[q].reaped /\ (proc[q].prog = "hackbench" => proc[q].at \in Lives)
        BY <1>3, <4>1 DEF KindOf
      <4>3. QED
        BY <1>3, <3>2, <3>3, <4>1, <4>2, TerminatedIs, KindKept
    <3>4. CASE q = p /\ q \notin R
      BY <1>1, <2>1, <2>4, <3>2, <3>4 DEF Rest
    <3>5. CASE q # p /\ q \notin R
      BY <1>3, <3>2, <3>5, KindKept
    <3>6. QED
      BY <3>3, <3>4, <3>5
  <2>9. CASE NextTrial(p)
    <3>1. /\ (q # p => Kept(q)) /\ proc'[p].at = "loop" /\ proc'[p].prog = proc[p].prog
          /\ proc'[p].reaped = proc[p].reaped
      BY <2>9, NextFrame
    <3>2. QED
      BY <1>1, <1>3, <2>1, <2>4, <3>1, KindKept
  <2>10. QED
    BY <1>4, <2>5, <2>6, <2>7, <2>8, <2>9 DEF LauncherStep
<1>5. CASE HackbenchMoves(p, L(1)!SelfMoves)
  <2>1. PICK m \in L(1)!SelfMoves : proc[p].at = m[1] /\ proc' = [proc EXCEPT ![p].at = m[2]]
    BY <1>5 DEF HackbenchMoves
  <2>2. m[2] \in Ats /\ m[2] \in Lives /\ m[1] \notin Down /\ m[1] \in Lives
    BY <1>1, LifeSets
  <2>3. (q # p => Kept(q)) /\ Rest(p) /\ proc'[p].at = m[2]
    BY <2>1, <2>2, MoveFrame
  <2>4. proc[p].prog = "hackbench"
    BY <1>5 DEF HackbenchMoves
  <2>5. m[1] # "dead"
    BY <2>2, LifeSets
  <2>6. ~proc[p].reaped
    BY <1>3, <2>1, <2>2, <2>5 DEF KindOf
  <2>7. QED
    BY <1>3, <2>2, <2>3, <2>4, <2>6, KindKept
<1>6. CASE FibEnds(p)
  <2>1. proc[p].prog = "fib" /\ proc' = [proc EXCEPT ![p].at = "dead"]
    BY <1>6 DEF FibEnds
  <2>2. (q # p => Kept(q)) /\ Rest(p) /\ proc'[p].at = "dead"
    BY <1>1, <2>1, MoveFrame
  <2>3. QED
    BY <1>3, <2>1, <2>2, KindKept
<1>7. QED
  BY <1>4, <1>5, <1>6

----------------------------------------------------------------------------
(* Every launcher's hackbench is its own.                                   *)

\* A child that its parent has not reaped stays one while these stay.
Stays(c) == proc'[c].prog = proc[c].prog /\ proc'[c].parent = proc[c].parent
              /\ proc'[c].reaped = proc[c].reaped

LEMMA StaysUnreaped ==
  ASSUME NEW p, \A c \in Unreaped(p) : Stays(c)
  PROVE  \A c \in Unreaped(p) : c \in Unreaped(p)'
BY AliveIs DEF Unreaped, Free, Stays

LEMMA KeptStays ==
  \A q : Kept(q) \/ Rest(q) => Stays(q)
BY DEF Kept, Rest, Stays

\* A launcher that is left alone, or ended, while its children stay.
LEMMA OwnKept ==
  ASSUME NEW q \in Pid, OwnOf(q), \A c \in Unreaped(q) : Stays(c),
         Kept(q) \/ (Rest(q) /\ proc'[q].at = "dead")
  PROVE  OwnOf(q)'
<1>1. HoldsOwn(q) => HoldsOwn(q)'
  BY StaysUnreaped DEF HoldsOwn, Kept, Rest
<1>2. CASE Kept(q)
  BY <1>1, <1>2 DEF OwnOf, Kept
<1>3. CASE Rest(q) /\ proc'[q].at = "dead"
  BY <1>3 DEF OwnOf
<1>4. QED
  BY <1>2, <1>3

\* A fork of hackbench, in the launcher and in the child.
LEMMA OwnForkHackbench ==
  ASSUME TypeOK, KindInv, OwnInv, NEW p \in Pid, proc[p].prog = "launcher", ForkHackbench(p)
  PROVE  OwnInv'
<1>1. "sleep" \in Ats /\ "fork_hackbench" \in Ats
  BY DEF Ats, Places
<1>2. /\ proc[p].at = "fork_hackbench"
      /\ \/ Fork(p, "hackbench", "sleep", Exec("hackbench", "boot"))
         \/ Fork(p, "hackbench", "sleep", CopyOf(p, "hackbench", "sleep"))
         \/ NoFork(p, "hackbench", "sleep")
  BY <1>1, ForksCases DEF ForkHackbench
<1>3. ~proc[p].reaped
  BY <1>2, LifeSets DEF KindInv, KindOf
<1>4. ASSUME NEW c \in Process, Fork(p, "hackbench", "sleep", c), ~c.reaped,
             c.prog = "hackbench" \/ (c.prog = "launcher" /\ c.hackbench = 0 /\ c.at = "sleep")
      PROVE  OwnInv'
  <2>1. /\ New \in Pid /\ New # p /\ New > 0 /\ proc[New].prog = "none"
        /\ \A q \in Pid : q # p /\ q # New => Kept(q)
        /\ proc'[p].at = "sleep" /\ proc'[p].hackbench = New
        /\ proc'[p].prog = proc[p].prog /\ proc'[p].parent = proc[p].parent
        /\ proc'[p].reaped = proc[p].reaped
        /\ proc'[New].parent = p /\ proc'[New].prog = c.prog /\ proc'[New].reaped = c.reaped
        /\ proc'[New].hackbench = c.hackbench /\ proc'[New].at = c.at
    BY <1>1, <1>4, ForkFrame
  <2>2. PICK n \in Pid : n = New
    BY <2>1
  <2>3. \A q : q \in Pid /\ proc[q].prog # "none" => Stays(q)
    BY <2>1, <2>2, KeptStays DEF Stays
  <2>4. n \in Unreaped(p)'
    BY <1>4, <2>1, <2>2 DEF Unreaped, Free
  <2>5. OwnOf(p)'
    BY <2>1, <2>2, <2>4 DEF OwnOf, HoldsOwn
  <2>6. proc'[n].prog = "launcher" => OwnOf(n)'
    BY <1>4, <2>1, <2>2 DEF OwnOf, HoldsOwn
  <2>7. ASSUME NEW q \in Pid, q # p, q # n, proc[q].prog = "launcher" PROVE OwnOf(q)'
    BY <2>1, <2>2, <2>3, <2>7, OwnKept, AliveIs DEF OwnInv
  <2>8. QED
    BY <2>1, <2>2, <2>5, <2>6, <2>7 DEF OwnInv, Kept
<1>5. CASE NoFork(p, "hackbench", "sleep")
  <2>1. /\ \A q \in Pid : q # p => Kept(q)
        /\ proc'[p].at = "sleep" /\ proc'[p].hackbench = -1
        /\ proc'[p].prog = proc[p].prog /\ proc'[p].parent = proc[p].parent
        /\ proc'[p].reaped = proc[p].reaped
    BY <1>1, <1>5, NoForkFrame
  <2>2. \A q \in Pid : Stays(q)
    BY <2>1, KeptStays DEF Stays
  <2>3. OwnOf(p)'
    BY <2>1 DEF OwnOf, HoldsOwn
  <2>4. ASSUME NEW q \in Pid, q # p, proc[q].prog = "launcher" PROVE OwnOf(q)'
    BY <2>1, <2>2, <2>4, OwnKept, AliveIs DEF OwnInv
  <2>5. QED
    BY <2>1, <2>3, <2>4 DEF OwnInv, Kept
<1>6. CASE Fork(p, "hackbench", "sleep", Exec("hackbench", "boot"))
  BY <1>4, <1>6, Executed
<1>7. CASE Fork(p, "hackbench", "sleep", CopyOf(p, "hackbench", "sleep"))
  BY <1>1, <1>3, <1>4, <1>7, Copied
<1>8. QED
  BY <1>2, <1>5, <1>6, <1>7

\* A fork of fib: the new pid is not that of a child there already is.
LEMMA OwnForkFib ==
  ASSUME TypeOK, KindInv, OwnInv, NEW p \in Pid, proc[p].prog = "launcher", ForkFib(p)
  PROVE  OwnInv'
<1>1. "wait_fib" \in Ats
  BY DEF Ats, Places
<1>2. /\ proc[p].at = "fork_fib"
      /\ \/ Fork(p, "fib", "wait_fib", Exec("fib", "running"))
         \/ Fork(p, "fib", "wait_fib", CopyOf(p, "fib", "wait_fib"))
         \/ NoFork(p, "fib", "wait_fib")
  BY <1>1, ForksCases DEF ForkFib
<1>3. HoldsOwn(p)
  BY <1>2 DEF OwnInv, OwnOf
<1>4. ASSUME NEW c \in Process, Fork(p, "fib", "wait_fib", c),
             c.prog = "fib" \/ (c.prog = "launcher" /\ c.fib = 0 /\ c.at = "wait_fib")
      PROVE  OwnInv'
  <2>1. /\ New \in Pid /\ New # p /\ New > 0 /\ proc[New].prog = "none"
        /\ \A q \in Pid : q # p /\ q # New => Kept(q)
        /\ proc'[p].at = "wait_fib" /\ proc'[p].hackbench = proc[p].hackbench
        /\ proc'[p].fib = New
        /\ proc'[p].prog = proc[p].prog /\ proc'[p].parent = proc[p].parent
        /\ proc'[p].reaped = proc[p].reaped
        /\ proc'[New].prog = c.prog /\ proc'[New].fib = c.fib /\ proc'[New].at = c.at
    BY <1>1, <1>4, ForkFrame
  <2>2. PICK n \in Pid : n = New
    BY <2>1
  <2>3. \A q : q \in Pid /\ proc[q].prog # "none" => Stays(q)
    BY <2>1, <2>2, KeptStays DEF Stays
  <2>4. HoldsOwn(p)' /\ (proc[p].hackbench > 0 => proc[p].hackbench # n)
    <3>1. \A x \in Unreaped(p) : x \in Unreaped(p)' /\ proc[x].prog # "none"
      BY <2>3, StaysUnreaped, AliveIs
    <3>2. QED
      BY <1>3, <2>1, <2>2, <3>1 DEF HoldsOwn
  <2>5. OwnOf(p)'
    BY <2>1, <2>2, <2>4 DEF OwnOf
  <2>6. proc'[n].prog = "launcher" => OwnOf(n)'
    BY <1>4, <2>1, <2>2 DEF OwnOf
  <2>7. ASSUME NEW q \in Pid, q # p, q # n, proc[q].prog = "launcher" PROVE OwnOf(q)'
    BY <2>1, <2>2, <2>3, <2>7, OwnKept, AliveIs DEF OwnInv
  <2>8. QED
    BY <2>1, <2>2, <2>5, <2>6, <2>7 DEF OwnInv, Kept
<1>5. CASE NoFork(p, "fib", "wait_fib")
  <2>1. /\ \A q \in Pid : q # p => Kept(q)
        /\ proc'[p].at = "wait_fib" /\ proc'[p].hackbench = proc[p].hackbench
        /\ proc'[p].fib = -1
        /\ proc'[p].prog = proc[p].prog /\ proc'[p].parent = proc[p].parent
        /\ proc'[p].reaped = proc[p].reaped
    BY <1>1, <1>5, NoForkFrame
  <2>2. \A q \in Pid : Stays(q)
    BY <2>1, KeptStays DEF Stays
  <2>3. HoldsOwn(p)'
    BY <1>3, <2>1, <2>2, StaysUnreaped, AliveIs DEF HoldsOwn
  <2>4. OwnOf(p)'
    BY <2>1, <2>3 DEF OwnOf
  <2>5. ASSUME NEW q \in Pid, q # p, proc[q].prog = "launcher" PROVE OwnOf(q)'
    BY <2>1, <2>2, <2>5, OwnKept, AliveIs DEF OwnInv
  <2>6. QED
    BY <2>1, <2>4, <2>5 DEF OwnInv, Kept
<1>6. CASE Fork(p, "fib", "wait_fib", Exec("fib", "running"))
  BY <1>4, <1>6, Executed
<1>7. CASE Fork(p, "fib", "wait_fib", CopyOf(p, "fib", "wait_fib"))
  BY <1>1, <1>4, <1>7, Copied
<1>8. QED
  BY <1>2, <1>5, <1>6, <1>7

\* wait() returns fib, another child, or -1 when the launcher has no child.
LEMMA OwnWait ==
  ASSUME TypeOK, OwnInv, NEW p \in Pid, proc[p].prog = "launcher", WaitFib(p) \/ WaitHackbench(p)
  PROVE  OwnInv'
<1>1. PICK to \in {"check", "next"} :
        /\ Wait(p, to)
        /\ to = "check" => proc[p].at = "wait_fib"
        /\ proc[p].at \in {"wait_fib", "wait_hackbench"}
  BY DEF WaitFib, WaitHackbench
<1>2. to \in Ats /\ p \in Alive
  BY <1>1, AtWork DEF Ats, Places
<1>3. /\ proc'[p].at = to /\ proc'[p].prog = proc[p].prog /\ proc'[p].parent = proc[p].parent
      /\ proc'[p].reaped = proc[p].reaped /\ proc'[p].hackbench = proc[p].hackbench
      /\ proc'[p].fib = proc[p].fib
  BY <1>1, <1>2, WaitFrame
<1>4. CASE /\ Unreaped(p) = {} /\ proc'[p].wait_pid = -1
           /\ \A q \in Pid : q # p => Kept(q)
  <2>1. \A q \in Pid : Stays(q)
    BY <1>3, <1>4, KeptStays DEF Stays
  <2>2. ASSUME to = "check", proc[p].fib = -1 PROVE HoldsOwn(p)'
    <3>1. ~(proc[p].hackbench > 0)
      BY <1>1, <1>4, <2>2 DEF OwnInv, OwnOf, HoldsOwn
    <3>2. QED
      BY <1>3, <3>1 DEF HoldsOwn
  <2>3. OwnOf(p)'
    BY <1>3, <1>4, <2>2 DEF OwnOf
  <2>4. ASSUME NEW q \in Pid, q # p, proc[q].prog = "launcher" PROVE OwnOf(q)'
    BY <1>4, <2>1, <2>4, OwnKept, AliveIs DEF OwnInv
  <2>5. QED
    BY <1>3, <1>4, <2>3, <2>4 DEF OwnInv, Kept
<1>5. ASSUME NEW c \in Unreaped(p), c \in Pid, c # p, proc'[p].wait_pid = c,
             proc'[c].prog = proc[c].prog, proc'[c].parent = proc[c].parent,
             c \notin Alive, proc'[c].at = proc[c].at,
             \A q \in Pid : q # p /\ q # c => Kept(q)
      PROVE  OwnInv'
  <2>1. \A q \in Pid \ {c} : Stays(q)
    BY <1>3, <1>5, KeptStays DEF Stays
  <2>2. ASSUME to = "check", proc[p].fib = c PROVE HoldsOwn(p)'
    <3>1. c # 0
      BY <1>5 DEF Pid
    <3>2. proc[p].hackbench > 0 => proc[p].hackbench \in Unreaped(p) \ {c}
      BY <1>1, <2>2, <3>1 DEF OwnInv, OwnOf, HoldsOwn
    <3>3. \A x \in Unreaped(p) \ {c} : x \in Unreaped(p)'
      BY <2>1, AliveIs DEF Unreaped, Free, Stays
    <3>4. QED
      BY <1>3, <3>2, <3>3 DEF HoldsOwn
  <2>3. c # 0
    BY <1>5 DEF Pid
  <2>4. OwnOf(p)'
    BY <1>3, <1>5, <2>2, <2>3 DEF OwnOf
  <2>5. ASSUME NEW q \in Pid, q # p, proc[q].prog = "launcher" PROVE OwnOf(q)'
    <3>1. \A x \in Unreaped(q) : x # c
      BY <1>5, <2>5, AliveIs
    <3>2. CASE q # c
      BY <1>5, <2>1, <2>5, <3>1, <3>2, OwnKept, AliveIs DEF OwnInv
    <3>3. CASE q = c
      BY <1>5, <2>5, <3>3, AliveIs, LifeSets DEF OwnOf
    <3>4. QED
      BY <3>2, <3>3
  <2>6. proc'[c].prog = proc[c].prog
    BY <1>5
  <2>7. QED
    BY <1>3, <1>5, <2>4, <2>5, <2>6 DEF OwnInv, Kept
<1>6. QED
  BY <1>1, <1>2, <1>4, <1>5, WaitFrame

\* No step takes a child from the launcher that holds it, but its own wait().
LEMMA OwnStep ==
  ASSUME TypeOK, KindInv, OwnInv, NEW p \in Pid,
         LauncherStep(p) \/ HackbenchMoves(p, L(1)!SelfMoves) \/ FibEnds(p)
  PROVE  OwnInv'
<1>1. ASSUME \A q \in Pid : Stays(q),
             \A q \in Pid : q # p => Kept(q) \/ (Rest(q) /\ (proc[q].prog = "launcher" => proc'[q].at = "dead")),
             proc[p].prog = "launcher" => OwnOf(p)'
      PROVE  OwnInv'
  <2>1. ASSUME NEW q \in Pid, q # p, proc[q].prog = "launcher" PROVE OwnOf(q)'
    BY <1>1, <2>1, OwnKept, AliveIs DEF OwnInv
  <2>2. QED
    BY <1>1, <2>1 DEF OwnInv, Stays
<1>2. CASE LauncherStep(p)
  <2>1. proc[p].prog = "launcher" /\ OwnOf(p)
    BY <1>2 DEF LauncherStep, OwnInv
  <2>2. CASE BeginTrial(p) \/ SleepOver(p) \/ Check(p)
    <3>1. /\ \A q \in Pid : q # p => Kept(q)
          /\ \A q \in Pid : Rest(q)
      BY <2>2, PlainFrame
    <3>2. \A q \in Pid : Stays(q)
      BY <3>1, KeptStays
    <3>3. HoldsOwn(p) => HoldsOwn(p)'
      BY <3>1, <3>2, StaysUnreaped, AliveIs DEF HoldsOwn, Rest
    <3>4. \/ proc'[p].at \in {"dead", "fork_hackbench", "next"}
          \/ proc[p].at = "sleep" /\ proc'[p].at = "fork_fib"
          \/ proc[p].at = "check" /\ GotFib(p) /\ proc'[p].at = "kill"
      BY <2>2, PlainFrame
    <3>5. OwnOf(p)'
      BY <2>1, <3>3, <3>4 DEF OwnOf
    <3>6. QED
      BY <1>1, <3>1, <3>2, <3>5
  <2>3. CASE Kill(p)
    <3>1. Signal(p, proc[p].hackbench)
      BY <2>3 DEF Kill
    <3> DEFINE R == Reached(p, proc[p].hackbench)
    <3>2. /\ \A q \in Pid : Rest(q)
          /\ \A q \in R : proc'[q].at = Terminated(q)
          /\ p \notin R => proc'[p].at = "wait_hackbench"
          /\ \A q \in Pid : q # p /\ q \notin R => Kept(q)
      BY <3>1, SignalFrame
    <3>3. \A q \in Pid : proc[q].prog = "launcher" => Terminated(q) = "dead"
      BY TerminatedIs
    <3> HIDE DEF R
    <3>4. \A q \in Pid : Stays(q)
      BY <3>2, KeptStays
    <3>5. OwnOf(p)'
      BY <2>1, <3>2, <3>3 DEF OwnOf
    <3>6. QED
      BY <1>1, <3>2, <3>3, <3>4, <3>5
  <2>4. CASE NextTrial(p)
    <3>1. /\ \A q \in Pid : q # p => Kept(q)
          /\ proc'[p].at = "loop" /\ Stays(p)
      BY <2>4, NextFrame DEF Stays
    <3>2. \A q \in Pid : Stays(q)
      BY <3>1, KeptStays
    <3>3. OwnOf(p)'
      BY <3>1 DEF OwnOf
    <3>4. QED
      BY <1>1, <3>1, <3>2, <3>3
  <2>5. QED
    BY <1>2, <2>1, <2>2, <2>3, <2>4, OwnForkHackbench, OwnForkFib, OwnWait DEF LauncherStep
<1>3. ASSUME proc[p].prog # "launcher", NEW to \in Ats, proc' = [proc EXCEPT ![p].at = to]
      PROVE  OwnInv'
  <2>1. /\ \A q \in Pid : q # p => Kept(q)
        /\ \A q \in Pid : Rest(q)
    BY <1>3, MoveFrame
  <2>2. QED
    BY <1>1, <1>3, <2>1, KeptStays
<1>4. CASE HackbenchMoves(p, L(1)!SelfMoves)
  <2>1. PICK m \in L(1)!SelfMoves : proc' = [proc EXCEPT ![p].at = m[2]]
    BY <1>4 DEF HackbenchMoves
  <2>2. m[2] \in Ats
    BY LifeSets DEF Ats
  <2>3. proc[p].prog = "hackbench"
    BY <1>4 DEF HackbenchMoves
  <2>4. QED
    BY <1>3, <2>1, <2>2, <2>3
<1>5. CASE FibEnds(p)
  <2>1. "dead" \in Ats
    BY DEF Ats, Places
  <2>2. QED
    BY <1>3, <1>5, <2>1 DEF FibEnds
<1>6. QED
  BY <1>2, <1>4, <1>5

----------------------------------------------------------------------------
(* While nothing has failed: one launcher and the children of its trial.    *)

\* There is one launcher, and the steps it takes do not fail.
LEMMA OnlyLauncher ==
  ASSUME SoleInv, NEW p \in Pid, proc[p].prog = "launcher"
  PROVE  p = 1
BY DEF SoleInv

\* A hackbench that moves, or a fib that runs, is one that the launcher holds.
LEMMA HeldIs ==
  ASSUME SoleInv, KindInv, NEW p \in Pid, proc[p].prog \in {"hackbench", "fib"},
         proc[p].at \notin Down \cup {"dead"}
  PROVE  p # 1 /\ p \in Held /\ ~proc[p].reaped /\ proc[p].parent = 1
<1>1. ~proc[p].reaped
  BY DEF KindInv, KindOf
<1>2. QED
  BY <1>1 DEF SoleInv, Main

\* What wait() finds is one that the launcher holds.
LEMMA WaitedIs ==
  ASSUME SoleInv, NEW c \in Unreaped(1)
  PROVE  c \in Pid /\ (c # 1 => c \in Held /\ proc[c].prog \in {"hackbench", "fib"})
BY AliveIs DEF SoleInv

\* The hackbench the launcher holds is its own unreaped child.
LEMMA HeldUnreaped ==
  ASSUME SoleInv, LoadInv, Main.hackbench \in Held
  PROVE  /\ Main.hackbench \in Unreaped(1) /\ Main.hackbench \in Pid \ {1}
         /\ proc[Main.hackbench].prog = "hackbench"
<1> DEFINE h == Main.hackbench
<1>1. Child(h, "hackbench")
  BY DEF LoadInv
<1> HIDE DEF h
<1>2. h \in Pid \ {1} /\ proc[h].prog = "hackbench" /\ ~proc[h].reaped
  BY <1>1 DEF Child
<1>3. proc[h].parent = 1
  BY <1>2 DEF SoleInv
<1>4. QED
  BY <1>2, <1>3, AliveIs DEF h

\* The launcher starts a trial, or is done.
LEMMA CalmBegin ==
  ASSUME TypeOK, SoleInv, LoadInv, BeginTrial(1)
  PROVE  SoleInv' /\ LoadInv'
<1>1. 1 \in Pid
  BY Arguments
<1>2. /\ \A q \in Pid : q # 1 => Kept(q)
      /\ Rest(1) /\ Main.at = "loop" /\ proc'[1].at \in {"fork_hackbench", "dead"}
  BY <1>1, PlainFrame DEF Main
<1>3. Held = {} /\ Held' = {}
  BY <1>2 DEF Held, Main
<1>4. SoleInv'
  BY <1>1, <1>2, <1>3 DEF SoleInv, Main, Kept, Rest
<1>5. LoadInv'
  BY <1>2, <1>3 DEF LoadInv, Main
<1>6. QED
  BY <1>4, <1>5

\* It forks the hackbench.
LEMMA CalmForkHackbench ==
  ASSUME TypeOK, SoleInv, LoadInv, ForkHackbench(1), UNCHANGED faults
  PROVE  SoleInv' /\ LoadInv' /\ Main'.at = "sleep" /\ Main'.trial = Main.trial /\ UNCHANGED log
<1>1. 1 \in Pid /\ Main.prog = "launcher" /\ "sleep" \in Ats
  BY Arguments DEF SoleInv, Ats, Places
<1>2. /\ Main.at = "fork_hackbench" /\ UNCHANGED log
      /\ Fork(1, "hackbench", "sleep", Exec("hackbench", "boot"))
  BY <1>1, ForksCases DEF ForkHackbench, Fault, TypeOK, Main
<1>3. /\ New \in Pid /\ New # 1 /\ proc[New].prog = "none"
      /\ \A q \in Pid : q # 1 /\ q # New => Kept(q)
      /\ proc'[1].at = "sleep" /\ proc'[1].hackbench = New /\ proc'[1].prog = proc[1].prog
      /\ proc'[1].reaped = proc[1].reaped /\ proc'[1].trial = proc[1].trial
      /\ proc'[New].parent = 1 /\ proc'[New].trial = proc[1].trial
      /\ proc'[New].prog = "hackbench" /\ proc'[New].at = "boot" /\ ~proc'[New].reaped
  BY <1>1, <1>2, ForkFrame, Executed DEF Main
<1>4. PICK n \in Pid : n = New
  BY <1>3
<1>5. Held = {} /\ Held' = {n}
  BY <1>2, <1>3, <1>4 DEF Held, Main
<1>6. SoleInv'
  BY <1>3, <1>4, <1>5 DEF SoleInv, Main, Kept
<1>7. LoadInv'
  BY <1>3, <1>4, <1>5 DEF LoadInv, Main, Child
<1>8. QED
  BY <1>2, <1>3, <1>6, <1>7 DEF Main

\* The ten seconds are over: the hackbench is loaded.
LEMMA CalmSleep ==
  ASSUME TypeOK, SoleInv, LoadInv, SleepOver(1), UNCHANGED faults
  PROVE  SoleInv' /\ LoadInv' /\ Main'.at = "fork_fib"
<1>1. 1 \in Pid
  BY Arguments
<1>2. /\ \A q \in Pid : q # 1 => Kept(q)
      /\ Rest(1) /\ Main.at = "sleep" /\ proc'[1].at = "fork_fib"
  BY <1>1, PlainFrame DEF Main
<1>3. PICK h : h = Main.hackbench
  OBVIOUS
<1>4. Held = {h} /\ Held' = {h}
  BY <1>2, <1>3 DEF Held, Main, Rest
<1>5. h \in Pid \ {1} /\ Child(h, "hackbench") /\ proc[h].at \in {"boot", "spawning", "spawned", "loaded"}
  BY <1>2, <1>3, <1>4 DEF LoadInv, Child
<1>6. proc[h].at = "loaded"
  <2>1. ~(Main.hackbench > 0 /\ proc[Main.hackbench].at \in {"boot", "spawning", "spawned"})
    BY DEF SleepOver, Fault, TypeOK, Main
  <2>2. h > 0
    BY <1>5 DEF Pid
  <2>3. QED
    BY <1>3, <1>5, <2>1, <2>2
<1>7. SoleInv'
  BY <1>1, <1>2, <1>4 DEF SoleInv, Main, Kept, Rest
<1>8. LoadInv'
  BY <1>2, <1>3, <1>4, <1>5, <1>6 DEF LoadInv, Main, Child, Kept, Rest
<1>9. QED
  BY <1>2, <1>7, <1>8 DEF Main

\* It forks fib.
LEMMA CalmForkFib ==
  ASSUME TypeOK, SoleInv, LoadInv, ForkFib(1), UNCHANGED faults
  PROVE  /\ SoleInv' /\ LoadInv' /\ Main'.at = "wait_fib" /\ Main'.trial = Main.trial
         /\ proc'[Main'.fib].at = "running" /\ UNCHANGED log
<1>1. 1 \in Pid /\ Main.prog = "launcher" /\ "wait_fib" \in Ats
  BY Arguments DEF SoleInv, Ats, Places
<1>2. /\ Main.at = "fork_fib" /\ UNCHANGED log
      /\ Fork(1, "fib", "wait_fib", Exec("fib", "running"))
  BY <1>1, ForksCases DEF ForkFib, Fault, TypeOK, Main
<1>3. /\ New \in Pid /\ New # 1 /\ proc[New].prog = "none"
      /\ \A q \in Pid : q # 1 /\ q # New => Kept(q)
      /\ proc'[1].at = "wait_fib" /\ proc'[1].hackbench = proc[1].hackbench
      /\ proc'[1].fib = New /\ proc'[1].prog = proc[1].prog
      /\ proc'[1].reaped = proc[1].reaped /\ proc'[1].trial = proc[1].trial
      /\ proc'[New].parent = 1 /\ proc'[New].trial = proc[1].trial
      /\ proc'[New].prog = "fib" /\ proc'[New].at = "running" /\ ~proc'[New].reaped
  BY <1>1, <1>2, ForkFrame, Executed DEF Main
<1>4. PICK n \in Pid : n = New
  BY <1>3
<1>5. PICK h : h = Main.hackbench
  OBVIOUS
<1>6. Held = {h} /\ Held' = {h, n}
  BY <1>2, <1>3, <1>4, <1>5 DEF Held, Main
<1>7. h \in Pid \ {1, n} /\ Child(h, "hackbench") /\ proc[h].at = "loaded"
  BY <1>2, <1>3, <1>4, <1>5, <1>6 DEF LoadInv, Child
<1>8. SoleInv'
  BY <1>3, <1>4, <1>6 DEF SoleInv, Main, Kept
<1>9. LoadInv'
  BY <1>3, <1>4, <1>5, <1>6, <1>7 DEF LoadInv, Main, Child, Kept
<1>10. QED
  BY <1>2, <1>3, <1>8, <1>9 DEF Main

\* fib ends while its hackbench is loaded, so what wait() finds is fib.
LEMMA CalmWaitFib ==
  ASSUME TypeOK, KindInv, SoleInv, LoadInv, WaitFib(1)
  PROVE  /\ SoleInv' /\ LoadInv' /\ Main'.at = "check" /\ Main'.trial = Main.trial
         /\ proc[Main.fib].at = "dead" /\ Main.at = "wait_fib"
<1>1. 1 \in Pid /\ Main.prog = "launcher" /\ "check" \in Ats /\ Main.at = "wait_fib"
      /\ Wait(1, "check") /\ 1 \in Alive
  BY Arguments, AtWork DEF SoleInv, Ats, Places, WaitFib, Main
<1>2. PICK h : h = Main.hackbench
  OBVIOUS
<1>3. PICK f : f = Main.fib
  OBVIOUS
<1>4. Held = {h, f}
  BY <1>1, <1>2, <1>3 DEF Held
<1>5. /\ Child(h, "hackbench") /\ proc[h].at = "loaded" /\ Child(f, "fib") /\ h \in Unreaped(1)
  BY <1>1, <1>2, <1>3, <1>4, HeldUnreaped DEF LoadInv
<1>6. /\ proc'[1].at = "check" /\ proc'[1].prog = proc[1].prog /\ proc'[1].reaped = proc[1].reaped
      /\ proc'[1].trial = proc[1].trial /\ proc'[1].hackbench = h /\ proc'[1].fib = f
  BY <1>1, <1>2, <1>3, WaitFrame DEF Main
<1>7. PICK c \in Unreaped(1) :
        /\ c \in Pid /\ c \notin Alive /\ c # 1 /\ proc'[1].wait_pid = c /\ proc'[c].reaped
        /\ proc'[c].prog = proc[c].prog /\ proc'[c].parent = proc[c].parent
        /\ proc'[c].at = proc[c].at
        /\ \A q \in Pid : q # 1 /\ q # c => Kept(q)
  BY <1>1, <1>5, WaitFrame
<1>8. h \in Alive
  BY <1>5, AliveIs, LifeSets DEF Child
<1>9. c = f
  BY <1>4, <1>7, <1>8, WaitedIs
<1>10. Held' = {h}
  BY <1>2, <1>6 DEF Held, Main
<1>11. SoleInv'
  BY <1>4, <1>6, <1>7, <1>9, <1>10 DEF SoleInv, Main, Kept
<1>12. h # f /\ h \in Pid \ {1}
  BY <1>5 DEF Child
<1>13. LoadInv'
  BY <1>2, <1>5, <1>6, <1>7, <1>9, <1>10, <1>12 DEF LoadInv, Main, Child, Kept
<1>14. proc[f].at = "dead"
  BY <1>5, <1>7, <1>9, AliveIs, LifeSets DEF KindInv, KindOf, Child
<1>15. QED
  BY <1>1, <1>3, <1>6, <1>11, <1>13, <1>14 DEF Main

\* It was fib.
LEMMA CalmCheck ==
  ASSUME TypeOK, SoleInv, LoadInv, Check(1)
  PROVE  SoleInv' /\ LoadInv' /\ Main'.at = "kill"
<1>1. 1 \in Pid
  BY Arguments
<1>2. /\ \A q \in Pid : q # 1 => Kept(q)
      /\ Rest(1) /\ Main.at = "check" /\ proc'[1].at = "kill"
  BY <1>1, PlainFrame DEF Main, LoadInv
<1>3. PICK h : h = Main.hackbench
  OBVIOUS
<1>4. Held = {h} /\ Held' = {h}
  BY <1>2, <1>3 DEF Held, Main, Rest
<1>5. h \in Pid \ {1} /\ Child(h, "hackbench") /\ proc[h].at = "loaded"
  BY <1>2, <1>3, <1>4 DEF LoadInv, Child
<1>6. SoleInv'
  BY <1>1, <1>2, <1>4 DEF SoleInv, Main, Kept, Rest
<1>7. LoadInv'
  BY <1>2, <1>3, <1>4, <1>5 DEF LoadInv, Main, Child, Kept, Rest
<1>8. QED
  BY <1>2, <1>6, <1>7 DEF Main

\* The signal reaches the hackbench and nobody else.
LEMMA CalmKill ==
  ASSUME TypeOK, SoleInv, LoadInv, Kill(1)
  PROVE  SoleInv' /\ LoadInv' /\ Main.at = "kill" /\ Main'.at = "wait_hackbench" /\ Main'.trial = Main.trial
<1>1. 1 \in Pid /\ Main.at = "kill" /\ Signal(1, Main.hackbench)
  BY Arguments DEF Kill, Main
<1>2. PICK h : h = Main.hackbench
  OBVIOUS
<1>3. Held = {h}
  BY <1>1, <1>2 DEF Held
<1>4. h \in Pid \ {1} /\ Child(h, "hackbench") /\ proc[h].at = "loaded"
  BY <1>1, <1>2, <1>3 DEF LoadInv, Child
<1>5. h \in Alive /\ h # 0 /\ h # -1
  BY <1>4, AliveIs, LifeSets DEF Child, Pid
<1>6. Reached(1, h) = {h}
  BY <1>5 DEF Reached
<1>7. /\ \A q \in Pid : Rest(q)
      /\ proc'[h].at = Terminated(h) /\ proc'[1].at = "wait_hackbench"
      /\ \A q \in Pid : q # 1 /\ q # h => Kept(q)
  BY <1>1, <1>2, <1>4, <1>6, SignalFrame
<1>8. proc'[h].at = "stopping"
  BY <1>4, <1>7, TerminatedIs DEF Child
<1>9. Held' = {h}
  BY <1>1, <1>2, <1>7 DEF Held, Main, Rest
<1>10. SoleInv'
  BY <1>1, <1>3, <1>7, <1>9 DEF SoleInv, Main, Rest
<1>11. LoadInv'
  BY <1>1, <1>2, <1>4, <1>7, <1>8, <1>9 DEF LoadInv, Main, Child, Rest
<1>12. QED
  BY <1>1, <1>7, <1>10, <1>11 DEF Main, Rest

\* What wait() finds is the hackbench.
LEMMA CalmWaitHackbench ==
  ASSUME TypeOK, SoleInv, LoadInv, WaitHackbench(1)
  PROVE  /\ SoleInv' /\ LoadInv' /\ Main.at = "wait_hackbench" /\ Main'.at = "next"
         /\ Main'.trial = Main.trial
<1>1. 1 \in Pid /\ Main.prog = "launcher" /\ "next" \in Ats /\ Main.at = "wait_hackbench"
      /\ Wait(1, "next") /\ 1 \in Alive
  BY Arguments, AtWork DEF SoleInv, Ats, Places, WaitHackbench, Main
<1>2. PICK h : h = Main.hackbench
  OBVIOUS
<1>3. Held = {h}
  BY <1>1, <1>2 DEF Held
<1>4. h \in Unreaped(1)
  BY <1>2, <1>3, HeldUnreaped
<1>5. /\ proc'[1].at = "next" /\ proc'[1].prog = proc[1].prog /\ proc'[1].reaped = proc[1].reaped
      /\ proc'[1].trial = proc[1].trial
  BY <1>1, WaitFrame DEF Main
<1>6. PICK c \in Unreaped(1) :
        /\ c \in Pid /\ c # 1 /\ proc'[c].reaped
        /\ proc'[c].prog = proc[c].prog /\ proc'[c].parent = proc[c].parent
        /\ \A q \in Pid : q # 1 /\ q # c => Kept(q)
  BY <1>1, <1>4, WaitFrame
<1>7. c = h
  BY <1>3, <1>6, WaitedIs
<1>8. Held' = {}
  BY <1>5 DEF Held, Main
<1>9. SoleInv'
  BY <1>3, <1>5, <1>6, <1>7, <1>8 DEF SoleInv, Main, Kept
<1>10. LoadInv'
  BY <1>5, <1>8 DEF LoadInv, Main
<1>11. QED
  BY <1>1, <1>5, <1>9, <1>10 DEF Main

\* The next trial: nothing is left of the last one.
LEMMA CalmNext ==
  ASSUME TypeOK, SoleInv, LoadInv, NextTrial(1)
  PROVE  /\ SoleInv' /\ LoadInv' /\ Main.at = "next" /\ Main'.at = "loop"
         /\ Main'.trial = After(Main.trial)
<1>1. 1 \in Pid
  BY Arguments
<1>2. /\ \A q \in Pid : q # 1 => Kept(q)
      /\ Main.at = "next" /\ proc'[1].at = "loop" /\ proc'[1].prog = proc[1].prog
      /\ proc'[1].reaped = proc[1].reaped /\ proc'[1].trial = After(Main.trial)
  BY <1>1, NextFrame DEF Main
<1>3. Held = {} /\ Held' = {}
  BY <1>2 DEF Held, Main
<1>4. SoleInv'
  BY <1>1, <1>2, <1>3 DEF SoleInv, Main, Kept
<1>5. LoadInv'
  BY <1>2, <1>3 DEF LoadInv, Main
<1>6. QED
  BY <1>2, <1>4, <1>5 DEF Main

\* A hackbench makes progress: it is the one held, and stays loaded while it is needed.
LEMMA CalmHackbench ==
  ASSUME TypeOK, KindInv, SoleInv, LoadInv, NEW p \in Pid, HackbenchMoves(p, L(1)!SelfMoves),
         UNCHANGED faults
  PROVE  SoleInv' /\ LoadInv' /\ Main' = Main /\ (Logged' <=> Logged)
<1>1. PICK m \in L(1)!SelfMoves :
        /\ proc[p].prog = "hackbench" /\ proc[p].at = m[1] /\ proc' = [proc EXCEPT ![p].at = m[2]]
        /\ m \in L(1)!Progress
  <2>1. ~Fault("hackbench")
    BY DEF Fault, TypeOK
  <2>2. QED
    BY <2>1 DEF HackbenchMoves
<1>2. m[2] \in Ats /\ m[2] \in Lives /\ m[1] \notin Down \cup {"dead"}
  BY LifeSets DEF Ats
<1>3. \/ m[1] = "boot" /\ m[2] = "spawning"
      \/ m[1] = "spawning" /\ m[2] = "spawned"
      \/ m[1] = "spawned" /\ m[2] = "loaded"
      \/ m[1] = "stopping" /\ m[2] = "clean"
      \/ m[1] = "aborting"
  BY <1>1, LifeSets
<1>4. p # 1 /\ p \in Held
  BY <1>1, <1>2, HeldIs
<1>5. /\ \A q \in Pid : q # p => Kept(q)
      /\ \A q \in Pid : Rest(q)
      /\ proc'[p].at = m[2]
  BY <1>1, <1>2, MoveFrame
<1>6. Main' = Main /\ Held' = Held
  <2>1. proc'[1] = proc[1]
    BY <1>4, <1>5, Arguments DEF Kept
  <2>2. QED
    BY <2>1 DEF Held, Main
<1>7. SoleInv'
  BY <1>5, <1>6 DEF SoleInv, Main, Rest
<1>8. p = Main.hackbench
  BY <1>1, <1>4 DEF Held, LoadInv, Child
<1>9. /\ Main.at = "wait_fib" => Main.fib # p /\ Main.fib \in Pid
  BY <1>1 DEF LoadInv, Child
<1>10. LoadInv'
  <2>1. (Main.hackbench \in Held => Child(Main.hackbench, "hackbench"))'
    BY <1>4, <1>5, <1>6, <1>8 DEF LoadInv, Child, Main, Rest
  <2>2. (Main.at = "sleep" => proc[Main.hackbench].at \in {"boot", "spawning", "spawned", "loaded"})'
    BY <1>1, <1>3, <1>5, <1>6, <1>8 DEF LoadInv, Main
  <2>3. (Main.at \in {"fork_fib", "wait_fib", "check", "kill"} => proc[Main.hackbench].at = "loaded")'
    BY <1>1, <1>3, <1>6, <1>8 DEF LoadInv, Main
  <2>4. (Main.at = "wait_hackbench" => proc[Main.hackbench].at \in {"stopping", "clean"})'
    BY <1>1, <1>3, <1>5, <1>6, <1>8 DEF LoadInv, Main
  <2>5. (Main.at = "wait_fib" => Child(Main.fib, "fib"))'
    BY <1>5, <1>6, <1>9 DEF LoadInv, Child, Main, Rest
  <2>6. (Main.at = "check" => GotFib(1))'
    BY <1>6 DEF LoadInv, Main
  <2>7. QED
    BY <2>1, <2>2, <2>3, <2>4, <2>5, <2>6 DEF LoadInv
<1>11. Logged' <=> Logged
  BY <1>5, <1>6, <1>9 DEF Logged, Kept
<1>12. QED
  BY <1>6, <1>7, <1>10, <1>11

\* fib ends: it is the one the launcher waits for, and of its trial.
LEMMA CalmFib ==
  ASSUME TypeOK, KindInv, SoleInv, LoadInv, NEW p \in Pid, FibEnds(p)
  PROVE  /\ SoleInv' /\ LoadInv' /\ Main' = Main /\ Main.at = "wait_fib" /\ ~Logged /\ Logged'
         /\ log' = Append(log, Main.trial)
<1>1. /\ proc[p].prog = "fib" /\ proc[p].at = "running" /\ proc' = [proc EXCEPT ![p].at = "dead"]
      /\ log' = Append(log, proc[p].trial)
  BY DEF FibEnds
<1>2. "dead" \in Ats /\ "running" \notin Down \cup {"dead"}
  BY LifeSets DEF Ats, Places
<1>3. p # 1 /\ p \in Held
  BY <1>1, <1>2, HeldIs
<1>4. Main.at = "wait_fib" /\ p = Main.fib
  BY <1>1, <1>3 DEF Held, LoadInv, Child
<1>5. /\ \A q \in Pid : q # p => Kept(q)
      /\ \A q \in Pid : Rest(q)
      /\ proc'[p].at = "dead"
  BY <1>1, <1>2, MoveFrame
<1>6. Main' = Main /\ Held' = Held
  <2>1. proc'[1] = proc[1]
    BY <1>3, <1>5, Arguments DEF Kept
  <2>2. QED
    BY <2>1 DEF Held, Main
<1>7. SoleInv'
  BY <1>5, <1>6 DEF SoleInv, Main, Rest
<1>8. PICK h : h = Main.hackbench
  OBVIOUS
<1>9. h \in Held /\ Child(h, "hackbench") /\ proc[h].at = "loaded" /\ Child(p, "fib")
  BY <1>4, <1>8 DEF LoadInv, Held
<1>10. h \in Pid \ {1, p} /\ p \in Pid \ {1} /\ proc[p].trial = Main.trial
  BY <1>9 DEF Child
<1>11. Child(h, "hackbench")' /\ proc'[h].at = "loaded" /\ Child(p, "fib")'
  BY <1>5, <1>6, <1>9, <1>10 DEF Child, Kept, Rest
<1>12. LoadInv'
  BY <1>4, <1>6, <1>8, <1>11 DEF LoadInv, Main
<1>13. ~Logged /\ Logged'
  BY <1>1, <1>4, <1>5, <1>6 DEF Logged
<1>14. QED
  BY <1>1, <1>4, <1>6, <1>7, <1>10, <1>12, <1>13

----------------------------------------------------------------------------
(* The log and the loops.                                                   *)

\* Products grow with their factors.
LEMMA TimesMonotone ==
  ASSUME NEW a \in Nat, NEW b \in Nat, NEW c \in Nat, a <= b
  PROVE  a * c <= b * c
  OBVIOUS

\* How often a loop from lo to hi runs.
LEMMA StepsAre ==
  ASSUME NEW lo \in Nat, NEW hi \in Nat, lo <= hi, NEW s \in Nat \ {0}, NEW n,
         n = (hi - lo) \div s + 1
  PROVE  /\ n \in Nat \ {0}
         /\ \A k \in 0 .. n : s * k \in Nat /\ (lo + s * k <= hi <=> k < n)
<1> DEFINE d == hi - lo
           q == d \div s
<1>1. d \in Nat
  OBVIOUS
<1>2. \A m \in Nat : lo + m <= hi <=> m <= d
  OBVIOUS
<1> HIDE DEF d
<1>3. q \in Nat /\ d = s * q + (d % s) /\ d % s \in 0 .. s - 1
  BY <1>1
<1>4. n = q + 1
  BY DEF d
<1> HIDE DEF q
<1>5. ASSUME NEW k \in 0 .. n
      PROVE  s * k \in Nat /\ (s * k <= d <=> k < n)
  <2>1. k \in Nat /\ s * k \in Nat /\ s * q \in Nat /\ s * (q + 1) = s * q + s
        /\ k * s = s * k /\ q * s = s * q
    BY <1>3, <1>4
  <2>2. CASE k <= q
    <3>1. k * s <= q * s
      BY <1>3, <2>1, <2>2, TimesMonotone
    <3>2. s * k <= d
      BY <1>3, <2>1, <3>1
    <3>3. QED
      BY <1>3, <1>4, <2>1, <2>2, <3>2
  <2>3. CASE k = q + 1
    <3>1. ~(s * k <= d)
      BY <1>1, <1>3, <2>1, <2>3
    <3>2. QED
      BY <1>3, <1>4, <2>1, <2>3, <3>1
  <2>4. QED
    BY <1>3, <1>4, <2>1, <2>2, <2>3
<1>6. QED
  BY <1>2, <1>3, <1>4, <1>5

\* The two outer loops.
LEMMA LoopsAre ==
  /\ Fibs \in Nat \ {0} /\ Pairs \in Nat \ {0}
  /\ \A b \in 0 .. Fibs : FibStep * b \in Nat /\ (MinFib + FibStep * b <= MaxFib <=> b < Fibs)
  /\ \A a \in 0 .. Pairs : PairsStep * a \in Nat /\ (MinPairs + PairsStep * a <= MaxPairs <=> a < Pairs)
<1>1. /\ Fibs \in Nat \ {0}
      /\ \A b \in 0 .. Fibs : FibStep * b \in Nat /\ (MinFib + FibStep * b <= MaxFib <=> b < Fibs)
  <2>1. /\ MinFib \in Nat /\ MaxFib \in Nat /\ MinFib <= MaxFib /\ FibStep \in Nat \ {0}
        /\ Fibs = (MaxFib - MinFib) \div FibStep + 1
    BY Arguments DEF Fibs
  <2>2. QED
    BY <2>1, StepsAre
<1>2. /\ Pairs \in Nat \ {0}
      /\ \A a \in 0 .. Pairs : PairsStep * a \in Nat /\ (MinPairs + PairsStep * a <= MaxPairs <=> a < Pairs)
  <2>1. /\ MinPairs \in Nat /\ MaxPairs \in Nat /\ MinPairs <= MaxPairs /\ PairsStep \in Nat \ {0}
        /\ Pairs = (MaxPairs - MinPairs) \div PairsStep + 1
    BY Arguments DEF Pairs
  <2>2. QED
    BY <2>1, StepsAre
<1>3. QED
  BY <1>1, <1>2

\* A quotient and a remainder, taken apart again.
LEMMA Unsplit ==
  ASSUME NEW n \in Nat \ {0}, NEW a \in Nat, NEW b \in 0 .. n - 1
  PROVE  /\ a * n + b \in Nat /\ (a * n + b) \div n = a /\ (a * n + b) % n = b
<1> DEFINE k == a * n + b
           q == k \div n
<1>1. k \in Nat /\ a * n \in Nat /\ k = a * n + b
  OBVIOUS
<1> HIDE DEF k
<1>2. q \in Nat /\ k % n \in 0 .. n - 1 /\ k = n * q + (k % n) /\ n * q = q * n /\ q * n \in Nat
  BY <1>1
<1> HIDE DEF q
<1>3. CASE q + 1 <= a
  <2>1. (q + 1) * n <= a * n /\ (q + 1) * n = q * n + n
    BY <1>2, <1>3, TimesMonotone
  <2>2. QED
    BY <1>1, <1>2, <2>1
<1>4. CASE a + 1 <= q
  <2>1. (a + 1) * n <= q * n /\ (a + 1) * n = a * n + n
    BY <1>2, <1>4, TimesMonotone
  <2>2. QED
    BY <1>1, <1>2, <2>1
<1>5. CASE q = a
  BY <1>1, <1>2, <1>5 DEF k, q
<1>6. QED
  BY <1>2, <1>3, <1>4, <1>5

\* The record of the trial of a steps of pairs, b of fib and r repetitions.
LEMMA EntryIs ==
  ASSUME NEW a \in Nat, NEW b \in 0 .. Fibs - 1, NEW r \in 0 .. NumReps - 1
  PROVE  /\ (a * Fibs + b) * NumReps + r \in Nat
         /\ Entry((a * Fibs + b) * NumReps + r + 1) =
              [pairs |-> MinPairs + PairsStep * a, fib |-> MinFib + FibStep * b, rep |-> r]
<1> DEFINE k == a * Fibs + b
           m == k * NumReps + r
           i == b * NumReps + r
<1>1. Fibs \in Nat \ {0} /\ NumReps \in Nat \ {0}
  BY LoopsAre, Arguments
<1>2. k \in Nat /\ k % Fibs = b
  BY <1>1, Unsplit
<1> HIDE DEF k
<1>3. m \in Nat /\ m \div NumReps = k /\ m % NumReps = r
  BY <1>1, <1>2, Unsplit
<1>4. i \in 0 .. Fibs * NumReps - 1 /\ Fibs * NumReps \in Nat \ {0}
  <2>1. (b + 1) * NumReps <= Fibs * NumReps /\ (b + 1) * NumReps = b * NumReps + NumReps
    BY <1>1, TimesMonotone
  <2>2. b * NumReps \in Nat /\ Fibs * NumReps \in Nat
    BY <1>1
  <2>3. QED
    BY <1>1, <2>1, <2>2
<1>5. m = a * (Fibs * NumReps) + i
  <2>1. (a * Fibs + b) * NumReps = a * (Fibs * NumReps) + b * NumReps
    BY <1>1
  <2>2. a * (Fibs * NumReps) \in Nat /\ b * NumReps \in Nat
    BY <1>1
  <2>3. QED
    BY <2>1, <2>2 DEF k
<1> HIDE DEF i
<1>6. m \div (Fibs * NumReps) = a
  <2> DEFINE f == Fibs * NumReps
  <2>1. f \in Nat \ {0} /\ i \in 0 .. f - 1 /\ m = a * f + i
    BY <1>4, <1>5
  <2> HIDE DEF f, m
  <2>2. m \div f = a
    BY <2>1, Unsplit
  <2>3. QED
    BY <2>2 DEF f
<1> HIDE DEF m
<1>7. Entry(m + 1) = [pairs |-> MinPairs + PairsStep * a, fib |-> MinFib + FibStep * b, rep |-> r]
  <2>1. m + 1 - 1 = m
    BY <1>3
  <2>2. QED
    BY <1>2, <1>3, <1>6, <2>1 DEF Entry
<1>8. QED
  BY <1>3, <1>7 DEF m, k

\* A step that neither logs nor goes on to another trial.
LEMMA LogKept ==
  ASSUME LogInv, log' = log, Main'.trial = Main.trial, Logged' <=> Logged,
         Main'.at = "dead" => Main.trial.pairs > MaxPairs,
         Main.trial.pairs > MaxPairs => Main'.at \in {"loop", "dead"}
  PROVE  LogInv'
<1>1. PICK a \in 0 .. Pairs, b \in 0 .. Fibs - 1 : Counts(a, b)
  BY DEF LogInv
<1>2. Counts(a, b)'
  BY <1>1 DEF Counts
<1>3. (\E x \in 0 .. Pairs, y \in 0 .. Fibs - 1 : Counts(x, y))'
  BY <1>1, <1>2
<1>4. (\A n \in 1 .. Len(log) : log[n] = Entry(n))'
  BY DEF LogInv, Entry
<1>5. QED
  BY <1>3, <1>4 DEF LogInv

\* fib logs the trial whose turn it is.
LEMMA LogFib ==
  ASSUME TypeOK, LogInv, Main.at = "wait_fib", ~Logged, Logged', Main' = Main,
         log' = Append(log, Main.trial)
  PROVE  LogInv'
<1>1. PICK a \in 0 .. Pairs, b \in 0 .. Fibs - 1 : Counts(a, b)
  BY DEF LogInv
<1>2. Main.trial \in Trial
  BY Arguments, Fields DEF Main
<1>3. PICK r \in 0 .. NumReps - 1 :
        Main.trial = [pairs |-> MinPairs + PairsStep * a, fib |-> MinFib + FibStep * b, rep |-> r]
  BY <1>1, <1>2 DEF Counts, Trial
<1>4. log \in Seq(Trial) /\ Len(log) = (a * Fibs + b) * NumReps + r
  <2>1. Len(log) = (a * Fibs + b) * NumReps + r + 0
    BY <1>1, <1>3 DEF Counts
  <2>2. (a * Fibs + b) * NumReps + r \in Nat
    <3>1. a \in Nat
      OBVIOUS
    <3>2. QED
      BY <3>1, EntryIs
  <2>3. QED
    BY <2>1, <2>2 DEF TypeOK
<1>5. Entry(Len(log) + 1) = Main.trial
  BY <1>3, <1>4, EntryIs
<1>6. Len(log) \in Nat /\ Len(log') = Len(log) + 1 /\ log'[Len(log) + 1] = Main.trial
      /\ \A n \in 1 .. Len(log) : log'[n] = log[n]
  BY <1>2, <1>4
<1>7. (\A n \in 1 .. Len(log) : log[n] = Entry(n))'
  <2>1. \A n \in 1 .. Len(log') : n = Len(log) + 1 \/ n \in 1 .. Len(log)
    BY <1>6
  <2>2. \A n \in 1 .. Len(log') : log'[n] = Entry(n)
    BY <1>5, <1>6, <2>1 DEF LogInv
  <2>3. QED
    BY <2>2 DEF Entry
<1>8. Counts(a, b)'
  <2>1. Len(log') = (a * Fibs + b) * NumReps + r + 1
    BY <1>4, <1>6
  <2>2. Main.trial.rep = r
    BY <1>3
  <2>3. QED
    BY <1>1, <2>1, <2>2 DEF Counts
<1>9. (\E x \in 0 .. Pairs, y \in 0 .. Fibs - 1 : Counts(x, y))'
  BY <1>1, <1>8
<1>10. QED
  BY <1>7, <1>9 DEF LogInv

\* The next trial is the next turn of the innermost loop that is not over.
LEMMA LogNext ==
  ASSUME TypeOK, LogInv, Main.at = "next", Main'.at = "loop", Main'.trial = After(Main.trial),
         log' = log
  PROVE  LogInv'
<1>1. PICK a \in 0 .. Pairs, b \in 0 .. Fibs - 1 : Counts(a, b)
  BY DEF LogInv
<1>2. PICK t \in Trial : t = Main.trial
  BY Arguments, Fields DEF Main
<1>3. /\ t.pairs \in Nat /\ t.fib \in Nat /\ t.rep \in 0 .. NumReps - 1
      /\ t = [pairs |-> t.pairs, fib |-> t.fib, rep |-> t.rep]
  BY <1>2 DEF Trial
<1>4. Logged /\ ~Logged'
  BY DEF Logged
<1>5. /\ t.pairs = MinPairs + PairsStep * a /\ t.fib = MinFib + FibStep * b
      /\ Len(log) = (a * Fibs + b) * NumReps + t.rep + 1
  BY <1>1, <1>2, <1>4 DEF Counts
<1>6. t.pairs <= MaxPairs
  BY <1>2, <1>3, Arguments DEF LogInv
<1>7. /\ Fibs \in Nat \ {0} /\ Pairs \in Nat \ {0} /\ NumReps \in Nat \ {0}
      /\ a < Pairs /\ FibStep * (b + 1) \in Nat
      /\ (MinFib + FibStep * (b + 1) <= MaxFib <=> b + 1 < Fibs)
  <2>1. b + 1 \in 0 .. Fibs
    BY LoopsAre
  <2>2. QED
    BY <1>5, <1>6, <2>1, Arguments, LoopsAre
<1>8. /\ FibStep * (b + 1) = FibStep * b + FibStep /\ PairsStep * (a + 1) = PairsStep * a + PairsStep
      /\ FibStep * b \in Nat /\ PairsStep * a \in Nat /\ FibStep * 0 = 0
  BY Arguments, LoopsAre
<1>9. /\ (a * Fibs + (b + 1)) * NumReps = (a * Fibs + b) * NumReps + NumReps
      /\ (a * Fibs + b) * NumReps \in Nat
      /\ ((a + 1) * Fibs + 0) * NumReps = (a * Fibs + Fibs) * NumReps
  <2>1. a * Fibs \in Nat /\ (a + 1) * Fibs = a * Fibs + Fibs
    BY <1>7
  <2> DEFINE k == a * Fibs
  <2> HIDE DEF k
  <2>2. k \in Nat => (k + (b + 1)) * NumReps = (k + b) * NumReps + NumReps /\ (k + b) * NumReps \in Nat
    BY <1>7
  <2>3. QED
    BY <1>7, <2>1, <2>2 DEF k
<1>10. ASSUME NEW x \in 0 .. Pairs, NEW y \in 0 .. Fibs - 1, NEW r,
              After(t) = [pairs |-> MinPairs + PairsStep * x, fib |-> MinFib + FibStep * y, rep |-> r],
              Len(log) = (x * Fibs + y) * NumReps + r,
              MinPairs + PairsStep * x > MaxPairs => y = 0 /\ r = 0
       PROVE  LogInv'
  <2>1. /\ Main'.trial.pairs = MinPairs + PairsStep * x /\ Main'.trial.fib = MinFib + FibStep * y
        /\ Main'.trial.rep = r
    BY <1>2, <1>10
  <2>2. Len(log) \in Nat
    BY DEF TypeOK
  <2>3. Counts(x, y)'
    BY <1>4, <1>10, <2>1, <2>2 DEF Counts
  <2>4. (\E u \in 0 .. Pairs, v \in 0 .. Fibs - 1 : Counts(u, v))'
    BY <2>3
  <2>5. (\A n \in 1 .. Len(log) : log[n] = Entry(n))'
    BY DEF LogInv, Entry
  <2>6. MinFib + FibStep * 0 = MinFib
    BY <1>8, Arguments
  <2>7. QED
    BY <1>10, <2>1, <2>4, <2>5, <2>6 DEF LogInv
<1>11. CASE t.rep + 1 < NumReps
  <2>1. After(t) = [t EXCEPT !.rep = t.rep + 1]
    BY <1>11 DEF After
  <2>2. After(t) = [pairs |-> MinPairs + PairsStep * a, fib |-> MinFib + FibStep * b, rep |-> t.rep + 1]
    BY <1>3, <1>5, <2>1
  <2>3. Len(log) = (a * Fibs + b) * NumReps + (t.rep + 1)
    BY <1>3, <1>5, <1>9
  <2>4. QED
    BY <1>5, <1>6, <1>10, <2>2, <2>3, Arguments, <1>8
<1>12. CASE ~(t.rep + 1 < NumReps) /\ b + 1 < Fibs
  <2>1. t.fib + FibStep <= MaxFib /\ t.fib + FibStep = MinFib + FibStep * (b + 1)
    BY <1>5, <1>7, <1>8, <1>12, Arguments
  <2>2. After(t) = [t EXCEPT !.rep = 0, !.fib = t.fib + FibStep]
    BY <1>12, <2>1 DEF After
  <2>3. After(t) = [pairs |-> MinPairs + PairsStep * a, fib |-> MinFib + FibStep * (b + 1), rep |-> 0]
    BY <1>3, <1>5, <2>1, <2>2
  <2>4. t.rep + 1 = NumReps
    BY <1>3, <1>7, <1>12
  <2>5. Len(log) = (a * Fibs + (b + 1)) * NumReps + 0
    BY <1>3, <1>5, <1>7, <1>9, <2>4
  <2>6. b + 1 \in 0 .. Fibs - 1
    BY <1>7, <1>12
  <2>7. QED
    BY <1>5, <1>6, <1>8, <1>10, <2>3, <2>5, <2>6, Arguments
<1>13. CASE ~(t.rep + 1 < NumReps) /\ ~(b + 1 < Fibs)
  <2>1. ~(t.fib + FibStep <= MaxFib)
    BY <1>5, <1>7, <1>8, <1>13, Arguments
  <2>2. After(t) = [pairs |-> t.pairs + PairsStep, fib |-> MinFib, rep |-> 0]
    BY <1>13, <2>1 DEF After
  <2>3. t.pairs + PairsStep = MinPairs + PairsStep * (a + 1) /\ MinFib = MinFib + FibStep * 0
    BY <1>5, <1>8, Arguments
  <2>4. After(t) = [pairs |-> MinPairs + PairsStep * (a + 1), fib |-> MinFib + FibStep * 0, rep |-> 0]
    BY <2>2, <2>3
  <2>5. b + 1 = Fibs /\ t.rep + 1 = NumReps
    BY <1>3, <1>7, <1>13
  <2>6. Len(log) = ((a + 1) * Fibs + 0) * NumReps + 0
    <3>1. Len(log) = (a * Fibs + (b + 1)) * NumReps
      BY <1>3, <1>5, <1>7, <1>9, <2>5
    <3>2. Len(log) = ((a + 1) * Fibs + 0) * NumReps
      BY <1>9, <2>5, <3>1
    <3>3. Len(log) \in Nat
      BY DEF TypeOK
    <3>4. QED
      BY <3>2, <3>3
  <2>7. a + 1 \in 0 .. Pairs /\ 0 \in 0 .. Fibs - 1
    BY <1>7
  <2>8. QED
    BY <1>10, <2>4, <2>6, <2>7
<1>14. QED
  BY <1>11, <1>12, <1>13

\* A step of the one launcher while nothing has failed.
LEMMA CalmLauncher ==
  ASSUME TypeOK, KindInv, SoleInv, LoadInv, LogInv, LauncherStep(1), UNCHANGED faults
  PROVE  SoleInv' /\ LoadInv' /\ LogInv'
<1>1. CASE BeginTrial(1)
  <2>1. /\ Rest(1) /\ Main.at = "loop" /\ log' = log
        /\ Main'.at = IF MorePairs(Main.trial) THEN "fork_hackbench" ELSE "dead"
    BY <1>1, PlainFrame, Arguments DEF BeginTrial, Main
  <2>2. Main'.trial = Main.trial /\ ~Logged /\ ~Logged'
    BY <2>1 DEF Rest, Main, Logged
  <2>3. Main.trial.pairs \in Nat
    BY Arguments, Fields DEF Main, Trial
  <2>4. LogInv'
    BY <2>1, <2>2, <2>3, LogKept, Arguments
  <2>5. QED
    BY <1>1, <2>4, CalmBegin
<1>2. ASSUME SoleInv', LoadInv', log' = log, Main'.trial = Main.trial, Logged' <=> Logged,
             Main.at \notin {"loop", "dead"}, Main'.at \notin {"loop", "dead"}
      PROVE  SoleInv' /\ LoadInv' /\ LogInv'
  BY <1>2, LogKept DEF LogInv
<1>3. CASE ForkHackbench(1)
  <2>1. SoleInv' /\ LoadInv' /\ Main'.at = "sleep" /\ Main'.trial = Main.trial /\ log' = log
    BY <1>3, CalmForkHackbench
  <2>2. Main.at = "fork_hackbench"
    BY <1>3 DEF ForkHackbench, Forks, Main
  <2>3. ~Logged /\ ~Logged'
    BY <2>1, <2>2 DEF Logged
  <2>4. QED
    BY <1>2, <2>1, <2>2, <2>3
<1>4. CASE SleepOver(1)
  <2>1. SoleInv' /\ LoadInv' /\ Main'.at = "fork_fib"
    BY <1>4, CalmSleep
  <2>2. Main.at = "sleep" /\ log' = log /\ Main'.trial = Main.trial
    BY <1>4, PlainFrame, Arguments DEF SleepOver, Main, Rest
  <2>3. ~Logged /\ ~Logged'
    BY <2>1, <2>2 DEF Logged
  <2>4. QED
    BY <1>2, <2>1, <2>2, <2>3
<1>5. CASE ForkFib(1)
  <2>1. /\ SoleInv' /\ LoadInv' /\ Main'.at = "wait_fib" /\ Main'.trial = Main.trial
        /\ proc'[Main'.fib].at = "running" /\ log' = log
    BY <1>5, CalmForkFib
  <2>2. Main.at = "fork_fib"
    BY <1>5 DEF ForkFib, Forks, Main
  <2>3. ~Logged /\ ~Logged'
    BY <2>1, <2>2 DEF Logged
  <2>4. QED
    BY <1>2, <2>1, <2>2, <2>3
<1>6. CASE WaitFib(1)
  <2>1. /\ SoleInv' /\ LoadInv' /\ Main'.at = "check" /\ Main'.trial = Main.trial
        /\ proc[Main.fib].at = "dead" /\ Main.at = "wait_fib"
    BY <1>6, CalmWaitFib
  <2>2. log' = log
    BY <1>6 DEF WaitFib
  <2>3. Logged /\ Logged'
    BY <2>1 DEF Logged
  <2>4. QED
    BY <1>2, <2>1, <2>2, <2>3
<1>7. CASE Check(1)
  <2>1. SoleInv' /\ LoadInv' /\ Main'.at = "kill"
    BY <1>7, CalmCheck
  <2>2. Main.at = "check" /\ log' = log /\ Main'.trial = Main.trial
    BY <1>7, PlainFrame, Arguments DEF Check, Main, Rest
  <2>3. Logged /\ Logged'
    BY <2>1, <2>2 DEF Logged
  <2>4. QED
    BY <1>2, <2>1, <2>2, <2>3
<1>8. CASE Kill(1)
  <2>1. SoleInv' /\ LoadInv' /\ Main.at = "kill" /\ Main'.at = "wait_hackbench" /\ Main'.trial = Main.trial
    BY <1>8, CalmKill
  <2>2. log' = log
    BY <1>8 DEF Kill
  <2>3. Logged /\ Logged'
    BY <2>1 DEF Logged
  <2>4. QED
    BY <1>2, <2>1, <2>2, <2>3
<1>9. CASE WaitHackbench(1)
  <2>1. /\ SoleInv' /\ LoadInv' /\ Main.at = "wait_hackbench" /\ Main'.at = "next"
        /\ Main'.trial = Main.trial
    BY <1>9, CalmWaitHackbench
  <2>2. log' = log
    BY <1>9 DEF WaitHackbench
  <2>3. Logged /\ Logged'
    BY <2>1 DEF Logged
  <2>4. QED
    BY <1>2, <2>1, <2>2, <2>3
<1>10. CASE NextTrial(1)
  <2>1. /\ SoleInv' /\ LoadInv' /\ Main.at = "next" /\ Main'.at = "loop"
        /\ Main'.trial = After(Main.trial)
    BY <1>10, CalmNext
  <2>2. log' = log
    BY <1>10 DEF NextTrial
  <2>3. QED
    BY <2>1, <2>2, LogNext
<1>11. QED
  BY <1>1, <1>3, <1>4, <1>5, <1>6, <1>7, <1>8, <1>9, <1>10 DEF LauncherStep

\* Every step keeps what holds while nothing has failed.
LEMMA CalmStep ==
  ASSUME TypeOK, KindInv, CalmInv, NEW p \in Pid,
         LauncherStep(p) \/ HackbenchMoves(p, L(1)!SelfMoves) \/ FibEnds(p)
  PROVE  CalmInv'
<1>1. SUFFICES ASSUME faults' = 0
               PROVE  SoleInv' /\ LoadInv' /\ LogInv'
  BY DEF CalmInv
<1>2. faults' = faults \/ faults' = faults + 1
  <2>1. CASE LauncherStep(p)
    BY <2>1 DEF LauncherStep, BeginTrial, SleepOver, Check, ForkHackbench, ForkFib, Forks,
       WaitFib, WaitHackbench, Kill, NextTrial, Fault
  <2>2. CASE HackbenchMoves(p, L(1)!SelfMoves)
    BY <2>2 DEF HackbenchMoves, Fault
  <2>3. CASE FibEnds(p)
    BY <2>3 DEF FibEnds
  <2>4. QED
    BY <2>1, <2>2, <2>3
<1>3. faults = 0 /\ UNCHANGED faults
  BY <1>1, <1>2 DEF TypeOK
<1>4. SoleInv /\ LoadInv /\ LogInv
  BY <1>3 DEF CalmInv
<1>5. CASE LauncherStep(p)
  <2>1. p = 1
    BY <1>4, <1>5, OnlyLauncher DEF LauncherStep
  <2>2. QED
    BY <1>3, <1>4, <1>5, <2>1, CalmLauncher
<1>6. CASE HackbenchMoves(p, L(1)!SelfMoves)
  <2>1. SoleInv' /\ LoadInv' /\ Main' = Main /\ (Logged' <=> Logged) /\ log' = log
    BY <1>3, <1>4, <1>6, CalmHackbench DEF HackbenchMoves
  <2>2. LogInv'
    <3>1. Main'.trial = Main.trial /\ Main'.at = Main.at
      BY <2>1
    <3>2. /\ Main'.at = "dead" => Main.trial.pairs > MaxPairs
          /\ Main.trial.pairs > MaxPairs => Main'.at \in {"loop", "dead"}
      BY <1>4, <3>1 DEF LogInv
    <3>3. QED
      BY <1>4, <2>1, <3>1, <3>2, LogKept
  <2>3. QED
    BY <2>1, <2>2
<1>7. CASE FibEnds(p)
  <2>1. /\ SoleInv' /\ LoadInv' /\ Main' = Main /\ Main.at = "wait_fib" /\ ~Logged /\ Logged'
        /\ log' = Append(log, Main.trial)
    BY <1>4, <1>7, CalmFib
  <2>2. QED
    BY <1>4, <2>1, LogFib
<1>8. QED
  BY <1>5, <1>6, <1>7

----------------------------------------------------------------------------
(* The theorems.                                                            *)

\* The launcher starts with its first trial and an empty log.
LEMMA LauncherInit ==
  ASSUME Init
  PROVE  LauncherInv
<1> DEFINE first == [Unused EXCEPT !.prog = "launcher", !.at = "loop"]
<1>1. /\ proc = [p \in Pid |-> IF p = 1 THEN first ELSE Unused]
      /\ log = <<>> /\ faults = 0 /\ 1 \in Pid
  BY Arguments DEF Init
<1>2. "loop" \in Ats /\ "loop" \in Places
  BY DEF Ats, Places
<1>3. /\ first \in Process /\ first.prog = "launcher" /\ first.at = "loop" /\ ~first.reaped
      /\ first.trial = [pairs |-> MinPairs, fib |-> MinFib, rep |-> 0]
  BY <1>2, UnusedType, Records DEF Unused
<1> HIDE DEF first
<1>4. proc[1] = first /\ \A p \in Pid \ {1} : proc[p] = Unused
  BY <1>1
<1>5. TypeOK
  BY <1>1, <1>3, UnusedType, Arguments DEF TypeOK
<1>6. KindInv
  BY <1>2, <1>3, <1>4, UnusedType DEF KindInv, KindOf
<1>7. OwnInv
  BY <1>3, <1>4, UnusedType DEF OwnInv, OwnOf
<1>8. SoleInv /\ LoadInv
  BY <1>3, <1>4, UnusedType DEF SoleInv, LoadInv, Held, Main
<1>9. LogInv
  <2>1. /\ Main.trial.pairs = MinPairs /\ Main.trial.fib = MinFib /\ Main.trial.rep = 0
        /\ Main.at = "loop"
    BY <1>3, <1>4 DEF Main
  <2>2. 0 \in 0 .. Pairs /\ 0 \in 0 .. Fibs - 1 /\ ~Logged
    BY <2>1, LoopsAre DEF Logged
  <2>3. (0 * Fibs + 0) * NumReps + 0 + 0 = 0
    BY LoopsAre, Arguments
  <2>4. MinPairs = MinPairs + PairsStep * 0 /\ MinFib = MinFib + FibStep * 0
    BY Arguments
  <2>5. Counts(0, 0)
    BY <1>1, <2>1, <2>2, <2>3, <2>4 DEF Counts
  <2>6. 1 .. Len(log) = {}
    BY <1>1
  <2>7. QED
    BY <2>1, <2>2, <2>5, <2>6 DEF LogInv
<1>10. QED
  BY <1>5, <1>6, <1>7, <1>8, <1>9 DEF LauncherInv, CalmInv

\* Every step keeps the invariant.
LEMMA LauncherStepInv ==
  ASSUME LauncherInv, [Next]_vars
  PROVE  LauncherInv'
<1>1. CASE Next
  <2>1. TypeOK'
    BY TypeStep DEF LauncherInv
  <2>2. KindInv' /\ OwnInv' /\ CalmInv'
    BY <1>1, KindStep, OwnStep, CalmStep DEF LauncherInv, Next
  <2>3. QED
    BY <2>1, <2>2 DEF LauncherInv
<1>2. CASE UNCHANGED vars
  <2>1. proc' = proc /\ log' = log /\ faults' = faults
    BY <1>2 DEF vars
  <2>2. TypeOK'
    BY TypeStep DEF LauncherInv
  <2>3. KindInv'
    BY <2>1 DEF LauncherInv, KindInv, KindOf, Down, Lives
  <2>4. OwnInv'
    BY <2>1 DEF LauncherInv, OwnInv, OwnOf, HoldsOwn, Unreaped, Free
  <2>5. (SoleInv /\ LoadInv => SoleInv' /\ LoadInv')
    BY <2>1 DEF SoleInv, LoadInv, Held, Child, Main
  <2>6. LogInv => LogInv'
    BY <2>1 DEF LogInv, Counts, Logged, Main, Entry
  <2>7. QED
    BY <2>1, <2>2, <2>3, <2>4, <2>5, <2>6 DEF LauncherInv, CalmInv
<1>3. QED
  BY <1>1, <1>2

\* The inductive invariant holds of every behaviour, whatever fails.
THEOREM LauncherInvariant == Spec => []LauncherInv
<1>1. Init => LauncherInv
  BY LauncherInit
<1>2. LauncherInv /\ [Next]_vars => LauncherInv'
  BY LauncherStepInv
<1>3. QED
  BY <1>1, <1>2, PTL DEF Spec

\* The process table stays one of launchers, hackbenches and fibs that hold pids, or -1
\* from a fork that failed and 0 in a copy, for all arguments of the program.
THEOREM TypeCorrect == Spec => []TypeOK
<1>1. LauncherInv => TypeOK
  BY DEF LauncherInv
<1>2. QED
  BY <1>1, LauncherInvariant, PTL

\* Also of the copies of itself that a failed exec leaves running: run_trial never sends
\* SIGTERM to the pid of another launcher's hackbench, nor to one that wait() has released.
THEOREM KillsOwnChildHolds == Spec => []KillsOwnChild
<1>1. LauncherInv => KillsOwnChild
  BY DEF LauncherInv, OwnInv, OwnOf, HoldsOwn, KillsOwnChild, Is
<1>2. QED
  BY <1>1, LauncherInvariant, PTL

\* When nothing has failed, fib is measured beside one hackbench that is the trial's, and
\* fully loaded.
THEOREM MeasuredUnderLoadHolds == Spec => []MeasuredUnderLoad
<1>1. ASSUME LauncherInv, faults = 0, NEW p \in Pid, Is(p, "fib"), NEW q \in Pid, Is(q, "hackbench")
      PROVE  proc[q].trial = proc[p].trial /\ proc[q].at = "loaded"
  <2>1. SoleInv /\ LoadInv /\ KindInv
    BY <1>1 DEF LauncherInv, CalmInv
  <2>2. /\ proc[p].prog = "fib" /\ proc[p].at \notin Down \cup {"dead"}
        /\ proc[q].prog = "hackbench" /\ proc[q].at \notin Down \cup {"dead"}
    BY <1>1, AliveIs DEF Is
  <2>3. p \in Held /\ q \in Held
    BY <2>1, <2>2, HeldIs
  <2>4. Main.at = "wait_fib" /\ p = Main.fib /\ q = Main.hackbench
    BY <2>1, <2>2, <2>3 DEF Held, LoadInv, Child
  <2>5. QED
    BY <2>1, <2>3, <2>4 DEF LoadInv, Child
<1>2. LauncherInv => MeasuredUnderLoad
  BY <1>1 DEF MeasuredUnderLoad
<1>3. QED
  BY <1>2, LauncherInvariant, PTL

\* When the launcher is done and nothing has failed, the loops have logged every
\* combination of pairs, fib number and repetition once, in order, and nothing lives on.
THEOREM CompleteLogHolds == Spec => []CompleteLog
<1>1. ASSUME LauncherInv, faults = 0, proc[1].at = "dead"
      PROVE  /\ Alive = {} /\ Len(log) = Pairs * Fibs * NumReps
             /\ \A n \in 1 .. Len(log) : log[n] = Entry(n)
  <2>1. SoleInv /\ LogInv /\ KindInv /\ Main.at = "dead" /\ TypeOK
    BY <1>1 DEF LauncherInv, CalmInv, Main
  <2>2. Held = {} /\ ~Logged
    BY <2>1 DEF Held, Logged
  <2>3. Alive = {}
    <3>1. ASSUME NEW q \in Alive PROVE FALSE
      <4>1. q \in Pid /\ proc[q].prog # "none" /\ proc[q].at \notin Down \cup {"dead"}
        BY AliveIs
      <4>2. q # 1
        BY <2>1, <4>1 DEF Main
      <4>3. proc[q].reaped
        BY <2>1, <2>2, <4>1, <4>2 DEF SoleInv
      <4>4. QED
        BY <2>1, <4>1, <4>3 DEF KindInv, KindOf
    <3>2. QED
      BY <3>1
  <2>4. PICK a \in 0 .. Pairs, b \in 0 .. Fibs - 1 : Counts(a, b)
    BY <2>1 DEF LogInv
  <2>5. /\ MinPairs + PairsStep * a > MaxPairs /\ MinFib + FibStep * b = MinFib
        /\ Len(log) = (a * Fibs + b) * NumReps + 0 + 0
    BY <2>1, <2>2, <2>4 DEF LogInv, Counts
  <2>6. a = Pairs
    BY <2>5, LoopsAre, Arguments
  <2>7. b = 0
    <3>1. FibStep * b = 0
      BY <2>5, LoopsAre, Arguments
    <3>2. CASE b >= 1
      <4>1. 1 * FibStep <= b * FibStep /\ b * FibStep = FibStep * b
        BY <3>2, LoopsAre, Arguments, TimesMonotone
      <4>2. QED
        BY <3>1, <4>1, Arguments
    <3>3. QED
      BY <3>2, LoopsAre
  <2>8. Len(log) = Pairs * Fibs * NumReps
    <3>1. Pairs * Fibs \in Nat /\ Pairs * Fibs + 0 = Pairs * Fibs
      BY LoopsAre
    <3>2. Pairs * Fibs * NumReps \in Nat
      BY <3>1, Arguments
    <3>3. QED
      BY <2>5, <2>6, <2>7, <3>1, <3>2
  <2>9. QED
    BY <2>1, <2>3, <2>8 DEF LogInv
<1>2. LauncherInv => CompleteLog
  BY <1>1 DEF CompleteLog, Entry, Fibs, Pairs
<1>3. QED
  BY <1>2, LauncherInvariant, PTL
=============================================================================
