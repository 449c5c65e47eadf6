------------------------------- MODULE Tracker -------------------------------
(***************************************************************************)
(* The samplers time_tracker/time_tracker.cpp and sched_tracker.cpp, which *)
(* write a snapshot of /proc every ten milliseconds while the experiment   *)
(* runs beside them, and the plotter's parser, which keeps the snapshots   *)
(* that show as many hackbench processes as it expects.                    *)
(***************************************************************************)
EXTENDS Integers, Sequences, FiniteSets, FiniteSetsExt, SequencesExt

CONSTANTS
  Pids,         \* bound: the processes that come and go, in the order of their pids
  Hackbench,    \* those whose name contains hackbench
  Expected,     \* how many of them the parser counts on: 5
  Period,       \* 10 ms
  MaxDuration,  \* -t
  MaxClock      \* bound: the last tick of the clock

ASSUME PidsAssumption == /\ Pids \in Nat \ {0} /\ Hackbench \subseteq 1 .. Pids
                         /\ Expected \in Nat \ {0}
ASSUME TimeAssumption == /\ Period \in Nat \ {0} /\ MaxDuration \in Nat
                         /\ MaxClock \in Nat /\ MaxClock >= MaxDuration + Period

Pid  == 1 .. Pids
None == -1  \* no value was read

VARIABLES
  clock,    \* steady clock, and uptime; it starts with the program
  present,  \* the processes in /proc now
  unborn,   \* the processes still to be forked
  sum_exec, \* how long each has run: one CPU
  pc,
  cycle_start,
  cursor,   \* the last pid readdir has passed
  listed,   \* what it has listed and the loop has not come to
  steady,   \* history: the processes present since the scan began
  file,     \* the snapshots: a time and records <<pid, sum_exec>>
  opened,   \* the file could be opened: not checked
  killed

tracker == <<pc, cycle_start, cursor, listed, file, killed>>
world   == <<clock, present, unborn, sum_exec, opened>>
vars    == <<world, steady, tracker>>

TypeOK ==
  /\ clock \in 0 .. MaxClock /\ cycle_start \in 0 .. MaxClock
  /\ present \subseteq Pid /\ unborn \subseteq Pid \ present
  /\ sum_exec \in [Pid -> 0 .. MaxClock]
  /\ pc \in {"setup", "cycle", "stamp", "scan", "sleep", "stopped"}
  /\ cursor \in 0 .. Pids /\ listed \subseteq 1 .. cursor /\ steady \subseteq present
  /\ \A n \in DOMAIN file : /\ file[n].time \in 0 .. MaxClock
                            /\ file[n].records \in Seq(Pid \X ({None} \cup 0 .. MaxClock))
  /\ opened \in BOOLEAN /\ killed \in BOOLEAN

Init ==
  /\ clock = 0 /\ present \in SUBSET Pid /\ unborn = Pid \ present
  /\ sum_exec = [p \in Pid |-> 0]
  /\ pc = "setup" /\ cycle_start = 0 /\ cursor = 0 /\ listed = {} /\ steady = {}
  /\ file = <<>> /\ opened \in BOOLEAN /\ killed = FALSE

----------------------------------------------------------------------------
(* The machine around the tracker.                                          *)

Running == pc \notin {"setup", "stopped"}  \* nobody looks before and after

\* Time passes, and at most one hackbench has used it.
Tick ==
  /\ Running /\ clock < MaxClock /\ clock' = clock + 1
  /\ \/ UNCHANGED sum_exec
     \/ \E p \in present \cap Hackbench : sum_exec' = [sum_exec EXCEPT ![p] = @ + 1]
  /\ UNCHANGED <<present, unborn, steady, opened, tracker>>

Appears(p) ==
  /\ Running /\ p \in unborn /\ present' = present \cup {p} /\ unborn' = unborn \ {p}
  /\ UNCHANGED <<clock, sum_exec, steady, opened, tracker>>

Vanishes(p) ==
  /\ Running /\ p \in present /\ present' = present \ {p} /\ steady' = steady \ {p}
  /\ UNCHANGED <<clock, unborn, sum_exec, opened, tracker>>

\* Killed, it leaves what it has flushed: the file may end in the last record, after
\* the name.  If more is missing, that is as if it had been killed before.
Kill ==
  /\ Running /\ pc' = "stopped" /\ killed' = TRUE
  /\ \/ UNCHANGED file
     \/ /\ file # <<>> /\ Last(file).records # <<>>
        /\ file' = [file EXCEPT ![Len(file)].records[Len(Last(file).records)][2] = None]
  /\ UNCHANGED <<world, steady, cycle_start, cursor, listed>>

----------------------------------------------------------------------------
(* The tracker.                                                             *)

\* Pinning or the real-time priority may be refused.
Setup ==
  /\ pc = "setup" /\ pc' \in {"cycle", "stopped"}
  /\ UNCHANGED <<world, steady, cycle_start, cursor, listed, file, killed>>

TimeIsUp == clock >= MaxDuration

BeginCycle ==
  /\ pc = "cycle" /\ cycle_start' = clock
  /\ pc' = IF TimeIsUp THEN "stopped" ELSE "stamp"
  /\ UNCHANGED <<world, steady, cursor, listed, file, killed>>

StampTime ==
  /\ pc = "stamp" /\ pc' = "scan"
  /\ file' = IF opened THEN Append(file, [time |-> clock, records |-> <<>>]) ELSE file
  /\ cursor' = 0 /\ listed' = {} /\ steady' = present
  /\ UNCHANGED <<world, cycle_start, killed>>

\* readdir fetches the next names of /proc, as many as fit.
ReadDir ==
  /\ pc = "scan" /\ listed = {} /\ cursor < Pids
  /\ \E upto \in cursor + 1 .. Pids :
       cursor' = upto /\ listed' = present \cap (cursor + 1 .. upto)
  /\ UNCHANGED <<world, steady, pc, cycle_start, file, killed>>

Write(p, value) ==
  file' = IF opened THEN [file EXCEPT ![Len(file)].records = Append(@, <<p, value>>)] ELSE file

\* All the lines of /proc/<pid>/sched come from one read; if the process has gone
\* since it was listed, they are empty and its name is not written either.
ReadTwice(p) == \/ p \in present /\ \E value \in {None, sum_exec[p]} : Write(p, value)
                \/ p \notin present /\ UNCHANGED file  \* mutant: name and values read apart
ReadSched(p) == IF p \in present THEN Write(p, sum_exec[p]) ELSE UNCHANGED file

StopsAtGone(p) == IF p \in present THEN listed' = listed \ {p} /\ UNCHANGED cursor
                  ELSE listed' = {} /\ cursor' = Pids  \* mutant: break for continue
GoesOn(p)      == listed' = listed \ {p} /\ UNCHANGED cursor

ReadProcess ==
  /\ pc = "scan" /\ listed # {}
  /\ LET p == Min(listed) IN ReadSched(p) /\ GoesOn(p)
  /\ UNCHANGED <<world, steady, pc, cycle_start, killed>>

NeverSleeps == TRUE  \* mutant: the rest of the period is not slept
Overrun     == clock - cycle_start > Period

EndCycle ==
  /\ pc = "scan" /\ listed = {} /\ cursor = Pids
  /\ pc' = IF Overrun THEN "cycle" ELSE "sleep"
  /\ UNCHANGED <<world, steady, cycle_start, cursor, listed, file, killed>>

Wake ==
  /\ pc = "sleep" /\ clock >= cycle_start + Period /\ pc' = "cycle"
  /\ UNCHANGED <<world, steady, cycle_start, cursor, listed, file, killed>>

Sample == Setup \/ BeginCycle \/ StampTime \/ ReadDir \/ ReadProcess \/ EndCycle \/ Wake

Next == Sample \/ Kill \/ Tick \/ \E p \in Pid : Appears(p) \/ Vanishes(p)

Spec == Init /\ [][Next]_vars

----------------------------------------------------------------------------
(* The parser.                                                              *)

\* The records of a snapshot that show a hackbench, and those with a value.
Shown(s) == {i \in DOMAIN s.records : s.records[i][1] \in Hackbench}
Times(s) == {i \in Shown(s) : s.records[i][2] # None}

AnyCount(s) == Shown(s) # {}  \* mutant: every snapshot that shows a hackbench
HasAll(s)   == Cardinality(Shown(s)) = Expected
Processed   == {n \in DOMAIN file : HasAll(file[n])}

\* Which of the plotted hackbenches a record counts as: they are numbered as they come.
Number(s, i) == Cardinality({j \in Times(s) : j <= i})

----------------------------------------------------------------------------
(* Properties.                                                              *)

\* What is plotted as the i-th hackbench is one process throughout, and the time it
\* has run never falls, if no more of them ever existed than the parser expects:
\* whatever came, went or was half listed while a snapshot was taken.
SameProcess ==
  Cardinality(Hackbench) <= Expected =>
    \A m, n \in Processed : m < n =>
      \A i \in Times(file[m]), j \in Times(file[n]) : Number(file[m], i) = Number(file[n], j) =>
        LET r == file[m].records[i]
            t == file[n].records[j]
        IN  r[1] = t[1] /\ r[2] <= t[2]

\* Every snapshot that is plotted has a value for each process, except the last one
\* of a tracker that was killed while it wrote.
CompletePoints ==
  \A n \in Processed : ~(killed /\ n = Len(file)) => Cardinality(Times(file[n])) = Expected

\* The n-th snapshot is not taken before n - 1 periods are over, and there are no more of
\* them than periods that have begun when the time is up.  Of any two, the later one
\* comes at least as many periods after the earlier one as there are snapshots between
\* them: two may come in one period, when the first is stamped late, but not three.
\* And only the last one can be stamped after the time is up, if its cycle began before.
OnSchedule ==
  /\ Len(file) * Period < MaxDuration + Period
  /\ \A n \in 1 .. Len(file) :
       /\ file[n].time >= (n - 1) * Period
       /\ \A m \in 1 .. n - 1 : file[n].time >= file[m].time + (n - m - 1) * Period
       /\ n < Len(file) => file[n].time < MaxDuration

\* A scan records every process that was there all along once, whatever vanished or
\* appeared next to it.
SeesSteady ==
  [][EndCycle /\ opened => \A p \in steady :
       Cardinality({i \in DOMAIN Last(file).records : Last(file).records[i][1] = p}) = 1]_vars
=============================================================================
