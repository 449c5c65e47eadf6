# Formal models of the scheduler-comparison programs

The repository compares Linux schedulers (CFS and EEVDF).  Its programs are a
load generator (`hackbench/`, and an earlier variant in `toy/`), drivers that time
a test program under that load (`launcher/` with the harnesses of `gzip/`,
`extract/`, `ffmpeg/`, then `gzip/hackbench_interupt.cpp` and `toy/launcher.c`), a
client that measures the latency of an HTTP server (`apache/http_client/`), a query
timer for PostgreSQL (`postgresql/`), samplers of `/proc` (`time_tracker/`), and
scripts that turn the logs into plots.  What they have in common is that **a number
is only worth something if the processes were where the program thinks they were
when it was taken**: all workers alive before the clock starts, exactly one load of
the right size, the right child waited for, no reply outstanding, the same process
behind each curve, nothing left over for the next trial.  These modules state that,
check it with TLC and, but for liveness, prove it with TLAPS.

## 1. Inventory

| Component | State it keeps | Operations | Interacts through |
|---|---|---|---|
| hackbench `main` (`hackbench/hackbench.c`) | `child_tab`, `total_children`, `signal_caught`, `jmpbuf`, `timer_started`, two pipes | set up, `group` x `num_groups`, barrier, `reap_workers` | fork, pipes, kill, wait, signals |
| hackbench workers (`sender`, `receiver`) | loop counters, inherited signal handlers | `reset_worker_signals`, `ready`, write/read loops, exit | ready pipe, wake pipe, one pipe per receiver |
| toy hackbench (`toy/hackbench.c`) | the same, and the process's signal handlers shared by all threads | the same, with `pthread_create` and `pthread_join` | threads, sockets or pipes, signals |
| launcher (`launcher/launcher.cpp`) | `num_pairs`, `rep`, the pids it holds, the log | `run_trial` in two nested loops | fork/exec, wait(NULL), kill |
| test harnesses (`*/test_*_harness.cpp`) | the output file of the test program | `run_prog` | fork/exec, wait(NULL), file system |
| interrupting driver (`gzip/hackbench_interupt.cpp`) | as the launcher | `run_trial` with the order reversed | as the launcher |
| toy launcher, fib (`toy/launcher.c`, `toy/fib.cpp`) | three loop counters, two pids; after a failed exec, one copy per process | `run_trial` in three nested loops | fork/exec, wait(NULL), kill |
| command lines | option values, `error`, a local `optind` | two `process_options`, five `parse_args` | getopt_long |
| HTTP client (`apache/http_client/http_client.cpp`) | two processes, two pipes, one shared socket, the end time | `send_get`, `recv_until_eof`, `child_task`, `main` | fork, pipes, socket, wait |
| trackers (`time_tracker/*_tracker.cpp`) | start of the program and of the cycle, the scan of `/proc`, the output | sample, sleep, until the time is up | clock, `/proc`, a real-time priority |
| seeding, query test (`postgresql/`) | the table `orders`, the file `measurements` | drop, create, insert; query and log | database |
| plotters, `handle_ping.py` | none | parsing, convolution, drawing | files |
| client launch scripts, shell scripts, build files, data | none | start programs and services | shell |

What is hard here:

* **Signals and longjmp.**  `sigcatcher` leaves `main` from *any* instruction,
  inside `group()` as well, for a clean-up path that knows only complete groups;
  a worker between fork and `reset_worker_signals` takes the same path with its
  own copy of everything.  In thread mode there is one set of handlers, which main
  installs and ignores while the workers reset it.
* **Barrier.**  Readiness is counted in bytes of one pipe, the start is one byte
  of another that every worker polls and none reads.
* **wait(NULL) and abandoned trials.**  The drivers take any dead child, compare
  afterwards, and return without cleaning up on a mismatch.
* **Partial failure.**  `group()` reports how many workers it started; a failed
  fork in a driver leaves -1 in a variable that is passed to `kill`; a failed exec in
  the toy launcher leaves a second launcher; a failed insert leaves half a table.
* **Blocking.**  Full and empty pipes, end of file that depends on who still holds
  a write end, a socket shared by two processes, buffers in both directions.
* **A changing world.**  The trackers read a directory of processes that start and
  end meanwhile; two seeders may drop each other's table, two query tests truncate
  each other's file.
* **Unchecked output.**  The C++ programs open their files and write to them without
  a look at the stream, and end with status 0 all the same.
* **Boundaries.**  Counts read with `atoi` into unsigned, a shadowed `optind`, 32-bit
  products, inclusive loop bounds, `>=` and `>` in a schedule.

What makes each component correct: for both hackbenches, nobody starts early, the
time printed is that of a full load, a stop reaches exactly the own workers and
completes; for the drivers, each logged time belongs to the trial's own test
program under the trial's own load, each configuration is logged once and in
order, and nothing survives a trial or is found by the next; for the command lines,
what is accepted means what its words say; for the HTTP client, no request precedes
the receiver, the time covers all replies, and neither process waits for ever; for
the trackers, a curve is the curve of one process, and the sampling keeps its
schedule; for the database programs, exit status 0 means a whole table, and a file
from which no time is missing unless its stream has failed.

## 2. Modules

```
LoadGenerator  <--refined by--  HackbenchRefinement  --EXTENDS-->  Hackbench
      ^                               ^
      |                               | EXTENDS
      |                         HackbenchProofs
      | INSTANCE, one per trial or process
   Children, ToyLauncher
      ^
      | EXTENDS
   Launcher, InterruptLauncher  <--INSTANCE--  Drivers  --EXTENDS-->  Children

Options   <--EXTENDS--  MCOptions       HttpClient    ToyHackbench    Tracker
Database  <--EXTENDS--  MCDatabase

XProofs  --EXTENDS-->  X    for Drivers, ToyLauncher, Options, HttpClient, ToyHackbench,
                            Tracker, Database
```

* **Hackbench** is `hackbench.c`.  `pc` is the place of `main`, `worker[w]` that of
  each process `child_tab[w]` stands for.  Every system call of `main` that
  another process can see, and every place a signal can hit, is a step of its
  own: `Fork`, `GroupFails`, `PipeFails`, `GroupReturns`, `ReadReady`, `StartTimer`,
  `Kick`, `SignalWorker`, `Wait`, ...  `reap_workers` is one operator,
  `ReapWorkers(n, dokill, ign)`, called from the five places the code calls it.
  `Signal(s)` is a signal at any instruction: the default action before the
  handlers are installed, a jump through an unset `jmpbuf` before `setjmp` (taken
  to end the program), ignored after `SIG_IGN`, else `longjmp`.  `JumpedWorker` is
  the same jump in a worker whose handlers are still main's.  `timer_started` may
  keep or lose its value in the jump, as a non-volatile local may.  Workers count
  the units they have moved; contents are left out.  In the infinite mode only the
  position in the current round is kept.
* **LoadGenerator** is what a parent needs to know of hackbench: a life `boot,
  spawning, spawned, loaded, stopping/aborting, clean/leaky`.
  **HackbenchRefinement** maps the state of Hackbench onto it and states that the
  program implements it, safety (`IsLoadGenerator`) and the promise that a stop
  that was begun is completed (`StopsAsPromised`).
* **Children** is what the drivers share: the loops of `main`, `wait(NULL)` (any
  dead child), `kill`, the steps of a trial; each hackbench is an instance of
  LoadGenerator, so the drivers are checked against what hackbench was shown to
  do.  The test program is external; of what it writes `output` says whether there
  is any, which it finds there and fails on.  **Launcher** and **InterruptLauncher**
  put the steps into the order of their `run_trial`, and **Drivers** composes either
  with its children.  The launcher is linked with one of three harnesses: those of
  gzip and extract remove old output before and after a run (`Clear`), that of ffmpeg
  makes its directory (`MakeDirectory`) and removes it only afterwards.  `sleep_for`
  is not assumed to suffice: a trial in which hackbench is not loaded in time, or a
  test program ends too early, is `disturbed`, as is one in which something fails.
* **ToyLauncher** is `toy/launcher.c`.  Because a failed `execl` is not followed by
  `exit`, its state is a process table: launchers (the first, and copies of it
  with their own loop counters and pids), hackbenches and fibs with their parents.
  `Signal` knows what pid 0 and -1 mean to `kill`, and a copy whose `hackbench` is
  0 uses it.
* **ToyHackbench** is the thread mode of `toy/hackbench.c`: one set of handlers, one
  exit, `pthread_join` in the order of `child_tab`, sockets nobody closes, and
  `num_packets` as the 32-bit product it is (`UIntBits` wide).  The process mode
  has the control flow of `hackbench.c`.
* **Options** is the loop over `getopt_long` of the five parsers (the interrupting
  driver's is a copy of the launcher's, the two trackers' are the same).  An
  argument is the sequence of integers it has: none, one, or three.  What the code
  makes of it is `ValueOf`, and what it refuses `Refused` and `Throws`; the properties
  use neither, but the words themselves (`AsAsked`, `Meaning`) and what the usage
  says of them.
  **MCOptions** holds the arguments used for checking.
* **HttpClient** is `http_client.cpp`: parent, child, two pipes, the socket with a
  bounded buffer in each direction, and a server that answers one request after
  the other.  The clock is modelled by what had come in when it was read.
  The time is logged, or the output file fails and nobody looks (`LogFails`).
* **Tracker** is the sampling loop of the two trackers between a clock and a
  directory of processes: `readdir` fetches some names at a time, and a process
  may be gone when its file is opened.  `Processed`, `Shown` and `Times` are the
  selection that `periodic_plotter.py` makes from the file, as sets of places in it,
  and `Number` is the curve a record is added to: the place on the list that the
  parser makes of those with a value.
* **Database** is `seed_db.cpp` and `query_test.cpp`, each in several overlapping runs,
  over one table, which is a count per `order_id`, and one file.  A run of `query_test`
  truncates the file when it starts and then writes at its own place in it, whatever
  others have done to it since; its stream may fail at the open or any line, which it
  never notices.  Lines count as equally long: that lines of unequal length tear each
  other when runs overlap is left out.  **MCDatabase** adds the symmetry of the runs.
* **HackbenchProofs** (with those about the refinement), **DriversProofs**,
  **ToyLauncherProofs**, **OptionsProofs**, **HttpClientProofs**, **ToyHackbenchProofs**,
  **TrackerProofs** and **DatabaseProofs** hold the theorems of section 5.

Operators marked `mutant` in the modules are plausible slips in one definition
each (a loop one short, a missing reset, a lost break); `PROJECT.json` says which
property must notice which.

## 3. Runs

| Run | Module | Shows | Distinct states |
|---|---|---|---|
| HackbenchFaults | HackbenchRefinement | infinite mode, all failures, SIGTERM and SIGINT: `TypeOK`, `StartTogether`, `TimeIsMeasured`, `NoBroadcastKill`, `SurvivorsConfined`, `CleanStop`, `IsLoadGenerator` | 298,693 |
| HackbenchData | Hackbench | finite mode, undisturbed: `FiniteDelivery`, `RunCompletes` | 1,167 |
| HackbenchStops | HackbenchRefinement | liveness of the clean-up with SIGTERM at any instruction and all failures: `StopsAsPromised` | 57,728 |
| HackbenchInterrupted | Hackbench | a failed fork and SIGINT: `SignalEnds` **violated** | |
| Drivers | Drivers | both drivers, three harnesses, failures in the first two of four trials: `TimedUnderLoad`, `CompleteLog` of undisturbed behaviours, `OwnChildren`, `LogInOrder`, `FreshOutput`, `HangsOnlyWithoutTest` of all | 142,758 |
| ToyLauncher | ToyLauncher | eight trials with one failure: `MeasuredUnderLoad`, `CompleteLog`, `KillsOwnChild`, `HangsOnlyWithoutFib` | 336,997 |
| ToyHackbench | ToyHackbench | thread mode, all failures and signals: `StartTogether`, `JoinsOwnThreads`, `Stoppable`, `FiniteDelivery`, `HangsOnlyAtBarrier` | 13,324 |
| OptionsAll | MCOptions | `AcceptedAsGiven`, `BadRejected` | 94,551 |
| OptionsLongForm | MCOptions | `NothingMissing` **violated** | |
| HttpClient | HttpClient | everything may fail: `ReceiverFirst`, `TimesAllReplies`, `CleanEnd`, `OkWithoutTime`, `Completes`, `BothEnd` | 3,498 |
| Tracker | Tracker | `SameProcess`, `CompletePoints`, `OnSchedule`, `SeesSteady` | 1,712,028 |
| Database | MCDatabase | `AllSeeded`, `Measurements`, `Repairs` | 1,062,552 |

`CHECK_DEADLOCK FALSE` is in every configuration because all of these programs
end, and some runs end early by design of the code.

**Bounds.**

* Hackbench: two groups of one pair are the smallest with a complete and an
  unfinished group at once, which is what the clean-up properties turn on; one
  group of two pairs is the smallest in which senders and receivers block on each
  other crosswise, with messages of two units over pipes that hold one, so that
  every write is partial.  Each signal arrives at most once: after the first
  delivery the code ignores it.
* Drivers: two numbers of groups (the last one hit exactly) with two repetitions.
  `LastFault = 2`: only the first two trials are disturbed, each as often as
  one likes, so that two undisturbed trials follow a disturbed one and a whole
  undisturbed experiment is among the behaviours.
* ToyLauncher: two numbers of pairs, two fib numbers and two repetitions, one
  failure anywhere (`MaxFaults`): a second failure only multiplies the
  launchers.  `MaxPids = 34` is the first launcher and its sixteen children twice
  over, which is what a copy that repeats all trials needs: the table is never full
  when a launcher forks (`Fork` has `Free # {}` as its guard).
* ToyHackbench: as Hackbench, one message in flight; the product of one fd and
  three loops is the largest an unsigned int of `UIntBits = 2` holds.
* Options: two options are enough for one to follow another with a stale
  `optind`; an int has 4 bits; the arguments are a word, a negative number, zero,
  an acceptable one and `(1,3,2)`.
* HttpClient: the socket buffers hold less than a reply, so that all of reader,
  writer and server block; three requests.
* Tracker: two processes, both hackbenches, as many as the parser expects, a period
  of one tick, a duration of three and a clock that stops at four: three cycles can
  begin, each may be stamped late, two snapshots can come in one period and the last
  one after the time is up, and a scan may take no time, its period, or longer.
  Every process may be there at the start or appear later, and vanish; pids are
  not used twice.
* Database: three rows and three seeders, so that two overlap and one follows; two
  runs of `query_test` of two queries each, of which one can truncate the file under the
  other and either can write beyond its end.  The runs of a program are symmetric: they
  differ in nothing but their names, and the properties are safety properties.

**Fairness.**  Weak fairness of each process or thread (the kernel runs whatever can
run), of the delivery of pending signals, of
test programs that end by themselves, of the progress of a hackbench in the drivers
(`Progress` in LoadGenerator: a failure is possible but never forced), and of
a server that serves.  HttpClient also assumes that a server that
gives up idle clients at all (Apache's KeepAliveTimeout) gives up one whose parent
process was killed: before `shutdown` that leaves a child only the server can
release.  Nothing is assumed about *when* signals and faults come, nor that they
come.  Tracker and Database have safety properties only.

## 4. What the checks showed

Two disagreements between the source and what it says have a run:

* `hackbench.c:389` "All caught signals will cause the program to exit": after a
  failed fork in a later group, `main` is in `reap_workers` when SIGINT makes it
  jump and reap again, now only as many children as there were in complete groups.
  They are reaped already; `wait` blocks on the infinite worker that `group()` left
  out of its count (HackbenchInterrupted).  SIGTERM, which `reap_workers` ignores
  while it kills and which is what the drivers send, cannot do that: HackbenchStops.
* `hackbench.c:348`, `launcher.cpp:183`: options that have their argument are
  reported to lack it, because `argv[optind]` is read with the table index
  (OptionsLongForm).

Some of what the models say has no run of its own:

* `hackbench.c:488` "Reap them all": a signal during `group()` leaves the workers of
  the unfinished group running after an exit with status 0.  `hackbench.c:303`
  "Return number of children to reap": after a failed fork `group()` returns one less
  than it started, and one worker stays.  Both are the life `leaky` of LoadGenerator,
  which the drivers are checked against; `SurvivorsConfined` is the other half: no
  worker of a complete group survives a clean exit.  The count that is one too small
  is also what keeps pid -1 out of `kill` (`NoBroadcastKill`): counting the failed
  entry would be worse.
* A signal during the wait loop signals `child_tab` entries whose processes are
  already reaped.
* Nothing ties the ten seconds of `launcher.cpp:40` to hackbench's progress.  An
  abandoned trial (`launcher.cpp:44-47`) leaves its hackbench running, and a later
  trial is then measured under two; hence "undisturbed" in `TimedUnderLoad`.  If
  the fork of hackbench fails, `kill(-1, SIGTERM)` is what `launcher.cpp:54` does, and
  `OwnChildren` therefore speaks of a hackbench that was forked.
* If the fork of the test program fails, the harness's `wait(NULL)` waits for the
  hackbench, which never ends, and the launcher hangs; `HangsOnlyWithoutTest` says
  that it can hang nowhere else.  The same holds for fib in the toy launcher.
* In the toy launcher a failed `execl` of hackbench goes on as a second launcher
  whose `kill(0, SIGTERM)` ends the whole process group; one of fib goes on with all
  remaining trials next to the first.  After one mismatch, fib is still unreaped when
  the next trial waits, so every later trial mismatches and leaves its hackbench.
* In thread mode a signal that is caught before a worker has reset the handlers, or a
  failed `pthread_create`, leaves `main` joining threads that wait at the closed
  barrier, with SIGTERM ignored.  `HangsOnlyAtBarrier` says it is the only such place
  as long as `num_fds*loops` fits an unsigned int; with `-i` and three fds it does
  not, the receivers return before the senders, and nobody empties the sockets.
* Three messages ask for more than is tested, and with short options the second half
  of `BadRejected` says that what they call wrong is not refused.  `hackbench.c:348`
  "requires an integer > 0", and its like for the other counts: a negative count is
  converted to unsigned before it is compared, and `-g -1` is accepted as 2^32 - 1
  groups.  `launcher.cpp:82` "Has to be greater than 0": nothing tests the number of
  repetitions; with `-r 0` the launcher measures nothing and exits with 0.
  `hackbench.c:366` "requires an integer >= 0": a word that is no number is core 0.
* The launchers take any step, and with one of 0 they never end (Children assumes a
  positive one).  The C++ programs leave `stoi`'s exceptions uncaught (`aborted` in
  Options).  The HTTP client and the trackers answer a bad command line with exit
  status 0.
* A server that closes before all requests are answered makes the HTTP client log
  the shorter time.  Once it has connected it returns 0 without a logged time in two
  cases, and `OkWithoutTime` says that there is no third: no receiver could be forked,
  or everything was measured and the output file, whose open nobody checks
  (`http_client.cpp:332-334`), could not be written.
* The ffmpeg harness starts its program on whatever is in `images`: what was there
  before the first trial, and what an abandoned trial has left.  With gzip and extract
  only a test program that was abandoned and still runs can leave something between
  the look and the start (`FreshOutput`).
* A snapshot may be stamped later than its cycle began: two can come in one period, and
  the last one after the time is up; three in one period cannot (`OnSchedule`).
* An exit status of 0 of `query_test` says nothing of its file: the stream is never
  checked (`query_test.cpp:64,70`), and a second run in the same directory truncates
  the file under the first, whose later lines then follow a hole.  `Measurements` says
  what is left: the run that truncated the file last, if its stream stayed good, has
  no hole in it, and if it was alone, its own times in order and nothing else.
* `periodic_plotter.py:28` compares the first four characters of a line with
  `"toy_periodic"`, so the sleeper is never found.  The selection by the *number* of
  hackbench lines is right only as long as no more hackbenches ever exist than are
  expected (`SameProcess`); `hackbench_inter`, the name of the interrupting driver,
  counts as one.
* `query_test` times whatever table it meets, also a half-filled one.

## 5. What is proved

A run shows a property on the small instance of its configuration; the theorems
show it for every value of the constants that satisfies the assumptions named in the
module (which say no more than that counts are natural numbers, sizes positive, and
the faults among those the module knows).  Every safety property of the passing
runs has its theorem.  In the table, a theorem is named after its property.

| Module | `Spec => []` ... or an action property | Inductive invariant |
|---|---|---|
| HackbenchProofs | `TypeOK`, `StartTogether`, `TimeIsMeasured`, `NoBroadcastKill`, `CleanStop`, `SurvivorsConfined`, `IsLoadGenerator` (refinement), `FiniteDelivery` | `SafeInv`, `StopInv`, `LifeInv`, `DataInv` |
| DriversProofs | `TypeOK`, `OwnChildren`, `LogInOrder`, `CompleteLog`, `TimedUnderLoad`, `FreshOutput` (action) | `DriversInv` |
| ToyLauncherProofs | `TypeOK`, `KillsOwnChild`, `MeasuredUnderLoad`, `CompleteLog` | `LauncherInv` |
| OptionsProofs | `TypeOK`, `BadRejected`, `AcceptedAsGiven` | `OptionsInv`, `ShortInv`, `ValuesInv` |
| HttpClientProofs | `TypeOK`, `ReceiverFirst`, `TimesAllReplies`, `CleanEnd`, `OkWithoutTime` | `ClientInv` |
| ToyHackbenchProofs | `TypeOK`, `StartTogether`, `JoinsOwnThreads`, `Stoppable`, `FiniteDelivery` | `ToyInv`, `DeliveryInv` |
| TrackerProofs | `TypeOK`, `OnSchedule`, `SeesSteady` (action), `SameProcess`, `CompletePoints`, and `Ordered`, `Valued`, `Rising` | `TrackerInv` |
| DatabaseProofs | `TypeOK`, `AllSeeded`, `Measurements`, `Repairs` (action) | `DatabaseInv` |

None of the properties is inductive.  The invariants were checked with TLC before they
were proved.  A proof that a step keeps an invariant has a case for each action, or
a lemma for each actor where there are many, and in it a step for each part of the
invariant that the action can disturb.

**hackbench.**  `SafeInv` adds to the type invariant how main's counters relate to the
group being built (`CountersInv`), that exactly the workers below `total_children +
forked` exist and have a pid in `child_tab` (`CreatedInv`), that `reap_workers` is
never called for more entries than that (`ReapInv`), and what the barrier means: main
past the i-th byte implies i announcements, a running worker or a started timer
implies all of them (`BarrierInv`; the step from "as many bytes as workers" to
"every worker" is a lemma on cardinalities).  `StopInv` carries the clean-up: once
the signal loop has passed entry k, worker k is *condemned*, that is dead, jumped
or with a signal pending (`CondemnedInv`), what each path to `reap_workers` brings
along (`EntryInv`), and the counting argument for the wait loop: the workers not yet
reaped are never more than the calls of `wait()` that are left (`CountInv`).

**The refinement.**  `IsLoadGeneratorHolds` is a step simulation: the initial state is
`boot`, and each step of main, of a worker, of a signal or a fault leaves `Life` alone
or is a move LoadGenerator has.  `LifeInv` is what the simulation needs beyond the
two invariants above: which counters go with which place of main, that
`total_children` counts whole groups, and that a worker which could survive a clean
exit belongs to a group that was never finished.  The move to `clean` is where it is
needed: when the last worker of complete groups has been reaped, no `Survives(w)` is
left.  Since the drivers are composed with LoadGenerator, what is proved about them
rests on this theorem and not on hackbench.c again.

**Delivery.**  `DataInv` says that what a receiver has read plus what is in its pipe is
what the senders of its group have written to it (`ConservationInv`; the sum over the
senders is the cardinality of a set of units, which needs no recursion), and that,
where no worker is killed from outside and main has no reason to clean up, a worker
is dead only when it has moved its goal (`DoneInv`).  `FiniteDelivery` is then
arithmetic: the goals of senders and receivers agree.  The theorem has the hypothesis
`"worker" \notin Faults`: a worker killed from outside takes the units it has not
moved with it, and main does not notice.  HackbenchData, the run that checks
`FiniteDelivery`, has no faults at all.  In thread mode the same argument needs no
hypothesis, but the property itself has one, that `num_fds*loops` does not wrap.

**Drivers.**  One list of steps stands for both `run_trial`s; `LauncherRoute` and
`InterruptRoute` show that each driver's step is one of the list.  `LoopInv` counts
the trials from the two loops (`num_pairs = Lower + Step*k`, `trial = k*Reps + rep +
...`), `ChildInv` ties the pids a driver holds to the children of its own trial,
`WaitInv` says which of them may have been reaped where, `LogInv` keeps the log
behind the loops.  `FreshInv` bounds the log by the trial and says which trials
can still have a test program that writes (those that are not `Settled`), which is
what `FreshOutput` comes to.  These hold whatever fails.  `CalmInv` is about
behaviours that nothing has disturbed: earlier trials are over (`OverInv`), the
children of this one are where the driver expects them (`NowInv`), and the log has
one entry per trial (`TimesInv`), whose number is taken apart again with div and mod
for `CompleteLog`.

**Toy launcher.**  `KindInv` says where a process of each program can be, and that only
a dead one is reaped.  `OwnInv` is about every launcher of the table and holds whatever
fails and however often: from its fork to the kill a hackbench is an unreaped child
of the launcher that holds its pid.  Two things make it inductive.  While a launcher
waits for fib, the pids of its hackbench and its fib differ, so that a `wait()` that
returns fib has not reaped the hackbench, and one that returns -1 means that there was
none.  And the copy that a failed exec of fib leaves behind holds its *parent's*
hackbench, but its own `fib` is 0, a pid `wait()` never returns, so that it never gets
to the kill with it.  `CalmInv` is about behaviours in which nothing has failed: there
is one launcher, all its children are reaped but the ones the trial holds (`SoleInv`),
these are where the trial expects them (`LoadInv`), and the log follows the three
loops (`LogInv`: after `a` steps of pairs and `b` of fib it has `(a*Fibs + b)*NumReps +
rep` entries, one more once fib has ended).  `CompleteLog` follows at the end of the
loops, with a lemma that takes such a number apart again.

**Command lines.**  The invariant says of the options read so far what the two
properties say of all, but only while no error is noted; it finds the last option
that sets a variable by "set here and not since" in place of the `CHOOSE` in the
property.  It speaks of what the code converts and refuses; two lemmas, `MeantIsSet`
and `RefusedIsBad`, then go from there to the words: an argument that is what the usage
asks for is set to what it says, and what is refused or throws is what `Bad` lists.
`ShortInv` is the second half of `BadRejected`: with short options `optind` stays 0,
where `argv` is never NULL, so that only a bad word can be the reason for an error.
`TypeOK` needs that a count is taken modulo a power of two that is
positive, for which the number of subsets of a set of `IntBits` elements stands in.

**HTTP client.**  `ClientInv` fixes, for each pair of places of parent and child, which
messages can be in the two pipes (`HandshakeInv`, `PipeInv`), and balances the bytes
(`UnitsInv`): written requests, requests in the socket, replies made, in the socket
and read.  In a run that nothing disturbed, the server closes last and the end time is
in the pipe (`CalmInv`).
`TimesAllReplies` is the last line of that balance at end of file.

**Thread mode.**  `ToyInv` has the counters and the barrier as in hackbench, who last
set the handlers (`Stoppable`), and that the index of the join loop is never ahead of
the threads that exist, also after a longjmp out of it (`JoinsOwnThreads`).

**Trackers.**  The schedule relates the number of snapshots to the start of the cycle
(`CycleInv`), and the time of each to it (`SpacedInv`: when the next one is due, going
by the m-th and those after it, is never after the next cycle starts);
the scan lies between what is recorded and what is listed, and a process that was
there all along is on one of the two sides of it.  `RecordsHold` proves, for
snapshots of any size, what the plotter relies on: pids increase within a snapshot,
a value is missing only at the very end of the file of a killed tracker, and the value
of a process never falls from a snapshot to a later one.  `SameProcess` adds a counting
argument: a snapshot that the plotter keeps shows `Expected` different hackbenches, so
if no more of them ever existed it shows them all, and the number of a record is the
rank of its pid among all hackbenches, which is the same in every snapshot; the one
value that can be missing is behind all others and shifts none.

**Database.**  `DatabaseInv` says how far each run of `seed_db` and `query_test` has
come, and what that tells of the table and the file; the table is a count of 0 or 1
per order (the primary key), which is part of the type.  For the file it says how far
each run of `query_test` has got in it (`TimesInv`), which runs can write to it
beside a run that was alone at some time (`LoneInv`), and what the run that truncated
it last has put there (`FileInv`).

**Only model-checked.**  Liveness (`StopsAsPromised`, `RunCompletes`, `Completes`,
`BothEnd`, `HangsOnlyWithoutTest`, `HangsOnlyAtBarrier`, `HangsOnlyWithoutFib`): fairness
and ENABLED are out of the prover's reach.

## 6. Not modelled

* The process mode of the toy hackbench, whose control flow is that of
  `hackbench.c`.
* `handle_ping.py`: a convolution in floating point, without state.  The other
  plotters: one pass over recorded files, then drawing.
* The client launch scripts, shell scripts and build files: straight lines that
  start other programs.  Recorded measurements and kernel configurations are data.
* In the modelled programs: printed text, file names, CPU pinning beyond its
  failure, wall-clock time, the recursion of `fib`, the receiver's busy retry after
  end of file (a live worker without progress), the wrap of `num_fds * 2 *
  num_groups` in hackbench's `calloc`, a launcher list with fewer than three numbers
  (which reads past a vector), pids that are used twice.

## 7. Plan

Written so far, in this order: Hackbench, its proofs, LoadGenerator with the
refinement, Children with the two drivers, Options, HttpClient, ToyHackbench,
ToyLauncher, Tracker, Database; then the proofs of the refinement and of all
components, the toy launcher's and the plotter's last.  Nothing of the plan is open: what
is left out is in section 6, and the first of it to add would be the process mode of
the toy hackbench, should its control flow move away from that of `hackbench.c`.
