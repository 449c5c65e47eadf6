------------------------------- MODULE Drivers -------------------------------
(***************************************************************************)
(* The two drivers with their children: which of them runs is chosen at    *)
(* the start.  What each expects of the times it sleeps or the test takes  *)
(* is not enforced; a behaviour in which it is not met is "disturbed".     *)
(***************************************************************************)
EXTENDS Children

VARIABLES driver, harness
programVars == <<driver, harness>>
driverVars  == <<vars, programVars>>

La == INSTANCE Launcher
In == INSTANCE InterruptLauncher

\* The interrupting driver has the steps of the gzip harness in its own file.
DriversInit ==
  /\ Init
  /\ \/ driver = "launcher" /\ harness \in {"gzip", "extract", "ffmpeg"}
     \/ driver = "interrupt" /\ harness = "gzip"

DriverStep ==
  /\ \/ driver = "launcher" /\ La!LauncherStep
     \/ driver = "interrupt" /\ In!DriverStep
  /\ UNCHANGED programVars

HackbenchRuns(t) == HackbenchStep(t) /\ UNCHANGED programVars

TestRuns(t) ==
  /\ TestWrites(t) \/ TestEnds(t, driver = "interrupt" /\ In!TooShort(t))
  /\ UNCHANGED programVars

Next == DriverStep \/ \E t \in Trial : HackbenchRuns(t) \/ TestRuns(t)

Spec == DriversInit /\ [][Next]_driverVars

\* The driver runs, each hackbench makes the progress LoadGenerator promises
\* without being made to fail, and the test program ends.
FairSpec ==
  /\ Spec /\ WF_driverVars(DriverStep)
  /\ \A t \in Trial : /\ WF_driverVars(HackbenchProgress(t) /\ UNCHANGED programVars)
                      /\ WF_driverVars(TestRuns(t))

----------------------------------------------------------------------------

\* As long as nothing disturbs it, every test program runs under the load its own
\* trial asked for and no other: all the time with the launcher, from three seconds
\* on with the interrupting driver.
TimedUnderLoad ==
  ~disturbed => IF driver = "launcher" THEN La!MeasuredUnderLoad ELSE In!Interrupted

\* A test program starts on output that is not its own only if nobody could have
\* removed it: gzip and tar, if the test program of an abandoned trial still runs or
\* ran on after the harness had looked; ffmpeg, whose harness does not look, if the
\* directory was there before the first trial or an earlier trial was abandoned.
FreshOutput ==
  [][test' # test /\ pc = "fork_test" /\ output =>
       IF harness = "ffmpeg" THEN trial = 1 \/ Len(log) < trial - 1
       ELSE \E t \in 1 .. trial - 1 : test[t] # "none" /\ <<"test", t>> \notin reaped]_driverVars
============================================================================
