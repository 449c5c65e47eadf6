------------------------- MODULE InterruptLauncher -------------------------
(***************************************************************************)
(* The driver gzip/hackbench_interupt.cpp: the same trial with the load    *)
(* coming later.  The test program is started first; three seconds on, a   *)
(* hackbench interrupts it.                                                *)
(***************************************************************************)
EXTENDS Children

ThreeSeconds == SleepOver("fork_hackbench", FALSE)

StartTest    == Clear("prepare", "fork_test") \/ ForkTest("sleep")
Interrupt    == ThreeSeconds \/ ForkHackbench("wait")
AwaitAndLog  == WaitTest \/ Clear("clean", "check") \/ Mismatch \/ LogTime
EndHackbench == Kill \/ WaitHackbench

DriverStep == \/ NextPairs \/ Done \/ BeginTrial("prepare")
              \/ StartTest \/ Interrupt \/ AwaitAndLog \/ EndHackbench

\* A test program that ends before hackbench is loaded was too short.
TooShort(t) == t = trial /\ hb[t] # "loaded"

----------------------------------------------------------------------------

\* When a time is logged, the test program has been interrupted by one hackbench:
\* this trial's, loaded before the program ended, and by no other.
Interrupted == pc = "kill" => Hackbenches = {trial} /\ hb[trial] = "loaded"
============================================================================
