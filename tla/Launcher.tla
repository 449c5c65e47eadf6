------------------------------ MODULE Launcher ------------------------------
(***************************************************************************)
(* The experiment driver launcher/launcher.cpp linked with a test harness, *)
(* the one of gzip, extract or ffmpeg.  Each trial starts a hackbench,     *)
(* sleeps ten seconds, times one run of the test program under that load,  *)
(* logs the time and ends the hackbench.                                   *)
(***************************************************************************)
EXTENDS Children

VARIABLE harness  \* which one is linked

\* Ten seconds are too short if hackbench is not loaded when they are over.
TenSeconds == SleepOver("prepare", hb[trial] # "loaded")

\* The ffmpeg harness makes its directory if there is none, and leaves one alone.
MakeDirectory ==
  /\ At("prepare", "fork_test")
  /\ UNCHANGED <<loopVars, pidVars, childVars, reaped, log>>

Prepare == \/ harness # "ffmpeg" /\ Clear("prepare", "fork_test")
           \/ harness = "ffmpeg" /\ MakeDirectory
RunProg == Prepare \/ ForkTest("wait") \/ WaitTest \/ Clear("clean", "check")

RunTrial ==
  \/ BeginTrial("fork_hackbench") \/ ForkHackbench("sleep") \/ TenSeconds
  \/ RunProg
  \/ Mismatch \/ LogTime \/ Kill \/ WaitHackbench

LauncherStep == NextPairs \/ Done \/ RunTrial

----------------------------------------------------------------------------

\* While a test program runs, the load is the one this trial asked for: its own
\* hackbench is loaded, and no other is alive.
MeasuredUnderLoad ==
  \A t \in Trial : test[t] = "running" => Hackbenches = {t} /\ hb[t] = "loaded"

============================================================================
