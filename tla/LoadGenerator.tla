--------------------------- MODULE LoadGenerator ---------------------------
(***************************************************************************)
(* What a started hackbench promises the program that started it: a life   *)
(* from fork to death, told by what its parent cares about.  Is the load   *)
(* there, and if I send SIGTERM now, does everything go away?              *)
(***************************************************************************)
CONSTANTS Finite,   \* the workers stop by themselves (no -i)
          Faulty    \* forks, pipes or system calls may fail

VARIABLE life

Down  == {"clean", "leaky"}
Lives == Down \cup
  {"boot",      \* no handler, no worker
   "spawning",  \* the workers are being forked
   "spawned",   \* all of them exist
   "loaded",    \* all of them exchange messages
   "stopping",  \* on its way out with all workers accounted for
   "aborting"}  \* on its way out with a group half forked

LoadMoves  == {<<"boot", "spawning">>, <<"spawning", "spawned">>, <<"spawned", "loaded">>}
StopMoves  == {<<"stopping", "clean">>, <<"aborting", "clean">>, <<"aborting", "leaky">>}
EndMoves   == {<<"loaded", "clean">>}
FaultMoves == {<<"boot", "clean">>, <<"spawning", "aborting">>, <<"spawned", "stopping">>,
               <<"loaded", "clean">>} \cup ({"spawning", "spawned"} \X Down)

\* What it does by itself, and what may befall it.
Progress  == LoadMoves \cup StopMoves \cup (IF Finite THEN EndMoves ELSE {})
SelfMoves == Progress \cup (IF Faulty THEN FaultMoves ELSE {})

\* What SIGTERM or SIGINT makes of it, at once.
SignalMoves == {<<"boot", "clean">>, <<"spawning", "aborting">>,
                <<"spawned", "stopping">>, <<"loaded", "stopping">>}

Move(moves) == <<life, life'>> \in moves

Spec == /\ life = "boot"
        /\ [][Move(SelfMoves \cup SignalMoves)]_life

\* Once on its way out it gets there.
Stops == life \in {"stopping", "aborting"} ~> life \in Down

============================================================================
