------------------------ MODULE HackbenchRefinement ------------------------
(***************************************************************************)
(* Hackbench implements LoadGenerator: the life its parent sees, computed  *)
(* from main's counters and the workers.                                   *)
(***************************************************************************)
EXTENDS Hackbench

\* A worker that nothing is going to stop.
Survives(w) == worker[w] \in Alive \ {"jumped"} /\ w \notin pending

Life ==
  CASE pc = "exited"            -> IF \E w \in Worker : Survives(w) THEN "leaky" ELSE "clean"
    [] pc \in {"init", "armed"} -> "boot"
    [] pc \notin {"init", "armed", "exited"} /\ (failing \/ signal_caught) ->
         IF total_children = NumWorkers THEN "stopping" ELSE "aborting"
    [] pc \notin {"init", "armed", "exited"} /\ ~(failing \/ signal_caught) ->
         IF total_children < NumWorkers THEN "spawning"
         ELSE IF woken THEN "loaded" ELSE "spawned"

LG == INSTANCE LoadGenerator
        WITH life <- Life, Finite <- ~Infinite, Faulty <- (Faults # {})

\* hackbench keeps the promise of a load generator.  In particular a signal that
\* arrives once every worker has been forked leads to a death that leaves no
\* worker running, and only one that arrives before may leave some.
IsLoadGenerator == LG!Spec

\* A hackbench on its way out gets there.
StopsAsPromised == LG!Stops
============================================================================
