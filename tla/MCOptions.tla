----------------------------- MODULE MCOptions -----------------------------
(* Arguments for TLC: no integer, a negative one, zero, one that is accepted, *)
(* and (1,3,2).                                                               *)
EXTENDS Options

SmallArguments == {<<>>, <<-1>>, <<0>>, <<2>>, <<1, 3, 2>>}
============================================================================
