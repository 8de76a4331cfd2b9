------------------------------ MODULE MCAgent ------------------------------
(***************************************************************************)
(* Instances of Agent for TLC.                                              *)
(*   Unruly    a gateway that overbooks, repeats ids and breaks the protocol *)
(*   Obedient  a gateway that keeps its promises, over two sessions          *)
(***************************************************************************)
EXTENDS Agent, TLC

CONSTANTS b1, b2, i1, i2

CapacityOne == [b \in BackendIds |-> 1]

AttemptSymmetry == Permutations(Attempts)
=============================================================================
