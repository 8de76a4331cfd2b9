----------------------------- MODULE MCManaged -----------------------------
(***************************************************************************)
(* Instances of Managed for TLC.                                            *)
(*   Dashboard  two requests at a time, with crashes and failing saves       *)
(*   Withdrawn  one request at a time, for what the README says of offers    *)
(***************************************************************************)
EXTENDS Managed, TLC

CONSTANTS h1, h2

HandlerSymmetry == Permutations(Handlers)
=============================================================================
