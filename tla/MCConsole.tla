----------------------------- MODULE MCConsole -----------------------------
(* An instance of Console for TLC. *)
EXTENDS Console

CONSTANTS m1, cheap, dear, here, there

MCNames == {m1}
\* No price is set at first, or a cheap one.
MCUnpriced == [sharing |-> TRUE, offers |-> {}, prices |-> [m \in {} |-> cheap], url |-> here]
MCFirstConfig == [sharing |-> TRUE, offers |-> {}, prices |-> [m \in {m1} |-> cheap], url |-> here]
=============================================================================
