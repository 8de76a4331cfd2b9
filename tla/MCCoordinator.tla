--------------------------- MODULE MCCoordinator ---------------------------
(***************************************************************************)
(* Instances of Coordinator for TLC.                                        *)
(*   Stream      two hosts, of which one also offers another digest, and    *)
(*               one request that may be retried, with a response through a *)
(*               tight queue                                                *)
(*   Contention  two requests for the single slot of a host that reconnects *)
(*   Eventually  two hosts with the same build, and fairness                *)
(***************************************************************************)
EXTENDS Coordinator, TLC

CONSTANTS h1, h2, s1, s2, r1, r2

Offer == [backend |-> "b", kind |-> "ollama", model |-> "m", digest |-> "d1"]
OtherDigest == [Offer EXCEPT !.backend = "c", !.digest = "d2"]
MCOffers == {Offer, OtherDigest}

OwnerRetry == s1 :> h1 @@ s2 :> h2
OwnerContention == s1 :> h1 @@ s2 :> h1

OneSlot == "b" :> 1 @@ "c" :> 1
CapacityOne == h1 :> OneSlot
CapacityRetry == h1 :> OneSlot @@ h2 :> OneSlot

CatalogsStream == h1 :> {{Offer}} @@ h2 :> {{Offer, OtherDigest}}
CatalogsEventually == h1 :> {{Offer}} @@ h2 :> {{Offer}}
CatalogsContention == h1 :> {{Offer}}

RequestSymmetry == Permutations(Requests)
=============================================================================
