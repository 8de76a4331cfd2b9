------------------------------ MODULE Gateway ------------------------------
(***************************************************************************)
(* What the coordinator promises to a buyer, with hosts, sessions, queues   *)
(* and timers abstracted away: a request is answered from at most two       *)
(* generations; the body shown is a gapless prefix of one of them; once a   *)
(* byte is shown the generation is never replaced; and only a response that *)
(* is shown whole is presented as complete. Coordinator implements it.      *)
(***************************************************************************)
EXTENDS Naturals, Sequences

CONSTANTS
    Requests,  \* buyer requests
    MaxSeq     \* bound: chunks of one generation

VARIABLES
    phase,       \* "idle", "open", "closed"
    generation,  \* 0, or 1 once the request is generated anew
    made,        \* chunks of the current generation received so far
    over,        \* the current generation was declared finished
    body,        \* what the buyer got, as <<generation, chunk>>
    reply        \* how the response ended

vars == <<phase, generation, made, over, body, reply>>

Init ==
    /\ phase = [r \in Requests |-> "idle"]
    /\ generation = [r \in Requests |-> 0]
    /\ made = [r \in Requests |-> 0]
    /\ over = [r \in Requests |-> FALSE]
    /\ body = [r \in Requests |-> <<>>]
    /\ reply = [r \in Requests |-> "none"]

Accept(r) ==
    /\ phase[r] = "idle"
    /\ phase' = [phase EXCEPT ![r] = "open"]
    /\ UNCHANGED <<generation, made, over, body, reply>>

Reject(r) ==
    /\ phase[r] = "idle"
    /\ phase' = [phase EXCEPT ![r] = "closed"]
    /\ reply' = [reply EXCEPT ![r] = "error"]
    /\ UNCHANGED <<generation, made, over, body>>

Produce(r) ==
    /\ phase[r] = "open" /\ ~over[r] /\ made[r] < MaxSeq
    /\ made' = [made EXCEPT ![r] = @ + 1]
    /\ UNCHANGED <<phase, generation, over, body, reply>>

Finish(r) ==
    /\ phase[r] = "open" /\ ~over[r]
    /\ over' = [over EXCEPT ![r] = TRUE]
    /\ UNCHANGED <<phase, generation, made, body, reply>>

Show(r) ==
    /\ phase[r] = "open" /\ Len(body[r]) < made[r]
    /\ body' = [body EXCEPT ![r] = Append(@, <<generation[r], Len(@) + 1>>)]
    /\ UNCHANGED <<phase, generation, made, over, reply>>

\* The current generation is forgotten.
Forget(r) ==
    /\ made' = [made EXCEPT ![r] = 0]
    /\ over' = [over EXCEPT ![r] = FALSE]

Regenerate(r) ==
    /\ phase[r] = "open" /\ generation[r] = 0 /\ body[r] = <<>>
    /\ generation' = [generation EXCEPT ![r] = 1]
    /\ Forget(r)
    /\ UNCHANGED <<phase, body, reply>>

\* A buyer that stops reading may be cut off before the first byte arrives.
Conclude(r, how) ==
    /\ phase[r] = "open"
    /\ how = "complete" => over[r] /\ body[r] # <<>> /\ Len(body[r]) = made[r]
    /\ how = "interrupted" => made[r] > 0
    /\ how \in {"error", "abandoned"} => body[r] = <<>>
    /\ phase' = [phase EXCEPT ![r] = "closed"]
    /\ reply' = [reply EXCEPT ![r] = how]
    /\ Forget(r)
    /\ UNCHANGED <<generation, body>>

Next ==
    \E r \in Requests :
        \/ Accept(r) \/ Reject(r) \/ Produce(r) \/ Finish(r) \/ Show(r) \/ Regenerate(r)
        \/ \E how \in {"complete", "interrupted", "error", "abandoned"} : Conclude(r, how)

Spec == Init /\ [][Next]_vars
=============================================================================
