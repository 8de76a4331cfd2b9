------------------------------- MODULE Agent -------------------------------
(***************************************************************************)
(* A host agent, internal/agent: Run connects again and again, a session    *)
(* reads frames of the gateway, and each accepted request runs in a         *)
(* goroutine of its own that holds a slot of its backend.                   *)
(*                                                                          *)
(* The gateway is the environment. If Conforming it keeps the promises of   *)
(* selectJob (capacity, fresh attempt ids); otherwise it sends anything.    *)
(*                                                                          *)
(* Send is one step of its caller, as in Coordinator: its frame is written, *)
(* or it returns an error because its context is dead or the session is     *)
(* broken, and then the frame may or may not be on the wire.                *)
(***************************************************************************)
EXTENDS Integers, Sequences, FiniteSets

CONSTANTS
    Attempts,    \* attempt ids the gateway uses
    BackendIds,  \* configured backends
    Capacity,    \* their concurrency
    Conforming,  \* the gateway keeps to the protocol
    SeenLimit,   \* ids a session may see, 100000 in the code
    MaxSeq,      \* bound: chunks of one attempt
    MaxSessions  \* bound: connections attempted

ASSUME CapacityAssumption == Capacity \in [BackendIds -> 1..64]
ASSUME BoundsAssumption == {SeenLimit, MaxSeq, MaxSessions} \subseteq Nat
ASSUME ConformingAssumption == Conforming \in BOOLEAN
ASSUME FiniteAssumption == IsFiniteSet(Attempts)

VARIABLES
    ctx,      \* Run's context: "live", "cancelled"
    run,      \* control point of Run and session
    sessions, \* connections attempted so far
    peer,     \* "open", "closed" by Peer.Close, "cancelled" with the session's context
    link,     \* the socket: "up", "stalled", "down"
    fresh,    \* lastAck is less than HeartbeatTimeout old
    ready,    \* backends whose last discovery found an offered model
    active,   \* s.active of each backend's slot
    seen,     \* attempt ids of this session, rejected ones included
    step,     \* control point of each attempt's goroutine
    slot,     \* the backend it was reserved on
    jobCtx,   \* "live", "cancelled" by the gateway, "expired"
    terminal, \* the frame execute is about to return
    seq,      \* chunks sent
    wire      \* frames of the attempt written in this session

runVars == <<ctx, run, sessions>>
linkVars == <<peer, link, fresh>>
slotVars == <<ready, active, seen>>
attemptVars == <<step, slot, jobCtx, terminal, seq, wire>>
vars == <<runVars, linkVars, slotVars, attemptVars>>

Frames ==
         [type: {"response_start", "response_end", "error", "busy", "refused"}, seq: {0}]
    \cup [type: {"response_chunk"}, seq: 1..MaxSeq]

Frame(type) == [type |-> type, seq |-> 0]

\* "busy" and "refused" are errors that reject an attempt before it ran.
Terminal(f) == f.type \in {"response_end", "error", "busy", "refused"}

\* Where a goroutine stands; from "chat" to "finish" it is inside execute.
Executing == {"chat", "starting", "rejecting", "streaming", "finish"}
Running == Executing \cup {"released"}

TypeOK ==
    /\ ctx \in {"live", "cancelled"}
    /\ run \in {"down", "dialing", "up", "ending", "stopped"}
    /\ sessions \in 0..MaxSessions
    /\ peer \in {"open", "closed", "cancelled"}
    /\ link \in {"up", "stalled", "down"}
    /\ fresh \in BOOLEAN
    /\ ready \subseteq BackendIds
    /\ active \in [BackendIds -> Nat]
    /\ seen \subseteq Attempts
    /\ step \in [Attempts -> {"none", "done"} \cup Running]
    /\ slot \in [Attempts -> BackendIds]
    /\ jobCtx \in [Attempts -> {"live", "cancelled", "expired"}]
    /\ terminal \in [Attempts -> {"response_end", "error"}]
    /\ seq \in [Attempts -> 0..MaxSeq]
    /\ wire \in [Attempts -> Seq(Frames)]

Init ==
    /\ ctx = "live" /\ run = "down" /\ sessions = 0
    /\ peer = "cancelled" /\ link = "down" /\ fresh = TRUE
    /\ ready = {}
    /\ active = [b \in BackendIds |-> 0]
    /\ slot \in {[i \in Attempts |-> b] : b \in BackendIds}
    /\ seen = {}
    /\ step = [i \in Attempts |-> "none"]
    /\ jobCtx = [i \in Attempts |-> "live"]
    /\ terminal = [i \in Attempts |-> "error"]
    /\ seq = [i \in Attempts |-> 0]
    /\ wire = [i \in Attempts |-> <<>>]

-----------------------------------------------------------------------------
(* Run and connect.                                                         *)

\* Discover, then the upgrade.
Dial(offered) ==
    /\ run = "down" /\ ctx = "live"
    /\ sessions < MaxSessions
    /\ run' = "dialing"
    /\ sessions' = sessions + 1
    /\ ready' = offered
    /\ UNCHANGED <<ctx, linkVars, active, seen, attemptVars>>

\* The connection fails, or hello is not answered by the right welcome.
DialFails ==
    /\ run = "dialing"
    /\ run' = "down"
    /\ UNCHANGED <<ctx, sessions, linkVars, slotVars, attemptVars>>

\* 401 or 403: Run gives up.
Unauthorized ==
    /\ run = "dialing"
    /\ run' = "stopped"
    /\ UNCHANGED <<ctx, sessions, linkVars, slotVars, attemptVars>>

\* connect succeeded: session starts with empty maps. Its variables are declared
\* anew; nothing is lost by it, see CleanStart.
Welcome ==
    /\ run = "dialing" /\ ctx = "live"
    /\ run' = "up"
    /\ peer' = "open" /\ link' = "up" /\ fresh' = TRUE
    /\ seen' = {}
    /\ step' = [i \in Attempts |-> "none"]
    /\ jobCtx' = [i \in Attempts |-> "live"]
    /\ terminal' = [i \in Attempts |-> "error"]
    /\ seq' = [i \in Attempts |-> 0]
    /\ wire' = [i \in Attempts |-> <<>>]
    /\ UNCHANGED <<ctx, sessions, ready, active, slot>>

\* The session returns: its deferred function cancels everything it started.
Close ==
    /\ run' = "ending"
    /\ peer' = "cancelled"

\* The socket is closed, or the session's context is cancelled.
ReadFails ==
    /\ run = "up"
    /\ (link = "down" \/ peer = "cancelled")
    /\ Close
    /\ UNCHANGED <<ctx, sessions, link, fresh, slotVars, attemptVars>>

\* Mutant: the session does not wait for its goroutines.
EndedEarly ==
    /\ run = "ending"
    /\ run' = "down"
    /\ link' = "down" /\ fresh' = TRUE
    /\ UNCHANGED <<ctx, sessions, peer, slotVars, attemptVars>>

\* wg.Wait: every goroutine of the session is over.
Ended ==
    /\ run = "ending"
    /\ \A i \in Attempts : step[i] \notin Running
    /\ run' = "down"
    /\ link' = "down" /\ fresh' = TRUE
    /\ UNCHANGED <<ctx, sessions, peer, slotVars, attemptVars>>

Stop ==
    /\ run = "down" /\ ctx = "cancelled"
    /\ run' = "stopped"
    /\ UNCHANGED <<ctx, sessions, linkVars, slotVars, attemptVars>>

-----------------------------------------------------------------------------
(* The session: heartbeats, discovery, the read loop.                       *)

\* Frames are read until the socket closes, even after Peer.Close.
Readable == run = "up" /\ link = "up"

\* When a send can fail: the peer is closed, or the write is stuck for five seconds.
Broken == peer # "open" \/ link # "up"

\* Send succeeds under the session's context.
Writable == link = "up" /\ peer # "cancelled"

Write(i, f) == wire' = [wire EXCEPT ![i] = Append(@, f)]

\* What a failed send leaves: the frame was written in time, or not.
MaybeWritten(i, f) == (link = "up" /\ Write(i, f)) \/ UNCHANGED wire

HeartbeatAck ==
    /\ Readable
    /\ fresh' = TRUE
    /\ UNCHANGED <<runVars, peer, link, slotVars, attemptVars>>

\* The session's context is cancelled; its read fails next.
CancelSession ==
    /\ run = "up" /\ peer # "cancelled"
    /\ peer' = "cancelled"
    /\ UNCHANGED <<runVars, link, fresh, slotVars, attemptVars>>

\* Mutant: what counts is the heartbeat sent, not its acknowledgement.
WatchdogOfClosedPeer == ~fresh /\ peer = "closed" /\ CancelSession

\* Too long without an acknowledgement.
Watchdog == ~fresh /\ CancelSession

\* The peer is done, or a heartbeat or a catalog cannot be written.
PeerDone == Broken /\ CancelSession

Discover(offered) ==
    /\ run \in {"up", "ending"}
    /\ ready' = offered
    /\ UNCHANGED <<runVars, linkVars, active, seen, attemptVars>>

CloseNow ==
    /\ run \in {"up", "ending"}
    /\ peer # "open" /\ link # "down"
    /\ link' = "down"
    /\ UNCHANGED <<runVars, peer, fresh, slotVars, attemptVars>>

\* What a conforming gateway counts: attempts it assigned and whose terminal
\* frame it has not seen. It reads frames later than they are written, which
\* only makes it count more.
Outstanding(b) ==
    {i \in seen : slot[i] = b /\ \A k \in DOMAIN wire[i] : ~Terminal(wire[i][k])}

MayAssign(i, b) ==
    Conforming => i \notin seen /\ Cardinality(Outstanding(b)) < Capacity[b]

\* Mutant: an off-by-one lets one attempt too many in.
HasSlotPlusOne(b) == active[b] <= Capacity[b]

HasSlot(b) == active[b] < Capacity[b]

\* A request frame with a new id, in a session that may still see one.
Request(i, b) ==
    /\ Readable
    /\ MayAssign(i, b)
    /\ i \notin seen
    /\ Cardinality(seen) < SeenLimit

\* A request the agent accepts: reserve takes the slot in the lock section that
\* found it free, then the goroutine starts.
Assign(i, b) ==
    /\ Request(i, b)
    /\ b \in ready /\ HasSlot(b)
    /\ active' = [active EXCEPT ![b] = @ + 1]
    /\ seen' = seen \cup {i}
    /\ step' = [step EXCEPT ![i] = "chat"]
    /\ slot' = [slot EXCEPT ![i] = b]
    /\ UNCHANGED <<runVars, linkVars, ready, jobCtx, terminal, seq, wire>>

\* No model of that name, an unready backend, an invalid body: "refused". A full
\* backend: "busy". The read loop itself writes the error.
Reject(i, b, code) ==
    /\ Request(i, b)
    /\ code = "busy" => (b \in ready /\ ~HasSlot(b))
    /\ seen' = seen \cup {i}
    /\ slot' = [slot EXCEPT ![i] = b]
    /\ \/ Writable /\ Write(i, Frame(code)) /\ UNCHANGED <<run, peer>>
       \/ Broken /\ MaybeWritten(i, Frame(code)) /\ Close
    /\ UNCHANGED <<ctx, sessions, link, fresh, ready, active, step, jobCtx, terminal, seq>>

\* A repeated attempt id, an unknown message or invalid JSON ends the session; so
\* does one id too many, whoever sends it.
BadFrame ==
    /\ Readable
    /\ (~Conforming \/ Cardinality(seen) >= SeenLimit)
    /\ Close
    /\ UNCHANGED <<ctx, sessions, link, fresh, slotVars, attemptVars>>

\* A cancel of an attempt in the active map; any other changes nothing.
Cancel(i) ==
    /\ Readable
    /\ step[i] \in Executing /\ jobCtx[i] = "live"
    /\ jobCtx' = [jobCtx EXCEPT ![i] = "cancelled"]
    /\ UNCHANGED <<runVars, linkVars, slotVars, step, slot, terminal, seq, wire>>

-----------------------------------------------------------------------------
(* An attempt's goroutine: execute, release the slot, say so.               *)

\* Mutant: the job's context has no deadline.
DeadOnCancelOnly(i) == jobCtx[i] = "cancelled" \/ peer = "cancelled"

\* Mutant: it is not derived from the session's either.
DeadDetached(i) == jobCtx[i] = "cancelled"

\* The job's context is a child of the session's, with a deadline.
Dead(i) == jobCtx[i] # "live" \/ peer = "cancelled"

\* execute returns with this frame.
Return(i, type) ==
    /\ step' = [step EXCEPT ![i] = "finish"]
    /\ terminal' = [terminal EXCEPT ![i] = type]

\* A send of execute fails. If it was cut off while being written the write
\* loop ends, which closes the peer.
SendBroken(i, f) ==
    /\ (Dead(i) \/ Broken)
    /\ MaybeWritten(i, f)
    /\ peer' \in {peer, IF peer = "open" THEN "closed" ELSE peer}
    /\ Return(i, "error")
    /\ UNCHANGED <<runVars, link, fresh, slotVars, slot, jobCtx>>

\* The backend does not answer usefully: refused, start timer, cancelled, an
\* unexpected content type.
ChatFails(i) ==
    /\ step[i] = "chat"
    /\ Return(i, "error")
    /\ UNCHANGED <<runVars, linkVars, slotVars, slot, jobCtx, seq, wire>>

\* A status below 400, or an error status that is passed on without its body.
ChatAnswers(i) ==
    /\ step[i] = "chat"
    /\ \E next \in {"starting", "rejecting"} : step' = [step EXCEPT ![i] = next]
    /\ UNCHANGED <<runVars, linkVars, slotVars, slot, jobCtx, terminal, seq, wire>>

SendStart(i) ==
    /\ link = "up" /\ ~Dead(i)
    /\ Write(i, Frame("response_start"))
    /\ \/ /\ step[i] = "starting"
          /\ step' = [step EXCEPT ![i] = "streaming"]
          /\ UNCHANGED terminal
       \/ /\ step[i] = "rejecting"
          /\ Return(i, "response_end")
    /\ UNCHANGED <<runVars, linkVars, slotVars, slot, jobCtx, seq>>

SendStartFails(i) ==
    /\ step[i] \in {"starting", "rejecting"}
    /\ SendBroken(i, Frame("response_start"))
    /\ UNCHANGED seq

Chunk(i) == [type |-> "response_chunk", seq |-> seq[i] + 1]

SendChunk(i) ==
    /\ step[i] = "streaming" /\ seq[i] < MaxSeq
    /\ link = "up" /\ ~Dead(i)
    /\ Write(i, Chunk(i))
    /\ seq' = [seq EXCEPT ![i] = @ + 1]
    /\ UNCHANGED <<runVars, linkVars, slotVars, step, slot, jobCtx, terminal>>

\* Mutant: a failed chunk is dropped and the stream goes on.
SendChunkSkips(i) ==
    /\ step[i] = "streaming" /\ seq[i] < MaxSeq
    /\ (Dead(i) \/ Broken)
    /\ seq' = [seq EXCEPT ![i] = @ + 1]
    /\ UNCHANGED <<runVars, linkVars, slotVars, step, slot, jobCtx, terminal, wire>>

SendChunkFails(i) ==
    /\ step[i] = "streaming" /\ seq[i] < MaxSeq
    /\ SendBroken(i, Chunk(i))
    /\ seq' = [seq EXCEPT ![i] = @ + 1]

\* The body ends, well or not (no [DONE], an error event, a read error).
StreamEnds(i) ==
    /\ step[i] = "streaming"
    /\ \E type \in {"response_end", "error"} : Return(i, type)
    /\ UNCHANGED <<runVars, linkVars, slotVars, slot, jobCtx, seq, wire>>

\* Mutant: a cancelled attempt returns early and keeps its slot.
ReleaseLeaksCancelled(i) ==
    /\ step[i] = "finish"
    /\ active' = IF Dead(i) THEN active ELSE [active EXCEPT ![slot[i]] = @ - 1]
    /\ step' = [step EXCEPT ![i] = "released"]
    /\ UNCHANGED <<runVars, linkVars, ready, seen, slot, jobCtx, terminal, seq, wire>>

\* Mutant: the terminal frame is written first, then the slot is given back.
ReleaseAfterTerminal(i) ==
    /\ step[i] = "finish" /\ Writable
    /\ IF \E k \in DOMAIN wire[i] : Terminal(wire[i][k])
        THEN /\ active' = [active EXCEPT ![slot[i]] = @ - 1]
             /\ step' = [step EXCEPT ![i] = "done"]
             /\ UNCHANGED wire
        ELSE /\ Write(i, Frame(terminal[i]))
             /\ UNCHANGED <<active, step>>
    /\ UNCHANGED <<runVars, linkVars, ready, seen, slot, jobCtx, terminal, seq>>

\* The body is closed. A dead context makes the frame an error, then the slot
\* is given back and the attempt leaves the active map: a cancel in between
\* would find a context nobody looks at any more.
Release(i) ==
    /\ step[i] = "finish"
    /\ terminal' = [terminal EXCEPT ![i] = IF Dead(i) THEN "error" ELSE @]
    /\ active' = [active EXCEPT ![slot[i]] = @ - 1]
    /\ step' = [step EXCEPT ![i] = "released"]
    /\ UNCHANGED <<runVars, linkVars, ready, seen, slot, jobCtx, seq, wire>>

\* The goroutine returns; its variables with it.
Over(i) ==
    /\ step' = [step EXCEPT ![i] = "done"]
    /\ jobCtx' = [jobCtx EXCEPT ![i] = "live"]
    /\ terminal' = [terminal EXCEPT ![i] = "error"]
    /\ seq' = [seq EXCEPT ![i] = 0]

\* The acknowledgement is sent under the session's context, not the job's.
SendTerminal(i) ==
    /\ step[i] = "released"
    /\ Writable
    /\ Write(i, Frame(terminal[i]))
    /\ Over(i)
    /\ UNCHANGED <<runVars, linkVars, slotVars, slot>>

SendTerminalFails(i) ==
    /\ step[i] = "released"
    /\ Broken
    /\ MaybeWritten(i, Frame(terminal[i]))
    /\ peer' = IF peer = "open" THEN "closed" ELSE peer
    /\ Over(i)
    /\ UNCHANGED <<runVars, link, fresh, slotVars, slot>>

-----------------------------------------------------------------------------
(* The environment: operator, network, clock.                               *)

Interrupt ==
    /\ ctx = "live" /\ run # "stopped"
    /\ ctx' = "cancelled"
    /\ peer' = IF run = "up" THEN "cancelled" ELSE peer
    /\ UNCHANGED <<run, sessions, link, fresh, slotVars, attemptVars>>

LinkFails ==
    /\ run \in {"up", "ending"} /\ link # "down"
    /\ link' \in {"stalled", "down"} \ {link}
    /\ UNCHANGED <<runVars, peer, fresh, slotVars, attemptVars>>

Lapse ==
    /\ run = "up" /\ fresh
    /\ fresh' = FALSE
    /\ UNCHANGED <<runVars, peer, link, slotVars, attemptVars>>

Expire(i) ==
    /\ step[i] \in Executing /\ jobCtx[i] = "live"
    /\ jobCtx' = [jobCtx EXCEPT ![i] = "expired"]
    /\ UNCHANGED <<runVars, linkVars, slotVars, step, slot, terminal, seq, wire>>

-----------------------------------------------------------------------------

Connect ==
    \/ \E offered \in SUBSET BackendIds : Dial(offered)
    \/ DialFails \/ Unauthorized \/ Welcome \/ Ended \/ Stop

Session ==
    \/ HeartbeatAck \/ Watchdog \/ PeerDone \/ ReadFails \/ CloseNow \/ BadFrame
    \/ \E offered \in SUBSET BackendIds : Discover(offered)
    \/ \E i \in Attempts, b \in BackendIds :
        Assign(i, b) \/ Reject(i, b, "busy") \/ Reject(i, b, "refused")
    \/ \E i \in Attempts : Cancel(i)

Execute(i) ==
    \/ ChatFails(i) \/ ChatAnswers(i)
    \/ SendStart(i) \/ SendStartFails(i)
    \/ SendChunk(i) \/ SendChunkFails(i) \/ StreamEnds(i)
    \/ Release(i) \/ SendTerminal(i) \/ SendTerminalFails(i)

Environment == Interrupt \/ LinkFails \/ Lapse \/ \E i \in Attempts : Expire(i)

Next == Connect \/ Session \/ (\E i \in Attempts : Execute(i)) \/ Environment

Spec == Init /\ [][Next]_vars

\* An attempt's goroutine and its timers; a dead context ends chat and body reads.
Progress(i) ==
    \/ Dead(i) /\ (ChatFails(i) \/ StreamEnds(i))
    \/ SendStart(i) \/ SendStartFails(i)
    \/ Release(i) \/ SendTerminal(i) \/ SendTerminalFails(i)
    \/ Expire(i)

Liveness ==
    /\ \A i \in Attempts : WF_vars(Progress(i))
    /\ WF_vars(ReadFails \/ CloseNow \/ Ended \/ Watchdog)
    /\ WF_vars(peer = "closed" /\ PeerDone)
    /\ WF_vars(link = "stalled" /\ Lapse)
    /\ WF_vars(DialFails \/ Stop)

FairSpec == Spec /\ Liveness

-----------------------------------------------------------------------------
(* Safety.                                                                  *)

Holding(b) == {i \in Attempts : step[i] \in Executing /\ slot[i] = b}

\* s.active counts exactly the attempts inside execute, and never exceeds the
\* backend's concurrency: no path of execute leaks a slot or gives it back twice
\* (agent.go reserve, and the goroutine of a request).
SlotsCounted ==
    \A b \in BackendIds :
        active[b] = Cardinality(Holding(b)) /\ active[b] <= Capacity[b]

\* A terminal frame on the wire means the slot is free again, so that the gateway
\* may use it at once (agent.go, the order of s.active-- and the last Send).
TerminalFreesSlot ==
    \A i \in Attempts :
        (\E k \in DOMAIN wire[i] : Terminal(wire[i][k])) => step[i] \notin Executing

\* A gateway that respects capacities and ids is never told busy, whatever was
\* cancelled, expired or still being acknowledged, also after a reconnection.
NeverBusy ==
    Conforming =>
        \A i \in Attempts : \A k \in DOMAIN wire[i] : wire[i][k].type # "busy"

\* What deliver of the gateway accepts next, after these frames of an attempt.
Acceptable(frames, f) ==
    LET started == \E k \in DOMAIN frames : frames[k].type = "response_start"
    IN  /\ \A k \in DOMAIN frames : ~Terminal(frames[k])
        /\ f.type = "response_start" => ~started
        /\ f.type = "response_chunk" => started /\ f.seq = Len(frames)
        /\ f.type = "response_end" => started

\* Whatever sends fail, in whatever state they leave the wire, the frames of an
\* attempt are ones the gateway takes for a well-behaved agent's: one start, chunks
\* without a gap, at most one terminal frame and nothing after it.
WireOrdered ==
    \A i \in Attempts : \A k \in DOMAIN wire[i] :
        Acceptable(SubSeq(wire[i], 1, k - 1), wire[i][k])

\* When the agent connects again, no goroutine of the former session is left to
\* hold a slot or to write (agent.go session, cancel and wg.Wait).
CleanStart ==
    run \in {"down", "dialing", "stopped"} =>
        /\ \A i \in Attempts : step[i] \notin Running
        /\ \A b \in BackendIds : active[b] = 0

-----------------------------------------------------------------------------
(* Liveness.                                                                *)

\* Every accepted attempt comes to its end and frees its slot, whatever the
\* backend, the gateway and the link do: its context has a deadline.
EveryAttemptEnds ==
    \A i \in Attempts : step[i] \in Running ~> step[i] \notin Running

\* A session over a link that stalls without an error is given up: acknowledgements
\* stop, and the heartbeat's watchdog cancels the session.
SilentGatewayLeft == (run = "up" /\ link = "stalled") ~> run # "up"

\* An interrupted agent stops, with requests running and frames unsent.
InterruptStops == ctx = "cancelled" ~> run = "stopped"
=============================================================================
