---------------------------- MODULE Coordinator ----------------------------
(***************************************************************************)
(* The gateway of internal/coordinator: WebSocket sessions of host agents   *)
(* on one side, buyers' chat completions on the other, and between them the *)
(* jobs, i.e. the capacity an attempt reserves on a session.                *)
(*                                                                          *)
(* Processes, one goroutine each in the code:                               *)
(*   a session   connect: register, send welcome, read frames, remove       *)
(*   its ticker  closes the session once the heartbeat is ten seconds old   *)
(*   a handler   chat / forward, one per buyer request, at most 2 attempts  *)
(*   a reaper    abandon's goroutine: write cancel, wait for the agent      *)
(* The rest (agent, network, buyer, clock) is the environment.              *)
(*                                                                          *)
(* A step is what runs under Coordinator.mu, or between two communications. *)
(* Send is one step of its caller: the write loop skips a frame whose       *)
(* context is dead, so the frame is on the wire before Send returns nil.    *)
(***************************************************************************)
EXTENDS Integers, Sequences, FiniteSets, SequencesExt, Lists

CONSTANTS
    HostIds,     \* identities in the coordinator's configuration
    Sessions,    \* upgraded WebSocket connections
    Owner,       \* the identity whose credential each session presented
    Requests,    \* buyer requests
    BackendIds,  \* catalog entries of an agent
    Models,      \* public model ids
    Digests,     \* model digests
    Offers,      \* a ready (backend, kind, model, digest) of a catalog
    Catalogs,    \* what each host may advertise: sets of offers
    Capacity,    \* slots of each backend of a host, fixed by the agent's config
    EventSlots,  \* length of the job's event channel (10 in the code)
    QueueBytes,  \* protocol.QueueBytes
    ChunkSizes,  \* sizes of response chunks
    MaxSeq,      \* bound: chunks of one attempt
    MaxDisruptions, \* bound: failures of the network and of agents, departures, shutdown
    None         \* no session, no job

Kinds == {"ollama", "cliproxyapi"}

ASSUME OwnerAssumption == Owner \in [Sessions -> HostIds]
ASSUME OffersAssumption ==
    Offers \subseteq [backend: BackendIds, kind: Kinds, model: Models, digest: Digests]
ASSUME CatalogsAssumption == Catalogs \in [HostIds -> SUBSET (SUBSET Offers)]
ASSUME CapacityAssumption == Capacity \in [HostIds -> [BackendIds -> 1..64]]
ASSUME QueueAssumption == EventSlots \in Nat \ {0} /\ QueueBytes \in Nat
ASSUME ChunkAssumption == ChunkSizes \subseteq Nat \ {0} /\ MaxSeq \in Nat
ASSUME DisruptionsAssumption == MaxDisruptions \in Nat
ASSUME NoneAssumption ==
    None \notin Sessions /\ None \notin [session: Sessions, offer: Offers]
ASSUME FiniteAssumption == IsFiniteSet(Requests)

\* protocol.ID makes a fresh id per attempt; its request and number name it here.
Attempts == Requests \X {0, 1}

Jobs == [session: Sessions, offer: Offers]

\* What an agent may say of an attempt. The mark keeps what the handler looks
\* at: the class of the HTTP status, or whether an error is retryable.
Frames ==
         [type: {"response_start"}, seq: {0}, size: {0},
          mark: {"ok", "transient", "rejected", "invalid"}]
    \cup [type: {"response_chunk"}, seq: 1..MaxSeq, size: ChunkSizes, mark: {"data"}]
    \cup [type: {"response_end"}, seq: {0}, size: {0}, mark: {"end"}]
    \cup [type: {"error"}, seq: {0}, size: {0}, mark: {"retryable", "final"}]

Terminal(f) == f.type \in {"response_end", "error"}

VARIABLES
    hosts,     \* s.hosts: the session registered under each identity, or None
    closed,    \* s.closed
    conn,      \* control point of each session's connect
    peer,      \* "open" until Peer.Close
    link,      \* the socket: "up", "stalled" (carries nothing), "down"
    fresh,     \* lastHeartbeat is less than HeartbeatTimeout old
    catalog,   \* h.backends, the ready part
    requested, \* attempts whose request frame is written to the agent
    jobs,      \* h.jobs: attempts that hold capacity of the session
    job,       \* where each attempt was placed, None before selection
    events,    \* j.events
    queued,    \* j.queued, bytes in events
    failure,   \* j.failure, a channel of one code
    dropping,  \* j.dropping
    started,   \* j.started
    seq,       \* j.seq
    reaper,    \* control point of the goroutine abandon starts
    pc,        \* control point of each handler
    attempt,   \* 0, or 1 once the request is being retried
    want,      \* the model asked for
    ctx,       \* the request's context: "live", "expired", "cancelled"
    starting,  \* the handler waits for response_start, its start timer armed
    out,       \* chunks written to the buyer, as <<attempt, seq>>
    disruptions, \* how many of those so far
    reply      \* how the buyer's response ended

registryVars == <<hosts, closed>>
sessionVars == <<conn, peer, link, fresh, catalog, requested>>
jobVars == <<jobs, job>>
flowVars == <<events, queued, failure, started, seq>>
endVars == <<dropping, reaper>>
chatVars == <<pc, attempt, reply, starting>>
buyerVars == <<want, ctx, out>>
vars == <<registryVars, sessionVars, jobVars, flowVars, endVars, chatVars, buyerVars, disruptions>>

TypeOK ==
    /\ hosts \in [HostIds -> Sessions \cup {None}]
    /\ closed \in BOOLEAN
    /\ conn \in [Sessions -> {"new", "registered", "reading", "gone"}]
    /\ peer \in [Sessions -> {"open", "closed"}]
    /\ link \in [Sessions -> {"up", "stalled", "down"}]
    /\ fresh \in [Sessions -> BOOLEAN]
    /\ catalog \in [Sessions -> SUBSET Offers]
    /\ requested \subseteq Attempts
    /\ jobs \in [Sessions -> SUBSET Attempts]
    /\ job \in [Attempts -> Jobs \cup {None}]
    /\ events \in [Attempts -> Seq(Frames)]
    /\ queued \in [Attempts -> Int]
    /\ failure \in [Attempts -> {"none", "host_disconnected", "slow_consumer"}]
    /\ dropping \in [Attempts -> BOOLEAN]
    /\ started \in [Attempts -> BOOLEAN]
    /\ seq \in [Attempts -> 0..MaxSeq]
    /\ reaper \in [Attempts -> {"none", "cancel", "await"}]
    /\ pc \in [Requests -> {"idle", "selecting", "selected", "forwarding", "done"}]
    /\ attempt \in [Requests -> {0, 1}]
    /\ want \in [Requests -> Models \cup {None}]
    /\ ctx \in [Requests -> {"live", "expired", "cancelled"}]
    /\ starting \in [Requests -> BOOLEAN]
    /\ out \in [Requests -> Seq({0, 1} \X (1..MaxSeq))]
    /\ disruptions \in 0..MaxDisruptions
    /\ reply \in [Requests -> {"none", "error", "complete", "interrupted", "abandoned"}]

Init ==
    /\ hosts = [h \in HostIds |-> None]
    /\ closed = FALSE
    /\ conn = [s \in Sessions |-> "new"]
    /\ peer = [s \in Sessions |-> "open"]
    /\ link = [s \in Sessions |-> "up"]
    /\ fresh = [s \in Sessions |-> TRUE]
    /\ catalog = [s \in Sessions |-> {}]
    /\ requested = {}
    /\ jobs = [s \in Sessions |-> {}]
    /\ job = [a \in Attempts |-> None]
    /\ events = [a \in Attempts |-> <<>>]
    /\ queued = [a \in Attempts |-> 0]
    /\ failure = [a \in Attempts |-> "none"]
    /\ dropping = [a \in Attempts |-> FALSE]
    /\ started = [a \in Attempts |-> FALSE]
    /\ seq = [a \in Attempts |-> 0]
    /\ reaper = [a \in Attempts |-> "none"]
    /\ pc = [r \in Requests |-> "idle"]
    /\ attempt = [r \in Requests |-> 0]
    /\ want = [r \in Requests |-> None]
    /\ ctx = [r \in Requests |-> "live"]
    /\ starting = [r \in Requests |-> FALSE]
    /\ out = [r \in Requests |-> <<>>]
    /\ disruptions = 0
    /\ reply = [r \in Requests |-> "none"]

\* What the gateway cannot prevent: a broken network, a misbehaving agent, a
\* buyer or an operator who stops. Bounded, time is not.
Disrupt == disruptions < MaxDisruptions /\ disruptions' = disruptions + 1

-----------------------------------------------------------------------------
(* Sessions: connect, its ticker, remove, Close.                            *)

\* Mutant: the duplicate is accepted and takes the identity over.
RegisterEvicts(s, c) ==
    /\ conn[s] = "new"
    /\ ~closed
    /\ hosts' = [hosts EXCEPT ![Owner[s]] = s]
    /\ conn' = [conn EXCEPT ![s] = "registered"]
    /\ catalog' = [catalog EXCEPT ![s] = c]
    /\ UNCHANGED <<closed, peer, link, fresh, requested, jobVars, flowVars, endVars, chatVars, buyerVars, disruptions>>

\* Mutant: a closed coordinator still registers hosts.
RegisterAfterClose(s, c) ==
    /\ conn[s] = "new"
    /\ hosts[Owner[s]] = None
    /\ hosts' = [hosts EXCEPT ![Owner[s]] = s]
    /\ conn' = [conn EXCEPT ![s] = "registered"]
    /\ catalog' = [catalog EXCEPT ![s] = c]
    /\ UNCHANGED <<closed, peer, link, fresh, requested, jobVars, flowVars, endVars, chatVars, buyerVars, disruptions>>

\* A valid hello. A live session under the same identity is never evicted.
Register(s, c) ==
    /\ conn[s] = "new"
    /\ ~closed
    /\ hosts[Owner[s]] = None
    /\ hosts' = [hosts EXCEPT ![Owner[s]] = s]
    /\ conn' = [conn EXCEPT ![s] = "registered"]
    /\ catalog' = [catalog EXCEPT ![s] = c]
    /\ UNCHANGED <<closed, peer, link, fresh, requested, jobVars, flowVars, endVars, chatVars, buyerVars, disruptions>>

\* An invalid hello, a duplicate identity or a closed coordinator: connect
\* returns before registering, which closes the peer. Rejecting an invalid
\* hello needs no condition on the state, hence no guard.
Refuse(s) ==
    /\ conn[s] = "new"
    /\ conn' = [conn EXCEPT ![s] = "gone"]
    /\ peer' = [peer EXCEPT ![s] = "closed"]
    /\ link' = [link EXCEPT ![s] = "down"]
    /\ UNCHANGED <<registryVars, fresh, catalog, requested, jobVars, flowVars, endVars, chatVars, buyerVars, disruptions>>

WelcomeSent(s) ==
    /\ conn[s] = "registered"
    /\ link[s] = "up"
    /\ conn' = [conn EXCEPT ![s] = "reading"]
    /\ UNCHANGED <<registryVars, peer, link, fresh, catalog, requested, jobVars, flowVars, endVars, chatVars, buyerVars, disruptions>>

\* The socket cannot carry a frame, or Close was called: Send returns an error.
Broken(s) == peer[s] = "closed" \/ link[s] # "up"

\* Only the first code sent to j.failure is kept, the channel holds one.
Fail(f, as, code) ==
    [a \in Attempts |-> IF a \in as /\ f[a] = "none" THEN code ELSE f[a]]

\* Mutant: remove does not tell the handlers.
EndSessionSilently(s) ==
    /\ conn' = [conn EXCEPT ![s] = "gone"]
    /\ peer' = [peer EXCEPT ![s] = "closed"]
    /\ fresh' = [fresh EXCEPT ![s] = TRUE]
    /\ catalog' = [catalog EXCEPT ![s] = {}]
    /\ hosts' = [hosts EXCEPT ![Owner[s]] = IF @ = s THEN None ELSE @]
    /\ UNCHANGED <<closed, link, requested, jobVars, flowVars, endVars, chatVars, buyerVars>>

\* connect returns: remove, then the deferred p.Close. The jobs stay in h.jobs
\* and their handlers are told through j.failure. One step with what ended the
\* session: connect looks at nothing shared in between, and Close only stops
\* frames the socket would have carried, which CloseNow does later. Nobody
\* reads the catalog or the heartbeat again, nor the failure of a dropped
\* attempt: its handler has left, or has a slow_consumer to read already.
EndSession(s) ==
    /\ conn' = [conn EXCEPT ![s] = "gone"]
    /\ peer' = [peer EXCEPT ![s] = "closed"]
    /\ fresh' = [fresh EXCEPT ![s] = TRUE]
    /\ catalog' = [catalog EXCEPT ![s] = {}]
    /\ hosts' = [hosts EXCEPT ![Owner[s]] = IF @ = s THEN None ELSE @]
    /\ failure' = IF hosts[Owner[s]] = s
                  THEN Fail(failure, {a \in jobs[s] : ~dropping[a]}, "host_disconnected")
                  ELSE failure
    /\ UNCHANGED <<closed, link, requested, jobVars, events, queued, started, seq,
                   endVars, chatVars, buyerVars>>

WelcomeFails(s) == conn[s] = "registered" /\ Broken(s) /\ EndSession(s) /\ UNCHANGED disruptions

ReadFails(s) == conn[s] = "reading" /\ link[s] = "down" /\ EndSession(s) /\ UNCHANGED disruptions

\* A frame can still be read after Peer.Close, until the socket is closed.
Readable(s) == conn[s] = "reading" /\ link[s] = "up"

Heartbeat(s) ==
    /\ Readable(s)
    /\ fresh' = [fresh EXCEPT ![s] = TRUE]
    /\ UNCHANGED <<registryVars, conn, peer, link, catalog, requested, jobVars, flowVars, endVars, chatVars, buyerVars, disruptions>>

\* The acknowledgement is not written: Close raced with the heartbeat.
HeartbeatUnanswered(s) == Readable(s) /\ peer[s] = "closed" /\ EndSession(s) /\ UNCHANGED disruptions

UpdateCatalog(s, c) ==
    /\ Readable(s)
    /\ catalog' = [catalog EXCEPT ![s] = c]
    /\ UNCHANGED <<registryVars, conn, peer, link, fresh, requested, jobVars, flowVars, endVars, chatVars, buyerVars, disruptions>>

\* Invalid JSON, an unknown type, an invalid catalog, a stale heartbeat id.
BadFrame(s) == Readable(s) /\ Disrupt /\ EndSession(s)

\* Mutant: only a session that holds work is watched.
TickerOfBusySession(s) ==
    /\ conn[s] = "reading"
    /\ ~fresh[s] /\ jobs[s] # {}
    /\ peer[s] = "open"
    /\ peer' = [peer EXCEPT ![s] = "closed"]
    /\ UNCHANGED <<registryVars, conn, link, fresh, catalog, requested, jobVars, flowVars, endVars, chatVars, buyerVars, disruptions>>

Ticker(s) ==
    /\ conn[s] = "reading"
    /\ ~fresh[s]
    /\ peer[s] = "open"
    /\ peer' = [peer EXCEPT ![s] = "closed"]
    /\ UNCHANGED <<registryVars, conn, link, fresh, catalog, requested, jobVars, flowVars, endVars, chatVars, buyerVars, disruptions>>

\* context.AfterFunc in wire.New: the socket is closed some time after Close.
CloseNow(s) ==
    /\ peer[s] = "closed"
    /\ link[s] # "down"
    /\ link' = [link EXCEPT ![s] = "down"]
    /\ UNCHANGED <<registryVars, conn, peer, fresh, catalog, requested, jobVars, flowVars, endVars, chatVars, buyerVars, disruptions>>

Close ==
    /\ ~closed
    /\ Disrupt
    /\ closed' = TRUE
    /\ peer' = [s \in Sessions |-> IF hosts[Owner[s]] = s THEN "closed" ELSE peer[s]]
    /\ UNCHANGED <<hosts, conn, link, fresh, catalog, requested, jobVars, flowVars, endVars, chatVars, buyerVars>>

-----------------------------------------------------------------------------
(* Jobs: deliver and abandon, in the read loop of the job's session.        *)

\* An agent speaks only of attempts whose request reached it (their ids are
\* random); what it says of a finished attempt is ignored.
Incoming(s, a) == Readable(s) /\ a \in requested \cap jobs[s]

\* Mutant: a chunk may skip sequence numbers.
OutOfOrderAllowsGaps(a, f) ==
    \/ f.type = "response_start" /\ started[a]
    \/ f.type = "response_chunk" /\ (~started[a] \/ f.seq <= seq[a])
    \/ f.type = "response_end" /\ ~started[a]

OutOfOrder(a, f) ==
    \/ f.type = "response_start" /\ started[a]
    \/ f.type = "response_chunk" /\ (~started[a] \/ f.seq # seq[a] + 1)
    \/ f.type = "response_end" /\ ~started[a]

\* A protocol violation ends the session, and keeps the reservation.
DeliverViolation(s, a, f) ==
    /\ Incoming(s, a)
    /\ ~dropping[a] /\ OutOfOrder(a, f)
    /\ Disrupt
    /\ EndSession(s)

\* A terminal frame, and nothing else, gives the capacity back.
Reserved(s, a, f) == IF Terminal(f) THEN jobs[s] \ {a} ELSE jobs[s]

\* An abandoned attempt: its frames are dropped, its terminal frame still counts.
DeliverDropped(s, a, f) ==
    /\ Incoming(s, a)
    /\ dropping[a]
    /\ jobs' = [jobs EXCEPT ![s] = Reserved(s, a, f)]
    /\ UNCHANGED <<registryVars, sessionVars, job, flowVars, endVars, chatVars, buyerVars, disruptions>>

\* What deliver records of an attempt that is still wanted.
Track(s, a, f) ==
    /\ Incoming(s, a)
    /\ ~dropping[a] /\ ~OutOfOrder(a, f)
    /\ started' = [started EXCEPT ![a] = @ \/ f.type = "response_start"]
    /\ seq' = [seq EXCEPT ![a] = IF f.type = "response_chunk" THEN f.seq ELSE @]
    /\ jobs' = [jobs EXCEPT ![s] = Reserved(s, a, f)]

\* Mutant: the bytes of the frame itself are not counted.
FitsBeforeAdding(a, f) == queued[a] <= QueueBytes /\ Len(events[a]) < EventSlots

Fits(a, f) == queued[a] + f.size <= QueueBytes /\ Len(events[a]) < EventSlots

DeliverQueued(s, a, f) ==
    /\ Track(s, a, f)
    /\ Fits(a, f)
    /\ events' = [events EXCEPT ![a] = Append(@, f)]
    /\ queued' = [queued EXCEPT ![a] = @ + f.size]
    /\ UNCHANGED <<registryVars, sessionVars, job, failure, endVars, chatVars, buyerVars, disruptions>>

\* abandon: the first call starts the reaper, if the agent still holds the attempt.
Abandon(a, held) ==
    /\ dropping' = [dropping EXCEPT ![a] = TRUE]
    /\ reaper' = [reaper EXCEPT ![a] = IF ~dropping[a] /\ held THEN "cancel" ELSE @]

\* Mutant: the attempt is abandoned, its handler is not told.
DeliverOverflowUntold(s, a, f) ==
    /\ Track(s, a, f)
    /\ ~Fits(a, f)
    /\ Abandon(a, ~Terminal(f))
    /\ UNCHANGED <<registryVars, sessionVars, job, events, queued, failure, chatVars, buyerVars, disruptions>>

\* The buyer reads too slowly: the frame is lost, so the attempt must fail.
DeliverOverflow(s, a, f) ==
    /\ Track(s, a, f)
    /\ ~Fits(a, f)
    /\ failure' = Fail(failure, {a}, "slow_consumer")
    /\ Abandon(a, ~Terminal(f))
    /\ UNCHANGED <<registryVars, sessionVars, job, events, queued, chatVars, buyerVars, disruptions>>

-----------------------------------------------------------------------------
(* Reapers: the goroutine abandon starts.                                   *)

SessionOf(a) == job[a].session
Held(a) == job[a] # None /\ a \in jobs[SessionOf(a)]

CancelWritten(a) ==
    /\ reaper[a] = "cancel"
    /\ link[SessionOf(a)] = "up"
    /\ reaper' = [reaper EXCEPT ![a] = "await"]
    /\ UNCHANGED <<registryVars, sessionVars, jobVars, flowVars, dropping, chatVars, buyerVars, disruptions>>

\* Mutant: a cancel that cannot be written is forgotten.
CancelForgotten(a) ==
    /\ reaper[a] = "cancel"
    /\ Broken(SessionOf(a))
    /\ reaper' = [reaper EXCEPT ![a] = "none"]
    /\ UNCHANGED <<registryVars, sessionVars, jobVars, flowVars, dropping, chatVars, buyerVars, disruptions>>

CancelFails(a) ==
    /\ reaper[a] = "cancel"
    /\ Broken(SessionOf(a))
    /\ peer' = [peer EXCEPT ![SessionOf(a)] = "closed"]
    /\ reaper' = [reaper EXCEPT ![a] = "none"]
    /\ UNCHANGED <<registryVars, conn, link, fresh, catalog, requested, jobVars, flowVars, dropping, chatVars, buyerVars, disruptions>>

ReaperQuits(a) ==
    /\ reaper[a] = "await"
    /\ peer[SessionOf(a)] = "closed"
    /\ reaper' = [reaper EXCEPT ![a] = "none"]
    /\ UNCHANGED <<registryVars, sessionVars, jobVars, flowVars, dropping, chatVars, buyerVars, disruptions>>

\* Mutant: the reaper stops waiting and lets the reservation stand.
ReaperGivesUp(a) ==
    /\ reaper[a] = "await"
    /\ reaper' = [reaper EXCEPT ![a] = "none"]
    /\ UNCHANGED <<registryVars, sessionVars, jobVars, flowVars, dropping, chatVars, buyerVars, disruptions>>

\* Five seconds after the cancel: an unacknowledged one costs the session.
ReaperTimesOut(a) ==
    /\ reaper[a] = "await"
    /\ reaper' = [reaper EXCEPT ![a] = "none"]
    /\ peer' = IF Held(a) THEN [peer EXCEPT ![SessionOf(a)] = "closed"] ELSE peer
    /\ UNCHANGED <<registryVars, conn, link, fresh, catalog, requested, jobVars, flowVars, dropping, chatVars, buyerVars, disruptions>>

-----------------------------------------------------------------------------
(* Handlers, first half: chat up to a request on the wire.                  *)

Current(r) == <<r, attempt[r]>>
Previous(r) == job[<<r, 0>>]

Arrive(r, m) ==
    /\ pc[r] = "idle"
    /\ pc' = [pc EXCEPT ![r] = "selecting"]
    /\ want' = [want EXCEPT ![r] = m]
    /\ UNCHANGED <<registryVars, sessionVars, jobVars, flowVars, endVars, attempt, reply, starting, ctx, out, disruptions>>

\* Too large, not JSON, no model or no messages: 413 or 400.
ArriveInvalid(r) ==
    /\ pc[r] = "idle"
    /\ pc' = [pc EXCEPT ![r] = "done"]
    /\ reply' = [reply EXCEPT ![r] = "error"]
    /\ UNCHANGED <<registryVars, sessionVars, jobVars, flowVars, endVars, attempt, starting, buyerVars, disruptions>>

ActiveOn(s, b) == {a \in jobs[s] : job[a].offer.backend = b}

\* Mutant: abandoned attempts no longer count, acknowledged or not.
HasRoomForgetsAbandoned(s, b) ==
    Cardinality({a \in ActiveOn(s, b) : ~dropping[a]}) < Capacity[Owner[s]][b]

HasRoom(s, b) == Cardinality(ActiveOn(s, b)) < Capacity[Owner[s]][b]

\* Mutant: any model of that name will do for a retry.
MatchesAnyDigest(r, s, o) ==
    attempt[r] = 1 =>
        /\ Owner[s] # Owner[Previous(r).session]
        /\ o.kind = Previous(r).offer.kind

\* A retry excludes the previous host and keeps the kind and, for local models, the digest.
Matches(r, s, o) ==
    attempt[r] = 1 =>
        /\ Owner[s] # Owner[Previous(r).session]
        /\ o.kind = Previous(r).offer.kind
        /\ o.kind = "ollama" => o.digest = Previous(r).offer.digest

Candidate(r, s, o) ==
    /\ hosts[Owner[s]] = s
    /\ fresh[s]
    /\ o \in catalog[s]
    /\ o.model = want[r]
    /\ HasRoom(s, o.backend)
    /\ Matches(r, s, o)

\* selectJob reserves one of the candidates; which one, the cursor decides.
Select(r, s, o) ==
    /\ pc[r] = "selecting"
    /\ Candidate(r, s, o)
    /\ pc' = [pc EXCEPT ![r] = "selected"]
    /\ job' = [job EXCEPT ![Current(r)] = [session |-> s, offer |-> o]]
    /\ jobs' = [jobs EXCEPT ![s] = @ \cup {Current(r)}]
    /\ UNCHANGED <<registryVars, sessionVars, flowVars, endVars, attempt, reply, starting, buyerVars, disruptions>>

Answer(r, how) ==
    /\ pc' = [pc EXCEPT ![r] = "done"]
    /\ reply' = [reply EXCEPT ![r] = how]
    /\ UNCHANGED attempt

Retry(r) ==
    /\ pc' = [pc EXCEPT ![r] = "selecting"]
    /\ attempt' = [attempt EXCEPT ![r] = 1]
    /\ UNCHANGED reply

NoCapacity(r) ==
    /\ pc[r] = "selecting"
    /\ \A s \in Sessions, o \in Offers : ~Candidate(r, s, o)
    /\ Answer(r, "error")
    /\ UNCHANGED <<registryVars, sessionVars, jobVars, flowVars, endVars, starting, buyerVars, disruptions>>

\* Mutant: returns without abandoning the job it reserved.
DeadlineLeaksJob(r) ==
    /\ pc[r] = "selected"
    /\ ctx[r] # "live"
    /\ Answer(r, "error")
    /\ UNCHANGED <<registryVars, sessionVars, jobVars, flowVars, endVars, starting, buyerVars, disruptions>>

\* The deadline passed before dispatch. A buyer that left may outlive it too.
DeadlineExceeded(r) ==
    /\ pc[r] = "selected"
    /\ ctx[r] # "live"
    /\ Answer(r, "error")
    /\ Abandon(Current(r), Held(Current(r)))
    /\ UNCHANGED <<registryVars, sessionVars, jobVars, flowVars, starting, buyerVars, disruptions>>

\* The request is on the wire, and forward has armed its start timer.
SendOK(r) ==
    LET s == SessionOf(Current(r)) IN
    /\ pc[r] = "selected"
    /\ ctx[r] = "live"
    /\ link[s] = "up"
    /\ requested' = requested \cup {Current(r)}
    /\ pc' = [pc EXCEPT ![r] = "forwarding"]
    /\ starting' = [starting EXCEPT ![r] = TRUE]
    /\ UNCHANGED <<registryVars, conn, peer, link, fresh, catalog, jobVars, flowVars, endVars,
                   attempt, reply, buyerVars, disruptions>>

\* Send fails on a broken session and on a dead context alike, in the latter
\* case with or without the frame written; either way the peer is closed.
SendFails(r, written) ==
    LET s == SessionOf(Current(r)) IN
    /\ pc[r] = "selected"
    /\ Broken(s) \/ ctx[r] # "live"
    /\ written => link[s] = "up"
    /\ requested' = IF written THEN requested \cup {Current(r)} ELSE requested
    /\ peer' = [peer EXCEPT ![s] = "closed"]
    /\ Abandon(Current(r), Held(Current(r)))
    /\ IF attempt[r] = 0 /\ ctx[r] = "live" THEN Retry(r) ELSE Answer(r, "error")
    /\ UNCHANGED <<registryVars, conn, link, fresh, catalog, jobVars, flowVars, starting, buyerVars, disruptions>>

-----------------------------------------------------------------------------
(* Handlers, second half: forward, from response_start to the last byte.    *)

\* Mutant: retries a response the buyer has begun to read.
FailWithLateRetry(r, retryable) ==
    IF attempt[r] = 0 /\ retryable /\ ctx[r] = "live"
    THEN Retry(r)
    ELSE Answer(r, IF out[r] # <<>> THEN "interrupted"
                   ELSE IF ctx[r] = "cancelled" THEN "abandoned" ELSE "error")

\* Mutant: retries more than once.
FailWithEndlessRetry(r, retryable) ==
    IF out[r] = <<>> /\ retryable /\ ctx[r] = "live"
    THEN /\ pc' = [pc EXCEPT ![r] = "selecting"]
         /\ attempt' = [attempt EXCEPT ![r] = @ + 1]
         /\ UNCHANGED reply
    ELSE Answer(r, IF out[r] # <<>> THEN "interrupted"
                   ELSE IF ctx[r] = "cancelled" THEN "abandoned" ELSE "error")

\* fail: retry while the buyer has seen nothing, otherwise end the response.
FailWith(r, retryable) ==
    IF out[r] = <<>> /\ attempt[r] = 0 /\ retryable /\ ctx[r] = "live"
    THEN Retry(r)
    ELSE Answer(r, IF out[r] # <<>> THEN "interrupted"
                   ELSE IF ctx[r] = "cancelled" THEN "abandoned" ELSE "error")

\* forward's defers: stop the timer, abandon the job. The job's channels have
\* lost their only reader and deliver looks at nothing but dropping from here
\* on: what nobody reads again is put back to its initial value.
Leave(r) ==
    /\ starting' = [starting EXCEPT ![r] = FALSE]
    /\ Abandon(Current(r), Held(Current(r)))
    /\ events' = [events EXCEPT ![Current(r)] = <<>>]
    /\ queued' = [queued EXCEPT ![Current(r)] = 0]
    /\ failure' = [failure EXCEPT ![Current(r)] = "none"]
    /\ started' = [started EXCEPT ![Current(r)] = FALSE]
    /\ seq' = [seq EXCEPT ![Current(r)] = 0]
    /\ UNCHANGED <<registryVars, sessionVars, jobVars>>

\* Mutant: once the response started, the context is no longer watched.
ContextDoneWhileStarting(r) ==
    /\ pc[r] = "forwarding"
    /\ ctx[r] # "live" /\ starting[r]
    /\ FailWith(r, FALSE)
    /\ Leave(r)
    /\ UNCHANGED <<buyerVars, disruptions>>

ContextDone(r) ==
    /\ pc[r] = "forwarding"
    /\ ctx[r] # "live"
    /\ FailWith(r, FALSE)
    /\ Leave(r)
    /\ UNCHANGED <<buyerVars, disruptions>>

StartTimeout(r) ==
    /\ pc[r] = "forwarding"
    /\ starting[r]
    /\ FailWith(r, TRUE)
    /\ Leave(r)
    /\ UNCHANGED <<buyerVars, disruptions>>

TakeFailure(r) ==
    /\ pc[r] = "forwarding"
    /\ failure[Current(r)] # "none"
    /\ FailWith(r, TRUE)
    /\ Leave(r)
    /\ UNCHANGED <<buyerVars, disruptions>>

\* The next event, of the given type. select picks any ready case, so an
\* event can be taken although a failure, or the end of the context, is ready.
Ready(r, type) ==
    /\ pc[r] = "forwarding"
    /\ events[Current(r)] # <<>>
    /\ Head(events[Current(r)]).type = type

Consume(r) ==
    /\ events' = [events EXCEPT ![Current(r)] = Tail(@)]
    /\ queued' = [queued EXCEPT ![Current(r)] = @ - Head(events[Current(r)]).size]

TakeStart(r) ==
    /\ Ready(r, "response_start")
    /\ Head(events[Current(r)]).mark = "ok"
    /\ Consume(r)
    /\ starting' = [starting EXCEPT ![r] = FALSE]
    /\ UNCHANGED <<registryVars, sessionVars, jobVars, failure, started, seq, endVars,
                   pc, attempt, reply, buyerVars, disruptions>>

\* A status >= 300 or the wrong content type. The retry of a transient status
\* is the one that does not look at the context.
TakeBadStart(r) ==
    /\ Ready(r, "response_start")
    /\ LET mark == Head(events[Current(r)]).mark IN
       \/ mark = "transient" /\ attempt[r] = 0 /\ Retry(r)
       \/ mark = "transient" /\ attempt[r] = 1 /\ Answer(r, "error")
       \/ mark = "rejected" /\ Answer(r, "error")
       \/ mark = "invalid" /\ FailWith(r, TRUE)
    /\ Leave(r)
    /\ UNCHANGED <<buyerVars, disruptions>>

\* By StreamGapless a status is known here: the check of chat.go:160 never fails.
TakeChunk(r) ==
    /\ Ready(r, "response_chunk")
    /\ Consume(r)
    /\ out' = [out EXCEPT ![r] = Append(@, <<attempt[r], Head(events[Current(r)]).seq>>)]
    /\ UNCHANGED <<registryVars, sessionVars, jobVars, failure, started, seq, endVars, chatVars, want, ctx, disruptions>>

\* The buyer is gone, or took more than WriteTimeout.
TakeChunkWriteFails(r) ==
    /\ Ready(r, "response_chunk")
    /\ Answer(r, "interrupted")
    /\ Leave(r)
    /\ UNCHANGED <<buyerVars, disruptions>>

TakeEnd(r) ==
    /\ Ready(r, "response_end")
    /\ IF out[r] = <<>> THEN FailWith(r, TRUE) ELSE Answer(r, "complete")
    /\ Leave(r)
    /\ UNCHANGED <<buyerVars, disruptions>>

TakeError(r) ==
    /\ Ready(r, "error")
    /\ FailWith(r, Head(events[Current(r)]).mark = "retryable")
    /\ Leave(r)
    /\ UNCHANGED <<buyerVars, disruptions>>

-----------------------------------------------------------------------------
(* The environment: time, the network, the buyer.                           *)

Lapse(s) ==
    /\ fresh[s]
    /\ conn[s] \in {"registered", "reading"}
    /\ IF link[s] = "stalled" THEN UNCHANGED disruptions ELSE Disrupt
    /\ fresh' = [fresh EXCEPT ![s] = FALSE]
    /\ UNCHANGED <<registryVars, conn, peer, link, catalog, requested, jobVars, flowVars, endVars, chatVars, buyerVars>>

LinkStalls(s) ==
    /\ conn[s] \in {"registered", "reading"}
    /\ Disrupt
    /\ link[s] = "up"
    /\ link' = [link EXCEPT ![s] = "stalled"]
    /\ UNCHANGED <<registryVars, conn, peer, fresh, catalog, requested, jobVars, flowVars, endVars, chatVars, buyerVars>>

LinkFails(s) ==
    /\ conn[s] \in {"registered", "reading"}
    /\ Disrupt
    /\ link[s] # "down"
    /\ link' = [link EXCEPT ![s] = "down"]
    /\ UNCHANGED <<registryVars, conn, peer, fresh, catalog, requested, jobVars, flowVars, endVars, chatVars, buyerVars>>

Busy(r) == pc[r] \in {"selecting", "selected", "forwarding"}

Expire(r) ==
    /\ Busy(r) /\ ctx[r] = "live"
    /\ ctx' = [ctx EXCEPT ![r] = "expired"]
    /\ UNCHANGED <<registryVars, sessionVars, jobVars, flowVars, endVars, chatVars, want, out, disruptions>>

BuyerLeaves(r) ==
    /\ Busy(r) /\ ctx[r] = "live"
    /\ Disrupt
    /\ ctx' = [ctx EXCEPT ![r] = "cancelled"]
    /\ UNCHANGED <<registryVars, sessionVars, jobVars, flowVars, endVars, chatVars, want, out>>

-----------------------------------------------------------------------------

Session(s) ==
    \/ \E c \in Catalogs[Owner[s]] : Register(s, c) \/ UpdateCatalog(s, c)
    \/ Refuse(s) \/ WelcomeSent(s) \/ WelcomeFails(s)
    \/ Heartbeat(s) \/ HeartbeatUnanswered(s) \/ BadFrame(s)
    \/ Ticker(s) \/ ReadFails(s) \/ CloseNow(s)

Deliver(s, a, f) ==
    \/ DeliverViolation(s, a, f) \/ DeliverDropped(s, a, f)
    \/ DeliverQueued(s, a, f) \/ DeliverOverflow(s, a, f)

Reaper(a) == CancelWritten(a) \/ CancelFails(a) \/ ReaperQuits(a) \/ ReaperTimesOut(a)

Dispatch(r) ==
    \/ \E s \in Sessions, o \in Offers : Select(r, s, o)
    \/ NoCapacity(r) \/ DeadlineExceeded(r)
    \/ SendOK(r) \/ \E written \in BOOLEAN : SendFails(r, written)

Forward(r) ==
    \/ ContextDone(r) \/ StartTimeout(r) \/ TakeFailure(r)
    \/ TakeStart(r) \/ TakeBadStart(r) \/ TakeChunk(r) \/ TakeChunkWriteFails(r)
    \/ TakeEnd(r) \/ TakeError(r)

Environment ==
    \/ \E s \in Sessions : Lapse(s) \/ LinkStalls(s) \/ LinkFails(s)
    \/ \E r \in Requests : Expire(r) \/ BuyerLeaves(r)

Next ==
    \/ \E s \in Sessions : Session(s)
    \/ \E s \in Sessions, a \in Attempts, f \in Frames : Deliver(s, a, f)
    \/ \E a \in Attempts : Reaper(a)
    \/ \E r \in Requests :
        \/ \E m \in Models : Arrive(r, m)
        \/ ArriveInvalid(r)
        \/ Dispatch(r)
        \/ Forward(r)
    \/ Close
    \/ Environment

Spec == Init /\ [][Next]_vars

(***************************************************************************)
(* Fairness. Goroutines that can run do: a session's read loop, ticker and  *)
(* AfterFunc, handlers and reapers, each of whose waits a timer ends. The   *)
(* heartbeat of a stalled link grows old, and a request's deadline passes.  *)
(* One condition for each session, attempt and request: each such step runs *)
(* a bounded number of times. Nothing is assumed of agents and buyers, nor  *)
(* that a working link carries a frame of theirs.                           *)
(***************************************************************************)
Liveness ==
    /\ \A s \in Sessions :
        WF_vars(\/ WelcomeSent(s) \/ WelcomeFails(s) \/ ReadFails(s)
                \/ Ticker(s) \/ CloseNow(s) \/ (link[s] = "stalled" /\ Lapse(s)))
    /\ \A a \in Attempts : WF_vars(Reaper(a))
    /\ \A r \in Requests :
        WF_vars(Dispatch(r) \/ ContextDone(r) \/ TakeFailure(r) \/ Expire(r))

FairSpec == Spec /\ Liveness

-----------------------------------------------------------------------------
(* Properties.                                                              *)

\* The identity map and the sessions agree: whoever is registered is the one
\* live session of that credential, so removing an old session never takes a
\* newer one's registration, and no live session is missing from the map.
Registration ==
    \A h \in HostIds, s \in Sessions :
        hosts[h] = s <=> Owner[s] = h /\ conn[s] \in {"registered", "reading"}

\* No backend is ever given more attempts than its capacity, abandoned ones
\* that the agent has not acknowledged included.
CapacityRespected ==
    \A s \in Sessions, b \in BackendIds :
        Cardinality(ActiveOn(s, b)) <= Capacity[Owner[s]][b]

Forwarding(r) == pc[r] = "forwarding"

\* Whether a queue still holds response_start, in front, and the terminal frame.
Begun(q) == IF q # <<>> /\ q[1].type = "response_start" THEN 1 ELSE 0
Ended(q) == IF q # <<>> /\ Terminal(q[Len(q)]) THEN 1 ELSE 0

\* The queue of an attempt of which `shown' chunks are written: response_start
\* first, while the handler waits for it and ahead of all but an error; then
\* the next chunks, one by one; nothing after the terminal frame.
Ordered(q, shown, waiting) ==
    /\ \A i \in DOMAIN q :
        /\ q[i].type = "response_start" => i = 1 /\ waiting
        /\ q[i].type = "response_chunk" => q[i].seq = shown + i - Begun(q)
        /\ Terminal(q[i]) => i = Len(q)
    /\ waiting /\ q # <<>> => q[1].type \in {"response_start", "error"}

\* While a handler reads an attempt, what the buyer got and what is queued are
\* together 1, 2, 3, ... of that attempt alone, up to the last chunk the agent
\* sent unless one was dropped, in which case the failure is pending.
StreamGapless ==
    \A r \in Requests : Forwarding(r) =>
        LET a == Current(r)
            q == events[a]
        IN  /\ \A i \in DOMAIN out[r] : out[r][i] = <<attempt[r], i>>
            /\ Ordered(q, Len(out[r]), starting[r])
            /\ IF dropping[a] THEN failure[a] = "slow_consumer"
               ELSE seq[a] = Len(out[r]) + Len(q) - Begun(q) - Ended(q)

\* The two limits of the queue, and the byte counter that enforces the first.
QueueBounded ==
    \A a \in Attempts :
        /\ Len(events[a]) <= EventSlots
        /\ queued[a] <= QueueBytes
        /\ queued[a] = Total([i \in DOMAIN events[a] |-> events[a][i].size])

\* A handler is never left waiting on a session that is gone or an attempt that
\* is over: it has a failure or the terminal frame to read. (Its deadline would
\* wake it, minutes later.)
NoLostWakeup ==
    \A r \in Requests : Forwarding(r) =>
        LET a == Current(r) IN
        conn[SessionOf(a)] = "gone" \/ ~Held(a) =>
            \/ failure[a] # "none"
            \/ events[a] # <<>> /\ Terminal(events[a][Len(events[a])])

\* Capacity does not leak: on a live session each reservation has a handler, a
\* reaper, or the end of the session to give it back.
NoOrphan ==
    \A s \in Sessions : \A a \in jobs[s] :
        \/ a = Current(a[1]) /\ pc[a[1]] \in {"selected", "forwarding"}
        \/ reaper[a] # "none"
        \/ peer[s] = "closed"

\* A second attempt runs only after the first is given up with nothing shown to
\* the buyer, on another host, with the same kind and, if local, the same digest.
RetryDiscipline ==
    \A r \in Requests : attempt[r] = 1 =>
        /\ dropping[<<r, 0>>]
        /\ \A i \in DOMAIN out[r] : out[r][i][1] = 1
        /\ job[<<r, 1>>] # None =>
            /\ Owner[job[<<r, 1>>].session] # Owner[Previous(r).session]
            /\ job[<<r, 1>>].offer.kind = Previous(r).offer.kind
            /\ job[<<r, 1>>].offer.kind = "ollama" =>
                job[<<r, 1>>].offer.digest = Previous(r).offer.digest

\* What Gateway sees of a request: whether it is open, and of the generation
\* that is read the chunks received and whether its end is queued.
Finished(q) == q # <<>> /\ q[Len(q)].type = "response_end"

phaseOf == [r \in Requests |-> IF pc[r] = "idle" THEN "idle"
                               ELSE IF pc[r] = "done" THEN "closed" ELSE "open"]
madeOf == [r \in Requests |-> IF Forwarding(r) THEN seq[Current(r)] ELSE 0]
overOf == [r \in Requests |-> Forwarding(r) /\ Finished(events[Current(r)])]

\* The promise to the buyer, as Gateway states it.
Promise == INSTANCE Gateway WITH
    phase <- phaseOf, generation <- attempt, made <- madeOf, over <- overOf, body <- out

\* The buyer gets a gapless prefix of one generation, never replaced once shown,
\* and "complete" means all of it.
GatewayPromise == Promise!Spec

\* Every request is answered, whatever agents and network do.
Answered == \A r \in Requests : Busy(r) ~> pc[r] = "done"

\* An abandoned attempt does not hold a live session's capacity for ever.
Reclaimed ==
    \A a \in Attempts :
        dropping[a] /\ Held(a) ~> ~Held(a) \/ conn[SessionOf(a)] = "gone"

\* A session whose link stalls without an error gives its identity back.
SilentHostEvicted ==
    \A s \in Sessions : link[s] = "stalled" ~> hosts[Owner[s]] # s

\* Shutdown empties the registry.
ShutdownDrains == closed ~> \A h \in HostIds : hosts[h] = None

\* docs/protocol.md:23 "No work is assigned before `welcome` is sent."
WelcomeFirst ==
    \A a \in requested : conn[SessionOf(a)] # "registered"
=============================================================================
