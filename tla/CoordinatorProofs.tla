------------------------- MODULE CoordinatorProofs -------------------------
(***************************************************************************)
(* Theorems about Coordinator, for every set of hosts, sessions and         *)
(* requests, every catalog, capacity and queue limit.                       *)
(***************************************************************************)
EXTENDS Coordinator, SequenceLemmas, FiniteSetTheorems, TLAPS

USE DEF registryVars, sessionVars, jobVars, flowVars, endVars, chatVars, buyerVars

-----------------------------------------------------------------------------
(* Facts about the data.                                                    *)

\* What the fields of a frame range over.
LEMMA FrameFields ==
    ASSUME NEW f \in Frames
    PROVE  /\ f.seq \in 0..MaxSeq
           /\ f.size \in Nat
           /\ f.type = "response_chunk" => f.seq \in 1..MaxSeq
<1>1. f.type = "response_chunk" => f.seq \in 1..MaxSeq /\ f.size \in ChunkSizes
  BY DEF Frames
<1>2. f.type # "response_chunk" => f.seq = 0 /\ f.size = 0
  BY DEF Frames
<1>3. CASE f.type = "response_chunk"
  <2>1. f.size \in Nat
    BY <1>1, <1>3, ChunkAssumption
  <2>2. f.seq \in 1..MaxSeq
    BY <1>1, <1>3
  <2> QED
    BY <2>1, <2>2, ChunkAssumption
<1>4. CASE f.type # "response_chunk"
  BY <1>2, <1>4, ChunkAssumption
<1> QED
  BY <1>3, <1>4

\* The attempt a handler is at, and its first event, are well typed.
LEMMA CurrentTyped ==
    ASSUME TypeOK, NEW r \in Requests
    PROVE  /\ Current(r) \in Attempts
           /\ events[Current(r)] # <<>> =>
                /\ Head(events[Current(r)]) \in Frames
                /\ Tail(events[Current(r)]) \in Seq(Frames)
<1>1. Current(r) \in Attempts
  BY DEF TypeOK, Current, Attempts
<1>2. events[Current(r)] \in Seq(Frames)
  BY <1>1 DEF TypeOK
<1> QED
  BY <1>1, <1>2

\* An attempt that has a session has one of Sessions.
LEMMA SessionTyped ==
    ASSUME TypeOK, NEW a \in Attempts, job[a] # None
    PROVE  SessionOf(a) \in Sessions
BY DEF TypeOK, Jobs, SessionOf

-----------------------------------------------------------------------------
(* Type correctness.                                                        *)

LEMMA TypeInit == Init => TypeOK
<1> SUFFICES ASSUME Init PROVE TypeOK
  OBVIOUS
<1>1. /\ seq \in [Attempts -> 0..MaxSeq] /\ queued \in [Attempts -> Int] /\ disruptions \in 0..MaxDisruptions
  BY ChunkAssumption, DisruptionsAssumption DEF Init
<1>2. /\ events \in [Attempts -> Seq(Frames)]
      /\ out \in [Requests -> Seq({0, 1} \X (1..MaxSeq))]
  BY DEF Init
<1>3. /\ hosts \in [HostIds -> Sessions \cup {None}] /\ closed \in BOOLEAN
      /\ fresh \in [Sessions -> BOOLEAN] /\ catalog \in [Sessions -> SUBSET Offers]
  BY DEF Init
<1>6. /\ requested \subseteq Attempts /\ jobs \in [Sessions -> SUBSET Attempts]
      /\ job \in [Attempts -> Jobs \cup {None}] /\ want \in [Requests -> Models \cup {None}]
      /\ dropping \in [Attempts -> BOOLEAN] /\ started \in [Attempts -> BOOLEAN]
      /\ starting \in [Requests -> BOOLEAN]
  BY DEF Init
<1>4. /\ conn \in [Sessions -> {"new", "registered", "reading", "gone"}]
      /\ peer \in [Sessions -> {"open", "closed"}]
      /\ link \in [Sessions -> {"up", "stalled", "down"}]
      /\ failure \in [Attempts -> {"none", "host_disconnected", "slow_consumer"}]
      /\ reaper \in [Attempts -> {"none", "cancel", "await"}]
      /\ attempt \in [Requests -> {0, 1}]
      /\ ctx \in [Requests -> {"live", "expired", "cancelled"}]
  BY DEF Init
<1>5. /\ pc \in [Requests -> {"idle", "selecting", "selected", "forwarding", "done"}]
      /\ reply \in [Requests -> {"none", "error", "complete", "interrupted", "abandoned"}]
  BY DEF Init
<1> QED
  BY <1>1, <1>2, <1>3, <1>4, <1>5, <1>6 DEF TypeOK

LEMMA EndSessionType ==
    ASSUME TypeOK, NEW s \in Sessions, EndSession(s), disruptions' \in 0..MaxDisruptions
    PROVE  TypeOK'
BY OwnerAssumption DEF TypeOK, EndSession, Fail

LEMMA DisruptType ==
    ASSUME TypeOK, Disrupt
    PROVE  disruptions' \in 0..MaxDisruptions
BY DisruptionsAssumption DEF TypeOK, Disrupt

LEMMA SessionType ==
    ASSUME TypeOK, NEW s \in Sessions, Session(s)
    PROVE  TypeOK'
<1>1. ASSUME NEW c \in Catalogs[Owner[s]], Register(s, c) PROVE TypeOK'
  <2>1. c \in SUBSET Offers
    BY OwnerAssumption, CatalogsAssumption
  <2> QED
    BY <1>1, <2>1, OwnerAssumption DEF TypeOK, Register
<1>2. ASSUME NEW c \in Catalogs[Owner[s]], UpdateCatalog(s, c) PROVE TypeOK'
  <2>1. c \in SUBSET Offers
    BY OwnerAssumption, CatalogsAssumption
  <2> QED
    BY <1>2, <2>1 DEF TypeOK, UpdateCatalog
<1>3. CASE Refuse(s)
  BY <1>3 DEF TypeOK, Refuse
<1>4. CASE WelcomeSent(s)
  BY <1>4 DEF TypeOK, WelcomeSent
<1>5. CASE WelcomeFails(s) \/ HeartbeatUnanswered(s) \/ ReadFails(s)
  <2>1. EndSession(s) /\ disruptions' = disruptions
    BY <1>5 DEF WelcomeFails, HeartbeatUnanswered, ReadFails
  <2> QED
    BY <2>1, EndSessionType DEF TypeOK
<1>6. CASE BadFrame(s)
  BY <1>6, EndSessionType, DisruptType DEF BadFrame
<1>7. CASE Heartbeat(s)
  BY <1>7 DEF TypeOK, Heartbeat
<1>8. CASE Ticker(s)
  BY <1>8 DEF TypeOK, Ticker
<1>9. CASE CloseNow(s)
  BY <1>9 DEF TypeOK, CloseNow
<1> QED
  BY <1>1, <1>2, <1>3, <1>4, <1>5, <1>6, <1>7, <1>8, <1>9 DEF Session

LEMMA DeliverType ==
    ASSUME TypeOK, NEW s \in Sessions, NEW a \in Attempts, NEW f \in Frames, Deliver(s, a, f)
    PROVE  TypeOK'
<1>1. CASE DeliverViolation(s, a, f)
  BY <1>1, EndSessionType, DisruptType DEF DeliverViolation
<1>2. CASE DeliverDropped(s, a, f)
  BY <1>2 DEF TypeOK, DeliverDropped, Reserved
<1>3. CASE DeliverQueued(s, a, f)
  BY <1>3, FrameFields DEF TypeOK, DeliverQueued, Track, Reserved
<1>4. CASE DeliverOverflow(s, a, f)
  BY <1>4, FrameFields DEF TypeOK, DeliverOverflow, Track, Reserved, Fail, Abandon
<1> QED
  BY <1>1, <1>2, <1>3, <1>4 DEF Deliver

LEMMA ReaperType ==
    ASSUME TypeOK, NEW a \in Attempts, Reaper(a)
    PROVE  TypeOK'
<1>1. CASE CancelWritten(a)
  BY <1>1 DEF TypeOK, CancelWritten
<1>2. CASE CancelFails(a)
  BY <1>2 DEF TypeOK, CancelFails
<1>3. CASE ReaperQuits(a)
  BY <1>3 DEF TypeOK, ReaperQuits
<1>4. CASE ReaperTimesOut(a)
  BY <1>4 DEF TypeOK, ReaperTimesOut
<1> QED
  BY <1>1, <1>2, <1>3, <1>4 DEF Reaper

Outcome(r) ==
    Retry(r) \/ \E how \in {"error", "complete", "interrupted", "abandoned"} : Answer(r, how)

\* The three ways out of an attempt keep the handler's state typed.
LEMMA OutcomeType ==
    ASSUME TypeOK, NEW r \in Requests, Outcome(r)
    PROVE  /\ pc' \in [Requests -> {"idle", "selecting", "selected", "forwarding", "done"}]
           /\ attempt' \in [Requests -> {0, 1}]
           /\ reply' \in [Requests -> {"none", "error", "complete", "interrupted", "abandoned"}]
<1>1. CASE Retry(r)
  BY <1>1 DEF TypeOK, Retry
<1>2. ASSUME NEW how \in {"error", "complete", "interrupted", "abandoned"}, Answer(r, how)
      PROVE  /\ pc' \in [Requests -> {"idle", "selecting", "selected", "forwarding", "done"}]
             /\ attempt' \in [Requests -> {0, 1}]
             /\ reply' \in [Requests -> {"none", "error", "complete", "interrupted", "abandoned"}]
  BY <1>2 DEF TypeOK, Answer
<1> QED
  BY <1>1, <1>2 DEF Outcome

LEMMA AbandonType ==
    ASSUME TypeOK, NEW a \in Attempts, NEW held, Abandon(a, held)
    PROVE  /\ dropping' \in [Attempts -> BOOLEAN]
           /\ reaper' \in [Attempts -> {"none", "cancel", "await"}]
BY DEF TypeOK, Abandon

LEMMA DispatchType ==
    ASSUME TypeOK, NEW r \in Requests, Dispatch(r)
    PROVE  TypeOK'
<1> USE CurrentTyped
<1>1. ASSUME NEW s \in Sessions, NEW o \in Offers, Select(r, s, o) PROVE TypeOK'
  BY <1>1 DEF TypeOK, Select, Jobs
<1>2. CASE NoCapacity(r)
  BY <1>2 DEF TypeOK, NoCapacity, Answer
<1>3. CASE DeadlineExceeded(r)
  BY <1>3 DEF TypeOK, DeadlineExceeded, Answer, Abandon
<1>4. CASE SendOK(r)
  BY <1>4 DEF TypeOK, SendOK
<1>5. ASSUME NEW written \in BOOLEAN, SendFails(r, written) PROVE TypeOK'
  <2>1. Outcome(r) /\ Abandon(Current(r), Held(Current(r)))
    BY <1>5 DEF SendFails, Outcome
  <2>2. requested' \subseteq Attempts /\ peer' \in [Sessions -> {"open", "closed"}]
    BY <1>5 DEF TypeOK, SendFails
  <2> QED
    BY <1>5, <2>1, <2>2, OutcomeType, AbandonType DEF TypeOK, SendFails
<1> QED
  BY <1>1, <1>2, <1>3, <1>4, <1>5 DEF Dispatch

\* forward returns: whatever it decided, it leaves a well-typed state.
LEMMA LeaveType ==
    ASSUME TypeOK, NEW r \in Requests, Leave(r), UNCHANGED <<buyerVars, disruptions>>, Outcome(r)
    PROVE  TypeOK'
<1>1. Abandon(Current(r), Held(Current(r)))
  BY DEF Leave
<1>2. /\ starting' \in [Requests -> BOOLEAN]
      /\ events' \in [Attempts -> Seq(Frames)]
      /\ queued' \in [Attempts -> Int]
  BY CurrentTyped DEF TypeOK, Leave
<1>3. /\ failure' \in [Attempts -> {"none", "host_disconnected", "slow_consumer"}]
      /\ started' \in [Attempts -> BOOLEAN]
      /\ seq' \in [Attempts -> 0..MaxSeq]
  BY CurrentTyped, ChunkAssumption DEF TypeOK, Leave
<1> QED
  BY <1>1, <1>2, <1>3, CurrentTyped, OutcomeType, AbandonType DEF TypeOK, Leave

LEMMA FailWithOutcome ==
    ASSUME NEW r \in Requests, NEW retryable, FailWith(r, retryable)
    PROVE  Outcome(r)
BY DEF FailWith, Outcome

LEMMA ForwardType ==
    ASSUME TypeOK, NEW r \in Requests, Forward(r)
    PROVE  TypeOK'
<1>1. CASE ContextDone(r)
  BY <1>1, LeaveType, FailWithOutcome DEF ContextDone
<1>2. CASE StartTimeout(r)
  BY <1>2, LeaveType, FailWithOutcome DEF StartTimeout
<1>3. CASE TakeFailure(r)
  BY <1>3, LeaveType, FailWithOutcome DEF TakeFailure
<1>4. CASE TakeStart(r)
  BY <1>4, CurrentTyped, FrameFields DEF TypeOK, TakeStart, Consume, Ready
<1>5. CASE TakeBadStart(r)
  <2>1. Leave(r) /\ UNCHANGED <<buyerVars, disruptions>>
    BY <1>5 DEF TakeBadStart
  <2>2. Retry(r) \/ Answer(r, "error") \/ FailWith(r, TRUE)
    BY <1>5 DEF TakeBadStart
  <2> QED
    BY <2>1, <2>2, LeaveType, FailWithOutcome DEF Outcome
<1>6. CASE TakeChunk(r)
  <2> DEFINE f == Head(events[Current(r)])
  <2>1. f \in Frames /\ f.seq \in 1..MaxSeq /\ f.size \in Nat
    BY <1>6, CurrentTyped, FrameFields DEF TakeChunk, Ready
  <2>2. <<attempt[r], f.seq>> \in {0, 1} \X (1..MaxSeq)
    BY <2>1 DEF TypeOK
  <2>3. events' \in [Attempts -> Seq(Frames)] /\ queued' \in [Attempts -> Int]
    <3>1. events[Current(r)] # <<>> /\ Consume(r)
      BY <1>6 DEF TakeChunk, Ready
    <3> QED
      BY <3>1, <2>1, CurrentTyped DEF TypeOK, Consume
  <2>4. out' \in [Requests -> Seq({0, 1} \X (1..MaxSeq))]
    <3>1. out' = [out EXCEPT ![r] = Append(@, <<attempt[r], f.seq>>)]
      BY <1>6 DEF TakeChunk
    <3>2. Append(out[r], <<attempt[r], f.seq>>) \in Seq({0, 1} \X (1..MaxSeq))
      BY <2>2 DEF TypeOK
    <3> QED
      BY <3>1, <3>2 DEF TypeOK
  <2> QED
    BY <1>6, <2>3, <2>4 DEF TypeOK, TakeChunk
<1>7. CASE TakeChunkWriteFails(r)
  BY <1>7, LeaveType DEF TakeChunkWriteFails, Outcome
<1>8. CASE TakeEnd(r)
  BY <1>8, LeaveType, FailWithOutcome DEF TakeEnd, Outcome
<1>9. CASE TakeError(r)
  BY <1>9, LeaveType, FailWithOutcome DEF TakeError
<1> QED
  BY <1>1, <1>2, <1>3, <1>4, <1>5, <1>6, <1>7, <1>8, <1>9 DEF Forward

LEMMA EnvironmentType ==
    ASSUME TypeOK, Environment
    PROVE  TypeOK'
<1> USE DisruptType
<1>1. ASSUME NEW s \in Sessions, Lapse(s) PROVE TypeOK'
  BY <1>1 DEF TypeOK, Lapse
<1>2. ASSUME NEW s \in Sessions, LinkStalls(s) PROVE TypeOK'
  BY <1>2 DEF TypeOK, LinkStalls
<1>3. ASSUME NEW s \in Sessions, LinkFails(s) PROVE TypeOK'
  BY <1>3 DEF TypeOK, LinkFails
<1>4. ASSUME NEW r \in Requests, Expire(r) PROVE TypeOK'
  BY <1>4 DEF TypeOK, Expire
<1>5. ASSUME NEW r \in Requests, BuyerLeaves(r) PROVE TypeOK'
  BY <1>5 DEF TypeOK, BuyerLeaves
<1> QED
  BY <1>1, <1>2, <1>3, <1>4, <1>5 DEF Environment

LEMMA TypeNext == TypeOK /\ [Next]_vars => TypeOK'
<1> SUFFICES ASSUME TypeOK, [Next]_vars PROVE TypeOK'
  OBVIOUS
<1>1. ASSUME NEW r \in Requests, NEW m \in Models, Arrive(r, m) PROVE TypeOK'
  BY <1>1 DEF TypeOK, Arrive
<1>2. ASSUME NEW r \in Requests, ArriveInvalid(r) PROVE TypeOK'
  BY <1>2 DEF TypeOK, ArriveInvalid
<1>3. CASE Close
  BY <1>3, DisruptType DEF TypeOK, Close
<1>4. CASE UNCHANGED vars
  BY <1>4 DEF TypeOK, vars
<1> QED
  BY <1>1, <1>2, <1>3, <1>4, SessionType, DeliverType, ReaperType, DispatchType, ForwardType,
     EnvironmentType DEF Next

\* Every reachable state is well typed, for every value of the constants.
THEOREM TypeCorrect == Spec => []TypeOK
BY TypeInit, TypeNext, PTL DEF Spec

-----------------------------------------------------------------------------
(* The registry and the sessions agree.                                     *)

\* What any step may do to the registry and to the sessions' control points.
LEMMA ConnSteps ==
    ASSUME [Next]_vars
    PROVE  \/ \E s \in Sessions :
                \/ \E c \in Catalogs[Owner[s]] : Register(s, c)
                \/ Refuse(s) \/ WelcomeSent(s) \/ EndSession(s)
           \/ UNCHANGED <<hosts, conn>>
<1>1. ASSUME NEW s \in Sessions, Session(s)
      PROVE  \/ \E c \in Catalogs[Owner[s]] : Register(s, c)
             \/ Refuse(s) \/ WelcomeSent(s) \/ EndSession(s)
             \/ UNCHANGED <<hosts, conn>>
  BY <1>1 DEF Session, WelcomeFails, ReadFails, HeartbeatUnanswered, BadFrame, Heartbeat,
     UpdateCatalog, Ticker, CloseNow
<1>2. ASSUME NEW s \in Sessions, NEW a \in Attempts, NEW f \in Frames, Deliver(s, a, f)
      PROVE  EndSession(s) \/ UNCHANGED <<hosts, conn>>
  BY <1>2 DEF Deliver, DeliverViolation, DeliverDropped, DeliverQueued, DeliverOverflow
<1>3. ASSUME NEW a \in Attempts, Reaper(a) PROVE UNCHANGED <<hosts, conn>>
  BY <1>3 DEF Reaper, CancelWritten, CancelFails, ReaperQuits, ReaperTimesOut
<1>4. ASSUME NEW r \in Requests, Dispatch(r) PROVE UNCHANGED <<hosts, conn>>
  BY <1>4 DEF Dispatch, Select, NoCapacity, DeadlineExceeded, SendOK, SendFails
<1>5. ASSUME NEW r \in Requests, Forward(r) PROVE UNCHANGED <<hosts, conn>>
  BY <1>5 DEF Forward, ContextDone, StartTimeout, TakeFailure, TakeStart, TakeBadStart, TakeChunk,
     TakeChunkWriteFails, TakeEnd, TakeError, Leave
<1>6. ASSUME NEW r \in Requests, ArriveInvalid(r) \/ \E m \in Models : Arrive(r, m)
      PROVE  UNCHANGED <<hosts, conn>>
  BY <1>6 DEF Arrive, ArriveInvalid
<1>7. CASE Close
  BY <1>7 DEF Close
<1>8. CASE Environment
  BY <1>8 DEF Environment, Lapse, LinkStalls, LinkFails, Expire, BuyerLeaves
<1>9. CASE UNCHANGED vars
  BY <1>9 DEF vars
<1> QED
  BY <1>1, <1>2, <1>3, <1>4, <1>5, <1>6, <1>7, <1>8, <1>9 DEF Next

LEMMA RegistrationNext ==
    ASSUME TypeOK, Registration, [Next]_vars
    PROVE  Registration'
<1>1. ASSUME NEW s \in Sessions, NEW c \in Catalogs[Owner[s]], Register(s, c)
      PROVE  Registration'
  BY <1>1, OwnerAssumption, NoneAssumption DEF TypeOK, Registration, Register
<1>2. ASSUME NEW s \in Sessions, Refuse(s) PROVE Registration'
  BY <1>2 DEF TypeOK, Registration, Refuse
<1>3. ASSUME NEW s \in Sessions, WelcomeSent(s) PROVE Registration'
  BY <1>3 DEF TypeOK, Registration, WelcomeSent
<1>4. ASSUME NEW s \in Sessions, EndSession(s) PROVE Registration'
  BY <1>4, OwnerAssumption, NoneAssumption DEF TypeOK, Registration, EndSession
<1>5. CASE UNCHANGED <<hosts, conn>>
  BY <1>5 DEF Registration
<1> QED
  BY <1>1, <1>2, <1>3, <1>4, <1>5, ConnSteps

\* The map of hosts holds exactly the live sessions, one per identity: removing
\* a session never takes a newer one's place.
THEOREM RegistrationHolds == Spec => []Registration
<1>1. Init => Registration
  BY NoneAssumption DEF Init, Registration
<1>2. TypeOK /\ Registration /\ [Next]_vars => Registration'
  BY RegistrationNext
<1> QED
  BY <1>1, <1>2, TypeCorrect, PTL DEF Spec

-----------------------------------------------------------------------------
(* Reservations: who answers for each, and how many there are.              *)

\* An attempt is placed once, by the handler that is at it, and abandoned only
\* after that.
Placement ==
    /\ \A s \in Sessions : \A a \in jobs[s] : job[a] # None /\ SessionOf(a) = s
    /\ \A a \in Attempts : dropping[a] => job[a] # None
    /\ \A r \in Requests :
        /\ pc[r] \in {"idle", "selecting"} => job[Current(r)] = None
        /\ pc[r] \in {"selected", "forwarding"} => job[Current(r)] # None
        /\ attempt[r] = 0 => job[<<r, 1>>] = None

AtHandler(a) == \E r \in Requests : a = Current(r) /\ pc[r] \in {"selected", "forwarding"}

\* Of the three that may answer for a reservation, which: its handler until it
\* abandons it, from then on the reaper, or the end of the session.
Custody ==
    \A s \in Sessions : \A a \in jobs[s] :
        IF dropping[a] THEN reaper[a] # "none" \/ peer[s] = "closed" ELSE AtHandler(a)

\* The variables Placement and Custody depend on.
custodyVars == <<jobs, job, pc, attempt, dropping, reaper>>

\* The ways a step may change them.
Gone(r) ==
    /\ pc[r] \in {"selected", "forwarding"}
    /\ UNCHANGED <<jobs, job>>
    /\ Abandon(Current(r), Held(Current(r)))
    /\ \/ Retry(r) /\ attempt[r] = 0
       \/ \E how \in {"error", "complete", "interrupted", "abandoned"} : Answer(r, how)

Taken(s, a, f) ==
    /\ a \in jobs[s]
    /\ UNCHANGED <<job, pc, attempt>>
    /\ jobs' = [jobs EXCEPT ![s] = Reserved(s, a, f)]
    /\ UNCHANGED <<dropping, reaper>> \/ Abandon(a, ~Terminal(f))

Moved(r) ==
    /\ UNCHANGED <<jobs, job, attempt, dropping, reaper>>
    /\ \/ pc[r] = "idle" /\ pc' = [pc EXCEPT ![r] = "selecting"]
       \/ pc[r] \in {"idle", "selecting"} /\ pc' = [pc EXCEPT ![r] = "done"]
       \/ pc[r] = "selected" /\ pc' = [pc EXCEPT ![r] = "forwarding"]

PeersOnlyClose == \A s \in Sessions : peer[s] = "closed" => peer'[s] = "closed"

LEMMA CustodySteps ==
    ASSUME TypeOK, [Next]_vars
    PROVE  /\ PeersOnlyClose
           /\ \/ UNCHANGED custodyVars
              \/ \E r \in Requests :
                    \/ \E s \in Sessions, o \in Offers : Select(r, s, o)
                    \/ Gone(r) \/ Moved(r)
              \/ \E s \in Sessions, a \in Attempts, f \in Frames : Taken(s, a, f)
              \/ \E a \in Attempts : Reaper(a)
<1> USE DEF custodyVars, PeersOnlyClose
<1>1. ASSUME NEW s \in Sessions, Session(s) PROVE PeersOnlyClose /\ UNCHANGED custodyVars
  BY <1>1 DEF Session, Register, Refuse, WelcomeSent, WelcomeFails, ReadFails, HeartbeatUnanswered,
     BadFrame, EndSession, Heartbeat, UpdateCatalog, Ticker, CloseNow, TypeOK
<1>2. ASSUME NEW s \in Sessions, NEW a \in Attempts, NEW f \in Frames, Deliver(s, a, f)
      PROVE  PeersOnlyClose /\ (UNCHANGED custodyVars \/ Taken(s, a, f))
  <2>1. CASE DeliverViolation(s, a, f)
    BY <2>1 DEF DeliverViolation, EndSession, TypeOK
  <2>2. CASE DeliverDropped(s, a, f)
    BY <2>2 DEF DeliverDropped, Incoming, Taken
  <2>3. CASE DeliverQueued(s, a, f)
    BY <2>3 DEF DeliverQueued, Track, Incoming, Taken
  <2>4. CASE DeliverOverflow(s, a, f)
    BY <2>4 DEF DeliverOverflow, Track, Incoming, Taken
  <2> QED
    BY <1>2, <2>1, <2>2, <2>3, <2>4 DEF Deliver
<1>3. ASSUME NEW a \in Attempts, Reaper(a) PROVE PeersOnlyClose
  BY <1>3 DEF Reaper, CancelWritten, CancelFails, ReaperQuits, ReaperTimesOut, TypeOK
<1>4. ASSUME NEW r \in Requests, Dispatch(r)
      PROVE  /\ PeersOnlyClose
             /\ (\E s \in Sessions, o \in Offers : Select(r, s, o)) \/ Gone(r) \/ Moved(r)
  <2>1. ASSUME NEW s \in Sessions, NEW o \in Offers, Select(r, s, o) PROVE PeersOnlyClose
    BY <2>1 DEF Select
  <2>2. CASE NoCapacity(r)
    BY <2>2 DEF NoCapacity, Answer, Moved
  <2>3. CASE DeadlineExceeded(r)
    BY <2>3 DEF DeadlineExceeded, Gone
  <2>4. CASE SendOK(r)
    BY <2>4 DEF SendOK, Moved
  <2>5. ASSUME NEW written \in BOOLEAN, SendFails(r, written) PROVE PeersOnlyClose /\ Gone(r)
    <3>1. Gone(r)
      BY <2>5 DEF SendFails, Gone
    <3>2. PeersOnlyClose
      BY <2>5 DEF SendFails, TypeOK
    <3> QED
      BY <3>1, <3>2
  <2> QED
    BY <1>4, <2>1, <2>2, <2>3, <2>4, <2>5 DEF Dispatch
<1>5. ASSUME NEW r \in Requests, Forward(r)
      PROVE  PeersOnlyClose /\ (UNCHANGED custodyVars \/ Gone(r))
  <2>1. CASE TakeStart(r) \/ TakeChunk(r)
    BY <2>1 DEF TakeStart, TakeChunk, Consume
  <2>2. ASSUME pc[r] = "forwarding", Leave(r),
               \/ Retry(r) /\ attempt[r] = 0
               \/ \E how \in {"error", "complete", "interrupted", "abandoned"} : Answer(r, how)
        PROVE  PeersOnlyClose /\ Gone(r)
    BY <2>2 DEF Leave, Gone
  <2>3. ASSUME NEW retryable, FailWith(r, retryable)
        PROVE  \/ Retry(r) /\ attempt[r] = 0
               \/ \E how \in {"error", "complete", "interrupted", "abandoned"} : Answer(r, how)
    BY <2>3 DEF FailWith
  <2>4. CASE ContextDone(r)
    BY <2>4, <2>2, <2>3 DEF ContextDone
  <2>5. CASE StartTimeout(r)
    BY <2>5, <2>2, <2>3 DEF StartTimeout
  <2>6. CASE TakeFailure(r)
    BY <2>6, <2>2, <2>3 DEF TakeFailure
  <2>7. CASE TakeBadStart(r)
    <3>1. pc[r] = "forwarding" /\ Leave(r)
      BY <2>7 DEF TakeBadStart, Ready
    <3>2. (Retry(r) /\ attempt[r] = 0) \/ Answer(r, "error") \/ FailWith(r, TRUE)
      BY <2>7 DEF TakeBadStart
    <3> QED
      BY <3>1, <3>2, <2>2, <2>3
  <2>8. CASE TakeChunkWriteFails(r)
    BY <2>8, <2>2 DEF TakeChunkWriteFails, Ready
  <2>9. CASE TakeEnd(r)
    BY <2>9, <2>2, <2>3 DEF TakeEnd, Ready
  <2>10. CASE TakeError(r)
    BY <2>10, <2>2, <2>3 DEF TakeError, Ready
  <2> QED
    BY <1>5, <2>1, <2>4, <2>5, <2>6, <2>7, <2>8, <2>9, <2>10 DEF Forward
<1>6. ASSUME NEW r \in Requests, ArriveInvalid(r) \/ \E m \in Models : Arrive(r, m)
      PROVE  PeersOnlyClose /\ Moved(r)
  BY <1>6 DEF Arrive, ArriveInvalid, Moved
<1>7. CASE Close
  BY <1>7 DEF Close, TypeOK
<1>8. CASE Environment
  BY <1>8 DEF Environment, Lapse, LinkStalls, LinkFails, Expire, BuyerLeaves
<1>9. CASE UNCHANGED vars
  BY <1>9 DEF vars
<1> QED
  BY <1>1, <1>2, <1>3, <1>4, <1>5, <1>6, <1>7, <1>8, <1>9 DEF Next

LEMMA CurrentInjective ==
    ASSUME NEW r \in Requests, NEW q \in Requests, r # q
    PROVE  Current(r) # Current(q)
BY DEF Current

LEMMA PlacementNext ==
    ASSUME TypeOK, Placement, [Next]_vars
    PROVE  Placement'
<1>1. ASSUME NEW r \in Requests, NEW s \in Sessions, NEW o \in Offers, Select(r, s, o)
      PROVE  Placement'
  <2> DEFINE c == Current(r)
             p == [session |-> s, offer |-> o]
  <2>1. /\ c \in Attempts /\ pc[r] = "selecting" /\ job[c] = None /\ ~dropping[c]
        /\ UNCHANGED <<attempt, dropping>> /\ p # None
        /\ pc' = [pc EXCEPT ![r] = "selected"]
        /\ job' = [job EXCEPT ![c] = p]
        /\ jobs' = [jobs EXCEPT ![s] = @ \cup {c}]
    <3>1. c \in Attempts
      BY CurrentTyped
    <3>2. /\ pc[r] = "selecting"
          /\ pc' = [pc EXCEPT ![r] = "selected"]
          /\ job' = [job EXCEPT ![c] = p]
          /\ jobs' = [jobs EXCEPT ![s] = @ \cup {c}]
          /\ UNCHANGED <<attempt, dropping>>
      BY <1>1 DEF Select, endVars
    <3>3. job[c] = None
      BY <3>2 DEF Placement
    <3>4. ~dropping[c]
      BY <3>1, <3>3 DEF Placement
    <3>5. p \in [session: Sessions, offer: Offers]
      OBVIOUS
    <3>6. p # None
      BY <3>5, NoneAssumption
    <3> QED
      BY <3>1, <3>2, <3>3, <3>4, <3>6
  <2>2. job'[c] = p /\ \A a \in Attempts : a # c => job'[a] = job[a]
    BY <2>1 DEF TypeOK
  <2>3. ASSUME NEW t \in Sessions, NEW a \in jobs'[t]
        PROVE  job'[a] # None /\ SessionOf(a)' = t
    <3>1. CASE a = c
      <4>1. t = s
        BY <2>1, <3>1 DEF TypeOK, Placement
      <4> QED
        BY <2>1, <2>2, <3>1, <4>1 DEF SessionOf
    <3>2. CASE a # c
      <4>1. a \in jobs[t] /\ a \in Attempts
        BY <2>1, <3>2 DEF TypeOK
      <4> QED
        BY <2>2, <3>2, <4>1 DEF Placement, SessionOf
    <3> QED
      BY <3>1, <3>2
  <2>4. ASSUME NEW a \in Attempts, dropping'[a] PROVE job'[a] # None
    BY <2>1, <2>2, <2>4 DEF Placement
  <2>5. ASSUME NEW q \in Requests
        PROVE  /\ pc'[q] \in {"idle", "selecting"} => job'[Current(q)'] = None
               /\ pc'[q] \in {"selected", "forwarding"} => job'[Current(q)'] # None
               /\ attempt'[q] = 0 => job'[<<q, 1>>] = None
    <3>1. Current(q)' = Current(q) /\ Current(q) \in Attempts /\ <<q, 1>> \in Attempts
      BY <2>1, CurrentTyped DEF Current, Attempts
    <3>2. CASE q = r
      <4>1. pc'[q] = "selected"
        BY <2>1, <3>2 DEF TypeOK
      <4>2. attempt[q] = 0 => <<q, 1>> # c
        BY <3>2 DEF Current
      <4> QED
        BY <2>1, <2>2, <3>1, <3>2, <4>1, <4>2 DEF Placement
    <3>3. CASE q # r
      <4>1. pc'[q] = pc[q] /\ Current(q) # c /\ <<q, 1>> # c
        BY <2>1, <3>3, CurrentInjective DEF TypeOK, Current
      <4> QED
        BY <2>1, <2>2, <3>1, <4>1 DEF Placement
    <3> QED
      BY <3>2, <3>3
  <2> QED
    BY <2>3, <2>4, <2>5 DEF Placement
<1>2. ASSUME NEW r \in Requests, Gone(r) PROVE Placement'
  <2>1. UNCHANGED <<jobs, job>> /\ job[Current(r)] # None
    BY <1>2 DEF Gone, Placement
  <2>2. \A a \in Attempts : dropping'[a] => a = Current(r) \/ dropping[a]
    BY <1>2 DEF Gone, Abandon, TypeOK
  <2>3. ASSUME NEW q \in Requests
        PROVE  /\ pc'[q] \in {"idle", "selecting"} => job'[Current(q)'] = None
               /\ pc'[q] \in {"selected", "forwarding"} => job'[Current(q)'] # None
               /\ attempt'[q] = 0 => job'[<<q, 1>>] = None
    <3>1. CASE Retry(r) /\ attempt[r] = 0
      BY <2>1, <3>1 DEF Retry, Placement, Current, TypeOK
    <3>2. ASSUME NEW how, Answer(r, how)
          PROVE  /\ pc'[q] \in {"idle", "selecting"} => job'[Current(q)'] = None
                 /\ pc'[q] \in {"selected", "forwarding"} => job'[Current(q)'] # None
                 /\ attempt'[q] = 0 => job'[<<q, 1>>] = None
      BY <2>1, <3>2 DEF Answer, Placement, Current, TypeOK
    <3> QED
      BY <1>2, <3>1, <3>2 DEF Gone
  <2> QED
    BY <2>1, <2>2, <2>3 DEF Placement, SessionOf
<1>3. ASSUME NEW s \in Sessions, NEW a \in Attempts, NEW f \in Frames, Taken(s, a, f)
      PROVE  Placement'
  <2>1. UNCHANGED <<job, pc, attempt>> /\ job[a] # None
    BY <1>3 DEF Taken, Placement
  <2>2. \A t \in Sessions : jobs'[t] \subseteq jobs[t]
    BY <1>3 DEF Taken, Reserved, TypeOK
  <2>3. \A b \in Attempts : dropping'[b] => b = a \/ dropping[b]
    BY <1>3 DEF Taken, Abandon, TypeOK
  <2> QED
    BY <2>1, <2>2, <2>3 DEF Placement, SessionOf, Current
<1>4. ASSUME NEW a \in Attempts, Reaper(a) PROVE Placement'
  BY <1>4 DEF Reaper, CancelWritten, CancelFails, ReaperQuits, ReaperTimesOut,
     Placement, SessionOf, Current
<1>5. ASSUME NEW r \in Requests, Moved(r) PROVE Placement'
  BY <1>5 DEF Moved, Placement, SessionOf, Current, TypeOK
<1>6. CASE UNCHANGED custodyVars
  BY <1>6 DEF custodyVars, Placement, SessionOf, Current
<1> QED
  BY <1>1, <1>2, <1>3, <1>4, <1>5, <1>6, CustodySteps

LEMMA CustodyNext ==
    ASSUME TypeOK, Placement, Custody, [Next]_vars
    PROVE  Custody'
<1> USE CustodySteps
<1>1. ASSUME NEW r \in Requests, NEW s \in Sessions, NEW o \in Offers, Select(r, s, o)
      PROVE  Custody'
  <2> DEFINE c == Current(r)
  <2>1. /\ ~dropping[c] /\ c \in Attempts /\ UNCHANGED <<attempt, dropping, reaper>>
        /\ pc' = [pc EXCEPT ![r] = "selected"]
        /\ jobs' = [jobs EXCEPT ![s] = @ \cup {c}]
    BY <1>1, CurrentTyped DEF Select, Placement
  <2>2. \A a : a = c \/ AtHandler(a) => AtHandler(a)'
    BY <2>1 DEF AtHandler, Current, TypeOK
  <2> SUFFICES ASSUME NEW t \in Sessions, NEW a \in jobs'[t]
               PROVE  IF dropping'[a] THEN reaper'[a] # "none" \/ peer'[t] = "closed"
                      ELSE AtHandler(a)'
    BY DEF Custody
  <2>3. a = c \/ a \in jobs[t]
    BY <2>1 DEF TypeOK
  <2> QED
    BY <2>1, <2>2, <2>3 DEF Custody, PeersOnlyClose
<1>2. ASSUME NEW r \in Requests, Gone(r) PROVE Custody'
  <2> DEFINE c == Current(r)
  <2>1. jobs' = jobs /\ Abandon(c, Held(c)) /\ c \in Attempts
    BY <1>2, CurrentTyped DEF Gone
  <2>2. \A q \in Requests : q # r => pc'[q] = pc[q] /\ attempt'[q] = attempt[q]
    BY <1>2 DEF Gone, Retry, Answer, TypeOK
  <2>3. \A a : a # c /\ AtHandler(a) => AtHandler(a)'
    BY <2>2 DEF AtHandler, Current
  <2> SUFFICES ASSUME NEW t \in Sessions, NEW a \in jobs[t]
               PROVE  IF dropping'[a] THEN reaper'[a] # "none" \/ peer'[t] = "closed"
                      ELSE AtHandler(a)'
    BY <2>1 DEF Custody
  <2>4. a \in Attempts
    BY DEF TypeOK
  <2>5. CASE a = c
    <3>1. Held(c)
      BY <2>5 DEF Placement, Held, SessionOf
    <3>2. dropping'[a] /\ (~dropping[a] => reaper'[a] = "cancel") /\ (dropping[a] => reaper'[a] = reaper[a])
      BY <2>1, <2>5, <3>1 DEF Abandon, TypeOK
    <3> QED
      BY <3>2 DEF Custody, PeersOnlyClose
  <2>6. CASE a # c
    <3>1. dropping'[a] = dropping[a] /\ reaper'[a] = reaper[a]
      BY <2>1, <2>4, <2>6 DEF Abandon, TypeOK
    <3> QED
      BY <2>3, <2>6, <3>1 DEF Custody, PeersOnlyClose
  <2> QED
    BY <2>5, <2>6
<1>3. ASSUME NEW s \in Sessions, NEW a \in Attempts, NEW f \in Frames, Taken(s, a, f)
      PROVE  Custody'
  <2>1. \A b : AtHandler(b) => AtHandler(b)'
    BY <1>3 DEF Taken, AtHandler, Current
  <2> SUFFICES ASSUME NEW t \in Sessions, NEW b \in jobs'[t]
               PROVE  IF dropping'[b] THEN reaper'[b] # "none" \/ peer'[t] = "closed"
                      ELSE AtHandler(b)'
    BY DEF Custody
  <2>2. b \in jobs[t] /\ b \in Attempts
    BY <1>3 DEF Taken, Reserved, TypeOK
  <2>3. b = a => ~Terminal(f)
    <3>1. b = a => t = s
      BY <1>3, <2>2 DEF Taken, Placement
    <3> QED
      BY <1>3, <3>1 DEF Taken, Reserved, TypeOK
  <2>4. CASE UNCHANGED <<dropping, reaper>>
    BY <2>1, <2>2, <2>4 DEF Custody, PeersOnlyClose
  <2>5. CASE Abandon(a, ~Terminal(f)) /\ b = a
    <3>1. dropping'[b] /\ (~dropping[b] => reaper'[b] = "cancel") /\ (dropping[b] => reaper'[b] = reaper[b])
      BY <2>3, <2>5 DEF Abandon, TypeOK
    <3> QED
      BY <2>2, <3>1 DEF Custody, PeersOnlyClose
  <2>6. CASE Abandon(a, ~Terminal(f)) /\ b # a
    <3>1. dropping'[b] = dropping[b] /\ reaper'[b] = reaper[b]
      BY <2>2, <2>6 DEF Abandon, TypeOK
    <3> QED
      BY <2>1, <2>2, <3>1 DEF Custody, PeersOnlyClose
  <2> QED
    BY <1>3, <2>4, <2>5, <2>6 DEF Taken
<1>4. ASSUME NEW a \in Attempts, Reaper(a) PROVE Custody'
  <2>1. UNCHANGED <<jobs, job, pc, attempt, dropping>>
    BY <1>4 DEF Reaper, CancelWritten, CancelFails, ReaperQuits, ReaperTimesOut
  <2>2. \A b : AtHandler(b) => AtHandler(b)'
    BY <2>1 DEF AtHandler, Current
  <2>3. \A b \in Attempts : b # a => reaper'[b] = reaper[b]
    BY <1>4 DEF Reaper, CancelWritten, CancelFails, ReaperQuits, ReaperTimesOut, TypeOK
  <2>4. ASSUME NEW t \in Sessions, a \in jobs[t]
        PROVE  reaper'[a] # "none" \/ peer'[t] = "closed"
    <3>1. Held(a) /\ SessionOf(a) = t
      BY <2>4 DEF Placement, Held
    <3> QED
      BY <1>4, <3>1 DEF Reaper, CancelWritten, CancelFails, ReaperQuits, ReaperTimesOut, TypeOK
  <2> SUFFICES ASSUME NEW t \in Sessions, NEW b \in jobs[t]
               PROVE  IF dropping[b] THEN reaper'[b] # "none" \/ peer'[t] = "closed"
                      ELSE AtHandler(b)'
    BY <2>1 DEF Custody
  <2>5. b \in Attempts
    BY DEF TypeOK
  <2> QED
    BY <2>2, <2>3, <2>4, <2>5 DEF Custody, PeersOnlyClose
<1>5. ASSUME NEW r \in Requests, Moved(r) PROVE Custody'
  <2>1. UNCHANGED <<jobs, attempt, dropping, reaper>>
    BY <1>5 DEF Moved
  <2>2. \A b : AtHandler(b) => AtHandler(b)'
    BY <1>5 DEF Moved, AtHandler, Current, TypeOK
  <2> QED
    BY <2>1, <2>2 DEF Custody, PeersOnlyClose
<1>6. CASE UNCHANGED custodyVars
  BY <1>6 DEF custodyVars, Custody, AtHandler, Current, PeersOnlyClose
<1> QED
  BY <1>1, <1>2, <1>3, <1>4, <1>5, <1>6

\* Each reservation of a live session has a handler, a reaper or the end of the
\* session to give it back, so capacity cannot leak.
THEOREM NoOrphanHolds == Spec => []NoOrphan
<1>1. Init => Placement /\ Custody
  BY DEF Init, Placement, Custody, Current, Attempts
<1>2. TypeOK /\ Placement /\ Custody /\ [Next]_vars => Placement' /\ Custody'
  BY PlacementNext, CustodyNext
<1>3. TypeOK /\ Custody => NoOrphan
  <2> SUFFICES ASSUME TypeOK, Custody, NEW s \in Sessions, NEW a \in jobs[s]
               PROVE  \/ a = Current(a[1]) /\ pc[a[1]] \in {"selected", "forwarding"}
                      \/ reaper[a] # "none"
                      \/ peer[s] = "closed"
    BY DEF NoOrphan
  <2>1. \A r \in Requests : Current(r)[1] = r
    BY DEF Current
  <2> QED
    BY <2>1 DEF Custody, AtHandler
<1> QED
  BY <1>1, <1>2, <1>3, TypeCorrect, PTL DEF Spec

-----------------------------------------------------------------------------
(* No backend is overbooked.                                                *)

\* Attempts are finite in number, so those on a backend can be counted.
LEMMA ActiveFinite ==
    ASSUME TypeOK, NEW s \in Sessions, NEW b
    PROVE  /\ IsFiniteSet(ActiveOn(s, b))
           /\ Cardinality(ActiveOn(s, b)) \in Nat
<1>1. IsFiniteSet({0, 1})
  <2>1. IsFiniteSet({0} \cup {1})
    BY FS_Singleton, FS_AddElement
  <2>2. {0, 1} = {0} \cup {1}
    OBVIOUS
  <2> QED
    BY <2>1, <2>2
<1>2. IsFiniteSet(Attempts)
  BY <1>1, FiniteAssumption, FS_Product DEF Attempts
<1>3. ActiveOn(s, b) \subseteq Attempts
  BY DEF TypeOK, ActiveOn
<1> QED
  BY <1>2, <1>3, FS_Subset, FS_CardinalityType

\* A step that places nothing adds nothing to a backend.
LEMMA ActiveShrinks ==
    ASSUME TypeOK, TypeOK', CapacityRespected, UNCHANGED job,
           \A s \in Sessions : jobs'[s] \subseteq jobs[s]
    PROVE  CapacityRespected'
<1> SUFFICES ASSUME NEW s \in Sessions, NEW b \in BackendIds
             PROVE  Cardinality(ActiveOn(s, b))' <= Capacity[Owner[s]][b]
  BY DEF CapacityRespected
<1>1. ActiveOn(s, b)' \subseteq ActiveOn(s, b)
  BY DEF ActiveOn
<1>2. Cardinality(ActiveOn(s, b)') <= Cardinality(ActiveOn(s, b))
  BY <1>1, ActiveFinite, FS_Subset
<1>3. Cardinality(ActiveOn(s, b)') \in Nat
  BY <1>1, ActiveFinite, FS_Subset, FS_CardinalityType
<1>4. Capacity[Owner[s]][b] \in Nat
  BY OwnerAssumption, CapacityAssumption
<1> QED
  BY <1>2, <1>3, <1>4, ActiveFinite DEF CapacityRespected

\* A selection adds one attempt, to a backend that had room.
LEMMA SelectFits ==
    ASSUME TypeOK, Placement, CapacityRespected,
           NEW r \in Requests, NEW s \in Sessions, NEW o \in Offers, Select(r, s, o)
    PROVE  CapacityRespected'
<1> DEFINE c == Current(r)
           p == [session |-> s, offer |-> o]
<1>1. c \in Attempts
  BY CurrentTyped
<1>2. /\ job[c] = None /\ job' = [job EXCEPT ![c] = p]
      /\ jobs' = [jobs EXCEPT ![s] = @ \cup {c}]
      /\ HasRoom(s, o.backend)
  BY DEF Select, Placement, Candidate
<1>3. \A t \in Sessions : c \notin jobs[t]
  BY <1>2 DEF Placement
<1>4. \A a \in Attempts : a # c => job'[a] = job[a]
  BY <1>2 DEF TypeOK
<1>5. job'[c].offer = o
  BY <1>1, <1>2 DEF TypeOK
<1> SUFFICES ASSUME NEW t \in Sessions, NEW b \in BackendIds
             PROVE  Cardinality(ActiveOn(t, b))' <= Capacity[Owner[t]][b]
  BY DEF CapacityRespected
<1>6. CASE t = s /\ b = o.backend
  <2>1. ActiveOn(t, b)' = ActiveOn(t, b) \cup {c}
    BY <1>1, <1>2, <1>3, <1>4, <1>5, <1>6 DEF ActiveOn, TypeOK
  <2>2. c \notin ActiveOn(t, b)
    BY <1>3 DEF ActiveOn
  <2>3. Cardinality(ActiveOn(t, b)') = Cardinality(ActiveOn(t, b)) + 1
    BY <2>1, <2>2, ActiveFinite, FS_AddElement
  <2>4. Cardinality(ActiveOn(t, b)) < Capacity[Owner[t]][b]
    BY <1>2, <1>6 DEF HasRoom
  <2>5. Capacity[Owner[t]][b] \in Nat
    BY OwnerAssumption, CapacityAssumption
  <2> QED
    BY <2>3, <2>4, <2>5, ActiveFinite
<1>7. CASE ~(t = s /\ b = o.backend)
  <2>1. ActiveOn(t, b)' = ActiveOn(t, b)
    BY <1>1, <1>2, <1>3, <1>4, <1>5, <1>7 DEF ActiveOn, TypeOK
  <2> QED
    BY <2>1 DEF CapacityRespected
<1> QED
  BY <1>6, <1>7

\* A reservation is given up only on the agent's word, and a new one made only
\* where there is room: whatever is abandoned, cancelled or retried, no backend
\* of a session ever holds more attempts than its capacity.
THEOREM CapacityHolds == Spec => []CapacityRespected
<1>1. Init => CapacityRespected
  <2> SUFFICES ASSUME Init, NEW s \in Sessions, NEW b \in BackendIds
               PROVE  Cardinality(ActiveOn(s, b)) <= Capacity[Owner[s]][b]
    BY DEF CapacityRespected
  <2>1. ActiveOn(s, b) = {}
    BY DEF Init, ActiveOn
  <2>2. Capacity[Owner[s]][b] \in Nat
    BY OwnerAssumption, CapacityAssumption
  <2> QED
    BY <2>1, <2>2, FS_EmptySet
<1>2. TypeOK /\ TypeOK' /\ Placement /\ CapacityRespected /\ [Next]_vars => CapacityRespected'
  <2> SUFFICES ASSUME TypeOK, TypeOK', Placement, CapacityRespected, [Next]_vars
               PROVE  CapacityRespected'
    OBVIOUS
  <2>1. \/ \E r \in Requests, s \in Sessions, o \in Offers : Select(r, s, o)
        \/ UNCHANGED job /\ \A s \in Sessions : jobs'[s] \subseteq jobs[s]
    <3>1. ASSUME NEW r \in Requests, Gone(r) \/ Moved(r) PROVE UNCHANGED jobVars
      BY <3>1 DEF Gone, Moved
    <3>2. ASSUME NEW s \in Sessions, NEW a \in Attempts, NEW f \in Frames, Taken(s, a, f)
          PROVE  UNCHANGED job /\ \A t \in Sessions : jobs'[t] \subseteq jobs[t]
      BY <3>2 DEF Taken, Reserved, TypeOK
    <3>3. ASSUME NEW a \in Attempts, Reaper(a) PROVE UNCHANGED jobVars
      BY <3>3 DEF Reaper, CancelWritten, CancelFails, ReaperQuits, ReaperTimesOut
    <3>4. CASE UNCHANGED custodyVars
      BY <3>4 DEF custodyVars
    <3> QED
      BY <3>1, <3>2, <3>3, <3>4, CustodySteps
  <2> QED
    BY <2>1, ActiveShrinks, SelectFits
<1>3. Init => Placement
  BY DEF Init, Placement, Current, Attempts
<1> QED
  BY <1>1, <1>2, <1>3, PlacementNext, TypeCorrect, PTL DEF Spec

-----------------------------------------------------------------------------
(* The queue of events.                                                     *)

\* The sizes of the frames of a queue.
Sizes(q) == [i \in DOMAIN q |-> q[i].size]

\* The queue of an attempt is within its limits and its bytes are counted.
Counted(q, n) == Len(q) <= EventSlots /\ n <= QueueBytes /\ n = Total(Sizes(q))

\* Sizes are whole numbers, one for each frame.
LEMMA SizesTyped ==
    ASSUME NEW q \in Seq(Frames)
    PROVE  Sizes(q) \in Seq(Int) /\ Len(Sizes(q)) = Len(q)
<1>1. Len(q) \in Nat /\ DOMAIN q = 1..Len(q) /\ \A i \in 1..Len(q) : q[i] \in Frames
  BY LenProperties, ElementOfSeq
<1>2. \A i \in 1..Len(q) : q[i].size \in Int
  BY <1>1, FrameFields
<1>3. Sizes(q) \in [1..Len(q) -> Int]
  BY <1>1, <1>2 DEF Sizes
<1> QED
  BY <1>1, <1>3, FunctionIsSeq

\* A frame more is counted by its size.
LEMMA SizesAppend ==
    ASSUME NEW q \in Seq(Frames), NEW f \in Frames
    PROVE  Total(Sizes(Append(q, f))) = Total(Sizes(q)) + f.size
<1> DEFINE t == Append(q, f)
           u == Append(Sizes(q), f.size)
<1>1. f.size \in Int
  BY FrameFields
<1>2. t \in Seq(Frames) /\ Len(t) = Len(q) + 1 /\ (\A i \in 1..Len(q) : t[i] = q[i]) /\ t[Len(q) + 1] = f
  BY AppendProperties
<1>3. Sizes(q) \in Seq(Int) /\ Len(Sizes(q)) = Len(q) /\ Len(q) \in Nat /\ DOMAIN q = 1..Len(q)
  BY SizesTyped, LenProperties
<1>4. /\ u \in Seq(Int) /\ Len(u) = Len(q) + 1 /\ u[Len(q) + 1] = f.size
      /\ \A i \in 1..Len(q) : u[i] = Sizes(q)[i]
  BY <1>1, <1>3, AppendProperties
<1> HIDE DEF t, u
<1>5. Sizes(t) \in Seq(Int) /\ Len(Sizes(t)) = Len(t) /\ DOMAIN t = 1..Len(t)
  BY <1>2, SizesTyped, LenProperties
<1>6. \A i \in 1..Len(u) : u[i] = Sizes(t)[i]
  BY <1>2, <1>3, <1>4, <1>5 DEF Sizes
<1>7. Sizes(t) = u
  BY <1>2, <1>4, <1>5, <1>6, SeqEqual
<1>8. Total(u) = Total(Sizes(q)) + f.size
  BY <1>1, <1>3, TotalAppend DEF u
<1> QED
  BY <1>7, <1>8 DEF t

\* The first frame is counted by its size.
LEMMA SizesTail ==
    ASSUME NEW q \in Seq(Frames), q # <<>>
    PROVE  /\ Head(q) \in Frames
           /\ Total(Sizes(q)) = Head(q).size + Total(Sizes(Tail(q)))
<1> DEFINE t == Tail(q)
           u == Tail(Sizes(q))
<1>1. /\ t \in Seq(Frames) /\ Len(t) = Len(q) - 1 /\ Len(t) \in Nat /\ Head(q) \in Frames /\ Head(q) = q[1]
      /\ \A i \in 1..Len(t) : t[i] = q[i + 1]
  BY HeadTailProperties, LenProperties
<1>2. Sizes(q) \in Seq(Int) /\ Len(Sizes(q)) = Len(q) /\ Len(q) \in Nat \ {0} /\ DOMAIN q = 1..Len(q)
  BY SizesTyped, LenProperties, EmptySeq
<1>3. Sizes(q) # <<>> /\ Head(Sizes(q)) = Head(q).size
  <2>1. Sizes(q) # <<>>
    BY <1>2, EmptySeq
  <2>2. Head(Sizes(q)) = Sizes(q)[1]
    BY <1>2
  <2> QED
    BY <1>1, <1>2, <2>1, <2>2 DEF Sizes
<1>4. u \in Seq(Int) /\ Len(u) = Len(Sizes(q)) - 1 /\ \A i \in 1..Len(u) : u[i] = Sizes(q)[i + 1]
  BY <1>2, <1>3, HeadTailProperties
<1> HIDE DEF t, u
<1>5. Sizes(t) \in Seq(Int) /\ Len(Sizes(t)) = Len(t) /\ DOMAIN t = 1..Len(t)
  BY <1>1, SizesTyped, LenProperties
<1>6. \A i \in 1..Len(u) : u[i] = Sizes(t)[i]
  <2> TAKE i \in 1..Len(u)
  <2>1. i \in 1..Len(t) /\ i \in DOMAIN t /\ i + 1 \in DOMAIN q
    BY <1>1, <1>2, <1>4, <1>5
  <2>2. Sizes(t)[i] = t[i].size /\ Sizes(q)[i + 1] = q[i + 1].size
    BY <2>1 DEF Sizes
  <2> QED
    BY <1>1, <1>4, <2>1, <2>2
<1>7. Sizes(t) = u
  BY <1>1, <1>2, <1>4, <1>5, <1>6, SeqEqual
<1>8. Total(Sizes(q)) = Head(Sizes(q)) + Total(u)
  BY <1>2, <1>3, TotalTail DEF u
<1> QED
  BY <1>1, <1>3, <1>7, <1>8 DEF t

\* Every step appends a frame that fits, takes the first one, or gives up all.
LEMMA QueueSteps ==
    ASSUME [Next]_vars
    PROVE  \/ \E a \in Attempts, f \in Frames :
                /\ Fits(a, f)
                /\ events' = [events EXCEPT ![a] = Append(@, f)]
                /\ queued' = [queued EXCEPT ![a] = @ + f.size]
           \/ \E r \in Requests : events[Current(r)] # <<>> /\ Consume(r)
           \/ \E r \in Requests :
                /\ events' = [events EXCEPT ![Current(r)] = <<>>]
                /\ queued' = [queued EXCEPT ![Current(r)] = 0]
           \/ UNCHANGED <<events, queued>>
<1>1. ASSUME NEW s \in Sessions, Session(s) PROVE UNCHANGED <<events, queued>>
  BY <1>1 DEF Session, Register, Refuse, WelcomeSent, WelcomeFails, ReadFails, HeartbeatUnanswered,
     BadFrame, Heartbeat, UpdateCatalog, Ticker, CloseNow, EndSession
<1>2. ASSUME NEW s \in Sessions, NEW a \in Attempts, NEW f \in Frames, Deliver(s, a, f)
      PROVE  \/ /\ Fits(a, f)
                /\ events' = [events EXCEPT ![a] = Append(@, f)]
                /\ queued' = [queued EXCEPT ![a] = @ + f.size]
             \/ UNCHANGED <<events, queued>>
  BY <1>2 DEF Deliver, DeliverViolation, DeliverDropped, DeliverQueued, DeliverOverflow, EndSession
<1>3. ASSUME NEW a \in Attempts, Reaper(a) PROVE UNCHANGED <<events, queued>>
  BY <1>3 DEF Reaper, CancelWritten, CancelFails, ReaperQuits, ReaperTimesOut
<1>4. ASSUME NEW r \in Requests, Dispatch(r)
      PROVE  \/ /\ events' = [events EXCEPT ![Current(r)] = <<>>]
                /\ queued' = [queued EXCEPT ![Current(r)] = 0]
             \/ UNCHANGED <<events, queued>>
  BY <1>4 DEF Dispatch, Select, NoCapacity, DeadlineExceeded, SendOK, SendFails, Leave
<1>5. ASSUME NEW r \in Requests, Forward(r)
      PROVE  \/ events[Current(r)] # <<>> /\ Consume(r)
             \/ /\ events' = [events EXCEPT ![Current(r)] = <<>>]
                /\ queued' = [queued EXCEPT ![Current(r)] = 0]
             \/ UNCHANGED <<events, queued>>
  BY <1>5 DEF Forward, ContextDone, StartTimeout, TakeFailure, TakeStart, TakeBadStart, TakeChunk,
     TakeChunkWriteFails, TakeEnd, TakeError, Ready, Leave
<1>6. ASSUME NEW r \in Requests, ArriveInvalid(r) \/ \E m \in Models : Arrive(r, m)
      PROVE  UNCHANGED <<events, queued>>
  BY <1>6 DEF Arrive, ArriveInvalid
<1>7. CASE Close
  BY <1>7 DEF Close
<1>8. CASE Environment
  BY <1>8 DEF Environment, Lapse, LinkStalls, LinkFails, Expire, BuyerLeaves
<1>9. CASE UNCHANGED vars
  BY <1>9 DEF vars
<1> QED
  BY <1>1, <1>2, <1>3, <1>4, <1>5, <1>6, <1>7, <1>8, <1>9 DEF Next

\* A queue never outgrows its two limits, whatever they are, and the counter
\* that enforces the second is the bytes of the frames in it.
THEOREM QueueBoundedHolds == Spec => []QueueBounded
<1> USE DEF Counted
<1>1. QueueBounded <=> \A a \in Attempts : Counted(events[a], queued[a])
  BY DEF QueueBounded, Sizes
<1>2. Counted(<<>>, 0)
  <2>1. Total(Sizes(<<>>)) = 0
    <3>1. Sizes(<<>>) \in Seq(Int) /\ Len(Sizes(<<>>)) = 0
      BY EmptySeq, SizesTyped
    <3>2. Sizes(<<>>) = <<>>
      BY <3>1, EmptySeq
    <3> QED
      BY <3>2, TotalNone
  <2> QED
    BY <2>1, QueueAssumption
<1>3. Init => QueueBounded
  BY <1>1, <1>2 DEF Init
<1>4. ASSUME TypeOK, QueueBounded, [Next]_vars
      PROVE  \A a \in Attempts : Counted(events'[a], queued'[a])
  <2> USE DEF TypeOK
  <2>1. ASSUME NEW b \in Attempts, NEW f \in Frames, Fits(b, f),
               events' = [events EXCEPT ![b] = Append(@, f)],
               queued' = [queued EXCEPT ![b] = @ + f.size],
               NEW a \in Attempts
        PROVE  Counted(events'[a], queued'[a])
    <3>1. CASE a # b
      BY <1>1, <1>4, <2>1, <3>1
    <3>2. CASE a = b
      <4>1. events'[b] = Append(events[b], f) /\ queued'[b] = queued[b] + f.size
        BY <1>4, <2>1
      <4>2. /\ events[b] \in Seq(Frames) /\ Counted(events[b], queued[b])
            /\ Len(events[b]) \in Nat /\ Len(Append(events[b], f)) = Len(events[b]) + 1
        BY <1>1, <1>4, LenProperties, AppendProperties
      <4>3. Total(Sizes(Append(events[b], f))) = Total(Sizes(events[b])) + f.size
        BY <4>2, SizesAppend
      <4>4. Len(events'[b]) <= EventSlots /\ queued'[b] <= QueueBytes
        BY <2>1, <4>1, <4>2, QueueAssumption DEF Fits
      <4> QED
        BY <3>2, <4>1, <4>2, <4>3, <4>4
    <3> QED
      BY <3>1, <3>2
  <2>2. ASSUME NEW r \in Requests, events[Current(r)] # <<>>, Consume(r), NEW a \in Attempts
        PROVE  Counted(events'[a], queued'[a])
    <3> DEFINE b == Current(r)
    <3>1. b \in Attempts
      BY <1>4, CurrentTyped
    <3>2. CASE a # b
      BY <1>1, <1>4, <2>2, <3>1, <3>2 DEF Consume
    <3>3. CASE a = b
      <4>1. events'[b] = Tail(events[b]) /\ queued'[b] = queued[b] - Head(events[b]).size
        BY <1>4, <2>2, <3>1 DEF Consume
      <4>2. /\ events[b] \in Seq(Frames) /\ Counted(events[b], queued[b]) /\ queued[b] \in Int
            /\ Len(events[b]) \in Nat /\ Len(Tail(events[b])) = Len(events[b]) - 1
            /\ Tail(events[b]) \in Seq(Frames)
        BY <1>1, <1>4, <2>2, <3>1, LenProperties, HeadTailProperties
      <4>3. /\ Head(events[b]) \in Frames
            /\ Total(Sizes(events[b])) = Head(events[b]).size + Total(Sizes(Tail(events[b])))
        BY <2>2, <4>2, SizesTail
      <4>4. Head(events[b]).size \in Nat /\ Total(Sizes(Tail(events[b]))) \in Int
        BY <4>2, <4>3, FrameFields, SizesTyped, TotalInt
      <4> HIDE DEF b
      <4> QED
        BY <3>3, <4>1, <4>2, <4>3, <4>4, QueueAssumption
    <3> QED
      BY <3>2, <3>3
  <2>3. ASSUME NEW r \in Requests,
               events' = [events EXCEPT ![Current(r)] = <<>>],
               queued' = [queued EXCEPT ![Current(r)] = 0],
               NEW a \in Attempts
        PROVE  Counted(events'[a], queued'[a])
    <3>1. Current(r) \in Attempts
      BY <1>4, CurrentTyped
    <3>2. CASE a = Current(r)
      <4>1. events'[a] = <<>> /\ queued'[a] = 0
        BY <1>4, <2>3, <3>1, <3>2
      <4> QED
        BY <4>1, <1>2
    <3>3. CASE a # Current(r)
      BY <1>1, <1>4, <2>3, <3>1, <3>3
    <3> QED
      BY <3>2, <3>3
  <2>4. CASE UNCHANGED <<events, queued>>
    BY <1>1, <1>4, <2>4
  <2> QED
    BY <1>4, <2>1, <2>2, <2>3, <2>4, QueueSteps
<1>5. TypeOK /\ QueueBounded /\ [Next]_vars => QueueBounded'
  BY <1>4 DEF QueueBounded, Sizes
<1> QED
  BY <1>3, <1>5, TypeCorrect, PTL DEF Spec
=============================================================================
