---------------------------- MODULE AgentProofs ----------------------------
(***************************************************************************)
(* Theorems about Agent, for every set of backends and attempt ids, every   *)
(* concurrency, and both kinds of gateway.                                  *)
(***************************************************************************)
EXTENDS Agent, FiniteSetTheorems, SequenceTheorems, TLAPS

USE DEF runVars, linkVars, slotVars, attemptVars

\* Ids the session has not seen, and sessions that are over, have no goroutine.
Unseen == \A i \in Attempts \ seen : step[i] = "none" /\ wire[i] = <<>>
NoneLeft == run \in {"down", "dialing", "stopped"} => \A i \in Attempts : step[i] \notin Running

-----------------------------------------------------------------------------
(* What a step does to the slots.                                           *)

\* The attempts that execute, and the slots they hold, stay the same.
SlotsKept ==
    /\ UNCHANGED active
    /\ \A i \in Attempts :
        /\ step'[i] \in Executing <=> step[i] \in Executing
        /\ step[i] \in Executing => slot'[i] = slot[i]

SlotTaken(i, b) ==
    /\ step[i] \notin Executing /\ active[b] < Capacity[b]
    /\ active' = [active EXCEPT ![b] = @ + 1]
    /\ step' = [step EXCEPT ![i] = "chat"]
    /\ slot' = [slot EXCEPT ![i] = b]

SlotFreed(i) ==
    /\ step[i] \in Executing
    /\ active' = [active EXCEPT ![slot[i]] = @ - 1]
    /\ step' = [step EXCEPT ![i] = "released"]
    /\ UNCHANGED slot

LEMMA SlotSteps ==
    ASSUME TypeOK, Unseen, NoneLeft, [Next]_vars
    PROVE  \/ SlotsKept
           \/ \E i \in Attempts, b \in BackendIds : SlotTaken(i, b)
           \/ \E i \in Attempts : SlotFreed(i)
<1> USE DEF Executing
<1>1. ASSUME NEW offered \in SUBSET BackendIds, Dial(offered) \/ Discover(offered) PROVE SlotsKept
  BY <1>1 DEF SlotsKept, Dial, Discover
<1>2. CASE DialFails \/ Unauthorized \/ Ended \/ Stop
  BY <1>2 DEF SlotsKept, DialFails, Unauthorized, Ended, Stop
<1>3. CASE Welcome
  <2>1. \A i \in Attempts : step[i] \notin Executing
    BY <1>3 DEF Welcome, NoneLeft, Running
  <2> QED
    BY <1>3, <2>1 DEF SlotsKept, Welcome
<1>4. CASE HeartbeatAck \/ Watchdog \/ PeerDone \/ ReadFails \/ CloseNow \/ BadFrame
  BY <1>4 DEF SlotsKept, HeartbeatAck, Watchdog, PeerDone, CancelSession, ReadFails, CloseNow, BadFrame
<1>5. ASSUME NEW i \in Attempts, NEW b \in BackendIds, Assign(i, b) PROVE SlotTaken(i, b)
  BY <1>5 DEF SlotTaken, Assign, Request, HasSlot, Unseen
<1>6. ASSUME NEW i \in Attempts, NEW b \in BackendIds, NEW code, Reject(i, b, code) PROVE SlotsKept
  <2>1. step[i] = "none" /\ UNCHANGED <<active, step>>
    BY <1>6 DEF Reject, Request, Unseen
  <2>2. \A j \in Attempts : j # i => slot'[j] = slot[j]
    BY <1>6 DEF Reject, TypeOK
  <2> QED
    BY <2>1, <2>2 DEF SlotsKept
<1>7. ASSUME NEW i \in Attempts, Cancel(i) \/ Expire(i) PROVE SlotsKept
  BY <1>7 DEF SlotsKept, Cancel, Expire
<1>8. ASSUME NEW i \in Attempts, Release(i) PROVE SlotFreed(i)
  BY <1>8 DEF SlotFreed, Release
<1>9. ASSUME NEW i \in Attempts,
             \/ ChatFails(i) \/ ChatAnswers(i) \/ SendStart(i) \/ SendStartFails(i)
             \/ SendChunk(i) \/ SendChunkFails(i) \/ StreamEnds(i)
      PROVE  SlotsKept
  <2>1. UNCHANGED <<active, slot>> /\ step[i] \in Executing
    BY <1>9 DEF ChatFails, ChatAnswers, SendStart, SendStartFails, SendChunk, SendChunkFails,
                StreamEnds, SendBroken
  <2>2. \E e \in Executing : step' = [step EXCEPT ![i] = e]
    <3>1. CASE \/ ChatFails(i) \/ SendStartFails(i) \/ SendChunkFails(i) \/ StreamEnds(i)
      <4>1. step' = [step EXCEPT ![i] = "finish"]
        BY <3>1 DEF ChatFails, SendStartFails, SendChunkFails, StreamEnds, SendBroken, Return
      <4> QED
        BY <4>1
    <3>2. CASE ChatAnswers(i)
      BY <3>2 DEF ChatAnswers
    <3>3. CASE SendStart(i)
      BY <3>3 DEF SendStart, Return
    <3>4. CASE SendChunk(i)
      <4>1. step' = [step EXCEPT ![i] = "streaming"]
        BY <3>4 DEF SendChunk, TypeOK
      <4> QED
        BY <4>1
    <3> QED
      BY <1>9, <3>1, <3>2, <3>3, <3>4
  <2> QED
    BY <2>1, <2>2 DEF SlotsKept, TypeOK
<1>10. ASSUME NEW i \in Attempts, SendTerminal(i) \/ SendTerminalFails(i) PROVE SlotsKept
  <2>1. /\ UNCHANGED <<active, slot>> /\ step[i] = "released"
        /\ step' = [step EXCEPT ![i] = "done"]
    BY <1>10 DEF SendTerminal, SendTerminalFails, Over
  <2> QED
    BY <2>1 DEF SlotsKept, TypeOK
<1>11. CASE Interrupt \/ LinkFails \/ Lapse
  BY <1>11 DEF SlotsKept, Interrupt, LinkFails, Lapse
<1>12. CASE UNCHANGED vars
  BY <1>12 DEF SlotsKept, vars
<1>13. CASE Connect
  BY <1>1, <1>2, <1>3, <1>13 DEF Connect
<1>14. CASE Session
  BY <1>1, <1>4, <1>5, <1>6, <1>7, <1>14 DEF Session
<1>15. ASSUME NEW i \in Attempts, Execute(i)
       PROVE  SlotsKept \/ \E j \in Attempts : SlotFreed(j)
  BY <1>8, <1>9, <1>10, <1>15 DEF Execute
<1>16. CASE Environment
  BY <1>7, <1>11, <1>16 DEF Environment
<1> QED
  BY <1>12, <1>13, <1>14, <1>15, <1>16 DEF Next

-----------------------------------------------------------------------------
(* The slots are counted.                                                   *)

LEMMA HoldingFinite ==
    ASSUME NEW b
    PROVE  IsFiniteSet(Holding(b)) /\ Cardinality(Holding(b)) \in Nat
<1>1. Holding(b) \subseteq Attempts
  BY DEF Holding
<1> QED
  BY <1>1, FiniteAssumption, FS_Subset, FS_CardinalityType

LEMMA SlotsCountedNext ==
    ASSUME TypeOK, Unseen, NoneLeft, SlotsCounted, [Next]_vars
    PROVE  SlotsCounted'
<1> SUFFICES ASSUME NEW b \in BackendIds
             PROVE  active'[b] = Cardinality(Holding(b)') /\ active'[b] <= Capacity[b]
  BY DEF SlotsCounted
<1>c. active[b] = Cardinality(Holding(b)) /\ active[b] <= Capacity[b]
  BY DEF SlotsCounted
<1>t. active[b] \in Nat /\ Capacity[b] \in Nat
  <2>1. active[b] \in Nat
    BY DEF TypeOK
  <2>2. Capacity[b] \in 1..64
    BY CapacityAssumption
  <2> QED
    BY <2>1, <2>2
<1>1. CASE SlotsKept
  <2>1. Holding(b)' = Holding(b)
    BY <1>1 DEF SlotsKept, Holding
  <2> QED
    BY <1>1, <1>c, <2>1 DEF SlotsKept
<1>2. ASSUME NEW i \in Attempts, NEW c \in BackendIds, SlotTaken(i, c)
      PROVE  active'[b] = Cardinality(Holding(b)') /\ active'[b] <= Capacity[b]
  <2>1. CASE c = b
    <3>1. Holding(b)' = Holding(b) \cup {i} /\ i \notin Holding(b)
      BY <1>2, <2>1 DEF SlotTaken, Holding, Executing, TypeOK
    <3>2. Cardinality(Holding(b)') = Cardinality(Holding(b)) + 1
      BY <3>1, HoldingFinite, FS_AddElement
    <3>3. active'[b] = active[b] + 1 /\ active[b] < Capacity[b]
      BY <1>2, <2>1 DEF SlotTaken, TypeOK
    <3> QED
      BY <1>c, <1>t, <3>2, <3>3
  <2>2. CASE c # b
    <3>1. Holding(b)' = Holding(b)
      BY <1>2, <2>2 DEF SlotTaken, Holding, Executing, TypeOK
    <3>2. active'[b] = active[b]
      BY <1>2, <2>2 DEF SlotTaken, TypeOK
    <3> QED
      BY <1>c, <3>1, <3>2
  <2> QED
    BY <2>1, <2>2
<1>3. ASSUME NEW i \in Attempts, SlotFreed(i)
      PROVE  active'[b] = Cardinality(Holding(b)') /\ active'[b] <= Capacity[b]
  <2>1. CASE slot[i] = b
    <3>1. Holding(b)' = Holding(b) \ {i} /\ i \in Holding(b)
      BY <1>3, <2>1 DEF SlotFreed, Holding, Executing, TypeOK
    <3>2. Cardinality(Holding(b)') = Cardinality(Holding(b)) - 1
      BY <3>1, HoldingFinite, FS_RemoveElement
    <3>3. active'[b] = active[b] - 1
      BY <1>3, <2>1 DEF SlotFreed, TypeOK
    <3> QED
      BY <1>c, <1>t, <3>2, <3>3
  <2>2. CASE slot[i] # b
    <3>1. Holding(b)' = Holding(b)
      BY <1>3, <2>2 DEF SlotFreed, Holding, Executing, TypeOK
    <3>2. active'[b] = active[b]
      BY <1>3, <2>2 DEF SlotFreed, TypeOK
    <3> QED
      BY <1>c, <3>1, <3>2
  <2> QED
    BY <2>1, <2>2
<1> QED
  BY <1>1, <1>2, <1>3, SlotSteps
-----------------------------------------------------------------------------
(* Types, and what sessions that are over leave behind.                     *)

LEMMA FrameTyped ==
    ASSUME NEW type \in {"response_start", "response_end", "error", "busy", "refused"}
    PROVE  Frame(type) \in Frames
BY DEF Frame, Frames

LEMMA ChunkTyped ==
    ASSUME TypeOK, NEW i \in Attempts, seq[i] < MaxSeq
    PROVE  Chunk(i) \in Frames /\ seq[i] + 1 \in 0..MaxSeq
<1>1. seq[i] \in 0..MaxSeq /\ MaxSeq \in Nat
  BY BoundsAssumption DEF TypeOK
<1>2. seq[i] + 1 \in 1..MaxSeq
  BY <1>1
<1> QED
  BY <1>2 DEF Chunk, Frames

LEMMA WriteTyped ==
    ASSUME TypeOK, NEW i \in Attempts, NEW f \in Frames, Write(i, f) \/ MaybeWritten(i, f)
    PROVE  wire' \in [Attempts -> Seq(Frames)]
<1>1. CASE Write(i, f)
  <2>1. Append(wire[i], f) \in Seq(Frames)
    BY DEF TypeOK
  <2> QED
    BY <1>1, <2>1 DEF Write, TypeOK
<1>2. CASE UNCHANGED wire
  BY <1>2 DEF TypeOK
<1> QED
  BY <1>1, <1>2 DEF MaybeWritten

LEMMA TypeInit == Init => TypeOK
<1> SUFFICES ASSUME Init PROVE TypeOK
  OBVIOUS
<1>1. /\ sessions \in 0..MaxSessions /\ seq \in [Attempts -> 0..MaxSeq]
      /\ active \in [BackendIds -> Nat] /\ wire \in [Attempts -> Seq(Frames)]
  BY BoundsAssumption DEF Init
<1>2. slot \in [Attempts -> BackendIds]
  BY DEF Init
<1> QED
  BY <1>1, <1>2 DEF Init, TypeOK, Running

LEMMA ConnectType ==
    ASSUME TypeOK, Connect
    PROVE  TypeOK'
<1>1. ASSUME NEW offered \in SUBSET BackendIds, Dial(offered) PROVE TypeOK'
  BY <1>1, BoundsAssumption DEF TypeOK, Dial
<1>2. CASE DialFails \/ Unauthorized \/ Ended \/ Stop
  BY <1>2 DEF TypeOK, DialFails, Unauthorized, Ended, Stop
<1>3. CASE Welcome
  <2>1. seq' \in [Attempts -> 0..MaxSeq] /\ wire' \in [Attempts -> Seq(Frames)]
    BY <1>3, BoundsAssumption DEF Welcome
  <2>2. /\ step' \in [Attempts -> {"none", "done"} \cup Running]
        /\ jobCtx' \in [Attempts -> {"live", "cancelled", "expired"}]
        /\ terminal' \in [Attempts -> {"response_end", "error"}]
    BY <1>3 DEF Welcome
  <2> QED
    BY <1>3, <2>1, <2>2 DEF TypeOK, Welcome
<1> QED
  BY <1>1, <1>2, <1>3 DEF Connect

LEMMA SessionType ==
    ASSUME TypeOK, Session
    PROVE  TypeOK'
<1>1. CASE HeartbeatAck \/ Watchdog \/ PeerDone \/ CloseNow
  BY <1>1 DEF TypeOK, HeartbeatAck, Watchdog, PeerDone, CancelSession, CloseNow
<1>2. CASE ReadFails \/ BadFrame
  BY <1>2 DEF TypeOK, ReadFails, BadFrame, Close
<1>3. ASSUME NEW offered \in SUBSET BackendIds, Discover(offered) PROVE TypeOK'
  BY <1>3 DEF TypeOK, Discover
<1>4. ASSUME NEW i \in Attempts, NEW b \in BackendIds, Assign(i, b) PROVE TypeOK'
  BY <1>4 DEF TypeOK, Assign, Request, Running, Executing
<1>5. ASSUME NEW i \in Attempts, NEW b \in BackendIds, NEW code \in {"busy", "refused"},
             Reject(i, b, code)
      PROVE  TypeOK'
  <2>1. wire' \in [Attempts -> Seq(Frames)]
    BY <1>5, FrameTyped, WriteTyped DEF Reject
  <2>2. run' \in {run, "ending"} /\ peer' \in {peer, "cancelled"}
    BY <1>5 DEF Reject, Close
  <2> QED
    BY <1>5, <2>1, <2>2 DEF TypeOK, Reject
<1>6. ASSUME NEW i \in Attempts, Cancel(i) PROVE TypeOK'
  BY <1>6 DEF TypeOK, Cancel
<1> QED
  BY <1>1, <1>2, <1>3, <1>4, <1>5, <1>6 DEF Session

LEMMA SendBrokenType ==
    ASSUME TypeOK, NEW i \in Attempts, NEW f \in Frames, SendBroken(i, f),
           seq' \in [Attempts -> 0..MaxSeq]
    PROVE  TypeOK'
<1>1. wire' \in [Attempts -> Seq(Frames)]
  BY WriteTyped DEF SendBroken
<1>2. peer' \in {peer, "closed"}
  BY DEF SendBroken
<1> QED
  BY <1>1, <1>2 DEF TypeOK, SendBroken, Return, Running, Executing

LEMMA ExecuteType ==
    ASSUME TypeOK, SlotsCounted, NEW i \in Attempts, Execute(i)
    PROVE  TypeOK'
<1> USE DEF Running, Executing
<1>1. CASE ChatFails(i) \/ ChatAnswers(i) \/ StreamEnds(i)
  <2>1. CASE ChatFails(i)
    BY <2>1 DEF TypeOK, ChatFails, Return
  <2>2. CASE ChatAnswers(i)
    BY <2>2 DEF TypeOK, ChatAnswers
  <2>3. CASE StreamEnds(i)
    BY <2>3 DEF TypeOK, StreamEnds, Return
  <2> QED
    BY <1>1, <2>1, <2>2, <2>3
<1>2. CASE SendStart(i)
  <2>1. wire' \in [Attempts -> Seq(Frames)]
    BY <1>2, FrameTyped, WriteTyped DEF SendStart
  <2> QED
    BY <1>2, <2>1 DEF TypeOK, SendStart, Return
<1>3. CASE SendStartFails(i)
  BY <1>3, FrameTyped, SendBrokenType DEF SendStartFails, TypeOK
<1>4. CASE SendChunk(i)
  <2>1. wire' \in [Attempts -> Seq(Frames)]
    BY <1>4, ChunkTyped, WriteTyped DEF SendChunk
  <2>2. seq' \in [Attempts -> 0..MaxSeq]
    BY <1>4, ChunkTyped DEF SendChunk, TypeOK
  <2> QED
    BY <1>4, <2>1, <2>2 DEF TypeOK, SendChunk
<1>5. CASE SendChunkFails(i)
  <2>1. seq' \in [Attempts -> 0..MaxSeq]
    BY <1>5, ChunkTyped DEF SendChunkFails, TypeOK
  <2> QED
    BY <1>5, <2>1, ChunkTyped, SendBrokenType DEF SendChunkFails
<1>6. CASE Release(i)
  <2>1. active[slot[i]] >= 1
    <3>1. i \in Holding(slot[i]) /\ slot[i] \in BackendIds
      BY <1>6 DEF Release, Holding, TypeOK
    <3>2. Cardinality(Holding(slot[i])) # 0
      BY <3>1, HoldingFinite, FS_EmptySet
    <3> QED
      BY <3>1, <3>2, HoldingFinite DEF SlotsCounted
  <2>2. active' \in [BackendIds -> Nat]
    BY <1>6, <2>1 DEF Release, TypeOK
  <2>3. terminal' \in [Attempts -> {"response_end", "error"}]
    BY <1>6 DEF Release, TypeOK
  <2> QED
    BY <1>6, <2>2, <2>3 DEF TypeOK, Release
<1>7. CASE SendTerminal(i) \/ SendTerminalFails(i)
  <2>1. Frame(terminal[i]) \in Frames
    BY FrameTyped DEF TypeOK
  <2>2. wire' \in [Attempts -> Seq(Frames)]
    BY <1>7, <2>1, WriteTyped DEF SendTerminal, SendTerminalFails
  <2>3. seq' \in [Attempts -> 0..MaxSeq]
    <3>1. 0 \in 0..MaxSeq
      BY BoundsAssumption
    <3>2. seq' = [seq EXCEPT ![i] = 0]
      BY <1>7 DEF SendTerminal, SendTerminalFails, Over
    <3> QED
      BY <3>1, <3>2 DEF TypeOK
  <2>4. peer' \in {peer, "closed"}
    BY <1>7 DEF SendTerminal, SendTerminalFails
  <2> QED
    BY <1>7, <2>2, <2>3, <2>4 DEF TypeOK, SendTerminal, SendTerminalFails, Over
<1> QED
  BY <1>1, <1>2, <1>3, <1>4, <1>5, <1>6, <1>7 DEF Execute

LEMMA EnvironmentType ==
    ASSUME TypeOK, Environment
    PROVE  TypeOK'
<1>1. CASE Interrupt \/ LinkFails \/ Lapse
  BY <1>1 DEF TypeOK, Interrupt, LinkFails, Lapse
<1>2. ASSUME NEW i \in Attempts, Expire(i) PROVE TypeOK'
  BY <1>2 DEF TypeOK, Expire
<1> QED
  BY <1>1, <1>2 DEF Environment

LEMMA TypeNext == TypeOK /\ SlotsCounted /\ [Next]_vars => TypeOK'
<1>1. CASE UNCHANGED vars
  BY <1>1 DEF TypeOK, vars
<1> QED
  BY <1>1, ConnectType, SessionType, ExecuteType, EnvironmentType DEF Next

\* The step of a goroutine is its own.
LEMMA ExecuteOwn ==
    ASSUME TypeOK, NEW i \in Attempts, Execute(i)
    PROVE  /\ step[i] \in Running /\ UNCHANGED <<run, seen, slot>>
           /\ \A j \in Attempts \ {i} : step'[j] = step[j] /\ wire'[j] = wire[j]
<1> USE DEF Running, Executing, TypeOK, Write, MaybeWritten, Return, Over
<1>1. CASE ChatFails(i) \/ ChatAnswers(i) \/ StreamEnds(i) \/ Release(i)
  <2>1. CASE ChatFails(i) \/ StreamEnds(i)
    BY <2>1 DEF ChatFails, StreamEnds
  <2>2. CASE ChatAnswers(i)
    BY <2>2 DEF ChatAnswers
  <2>3. CASE Release(i)
    BY <2>3 DEF Release
  <2> QED
    BY <1>1, <2>1, <2>2, <2>3
<1>2. CASE SendStart(i)
  BY <1>2 DEF SendStart
<1>3. CASE SendChunk(i)
  BY <1>3 DEF SendChunk
<1>4. CASE SendStartFails(i)
  BY <1>4 DEF SendStartFails, SendBroken
<1>5. CASE SendChunkFails(i)
  BY <1>5 DEF SendChunkFails, SendBroken
<1>6. CASE SendTerminal(i)
  BY <1>6 DEF SendTerminal
<1>7. CASE SendTerminalFails(i)
  BY <1>7 DEF SendTerminalFails
<1> QED
  BY <1>1, <1>2, <1>3, <1>4, <1>5, <1>6, <1>7 DEF Execute

LEMMA LeftoversNext ==
    ASSUME TypeOK, Unseen, NoneLeft, [Next]_vars
    PROVE  Unseen' /\ NoneLeft'
<1>1. CASE Connect
  <2>1. CASE Welcome
    BY <2>1 DEF Welcome, Unseen, NoneLeft
  <2>2. CASE DialFails \/ Unauthorized \/ Stop
    BY <2>2 DEF DialFails, Unauthorized, Stop, Unseen, NoneLeft
  <2>3. CASE Ended
    BY <2>3 DEF Ended, Unseen, NoneLeft
  <2>4. ASSUME NEW offered \in SUBSET BackendIds, Dial(offered) PROVE Unseen' /\ NoneLeft'
    BY <2>4 DEF Dial, Unseen, NoneLeft
  <2> QED
    BY <1>1, <2>1, <2>2, <2>3, <2>4 DEF Connect
<1>2. CASE Session
  <2>1. CASE HeartbeatAck \/ Watchdog \/ PeerDone \/ CloseNow
    BY <2>1 DEF HeartbeatAck, Watchdog, PeerDone, CancelSession, CloseNow, Unseen, NoneLeft
  <2>2. CASE ReadFails \/ BadFrame
    BY <2>2 DEF ReadFails, BadFrame, Close, Unseen, NoneLeft
  <2>3. ASSUME NEW offered \in SUBSET BackendIds, Discover(offered) PROVE Unseen' /\ NoneLeft'
    BY <2>3 DEF Discover, Unseen, NoneLeft
  <2>4. ASSUME NEW i \in Attempts, NEW b \in BackendIds, Assign(i, b) PROVE Unseen' /\ NoneLeft'
    BY <2>4 DEF Assign, Request, Readable, Unseen, NoneLeft, TypeOK
  <2>5. ASSUME NEW i \in Attempts, NEW b \in BackendIds, NEW code, Reject(i, b, code)
        PROVE  Unseen' /\ NoneLeft'
    <3>1. run' \in {"up", "ending"} /\ step' = step /\ seen' = seen \cup {i}
      BY <2>5 DEF Reject, Request, Readable, Close
    <3>2. \A j \in Attempts \ {i} : wire'[j] = wire[j]
      BY <2>5 DEF Reject, Write, MaybeWritten, TypeOK
    <3> QED
      BY <3>1, <3>2 DEF Unseen, NoneLeft
  <2>6. ASSUME NEW i \in Attempts, Cancel(i) PROVE Unseen' /\ NoneLeft'
    BY <2>6 DEF Cancel, Unseen, NoneLeft
  <2> QED
    BY <1>2, <2>1, <2>2, <2>3, <2>4, <2>5, <2>6 DEF Session
<1>3. ASSUME NEW i \in Attempts, Execute(i) PROVE Unseen' /\ NoneLeft'
  <2>1. step[i] # "none"
    BY <1>3, ExecuteOwn DEF Running, Executing
  <2> QED
    BY <1>3, <2>1, ExecuteOwn DEF Unseen, NoneLeft
<1>4. CASE Environment
  <2>1. CASE Interrupt \/ LinkFails \/ Lapse
    BY <2>1 DEF Interrupt, LinkFails, Lapse, Unseen, NoneLeft
  <2>2. ASSUME NEW i \in Attempts, Expire(i) PROVE Unseen' /\ NoneLeft'
    BY <2>2 DEF Expire, Unseen, NoneLeft
  <2> QED
    BY <1>4, <2>1, <2>2 DEF Environment
<1>5. CASE UNCHANGED vars
  BY <1>5 DEF vars, Unseen, NoneLeft
<1> QED
  BY <1>1, <1>2, <1>3, <1>4, <1>5 DEF Next

-----------------------------------------------------------------------------

Inductive == TypeOK /\ Unseen /\ NoneLeft /\ SlotsCounted

LEMMA InductiveInvariant == Spec => []Inductive
<1>1. Init => Inductive
  <2> SUFFICES ASSUME Init PROVE Inductive
    OBVIOUS
  <2>1. Unseen /\ NoneLeft
    BY DEF Init, Unseen, NoneLeft, Running, Executing
  <2>2. SlotsCounted
    <3> SUFFICES ASSUME NEW b \in BackendIds
                 PROVE  active[b] = Cardinality(Holding(b)) /\ active[b] <= Capacity[b]
      BY DEF SlotsCounted
    <3>1. Holding(b) = {} /\ active[b] = 0
      BY DEF Init, Holding, Executing
    <3>2. Capacity[b] \in 1..64
      BY CapacityAssumption
    <3> QED
      BY <3>1, <3>2, FS_EmptySet
  <2> QED
    BY <2>1, <2>2, TypeInit DEF Inductive
<1>2. Inductive /\ [Next]_vars => Inductive'
  BY TypeNext, LeftoversNext, SlotsCountedNext DEF Inductive
<1> QED
  BY <1>1, <1>2, PTL DEF Spec

\* Every reachable state is well typed: in particular no slot is ever given back
\* more often than it was taken (agent.go, s.active).
THEOREM TypeCorrect == Spec => []TypeOK
<1>1. Inductive => TypeOK
  BY DEF Inductive
<1> QED
  BY <1>1, InductiveInvariant, PTL

\* The slots taken are those of the attempts that execute, and within the backend's
\* concurrency, whatever fails and whoever cancels.
THEOREM SlotsHold == Spec => []SlotsCounted
<1>1. Inductive => SlotsCounted
  BY DEF Inductive
<1> QED
  BY <1>1, InductiveInvariant, PTL

\* A session begins with no goroutine of an earlier one, and with every slot free.
THEOREM CleanStartHolds == Spec => []CleanStart
<1>1. Inductive => CleanStart
  <2> SUFFICES ASSUME Inductive, run \in {"down", "dialing", "stopped"}
               PROVE  /\ \A i \in Attempts : step[i] \notin Running
                      /\ \A b \in BackendIds : active[b] = 0
    BY DEF CleanStart
  <2>1. \A i \in Attempts : step[i] \notin Running
    BY DEF Inductive, NoneLeft
  <2>2. \A b \in BackendIds : Holding(b) = {}
    BY <2>1 DEF Holding, Running
  <2> QED
    BY <2>1, <2>2, FS_EmptySet DEF Inductive, SlotsCounted
<1> QED
  BY <1>1, InductiveInvariant, PTL

-----------------------------------------------------------------------------
(* What a step does to the wire.                                            *)

\* Nothing is written, and no attempt begins.
WireKept ==
    /\ UNCHANGED wire
    /\ \A i \in Attempts : step'[i] \in Executing => step[i] \in Executing

WireReset == \A i \in Attempts : wire'[i] = <<>> /\ step'[i] \notin Executing

\* An attempt begins: nothing of it is on the wire.
Begun(i) ==
    /\ UNCHANGED wire /\ wire[i] = <<>>
    /\ \A j \in Attempts \ {i} : step'[j] = step[j]

\* One frame is written. A terminal one leaves nobody executing; "busy" says that
\* the backend is full.
Written(i, f) ==
    /\ wire' = [wire EXCEPT ![i] = Append(@, f)]
    /\ step'[i] \in Executing => step[i] \in Executing
    /\ Terminal(f) => step'[i] \notin Executing
    /\ f.type = "busy" => \E b \in BackendIds : MayAssign(i, b) /\ active[b] >= Capacity[b]
    /\ \A j \in Attempts \ {i} : step'[j] = step[j]

AnyWritten == \E i \in Attempts, f \in Frames : Written(i, f)

LEMMA ExecuteWire ==
    ASSUME TypeOK, NEW i \in Attempts, Execute(i)
    PROVE  WireKept \/ AnyWritten
<1> USE DEF Executing
<1>a. \A j \in Attempts \ {i} : step'[j] = step[j]
  BY ExecuteOwn
<1>b. /\ Frame("response_start") \in Frames
      /\ ~Terminal(Frame("response_start")) /\ Frame("response_start").type # "busy"
  BY FrameTyped DEF Frame, Terminal
<1>c. seq[i] < MaxSeq => Chunk(i) \in Frames /\ ~Terminal(Chunk(i)) /\ Chunk(i).type # "busy"
  BY ChunkTyped DEF Chunk, Terminal
<1>d. Frame(terminal[i]) \in Frames /\ Frame(terminal[i]).type # "busy"
  BY FrameTyped DEF TypeOK, Frame
<1>1. CASE ChatFails(i) \/ ChatAnswers(i) \/ StreamEnds(i) \/ Release(i)
  <2>1. UNCHANGED wire /\ step[i] \in Executing
    BY <1>1 DEF ChatFails, ChatAnswers, StreamEnds, Release
  <2> QED
    BY <1>a, <2>1 DEF WireKept
<1>2. CASE SendStart(i)
  <2>1. Write(i, Frame("response_start")) /\ step[i] \in Executing
    BY <1>2 DEF SendStart
  <2> QED
    BY <1>a, <1>b, <2>1 DEF Write, Written, AnyWritten
<1>3. CASE SendChunk(i)
  <2>1. Write(i, Chunk(i)) /\ step[i] \in Executing /\ seq[i] < MaxSeq
    BY <1>3 DEF SendChunk
  <2> QED
    BY <1>a, <1>c, <2>1 DEF Write, Written, AnyWritten
<1>4. CASE SendStartFails(i)
  <2>1. /\ Write(i, Frame("response_start")) \/ UNCHANGED wire
        /\ step[i] \in Executing
    BY <1>4 DEF SendStartFails, SendBroken, MaybeWritten
  <2> QED
    BY <1>a, <1>b, <2>1 DEF Write, Written, AnyWritten, WireKept
<1>5. CASE SendChunkFails(i)
  <2>1. /\ Write(i, Chunk(i)) \/ UNCHANGED wire
        /\ step[i] \in Executing /\ seq[i] < MaxSeq
    BY <1>5 DEF SendChunkFails, SendBroken, MaybeWritten
  <2> QED
    BY <1>a, <1>c, <2>1 DEF Write, Written, AnyWritten, WireKept
<1>6. CASE SendTerminal(i) \/ SendTerminalFails(i)
  <2>1. /\ Write(i, Frame(terminal[i])) \/ UNCHANGED wire
        /\ step' = [step EXCEPT ![i] = "done"]
    BY <1>6 DEF SendTerminal, SendTerminalFails, MaybeWritten, Over
  <2>2. step'[i] = "done"
    BY <2>1 DEF TypeOK
  <2> QED
    BY <1>a, <1>d, <2>1, <2>2 DEF Write, Written, AnyWritten, WireKept
<1> QED
  BY <1>1, <1>2, <1>3, <1>4, <1>5, <1>6 DEF Execute

LEMMA WireSteps ==
    ASSUME TypeOK, Unseen, [Next]_vars
    PROVE  WireKept \/ WireReset \/ AnyWritten \/ \E i \in Attempts : Begun(i)
<1>1. CASE Connect
  <2>1. CASE Welcome
    BY <2>1 DEF Welcome, WireReset, Executing
  <2>2. CASE DialFails \/ Unauthorized \/ Stop \/ Ended
    BY <2>2 DEF DialFails, Unauthorized, Stop, Ended, WireKept
  <2>3. ASSUME NEW offered \in SUBSET BackendIds, Dial(offered) PROVE WireKept
    BY <2>3 DEF Dial, WireKept
  <2> QED
    BY <1>1, <2>1, <2>2, <2>3 DEF Connect
<1>2. CASE Session
  <2>1. CASE HeartbeatAck \/ Watchdog \/ PeerDone \/ CloseNow
    BY <2>1 DEF HeartbeatAck, Watchdog, PeerDone, CancelSession, CloseNow, WireKept
  <2>2. CASE ReadFails \/ BadFrame
    BY <2>2 DEF ReadFails, BadFrame, WireKept
  <2>3. ASSUME NEW offered \in SUBSET BackendIds, Discover(offered) PROVE WireKept
    BY <2>3 DEF Discover, WireKept
  <2>4. ASSUME NEW i \in Attempts, NEW b \in BackendIds, Assign(i, b) PROVE Begun(i)
    BY <2>4 DEF Assign, Request, Unseen, Begun, TypeOK
  <2>5. ASSUME NEW i \in Attempts, NEW b \in BackendIds, NEW code \in {"busy", "refused"},
               Reject(i, b, code)
        PROVE  WireKept \/ AnyWritten
    <3>1. /\ Write(i, Frame(code)) \/ UNCHANGED wire
          /\ UNCHANGED step /\ step[i] = "none"
          /\ MayAssign(i, b) /\ (code = "busy" => ~HasSlot(b))
      BY <2>5 DEF Reject, Request, MaybeWritten, Unseen
    <3>2. Frame(code) \in Frames /\ Frame(code).type = code
      BY FrameTyped DEF Frame
    <3>3. ~HasSlot(b) => active[b] >= Capacity[b]
      <4>1. Capacity[b] \in 1..64 /\ active[b] \in Nat
        BY CapacityAssumption DEF TypeOK
      <4> QED
        BY <4>1 DEF HasSlot
    <3>4. CASE UNCHANGED wire
      BY <3>1, <3>4 DEF WireKept
    <3>5. CASE Write(i, Frame(code))
      <4>1. step'[i] \notin Executing
        BY <3>1 DEF Executing
      <4>2. Written(i, Frame(code))
        BY <3>1, <3>2, <3>3, <3>5, <4>1 DEF Write, Written
      <4> QED
        BY <3>2, <4>2 DEF AnyWritten
    <3> QED
      BY <3>1, <3>4, <3>5
  <2>6. ASSUME NEW i \in Attempts, Cancel(i) PROVE WireKept
    BY <2>6 DEF Cancel, WireKept
  <2> QED
    BY <1>2, <2>1, <2>2, <2>3, <2>4, <2>5, <2>6 DEF Session
<1>3. CASE Environment
  <2>1. CASE Interrupt \/ LinkFails \/ Lapse
    BY <2>1 DEF Interrupt, LinkFails, Lapse, WireKept
  <2>2. ASSUME NEW i \in Attempts, Expire(i) PROVE WireKept
    BY <2>2 DEF Expire, WireKept
  <2> QED
    BY <1>3, <2>1, <2>2 DEF Environment
<1>4. CASE UNCHANGED vars
  BY <1>4 DEF vars, WireKept
<1> QED
  BY <1>1, <1>2, <1>3, <1>4, ExecuteWire DEF Next

\* Where the frames of the wire stand after one more.
LEMMA Appended ==
    ASSUME TypeOK, NEW i \in Attempts, NEW f, wire' = [wire EXCEPT ![i] = Append(@, f)]
    PROVE  /\ \A j \in Attempts \ {i} : wire'[j] = wire[j]
           /\ DOMAIN wire'[i] = DOMAIN wire[i] \cup {Len(wire[i]) + 1}
           /\ \A k \in DOMAIN wire[i] : wire'[i][k] = wire[i][k]
           /\ wire'[i][Len(wire[i]) + 1] = f
BY DEF TypeOK

LEMMA TerminalFreesSlotNext ==
    ASSUME TypeOK, Unseen, TerminalFreesSlot, [Next]_vars
    PROVE  TerminalFreesSlot'
<1>1. CASE WireKept
  BY <1>1 DEF WireKept, TerminalFreesSlot
<1>2. CASE WireReset
  BY <1>2 DEF WireReset, TerminalFreesSlot
<1>3. ASSUME NEW i \in Attempts, Begun(i) PROVE TerminalFreesSlot'
  BY <1>3 DEF Begun, TerminalFreesSlot
<1>4. ASSUME NEW i \in Attempts, NEW f \in Frames, Written(i, f) PROVE TerminalFreesSlot'
  <2> SUFFICES ASSUME NEW j \in Attempts, NEW k \in DOMAIN wire'[j], Terminal(wire'[j][k])
               PROVE  step'[j] \notin Executing
    BY DEF TerminalFreesSlot
  <2>1. wire' = [wire EXCEPT ![i] = Append(@, f)]
    BY <1>4 DEF Written
  <2>2. CASE j # i
    BY <1>4, <2>1, <2>2, Appended DEF Written, TerminalFreesSlot
  <2>3. CASE j = i /\ k \in DOMAIN wire[i]
    BY <1>4, <2>1, <2>3, Appended DEF Written, TerminalFreesSlot
  <2>4. CASE j = i /\ k = Len(wire[i]) + 1
    BY <1>4, <2>1, <2>4, Appended DEF Written
  <2> QED
    BY <2>1, <2>2, <2>3, <2>4, Appended
<1> QED
  BY <1>1, <1>2, <1>3, <1>4, WireSteps DEF AnyWritten

\* The gateway hears of an attempt's end only when its slot is free again.
THEOREM TerminalFreesSlotHolds == Spec => []TerminalFreesSlot
<1>1. Init => TerminalFreesSlot
  BY DEF Init, TerminalFreesSlot
<1>2. Inductive /\ TerminalFreesSlot /\ [Next]_vars => TerminalFreesSlot'
  BY TerminalFreesSlotNext DEF Inductive
<1> QED
  BY <1>1, <1>2, InductiveInvariant, PTL DEF Spec

\* Whoever executes is outstanding for the gateway, so a backend that is full for
\* the agent is full for the gateway.
LEMMA FullForBoth ==
    ASSUME Inductive, TerminalFreesSlot, Conforming,
           NEW i \in Attempts, NEW b \in BackendIds, MayAssign(i, b)
    PROVE  active[b] < Capacity[b]
<1>1. Holding(b) \subseteq Outstanding(b)
  BY DEF Inductive, Unseen, TerminalFreesSlot, Holding, Outstanding, Executing
<1>2. IsFiniteSet(Outstanding(b))
  <2>1. Outstanding(b) \subseteq Attempts
    BY DEF Outstanding, Inductive, TypeOK
  <2> QED
    BY <2>1, FiniteAssumption, FS_Subset
<1>3. /\ Cardinality(Holding(b)) <= Cardinality(Outstanding(b))
      /\ Cardinality(Outstanding(b)) \in Nat /\ Cardinality(Holding(b)) \in Nat
  BY <1>1, <1>2, HoldingFinite, FS_Subset, FS_CardinalityType
<1>4. Cardinality(Outstanding(b)) < Capacity[b] /\ active[b] = Cardinality(Holding(b))
  BY DEF MayAssign, Inductive, SlotsCounted
<1>5. Capacity[b] \in 1..64
  BY CapacityAssumption
<1> QED
  BY <1>3, <1>4, <1>5

\* A gateway that counts what it has outstanding is never told busy: the agent's
\* own count is never ahead of the gateway's.
THEOREM NeverBusyHolds == Spec => []NeverBusy
<1>1. Init => NeverBusy
  BY DEF Init, NeverBusy
<1>2. Inductive /\ TerminalFreesSlot /\ NeverBusy /\ [Next]_vars => NeverBusy'
  <2> SUFFICES ASSUME Inductive, TerminalFreesSlot, NeverBusy, [Next]_vars, Conforming
               PROVE  NeverBusy'
    BY DEF NeverBusy
  <2>1. CASE WireKept \/ WireReset \/ \E i \in Attempts : Begun(i)
    BY <2>1 DEF WireKept, WireReset, Begun, NeverBusy
  <2>2. ASSUME NEW i \in Attempts, NEW f \in Frames, Written(i, f) PROVE NeverBusy'
    <3>1. f.type # "busy"
      <4> SUFFICES ASSUME NEW b \in BackendIds, MayAssign(i, b), active[b] >= Capacity[b]
                   PROVE  FALSE
        BY <2>2 DEF Written
      <4>1. active[b] < Capacity[b] /\ active[b] \in Nat /\ Capacity[b] \in 1..64
        BY FullForBoth, CapacityAssumption DEF Inductive, TypeOK
      <4> QED
        BY <4>1
    <3>2. wire' = [wire EXCEPT ![i] = Append(@, f)]
      BY <2>2 DEF Written
    <3> QED
      BY <3>1, <3>2, Appended DEF NeverBusy, Inductive
  <2> QED
    BY <2>1, <2>2, WireSteps DEF AnyWritten, Inductive
<1> QED
  BY <1>1, <1>2, InductiveInvariant, TerminalFreesSlotHolds, PTL DEF Spec
-----------------------------------------------------------------------------
(* The frames of an attempt are in order.                                   *)

Started(w) == \E k \in DOMAIN w : w[k].type = "response_start"
Unended(w) == \A k \in DOMAIN w : ~Terminal(w[k])
Ordered(w) == \A k \in DOMAIN w : Acceptable(SubSeq(w, 1, k - 1), w[k])

\* What the goroutine of an attempt has written when it stands where it does.
Staged(i) ==
    /\ step[i] \in {"none", "done"} => seq[i] = 0
    /\ step[i] \in {"chat", "starting", "rejecting"} => wire[i] = <<>> /\ seq[i] = 0
    /\ step[i] = "streaming" => Started(wire[i]) /\ Len(wire[i]) = seq[i] + 1
    /\ step[i] \in {"streaming", "finish", "released"} => Unended(wire[i])
    /\ step[i] \in {"finish", "released"} /\ terminal[i] = "response_end" => Started(wire[i])

Staging == \A i \in Attempts : Staged(i) /\ Ordered(wire[i])

\* The frames before one stay before it, whatever is written after them.
LEMMA PrefixKept ==
    ASSUME NEW w \in Seq(Frames), NEW f \in Frames, NEW k \in 1..(Len(w) + 1)
    PROVE  SubSeq(Append(w, f), 1, k - 1) = SubSeq(w, 1, k - 1)
<1>1. Append(w, f) \in Seq(Frames) /\ Len(w) \in Nat /\ k - 1 \in Int
  OBVIOUS
<1>2. \A m \in 1..(k - 1) : Append(w, f)[m] = w[m] /\ w[m] \in Frames
  BY <1>1
<1>3. /\ SubSeq(Append(w, f), 1, k - 1) \in Seq(Frames)
      /\ Len(SubSeq(Append(w, f), 1, k - 1)) = k - 1
      /\ \A m \in 1..(k - 1) : SubSeq(Append(w, f), 1, k - 1)[m] = Append(w, f)[m]
  <2>1. \A m \in 1..(k - 1) : Append(w, f)[m] \in Frames
    BY <1>2
  <2> QED
    BY <1>1, <2>1, SubSeqProperties
<1>4. /\ SubSeq(w, 1, k - 1) \in Seq(Frames)
      /\ Len(SubSeq(w, 1, k - 1)) = k - 1
      /\ \A m \in 1..(k - 1) : SubSeq(w, 1, k - 1)[m] = w[m]
  BY <1>1, <1>2, SubSeqProperties
<1> QED
  BY <1>2, <1>3, <1>4, SeqEqual

\* A frame that may follow keeps the frames in order.
LEMMA OrderedAppend ==
    ASSUME NEW w \in Seq(Frames), NEW f \in Frames, Ordered(w), Acceptable(w, f)
    PROVE  Ordered(Append(w, f))
<1> SUFFICES ASSUME NEW k \in DOMAIN Append(w, f)
             PROVE  Acceptable(SubSeq(Append(w, f), 1, k - 1), Append(w, f)[k])
  BY DEF Ordered
<1>1. k \in 1..(Len(w) + 1) /\ Len(w) \in Nat
  OBVIOUS
<1>2. SubSeq(Append(w, f), 1, k - 1) = SubSeq(w, 1, k - 1)
  BY <1>1, PrefixKept
<1>3. CASE k \in DOMAIN w
  <2>1. Append(w, f)[k] = w[k]
    BY <1>3
  <2> QED
    BY <1>2, <1>3, <2>1 DEF Ordered
<1>4. CASE k = Len(w) + 1
  <2>1. Append(w, f)[k] = f /\ SubSeq(w, 1, k - 1) = w
    BY <1>1, <1>4, SubSeqFull
  <2> QED
    BY <1>2, <2>1
<1>5. k \in DOMAIN w \/ k = Len(w) + 1
  BY <1>1
<1> QED
  BY <1>3, <1>4, <1>5

\* What may follow, said of a sequence that has not ended.
LEMMA AcceptableWhen ==
    ASSUME NEW w, NEW f, Unended(w),
           f.type = "response_start" => w = <<>>,
           f.type = "response_chunk" => Started(w) /\ f.seq = Len(w),
           f.type = "response_end" => Started(w)
    PROVE  Acceptable(w, f)
BY DEF Acceptable, Unended, Started

\* The empty wire has neither begun nor ended.
LEMMA EmptyWire == Ordered(<<>>) /\ Unended(<<>>)
BY DEF Ordered, Unended

\* Writing one frame that is not terminal.
LEMMA AppendedFrame ==
    ASSUME NEW w \in Seq(Frames), NEW f \in Frames, Unended(w)
    PROVE  /\ ~Terminal(f) => Unended(Append(w, f))
           /\ Started(w) \/ f.type = "response_start" => Started(Append(w, f))
           /\ Len(Append(w, f)) = Len(w) + 1
<1>1. /\ Len(Append(w, f)) = Len(w) + 1 /\ Len(w) \in Nat
      /\ DOMAIN Append(w, f) = 1..(Len(w) + 1) /\ DOMAIN w = 1..Len(w)
      /\ Append(w, f)[Len(w) + 1] = f
      /\ \A k \in 1..Len(w) : Append(w, f)[k] = w[k]
  OBVIOUS
<1>2. \A k \in 1..(Len(w) + 1) : k \in 1..Len(w) \/ k = Len(w) + 1
  BY <1>1
<1>3. Len(w) + 1 \in 1..(Len(w) + 1) /\ \A k \in 1..Len(w) : k \in 1..(Len(w) + 1)
  BY <1>1
<1>4. ~Terminal(f) => Unended(Append(w, f))
  BY <1>1, <1>2 DEF Unended
<1>5. Started(w) => Started(Append(w, f))
  BY <1>1, <1>3 DEF Started
<1>6. f.type = "response_start" => Started(Append(w, f))
  BY <1>1, <1>3 DEF Started
<1> QED
  BY <1>1, <1>4, <1>5, <1>6

\* Every attempt but i is as it was.
Others(i) ==
    \A j \in Attempts \ {i} :
        step'[j] = step[j] /\ wire'[j] = wire[j] /\ seq'[j] = seq[j] /\ terminal'[j] = terminal[j]

\* The step of a goroutine touches no other's variables.
LEMMA ExecuteOthers ==
    ASSUME TypeOK, NEW i \in Attempts, Execute(i)
    PROVE  Others(i)
<1>1. \A j \in Attempts \ {i} : seq'[j] = seq[j] /\ terminal'[j] = terminal[j]
  <2> USE DEF TypeOK, Return, Over
  <2>1. CASE ChatFails(i) \/ ChatAnswers(i) \/ StreamEnds(i)
    BY <2>1 DEF ChatFails, ChatAnswers, StreamEnds
  <2>2. CASE SendStart(i) \/ SendChunk(i)
    BY <2>2 DEF SendStart, SendChunk
  <2>3. CASE SendStartFails(i) \/ SendChunkFails(i)
    BY <2>3 DEF SendStartFails, SendChunkFails, SendBroken
  <2>4. CASE Release(i)
    BY <2>4 DEF Release
  <2>5. CASE SendTerminal(i) \/ SendTerminalFails(i)
    BY <2>5 DEF SendTerminal, SendTerminalFails
  <2> QED
    BY <2>1, <2>2, <2>3, <2>4, <2>5 DEF Execute
<1> QED
  BY <1>1, ExecuteOwn DEF Others

\* The step of a goroutine keeps its own frames in order.
LEMMA ExecuteStaged ==
    ASSUME TypeOK, NEW i \in Attempts, Execute(i), Staged(i), Ordered(wire[i])
    PROVE  Staged(i)' /\ Ordered(wire'[i])
<1> DEFINE w == wire[i]
<1>1. w \in Seq(Frames) /\ seq[i] \in 0..MaxSeq /\ step[i] \in {"none", "done"} \cup Running
  BY DEF TypeOK
<1>2. ASSUME UNCHANGED wire PROVE wire'[i] = w /\ Ordered(wire'[i])
  BY <1>2
<1>3. ASSUME NEW f, Write(i, f) PROVE wire'[i] = Append(w, f)
  BY <1>3 DEF Write, TypeOK
<1> HIDE DEF w
<1>4. CASE ChatFails(i) \/ ChatAnswers(i) \/ StreamEnds(i)
  <2>1. /\ UNCHANGED <<wire, seq>> /\ step[i] \in {"chat", "streaming"}
        /\ \/ step'[i] = "finish" /\ (terminal'[i] = "response_end" => step[i] = "streaming")
           \/ step'[i] \in {"starting", "rejecting"} /\ step[i] = "chat"
    BY <1>4 DEF ChatFails, ChatAnswers, StreamEnds, Return, TypeOK
  <2> QED
    BY <1>2, <2>1, EmptyWire DEF Staged
<1>5. CASE Release(i)
  <2>1. /\ UNCHANGED <<wire, seq>> /\ step[i] = "finish" /\ step'[i] = "released"
        /\ terminal'[i] = "response_end" => terminal[i] = "response_end"
    BY <1>5 DEF Release, TypeOK
  <2> QED
    BY <1>2, <2>1 DEF Staged
<1>6. CASE SendStart(i) \/ SendStartFails(i)
  <2>1. /\ step[i] \in {"starting", "rejecting"} /\ UNCHANGED seq
        /\ step'[i] \in {"streaming", "finish"}
        /\ UNCHANGED wire => step'[i] = "finish" /\ terminal'[i] = "error"
        /\ UNCHANGED wire \/ Write(i, Frame("response_start"))
    <3>1. CASE SendStartFails(i)
      BY <3>1 DEF SendStartFails, SendBroken, MaybeWritten, Return, TypeOK
    <3>2. CASE SendStart(i)
      <4>1. Write(i, Frame("response_start")) /\ UNCHANGED seq
        BY <3>2 DEF SendStart
      <4>2. step[i] \in {"starting", "rejecting"} /\ step'[i] \in {"streaming", "finish"}
        BY <3>2 DEF SendStart, Return, TypeOK
      <4>3. wire' # wire
        <5>1. Len(wire'[i]) = Len(w) + 1
          BY <1>1, <1>3, <4>1, FrameTyped
        <5> QED
          BY <1>1, <5>1 DEF w
      <4> QED
        BY <4>1, <4>2, <4>3
    <3> QED
      BY <1>6, <3>1, <3>2
  <2>2. w = <<>> /\ seq[i] = 0
    BY <2>1 DEF Staged, w
  <2>3. CASE UNCHANGED wire
    BY <1>2, <2>1, <2>2, <2>3, EmptyWire DEF Staged
  <2>4. CASE Write(i, Frame("response_start"))
    <3> DEFINE f == Frame("response_start")
    <3>1. f \in Frames /\ f.type = "response_start" /\ ~Terminal(f)
      BY FrameTyped DEF Frame, Terminal
    <3>2. wire'[i] = Append(w, f)
      BY <1>3, <2>4
    <3> HIDE DEF f
    <3>3. Ordered(w) /\ Unended(w) /\ Acceptable(w, f)
      BY <2>2, <3>1, EmptyWire, AcceptableWhen
    <3>4. Ordered(Append(w, f)) /\ Unended(Append(w, f)) /\ Started(Append(w, f))
      BY <1>1, <3>1, <3>3, OrderedAppend, AppendedFrame
    <3>5. Len(Append(w, f)) = 1
      BY <1>1, <2>2, <3>1
    <3> QED
      BY <2>1, <2>2, <3>2, <3>4, <3>5 DEF Staged
  <2> QED
    BY <2>1, <2>3, <2>4
<1>7. CASE SendChunk(i) \/ SendChunkFails(i)
  <2>1. /\ step[i] = "streaming" /\ seq[i] < MaxSeq /\ seq'[i] = seq[i] + 1
        /\ \/ Write(i, Chunk(i)) /\ step'[i] = "streaming"
           \/ /\ UNCHANGED wire \/ Write(i, Chunk(i))
              /\ step'[i] = "finish" /\ terminal'[i] = "error"
    <3>1. CASE SendChunk(i)
      BY <3>1 DEF SendChunk, TypeOK
    <3>2. CASE SendChunkFails(i)
      BY <3>2 DEF SendChunkFails, SendBroken, MaybeWritten, Return, TypeOK
    <3> QED
      BY <1>7, <3>1, <3>2
  <2>2. Started(w) /\ Len(w) = seq[i] + 1 /\ Unended(w) /\ Ordered(w)
    BY <2>1 DEF Staged, w
  <2>3. CASE UNCHANGED wire /\ step'[i] = "finish" /\ terminal'[i] = "error"
    BY <1>2, <2>1, <2>2, <2>3 DEF Staged
  <2>4. CASE Write(i, Chunk(i))
    <3> DEFINE f == Chunk(i)
    <3>1. f \in Frames /\ f.type = "response_chunk" /\ f.seq = seq[i] + 1 /\ ~Terminal(f)
      BY <2>1, ChunkTyped DEF Chunk, Terminal
    <3>2. wire'[i] = Append(w, f)
      BY <1>3, <2>4
    <3> HIDE DEF f
    <3>3. Acceptable(w, f)
      BY <2>2, <3>1, AcceptableWhen
    <3>4. Ordered(Append(w, f)) /\ Unended(Append(w, f)) /\ Started(Append(w, f))
      BY <1>1, <2>2, <3>1, <3>3, OrderedAppend, AppendedFrame
    <3>5. Len(Append(w, f)) = seq[i] + 1 + 1
      BY <1>1, <2>2, <3>1
    <3> QED
      BY <2>1, <3>2, <3>4, <3>5 DEF Staged
  <2> QED
    BY <2>1, <2>3, <2>4
<1>8. CASE SendTerminal(i) \/ SendTerminalFails(i)
  <2>1. /\ step[i] = "released" /\ step'[i] = "done" /\ seq'[i] = 0
        /\ UNCHANGED wire \/ Write(i, Frame(terminal[i]))
    BY <1>8 DEF SendTerminal, SendTerminalFails, MaybeWritten, Over, TypeOK
  <2>2. Staged(i)'
    BY <2>1 DEF Staged
  <2>3. Unended(w) /\ Ordered(w) /\ (terminal[i] = "response_end" => Started(w))
    BY <2>1 DEF Staged, w
  <2>4. CASE Write(i, Frame(terminal[i]))
    <3> DEFINE f == Frame(terminal[i])
    <3>1. f \in Frames /\ f.type = terminal[i] /\ terminal[i] \in {"response_end", "error"}
      BY FrameTyped DEF Frame, TypeOK
    <3>2. wire'[i] = Append(w, f)
      BY <1>3, <2>4
    <3> HIDE DEF f
    <3>3. Acceptable(w, f)
      BY <2>3, <3>1, AcceptableWhen
    <3>4. Ordered(Append(w, f))
      BY <1>1, <2>3, <3>1, <3>3, OrderedAppend
    <3> QED
      BY <2>2, <3>2, <3>4
  <2> QED
    BY <1>2, <2>1, <2>2, <2>4
<1> QED
  BY <1>4, <1>5, <1>6, <1>7, <1>8 DEF Execute

\* Every step keeps every attempt's frames in order.
LEMMA StagingNext ==
    ASSUME TypeOK, Unseen, Staging, [Next]_vars
    PROVE  Staging'
<1>1. ASSUME NEW j \in Attempts, step'[j] = step[j], wire'[j] = wire[j], seq'[j] = seq[j],
             terminal'[j] = terminal[j]
      PROVE  Staged(j)' /\ Ordered(wire'[j])
  BY <1>1 DEF Staging, Staged
<1>2. ASSUME UNCHANGED <<step, wire, seq, terminal>> PROVE Staging'
  BY <1>1, <1>2 DEF Staging
<1>3. ASSUME NEW i \in Attempts, Others(i), Staged(i)', Ordered(wire'[i]) PROVE Staging'
  BY <1>1, <1>3 DEF Staging, Others
<1>4. CASE Connect
  <2>1. CASE Welcome
    <3>1. \A i \in Attempts : step'[i] = "none" /\ seq'[i] = 0 /\ wire'[i] = <<>>
      BY <2>1 DEF Welcome
    <3> QED
      BY <3>1, EmptyWire DEF Staging, Staged
  <2>2. CASE DialFails \/ Unauthorized \/ Stop \/ Ended
    BY <1>2, <2>2 DEF DialFails, Unauthorized, Stop, Ended
  <2>3. ASSUME NEW offered \in SUBSET BackendIds, Dial(offered) PROVE Staging'
    BY <1>2, <2>3 DEF Dial
  <2> QED
    BY <1>4, <2>1, <2>2, <2>3 DEF Connect
<1>5. CASE Session
  <2>1. CASE HeartbeatAck \/ Watchdog \/ PeerDone \/ CloseNow \/ ReadFails \/ BadFrame
    BY <1>2, <2>1 DEF HeartbeatAck, Watchdog, PeerDone, CancelSession, CloseNow, ReadFails, BadFrame
  <2>2. ASSUME NEW offered \in SUBSET BackendIds, Discover(offered) PROVE Staging'
    BY <1>2, <2>2 DEF Discover
  <2>3. ASSUME NEW i \in Attempts, Cancel(i) PROVE Staging'
    BY <1>2, <2>3 DEF Cancel
  <2>4. ASSUME NEW i \in Attempts, NEW b \in BackendIds, Assign(i, b) PROVE Staging'
    <3>1. /\ i \notin seen /\ step' = [step EXCEPT ![i] = "chat"]
          /\ UNCHANGED <<seq, wire, terminal>>
      BY <2>4 DEF Assign, Request
    <3>2. wire[i] = <<>> /\ seq[i] = 0
      BY <3>1 DEF Unseen, Staging, Staged
    <3>3. Others(i) /\ step'[i] = "chat"
      BY <3>1 DEF Others, TypeOK
    <3> QED
      BY <1>3, <3>1, <3>2, <3>3, EmptyWire DEF Staged
  <2>5. ASSUME NEW i \in Attempts, NEW b \in BackendIds, NEW code \in {"busy", "refused"},
               Reject(i, b, code)
        PROVE  Staging'
    <3>1. /\ i \notin seen /\ UNCHANGED <<step, seq, terminal>>
          /\ UNCHANGED wire \/ Write(i, Frame(code))
      BY <2>5 DEF Reject, Request, MaybeWritten
    <3>2. CASE UNCHANGED wire
      BY <1>2, <3>1, <3>2
    <3>3. CASE Write(i, Frame(code))
      <4> DEFINE f == Frame(code)
                 w == wire[i]
      <4>1. f \in Frames /\ f.type \in {"busy", "refused"}
        BY FrameTyped DEF Frame
      <4>2. wire'[i] = Append(w, f) /\ Others(i) /\ w \in Seq(Frames)
        BY <3>1, <3>3 DEF Write, Others, TypeOK
      <4>3. step[i] = "none" /\ w = <<>> /\ seq[i] = 0
        BY <3>1 DEF Unseen, Staging, Staged
      <4>4. Staged(i)'
        BY <3>1, <4>3 DEF Staged
      <4> HIDE DEF f, w
      <4>5. Ordered(Append(w, f))
        <5>1. Ordered(w) /\ Unended(w)
          BY <4>3, EmptyWire
        <5>2. Acceptable(w, f)
          BY <4>1, <5>1, AcceptableWhen
        <5> QED
          BY <4>1, <4>2, <5>1, <5>2, OrderedAppend
      <4> QED
        BY <1>3, <4>2, <4>4, <4>5
    <3> QED
      BY <3>1, <3>2, <3>3
  <2> QED
    BY <1>5, <2>1, <2>2, <2>3, <2>4, <2>5 DEF Session
<1>6. ASSUME NEW i \in Attempts, Execute(i) PROVE Staging'
  <2>1. Staged(i)' /\ Ordered(wire'[i])
    BY <1>6, ExecuteStaged DEF Staging
  <2> QED
    BY <1>3, <1>6, <2>1, ExecuteOthers
<1>7. CASE Environment
  <2>1. CASE Interrupt \/ LinkFails \/ Lapse
    BY <1>2, <2>1 DEF Interrupt, LinkFails, Lapse
  <2>2. ASSUME NEW i \in Attempts, Expire(i) PROVE Staging'
    BY <1>2, <2>2 DEF Expire
  <2> QED
    BY <1>7, <2>1, <2>2 DEF Environment
<1>8. CASE UNCHANGED vars
  BY <1>2, <1>8 DEF vars
<1> QED
  BY <1>4, <1>5, <1>6, <1>7, <1>8 DEF Next

\* Whatever sends fail, the frames of every attempt are ones the gateway takes:
\* one start, chunks without a gap, one terminal frame and nothing behind it.
THEOREM WireOrderedHolds == Spec => []WireOrdered
<1>1. Init => Staging
  <2> SUFFICES ASSUME Init PROVE Staging
    OBVIOUS
  <2>1. \A i \in Attempts : step[i] = "none" /\ seq[i] = 0 /\ wire[i] = <<>>
    BY DEF Init
  <2> QED
    BY <2>1, EmptyWire DEF Staging, Staged
<1>2. Inductive /\ Staging /\ [Next]_vars => Staging'
  BY StagingNext DEF Inductive
<1>3. Staging => WireOrdered
  BY DEF Staging, Ordered, WireOrdered
<1> QED
  BY <1>1, <1>2, <1>3, InductiveInvariant, PTL DEF Spec
=============================================================================
