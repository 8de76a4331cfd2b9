----------------------------- MODULE PeerProofs -----------------------------
(***************************************************************************)
(* Theorems about Peer, for every set of senders, any number of frames and  *)
(* queues of any length.                                                    *)
(***************************************************************************)
EXTENDS Peer, TLAPS

USE DEF queues, calls

-----------------------------------------------------------------------------
(* Queues as data.                                                          *)

In(q, f) == \E i \in DOMAIN q : q[i] = f

Distinct(q) == \A i, j \in DOMAIN q : q[i] = q[j] => i = j

InOrder(q) == \A i, j \in DOMAIN q : i < j /\ q[i][1] = q[j][1] => q[i][2] < q[j][2]

\* What a frame put at the end of a queue changes.
LEMMA AppendFacts ==
    ASSUME NEW q \in Seq(Frames), NEW e \in Frames
    PROVE  /\ Append(q, e) \in Seq(Frames) /\ Len(Append(q, e)) = Len(q) + 1
           /\ \A f : In(Append(q, e), f) <=> In(q, f) \/ f = e
           /\ Distinct(q) /\ ~In(q, e) => Distinct(Append(q, e))
<1> DEFINE p == Append(q, e)
           n == Len(q)
<1>1. /\ p \in Seq(Frames) /\ Len(p) = n + 1 /\ n \in Nat /\ p[n + 1] = e
      /\ DOMAIN p = 1..(n + 1) /\ DOMAIN q = 1..n
      /\ \A i \in 1..n : p[i] = q[i]
  OBVIOUS
<1>2. /\ \A i \in 1..(n + 1) : i \in 1..n \/ i = n + 1
      /\ \A i \in 1..n : i \in 1..(n + 1) /\ i # n + 1
      /\ n + 1 \in 1..(n + 1)
  BY <1>1
<1> HIDE DEF p, n
<1>3. \A f : In(p, f) <=> In(q, f) \/ f = e
  BY <1>1, <1>2 DEF In
<1>4. Distinct(q) /\ ~In(q, e) => Distinct(p)
  BY <1>1, <1>2 DEF Distinct, In
<1> QED
  BY <1>1, <1>3, <1>4 DEF p, n

\* What taking the first frame of a queue changes.
LEMMA TailFacts ==
    ASSUME NEW q \in Seq(Frames), q # <<>>
    PROVE  /\ Head(q) \in Frames /\ Tail(q) \in Seq(Frames) /\ Len(Tail(q)) = Len(q) - 1
           /\ In(q, Head(q))
           /\ \A f : In(Tail(q), f) => In(q, f)
           /\ Distinct(q) => Distinct(Tail(q)) /\ ~In(Tail(q), Head(q))
<1> DEFINE p == Tail(q)
           n == Len(p)
<1>1. /\ p \in Seq(Frames) /\ n \in Nat /\ Len(q) = n + 1 /\ Head(q) = q[1] /\ q[1] \in Frames
      /\ DOMAIN q = 1..(n + 1) /\ DOMAIN p = 1..n
      /\ \A i \in 1..n : p[i] = q[i + 1]
  OBVIOUS
<1>2. /\ 1 \in 1..(n + 1)
      /\ \A i \in 1..n : i + 1 \in 1..(n + 1) /\ i + 1 # 1
      /\ \A i, j \in 1..n : i + 1 = j + 1 => i = j
  BY <1>1
<1>3. n = Len(q) - 1
  BY <1>1
<1> HIDE DEF p, n
<1>4. In(q, Head(q)) /\ \A f : In(p, f) => In(q, f)
  BY <1>1, <1>2 DEF In
<1>5. Distinct(q) => Distinct(p) /\ ~In(p, Head(q))
  <2> SUFFICES ASSUME Distinct(q) PROVE Distinct(p) /\ ~In(p, Head(q))
    OBVIOUS
  <2>1. ASSUME NEW i \in 1..n, NEW j \in 1..n, p[i] = p[j] PROVE i = j
    <3>1. q[i + 1] = q[j + 1]
      BY <1>1, <2>1
    <3> QED
      BY <1>1, <1>2, <3>1 DEF Distinct
  <2>2. ASSUME NEW i \in 1..n, p[i] = Head(q) PROVE FALSE
    <3>1. q[i + 1] = q[1]
      BY <1>1, <2>2
    <3>2. i + 1 = 1
      BY <1>1, <1>2, <3>1 DEF Distinct
    <3> QED
      BY <1>2, <3>2
  <2> QED
    BY <1>1, <2>1, <2>2 DEF Distinct, In
<1> QED
  BY <1>1, <1>3, <1>4, <1>5 DEF p, n

\* A frame later than those of its sender keeps the order.
LEMMA OrderKept ==
    ASSUME NEW q \in Seq(Frames), NEW e \in Frames, InOrder(q),
           \A f \in Frames : In(q, f) /\ f[1] = e[1] => f[2] < e[2]
    PROVE  InOrder(Append(q, e))
<1> DEFINE p == Append(q, e)
           n == Len(q)
<1>1. /\ n \in Nat /\ p[n + 1] = e
      /\ DOMAIN p = 1..(n + 1) /\ DOMAIN q = 1..n
      /\ \A i \in 1..n : p[i] = q[i] /\ q[i] \in Frames
  OBVIOUS
<1> HIDE DEF p, n
<1> SUFFICES ASSUME NEW i \in 1..(n + 1), NEW j \in 1..(n + 1), i < j, p[i][1] = p[j][1]
             PROVE  p[i][2] < p[j][2]
  BY <1>1 DEF InOrder, p
<1>2. i \in 1..n
  BY <1>1
<1>3. CASE j \in 1..n
  BY <1>1, <1>2, <1>3 DEF InOrder
<1>4. CASE j = n + 1
  <2>1. In(q, q[i]) /\ p[i] = q[i] /\ q[i] \in Frames
    BY <1>1, <1>2 DEF In
  <2> QED
    BY <1>1, <1>4, <2>1
<1> QED
  BY <1>1, <1>3, <1>4

-----------------------------------------------------------------------------
(* Types.                                                                   *)

\* The types, and that whoever is in a call has made one.
Typed == TypeOK /\ \A s \in Senders : at[s] # "idle" => sends[s] # 0

\* A sender that is in Send has a frame.
LEMMA FrameTyped ==
    ASSUME Typed, NEW s \in Senders, at[s] # "idle"
    PROVE  FrameOf(s) \in Frames
<1>1. sends[s] \in 1..MaxSends
  BY BoundsAssumption DEF Typed, TypeOK
<1> QED
  BY <1>1 DEF FrameOf, Frames

\* A new peer is typed.
LEMMA TypedInit == Init => Typed
<1> SUFFICES ASSUME Init PROVE Typed
  OBVIOUS
<1>1. 0 \in 0..MaxSends /\ 0 <= QueueCap
  BY BoundsAssumption
<1>2. <<>> \in Seq(Frames) /\ Len(<<>>) = 0
  OBVIOUS
<1> QED
  BY <1>1, <1>2 DEF Init, Typed, TypeOK

\* A step of a call of Send keeps the types and the limits of the queues.
LEMMA SendTyped ==
    ASSUME Typed, NEW s \in Senders, Send(s)
    PROVE  Typed'
<1> USE DEF Typed
<1>1. ASSUME NEW queue \in {"control", "data"}, Begin(s, queue) PROVE Typed'
  <2>1. sends[s] \in 0..MaxSends /\ sends[s] < MaxSends /\ MaxSends \in Nat
    BY <1>1, BoundsAssumption DEF TypeOK, Begin
  <2>2. sends[s] + 1 \in 0..MaxSends /\ sends[s] + 1 # 0
    BY <2>1
  <2> QED
    BY <1>1, <2>2 DEF Begin, TypeOK
<1>2. CASE Enqueue(s)
  <2>1. at[s] # "idle" /\ FrameOf(s) \in Frames
    BY <1>2, FrameTyped DEF Enqueue
  <2>2. CASE /\ Len(control) < QueueCap
             /\ control' = Append(control, FrameOf(s)) /\ UNCHANGED data
    <3>1. control' \in Seq(Frames) /\ Len(control') <= QueueCap
      BY <2>1, <2>2, AppendFacts, BoundsAssumption DEF TypeOK
    <3> QED
      BY <1>2, <2>1, <2>2, <3>1 DEF Enqueue, TypeOK
  <2>3. CASE /\ Len(data) < QueueCap
             /\ data' = Append(data, FrameOf(s)) /\ UNCHANGED control
    <3>1. data' \in Seq(Frames) /\ Len(data') <= QueueCap
      BY <2>1, <2>3, AppendFacts, BoundsAssumption DEF TypeOK
    <3> QED
      BY <1>2, <2>1, <2>3, <3>1 DEF Enqueue, TypeOK
  <2> QED
    BY <1>2, <2>2, <2>3 DEF Enqueue
<1>3. CASE Answered(s) \/ GivesUp(s)
  BY <1>3 DEF Answered, GivesUp, Return, TypeOK
<1>4. CASE Expire(s)
  BY <1>4 DEF Expire, TypeOK
<1> QED
  BY <1>1, <1>2, <1>3, <1>4 DEF Send

\* So does taking a frame from a queue.
LEMMA TakeTyped ==
    ASSUME Typed, TakeControl \/ TakeData
    PROVE  Typed'
<1> USE DEF Typed
<1>1. CASE TakeControl
  <2>1. control # <<>> /\ control \in Seq(Frames)
    BY <1>1 DEF TakeControl, TypeOK
  <2>2. /\ Head(control) \in Frames /\ Tail(control) \in Seq(Frames)
        /\ Len(Tail(control)) <= QueueCap
    <3>1. Len(control) \in Nat /\ Len(Tail(control)) = Len(control) - 1 /\ Len(control) <= QueueCap
      BY <2>1, TailFacts DEF TypeOK
    <3> QED
      BY <2>1, <3>1, TailFacts, BoundsAssumption
  <2> QED
    BY <1>1, <2>2 DEF TakeControl, TypeOK
<1>2. CASE TakeData
  <2>1. data # <<>> /\ data \in Seq(Frames)
    BY <1>2 DEF TakeData, TypeOK
  <2>2. /\ Head(data) \in Frames /\ Tail(data) \in Seq(Frames)
        /\ Len(Tail(data)) <= QueueCap
    <3>1. Len(data) \in Nat /\ Len(Tail(data)) = Len(data) - 1 /\ Len(data) <= QueueCap
      BY <2>1, TailFacts DEF TypeOK
    <3> QED
      BY <2>1, <3>1, TailFacts, BoundsAssumption
  <2> QED
    BY <1>2, <2>2 DEF TakeData, TypeOK
<1> QED
  BY <1>1, <1>2

\* So does every step of the write loop, which looks at and writes only frames it took.
LEMMA LoopTyped ==
    ASSUME Typed, WriteLoop
    PROVE  Typed'
<1> USE DEF Typed
<1>1. CASE Poll
  BY <1>1, TakeTyped DEF Poll, TypeOK
<1>2. CASE Select
  BY <1>2, TakeTyped DEF Select, Leave, TypeOK
<1>3. CASE Check
  BY <1>3 DEF Check, Say, TypeOK
<1>4. ASSUME loop = "write", wire' = Append(wire, current) PROVE wire' \in Seq(Frames)
  BY <1>4 DEF TypeOK
<1>5. CASE Written
  BY <1>4, <1>5 DEF Written, Say, TypeOK
<1>6. CASE WriteFails
  BY <1>4, <1>6 DEF WriteFails, Leave, Say, TypeOK
<1> QED
  BY <1>1, <1>2, <1>3, <1>5, <1>6 DEF WriteLoop

\* Every step keeps the types.
LEMMA TypedNext == Typed /\ [Next]_vars => Typed'
<1> SUFFICES ASSUME Typed, [Next]_vars PROVE Typed'
  OBVIOUS
<1>1. CASE Close \/ CloseNow \/ Other
  BY <1>1 DEF Close, CloseNow, Other, Typed, TypeOK
<1>2. CASE UNCHANGED vars
  BY <1>2 DEF vars, Typed, TypeOK
<1> QED
  BY <1>1, <1>2, SendTyped, LoopTyped DEF Next

\* No queue exceeds its slots, and no frame is of a call nobody made.
THEOREM TypeCorrect == Spec => []TypeOK
<1>1. Typed => TypeOK
  BY DEF Typed
<1> QED
  BY <1>1, TypedInit, TypedNext, PTL DEF Spec

-----------------------------------------------------------------------------
(* Control frames go first.                                                 *)

\* When the loop selects, no control frame has waited yet.
Rested == passed \in {0, 1} /\ (loop = "select" => passed = 0)

\* The loop looks for a control frame between any two chunks it takes.
LEMMA RestedNext == Rested /\ [Next]_vars => Rested'
<1> SUFFICES ASSUME Rested, [Next]_vars PROVE Rested'
  OBVIOUS
<1>1. ASSUME NEW s \in Senders, Send(s) PROVE UNCHANGED <<loop, passed>>
  BY <1>1 DEF Send, Begin, Enqueue, Answered, GivesUp, Return, Expire
<1>2. CASE WriteLoop
  <2>1. CASE Poll \/ Select
    BY <2>1 DEF Poll, Select, TakeControl, TakeData, Leave, Rested
  <2>2. CASE Check \/ Written \/ WriteFails
    BY <2>2 DEF Check, Written, WriteFails, Leave, Rested
  <2> QED
    BY <1>2, <2>1, <2>2 DEF WriteLoop
<1>3. CASE Close \/ CloseNow \/ Other \/ UNCHANGED vars
  BY <1>3 DEF Close, CloseNow, Other, vars, Rested
<1> QED
  BY <1>1, <1>2, <1>3 DEF Next, Rested

\* A control frame that waits sees at most one chunk go first.
THEOREM ControlFirstHolds == Spec => []ControlFirst
<1>1. Init => Rested
  BY DEF Init, Rested
<1>2. Rested => ControlFirst
  BY DEF Rested, ControlFirst
<1> QED
  BY <1>1, <1>2, RestedNext, PTL DEF Spec
-----------------------------------------------------------------------------
(* Order.                                                                   *)

\* The frame is the one the loop is at.
Taken(f) == loop \in {"check", "write"} /\ current = f

Somewhere(f) == In(control, f) \/ In(data, f) \/ Taken(f) \/ In(wire, f)

\* Every frame is of a call that was made, and at one place only.
Known == \A f \in Frames : Somewhere(f) => f[2] <= sends[f[1]]

Fresh == \A s \in Senders : at[s] \in {"control", "data"} => ~Somewhere(FrameOf(s))

Apart ==
    /\ Distinct(control) /\ Distinct(data)
    /\ \A f \in Frames :
        /\ In(control, f) => ~In(data, f) /\ ~Taken(f) /\ ~In(wire, f)
        /\ In(data, f) => ~Taken(f) /\ ~In(wire, f)
        /\ Taken(f) => ~In(wire, f)

\* What is being written is later than what its sender has on the wire: its
\* call had not returned when the loop looked at it.
Latest ==
    loop = "write" =>
        \A f \in Frames : In(wire, f) /\ f[1] = current[1] => f[2] < current[2]

Tidy == Typed /\ Known /\ Fresh /\ Apart /\ Latest /\ InOrder(wire)

\* Nothing is queued, taken or written.
Quiet ==
    /\ UNCHANGED <<queues, sends, wire>>
    /\ \A s \in Senders : at'[s] \in {"control", "data"} => at'[s] = at[s]
    /\ loop' \in {"check", "write"} => loop' = loop /\ current' = current

\* What is being written is on the wire.
Writes ==
    /\ UNCHANGED <<queues, sends, at, current>>
    /\ loop = "write" /\ loop' \notin {"check", "write"}
    /\ wire' = Append(wire, current)

\* Every step is one of these.
LEMMA OrderSteps ==
    ASSUME [Next]_vars
    PROVE  \/ Quiet \/ Writes \/ Check
           \/ loop \in {"poll", "select"} /\ (TakeControl \/ TakeData)
           \/ \E s \in Senders : Enqueue(s) \/ \E queue \in {"control", "data"} : Begin(s, queue)
<1>1. ASSUME NEW s \in Senders, Answered(s) \/ GivesUp(s) \/ Expire(s) PROVE Quiet
  <2>1. CASE Expire(s)
    BY <2>1 DEF Expire, Quiet
  <2>2. ASSUME NEW how, Return(s, how) PROVE Quiet
    <3>1. \A q \in Senders : at'[q] \in {"control", "data"} => at'[q] = at[q]
      BY <2>2 DEF Return
    <3> QED
      BY <2>2, <3>1 DEF Return, Quiet
  <2> QED
    BY <1>1, <2>1, <2>2 DEF Answered, GivesUp
<1>2. CASE Close \/ CloseNow \/ Other \/ UNCHANGED vars
  BY <1>2 DEF Close, CloseNow, Other, vars, Quiet
<1>3. CASE Written \/ WriteFails
  BY <1>3 DEF Written, WriteFails, Leave, Writes, Quiet
<1>4. CASE Poll \/ Select
  BY <1>4 DEF Poll, Select, Leave, Quiet
<1> QED
  BY <1>1, <1>2, <1>3, <1>4 DEF Next, Send, WriteLoop

\* A call begins: its frame is nowhere yet.
LEMMA BeginTidy ==
    ASSUME Tidy, Typed', NEW s \in Senders, NEW queue \in {"control", "data"}, Begin(s, queue)
    PROVE  Tidy'
<1>1. /\ UNCHANGED <<queues, loop, current, wire>>
      /\ sends' = [sends EXCEPT ![s] = @ + 1] /\ at' = [at EXCEPT ![s] = queue]
  BY DEF Begin
<1>2. \A q \in Senders : sends[q] \in Nat /\ sends'[q] \in Nat /\ sends[q] <= sends'[q]
  BY <1>1 DEF Tidy, Typed, TypeOK
<1>3. \A f \in Frames : f[1] \in Senders /\ f[2] \in Nat
  BY BoundsAssumption DEF Frames
<1>4. \A f : Somewhere(f)' <=> Somewhere(f)
  BY <1>1 DEF Somewhere, Taken
<1>5. Known'
  BY <1>2, <1>3, <1>4 DEF Tidy, Known
<1>6. Fresh'
  <2> SUFFICES ASSUME NEW q \in Senders, at'[q] \in {"control", "data"}, Somewhere(FrameOf(q)')
               PROVE  FALSE
    BY <1>4 DEF Fresh, Somewhere, Taken, FrameOf
  <2>1. CASE q # s
    BY <1>1, <2>1 DEF Tidy, Typed, TypeOK, Fresh, FrameOf
  <2>2. CASE q = s
    <3>1. FrameOf(s)' = <<s, sends[s] + 1>> /\ FrameOf(s)' \in Frames
      <4>1. sends'[s] = sends[s] + 1 /\ sends'[s] \in 1..MaxSends
        BY <1>1, <1>2, BoundsAssumption DEF Tidy, Typed, TypeOK
      <4> QED
        BY <4>1 DEF FrameOf, Frames
    <3>2. sends[s] + 1 <= sends[s]
      BY <2>2, <3>1 DEF Tidy, Known
    <3> QED
      BY <1>2, <3>2
  <2> QED
    BY <2>1, <2>2
<1>7. Apart' /\ Latest' /\ InOrder(wire)'
  BY <1>1 DEF Tidy, Apart, Latest, Taken
<1> QED
  BY <1>5, <1>6, <1>7 DEF Tidy

\* A frame is queued that was nowhere.
LEMMA EnqueueTidy ==
    ASSUME Tidy, Typed', NEW s \in Senders, Enqueue(s)
    PROVE  Tidy'
<1> DEFINE e == FrameOf(s)
<1>1. /\ UNCHANGED <<loop, current, wire, sends>> /\ at' = [at EXCEPT ![s] = "wait"]
      /\ at[s] \in {"control", "data"}
      /\ \/ control' = Append(control, e) /\ UNCHANGED data
         \/ data' = Append(data, e) /\ UNCHANGED control
  BY DEF Enqueue
<1>2. e \in Frames /\ e[1] = s /\ e[2] = sends[s] /\ ~Somewhere(e)
  BY <1>1, FrameTyped DEF Tidy, Fresh, FrameOf
<1>3. \A q \in Senders \ {s} : FrameOf(q)' = FrameOf(q) /\ FrameOf(q) # e
  BY <1>1 DEF FrameOf
<1>4. control \in Seq(Frames) /\ data \in Seq(Frames)
  BY DEF Tidy, Typed, TypeOK
<1>5. at'[s] = "wait" /\ \A q \in Senders \ {s} : at'[q] = at[q]
  BY <1>1 DEF Tidy, Typed, TypeOK
<1> HIDE DEF e
<1>6. /\ Distinct(control') /\ Distinct(data')
      /\ \/ /\ \A f : In(control', f) <=> In(control, f) \/ f = e
            /\ \A f : In(data', f) <=> In(data, f)
         \/ /\ \A f : In(data', f) <=> In(data, f) \/ f = e
            /\ \A f : In(control', f) <=> In(control, f)
  <2>1. ~In(control, e) /\ ~In(data, e) /\ Distinct(control) /\ Distinct(data)
    BY <1>2 DEF Somewhere, Tidy, Apart
  <2>2. CASE control' = Append(control, e) /\ UNCHANGED data
    <3>1. Distinct(control') /\ \A f : In(control', f) <=> In(control, f) \/ f = e
      BY <1>2, <1>4, <2>1, <2>2, AppendFacts
    <3>2. Distinct(data') /\ \A f : In(data', f) <=> In(data, f)
      BY <2>1, <2>2
    <3> QED
      BY <3>1, <3>2
  <2>3. CASE data' = Append(data, e) /\ UNCHANGED control
    <3>1. Distinct(data') /\ \A f : In(data', f) <=> In(data, f) \/ f = e
      BY <1>2, <1>4, <2>1, <2>3, AppendFacts
    <3>2. Distinct(control') /\ \A f : In(control', f) <=> In(control, f)
      BY <2>1, <2>3
    <3> QED
      BY <3>1, <3>2
  <2> QED
    BY <1>1, <2>2, <2>3
<1>7. \A f : /\ In(wire', f) <=> In(wire, f)
             /\ Taken(f)' <=> Taken(f)
  BY <1>1 DEF Taken
<1>8. \A f : Somewhere(f)' <=> Somewhere(f) \/ f = e
  BY <1>6, <1>7 DEF Somewhere
<1>9. Known'
  <2>1. \A f \in Frames : f = e => f[2] <= sends[f[1]]
    BY <1>2 DEF Tidy, Typed, TypeOK
  <2> QED
    BY <1>1, <1>8, <2>1 DEF Tidy, Known
<1>10. Fresh'
  <2> SUFFICES ASSUME NEW q \in Senders, at'[q] \in {"control", "data"}
               PROVE  ~Somewhere(FrameOf(q))'
    BY DEF Fresh
  <2>1. q # s /\ at'[q] = at[q] /\ FrameOf(q)' = FrameOf(q) /\ FrameOf(q) # e
    BY <1>3, <1>5
  <2>2. ~Somewhere(FrameOf(q))
    BY <2>1 DEF Tidy, Fresh
  <2> QED
    BY <1>6, <1>7, <2>1, <2>2 DEF Somewhere, Taken
<1>11. Apart'
  <2>1. ~In(control, e) /\ ~In(data, e) /\ ~Taken(e) /\ ~In(wire, e)
    BY <1>2 DEF Somewhere
  <2> QED
    BY <1>6, <1>7, <2>1 DEF Tidy, Apart
<1>12. Latest' /\ InOrder(wire)'
  BY <1>1 DEF Tidy, Latest
<1> QED
  BY <1>9, <1>10, <1>11, <1>12 DEF Tidy

\* The first frame of a queue is taken.
LEMMA TakeTidy ==
    ASSUME Tidy, Typed', loop \in {"poll", "select"}, TakeControl \/ TakeData
    PROVE  Tidy'
<1>1. /\ UNCHANGED <<calls, wire>> /\ loop' = "check"
      /\ \/ /\ control # <<>> /\ current' = Head(control) /\ control' = Tail(control)
            /\ UNCHANGED data
         \/ /\ data # <<>> /\ current' = Head(data) /\ data' = Tail(data)
            /\ UNCHANGED control
  BY DEF TakeControl, TakeData
<1>2. control \in Seq(Frames) /\ data \in Seq(Frames) /\ Distinct(control) /\ Distinct(data)
  BY DEF Tidy, Typed, TypeOK, Apart
<1>3. \A f : ~Taken(f) /\ (Taken(f)' <=> f = current')
  BY <1>1 DEF Taken
<1>4. /\ Distinct(control') /\ Distinct(data')
      /\ \A f : In(control', f) => In(control, f)
      /\ \A f : In(data', f) => In(data, f)
      /\ \/ In(control, current') /\ ~In(control', current')
         \/ In(data, current') /\ ~In(data', current')
  <2>1. CASE /\ control # <<>> /\ current' = Head(control) /\ control' = Tail(control)
             /\ UNCHANGED data
    BY <1>2, <2>1, TailFacts
  <2>2. CASE /\ data # <<>> /\ current' = Head(data) /\ data' = Tail(data)
             /\ UNCHANGED control
    BY <1>2, <2>2, TailFacts
  <2> QED
    BY <1>1, <2>1, <2>2
<1>5. \A f : In(wire', f) <=> In(wire, f)
  BY <1>1
<1>6. \A f : Somewhere(f)' => Somewhere(f)
  BY <1>3, <1>4, <1>5 DEF Somewhere
<1>7. Known'
  BY <1>1, <1>6 DEF Tidy, Known
<1>8. Fresh'
  <2> SUFFICES ASSUME NEW q \in Senders, at'[q] \in {"control", "data"}
               PROVE  ~Somewhere(FrameOf(q))'
    BY DEF Fresh
  <2>1. at'[q] = at[q] /\ FrameOf(q)' = FrameOf(q)
    BY <1>1 DEF FrameOf
  <2>2. ~Somewhere(FrameOf(q))
    BY <2>1 DEF Tidy, Fresh
  <2> QED
    BY <1>3, <1>4, <1>5, <2>1, <2>2 DEF Somewhere, Taken
<1>9. Apart'
  BY <1>3, <1>4, <1>5 DEF Tidy, Apart
<1>10. Latest' /\ InOrder(wire)'
  BY <1>1 DEF Tidy, Latest
<1> QED
  BY <1>7, <1>8, <1>9, <1>10 DEF Tidy

\* The loop looks at a frame: it writes it only if its call has not returned, so
\* that it is the latest of its sender.
LEMMA CheckTidy ==
    ASSUME Tidy, Typed', Check
    PROVE  Tidy'
<1>1. /\ UNCHANGED <<queues, current, at, sends, wire>> /\ loop = "check"
      /\ loop' = "write" \/ loop' = "poll"
      /\ loop' = "write" => ~Dead(current)
  BY DEF Check
<1>2. \A f : Taken(f)' => Taken(f)
  BY <1>1 DEF Taken
<1>3. \A f : Somewhere(f)' => Somewhere(f)
  BY <1>1, <1>2 DEF Somewhere
<1>4. Known'
  BY <1>1, <1>3 DEF Tidy, Known
<1>5. Fresh'
  BY <1>1 DEF Tidy, Fresh, Somewhere, Taken, FrameOf
<1>6. Apart'
  BY <1>1, <1>2 DEF Tidy, Apart
<1>7. Latest'
  <2> SUFFICES ASSUME loop' = "write", NEW f \in Frames, In(wire, f), f[1] = current[1]
               PROVE  f[2] < current[2]
    BY <1>1 DEF Latest
  <2>1. current \in Frames /\ current = FrameOf(current[1]) /\ Taken(current)
    BY <1>1 DEF Dead, Taken, Tidy, Typed, TypeOK
  <2>2. f[2] <= sends[current[1]] /\ current[2] = sends[current[1]]
    BY <2>1 DEF Tidy, Known, Somewhere, FrameOf
  <2>3. f # current
    BY <2>1 DEF Tidy, Apart
  <2>4. f = <<f[1], f[2]>> /\ current = <<current[1], current[2]>> /\ f[2] \in Nat /\ current[2] \in Nat
    BY <2>1, BoundsAssumption DEF Frames
  <2>5. f[2] # current[2]
    BY <2>3, <2>4
  <2> QED
    BY <2>2, <2>4, <2>5
<1>8. InOrder(wire)'
  BY <1>1 DEF Tidy
<1> QED
  BY <1>4, <1>5, <1>6, <1>7, <1>8 DEF Tidy

\* A frame is written.
LEMMA WritesTidy ==
    ASSUME Tidy, Typed', Writes
    PROVE  Tidy'
<1>1. /\ UNCHANGED <<queues, sends, at, current>> /\ loop = "write"
      /\ loop' \notin {"check", "write"} /\ wire' = Append(wire, current)
  BY DEF Writes
<1>2. wire \in Seq(Frames) /\ current \in Frames /\ InOrder(wire)
  BY <1>1 DEF Tidy, Typed, TypeOK
<1>3. \A f : In(wire', f) <=> In(wire, f) \/ f = current
  BY <1>1, <1>2, AppendFacts
<1>4. \A f : ~Taken(f)' /\ (Taken(f) <=> f = current)
  BY <1>1 DEF Taken
<1>5. \A f : Somewhere(f)' => Somewhere(f)
  BY <1>1, <1>3, <1>4 DEF Somewhere
<1>6. Known'
  BY <1>1, <1>5 DEF Tidy, Known
<1>7. Fresh'
  <2> SUFFICES ASSUME NEW q \in Senders, at'[q] \in {"control", "data"}
               PROVE  ~Somewhere(FrameOf(q))'
    BY DEF Fresh
  <2>1. at'[q] = at[q] /\ FrameOf(q)' = FrameOf(q)
    BY <1>1 DEF FrameOf
  <2>2. ~Somewhere(FrameOf(q))
    BY <2>1 DEF Tidy, Fresh
  <2> QED
    BY <1>1, <1>3, <1>4, <2>1, <2>2 DEF Somewhere, Taken
<1>8. Apart'
  <2>1. ~In(control, current) /\ ~In(data, current)
    BY <1>2, <1>4 DEF Tidy, Apart
  <2> QED
    BY <1>1, <1>3, <1>4, <2>1 DEF Tidy, Apart
<1>9. Latest'
  BY <1>1 DEF Latest
<1>10. InOrder(wire')
  BY <1>1, <1>2, OrderKept DEF Tidy, Latest
<1> QED
  BY <1>6, <1>7, <1>8, <1>9, <1>10 DEF Tidy, InOrder

\* Every step leaves every frame at one place.
LEMMA TidyNext == Tidy /\ [Next]_vars => Tidy'
<1> SUFFICES ASSUME Tidy, [Next]_vars PROVE Tidy'
  OBVIOUS
<1>1. Typed'
  BY TypedNext DEF Tidy
<1>2. CASE Quiet
  <2>1. /\ UNCHANGED <<queues, sends, wire>>
        /\ \A s \in Senders : at'[s] \in {"control", "data"} => at'[s] = at[s]
        /\ loop' \in {"check", "write"} => loop' = loop /\ current' = current
    BY <1>2 DEF Quiet
  <2>2. \A f : Taken(f)' => Taken(f)
    BY <2>1 DEF Taken
  <2>3. \A f : Somewhere(f)' => Somewhere(f)
    BY <2>1, <2>2 DEF Somewhere
  <2>4. Known'
    BY <2>1, <2>3 DEF Tidy, Known
  <2>5. Fresh'
    BY <2>1 DEF Tidy, Fresh, Somewhere, Taken, FrameOf
  <2>6. Apart'
    BY <2>1, <2>2 DEF Tidy, Apart
  <2>7. Latest' /\ InOrder(wire)'
    BY <2>1 DEF Tidy, Latest
  <2> QED
    BY <1>1, <2>4, <2>5, <2>6, <2>7 DEF Tidy
<1> QED
  BY <1>1, <1>2, OrderSteps, BeginTidy, EnqueueTidy, TakeTidy, CheckTidy, WritesTidy

\* The frames of one sender are written in the order it sent them, each at most
\* once, though a sender goes on while a frame it gave up is queued or written.
THEOREM SendOrderHolds == Spec => []SendOrder
<1>1. Init => Tidy
  <2> SUFFICES ASSUME Init PROVE Tidy
    OBVIOUS
  <2>1. control = <<>> /\ data = <<>> /\ wire = <<>> /\ loop = "poll"
    BY DEF Init
  <2>2. /\ \A f : ~Somewhere(f) /\ ~Taken(f) /\ ~In(control, f) /\ ~In(data, f)
        /\ Distinct(<<>>) /\ InOrder(<<>>)
    BY <2>1 DEF Somewhere, Taken, In, Distinct, InOrder
  <2> QED
    BY <2>1, <2>2, TypedInit DEF Tidy, Known, Fresh, Apart, Latest
<1>2. Tidy => SendOrder
  BY DEF Tidy, InOrder, SendOrder
<1> QED
  BY <1>1, <1>2, TidyNext, PTL DEF Spec

-----------------------------------------------------------------------------
(* Answers.                                                                 *)

\* What the loop has said, and what the last call returned.
Reported ==
    \A s \in Senders :
        /\ at[s] # "wait" => done[s] = "none"
        /\ done[s] = "ok" => In(wire, FrameOf(s))
        /\ at[s] = "idle" /\ result[s] = "ok" => In(wire, FrameOf(s))

\* Every step keeps what was reported of a call true: the wire only grows.
LEMMA ReportedNext == Typed /\ Typed' /\ Reported /\ [Next]_vars => Reported'
<1> SUFFICES ASSUME Typed, Typed', Reported, [Next]_vars PROVE Reported'
  OBVIOUS
<1>1. ASSUME NEW s \in Senders, Send(s) PROVE Reported'
  <2>1. UNCHANGED wire
    BY <1>1 DEF Send, Begin, Enqueue, Answered, GivesUp, Return, Expire
  <2>2. ASSUME NEW queue \in {"control", "data"}, Begin(s, queue) PROVE Reported'
    <3> SUFFICES ASSUME NEW q \in Senders
                 PROVE  /\ at'[q] # "wait" => done'[q] = "none"
                        /\ done'[q] = "ok" => In(wire, FrameOf(q)')
                        /\ at'[q] = "idle" /\ result'[q] = "ok" => In(wire, FrameOf(q)')
      BY <2>1 DEF Reported, In, FrameOf
    <3>1. CASE q # s
      BY <2>2, <3>1 DEF Begin, Reported, FrameOf, Typed, TypeOK
    <3>2. CASE q = s
      BY <2>2, <3>2 DEF Begin, Reported, Typed, TypeOK
    <3> QED
      BY <3>1, <3>2
  <2>3. CASE Enqueue(s) \/ Expire(s)
    <3>1. /\ UNCHANGED <<sends, done, result, wire>>
          /\ \A q \in Senders : at'[q] # at[q] => at'[q] = "wait"
      BY <2>3 DEF Enqueue, Expire, Typed, TypeOK
    <3> QED
      BY <3>1 DEF Reported, FrameOf
  <2>4. ASSUME NEW how \in {"error", done[s]}, Return(s, how) PROVE Reported'
    <3> SUFFICES ASSUME NEW q \in Senders
                 PROVE  /\ at'[q] # "wait" => done'[q] = "none"
                        /\ done'[q] = "ok" => In(wire, FrameOf(q))
                        /\ at'[q] = "idle" /\ result'[q] = "ok" => In(wire, FrameOf(q))
      BY <2>4 DEF Return, Reported, In, FrameOf
    <3> QED
      BY <2>4 DEF Return, Reported, Typed, TypeOK
  <2> QED
    BY <1>1, <2>2, <2>3, <2>4 DEF Send, Answered, GivesUp
<1>2. ASSUME UNCHANGED <<at, sends, done, result, wire>> PROVE Reported'
  BY <1>2 DEF Reported, FrameOf
<1>3. CASE WriteLoop
  <2>1. CASE Poll \/ Select
    BY <1>2, <2>1 DEF Poll, Select, TakeControl, TakeData, Leave
  <2>2. ASSUME NEW how \in {"ok", "error"}, Say(current, how), UNCHANGED <<at, sends, result>>,
               \A f : In(wire, f) => In(wire', f), how = "ok" => In(wire', current)
        PROVE  Reported'
    <3> SUFFICES ASSUME NEW q \in Senders
                 PROVE  /\ at[q] # "wait" => done'[q] = "none"
                        /\ done'[q] = "ok" => In(wire', FrameOf(q))
                        /\ at[q] = "idle" /\ result[q] = "ok" => In(wire', FrameOf(q))
      BY <2>2 DEF Reported, FrameOf
    <3>1. done'[q] = IF current = FrameOf(q) /\ at[q] = "wait" THEN how ELSE done[q]
      BY <2>2 DEF Say
    <3> QED
      BY <2>2, <3>1 DEF Reported
  <2>3. CASE Check
    <3>1. CASE Dead(current)
      BY <2>2, <2>3, <3>1 DEF Check
    <3>2. CASE ~Dead(current)
      BY <1>2, <2>3, <3>2 DEF Check
    <3> QED
      BY <3>1, <3>2
  <2>4. ASSUME loop = "write", wire' = Append(wire, current)
        PROVE  In(wire', current) /\ \A f : In(wire, f) => In(wire', f)
    <3>1. wire \in Seq(Frames) /\ current \in Frames
      BY <2>4 DEF Typed, TypeOK
    <3> QED
      BY <2>4, <3>1, AppendFacts
  <2>5. CASE Written
    BY <2>2, <2>4, <2>5 DEF Written
  <2>6. CASE WriteFails
    <3>1. /\ Say(current, "error") /\ UNCHANGED <<at, sends, result>> /\ loop = "write"
          /\ UNCHANGED wire \/ wire' = Append(wire, current)
      BY <2>6 DEF WriteFails
    <3> QED
      BY <2>2, <2>4, <3>1
  <2> QED
    BY <1>3, <2>1, <2>3, <2>5, <2>6 DEF WriteLoop
<1>4. CASE Close \/ CloseNow \/ Other \/ UNCHANGED vars
  BY <1>2, <1>4 DEF Close, CloseNow, Other, vars
<1> QED
  BY <1>1, <1>3, <1>4 DEF Next

\* A call that returned nil has its frame on the wire.
THEOREM SentIsWrittenHolds == Spec => []SentIsWritten
<1>1. Init => Typed /\ Reported
  <2>1. Init => Reported
    BY DEF Init, Reported
  <2> QED
    BY <2>1, TypedInit
<1>2. Typed /\ Reported /\ [Next]_vars => Typed' /\ Reported'
  BY TypedNext, ReportedNext
<1>3. Reported => SentIsWritten
  BY DEF Reported, SentIsWritten, In
<1> QED
  BY <1>1, <1>2, <1>3, PTL DEF Spec
=============================================================================
