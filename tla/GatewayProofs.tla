---------------------------- MODULE GatewayProofs ----------------------------
(***************************************************************************)
(* What a buyer is promised, for every set of hosts and requests, every     *)
(* queue limit and every length of response: the body is a gapless prefix   *)
(* of one generation, a retry happens only before the first byte and        *)
(* elsewhere, and Coordinator implements Gateway.                           *)
(***************************************************************************)
EXTENDS CoordinatorProofs

USE DEF registryVars, sessionVars, jobVars, flowVars, endVars, chatVars, buyerVars

-----------------------------------------------------------------------------
(* The strengthening.                                                       *)

\* The attempt whose events a handler reads.
Reading(a) == Forwarding(a[1]) /\ a = Current(a[1])

\* Of an attempt nobody reads nothing is kept, and what an agent may still say
\* of it is dropped.
Unread ==
    \A a \in Attempts : ~Reading(a) =>
        /\ events[a] = <<>> /\ seq[a] = 0 /\ ~started[a]
        /\ a \in requested => dropping[a]

\* The body is one generation's, and empty until one is forwarded.
Body ==
    \A r \in Requests :
        /\ \A i \in DOMAIN out[r] : out[r][i] = <<attempt[r], i>>
        /\ pc[r] \in {"idle", "selecting", "selected"} => out[r] = <<>>
        /\ pc[r] = "selected" => ~dropping[Current(r)]

\* What an attempt's queue q holds after `shown' chunks, when the last chunk
\* received is `last': all of it, unless a frame was dropped.
Sound(q, shown, waiting, begun, last, dropped) ==
    /\ Ordered(q, shown, waiting)
    /\ waiting => shown = 0
    /\ shown <= last
    /\ \A i \in DOMAIN q : q[i].type = "response_chunk" => q[i].seq <= last
    /\ begun \/ (waiting /\ Begun(q) = 0 /\ (q = <<>> \/ Ended(q) = 1))
    /\ begun /\ waiting /\ ~dropped => q # <<>>
    /\ dropped => Ended(q) = 0
    /\ ~dropped => last = shown + Len(q) - Begun(q) - Ended(q)

\* The attempt that is read: its stream is sound, an overflow is told, and a
\* terminal frame in the queue has given the reservation back.
Received(r) ==
    LET a == Current(r) IN
    /\ Sound(events[a], Len(out[r]), starting[r], started[a], seq[a], dropping[a])
    /\ dropping[a] => failure[a] = "slow_consumer"
    /\ Ended(events[a]) = 1 => ~Held(a)

Reception == \A r \in Requests : Forwarding(r) => Received(r)

\* A handler is told that its host is gone only when it is.
Disconnected ==
    \A a \in Attempts : failure[a] = "host_disconnected" =>
        job[a] # None /\ conn[SessionOf(a)] = "gone"

\* A second attempt follows the first, elsewhere and with the same model.
Succession ==
    \A r \in Requests : attempt[r] = 1 =>
        /\ dropping[<<r, 0>>]
        /\ job[<<r, 1>>] # None =>
            /\ Owner[job[<<r, 1>>].session] # Owner[Previous(r).session]
            /\ job[<<r, 1>>].offer.kind = Previous(r).offer.kind
            /\ job[<<r, 1>>].offer.kind = "ollama" =>
                job[<<r, 1>>].offer.digest = Previous(r).offer.digest

\* A handler has a failure or the terminal frame to read.
Told(a) == failure[a] # "none" \/ Ended(events[a]) = 1

\* A handler whose session is gone, or whose reservation is, is told.
AwakeAt(r) ==
    LET a == Current(r) IN
    /\ conn[SessionOf(a)] # "new"
    /\ conn[SessionOf(a)] = "gone" => Told(a)
    /\ Held(a) \/ (Forwarding(r) /\ Told(a))

Awake == \A r \in Requests : pc[r] \in {"selected", "forwarding"} => AwakeAt(r)
-----------------------------------------------------------------------------
(* The queue as data: each way it changes keeps it sound.                   *)

\* Terminal frames are not the others.
LEMMA TerminalTypes ==
    ASSUME NEW f \in Frames
    PROVE  /\ Terminal(f) <=> f.type \in {"response_end", "error"}
           /\ ~Terminal(f) <=> f.type \in {"response_start", "response_chunk"}
BY DEF Frames, Terminal

\* The front and the back of a queue are 0 or 1, and a queue with nothing
\* terminal at its end has nothing terminal at all.
LEMMA EndsTyped ==
    ASSUME NEW q \in Seq(Frames), NEW shown, NEW waiting, Ordered(q, shown, waiting)
    PROVE  /\ Begun(q) \in {0, 1} /\ Ended(q) \in {0, 1}
           /\ Ended(q) = 0 => \A i \in DOMAIN q : ~Terminal(q[i])
           /\ Begun(q) = 1 <=> q # <<>> /\ q[1].type = "response_start"
           /\ Ended(q) = 1 <=> q # <<>> /\ Terminal(q[Len(q)])
BY DEF Begun, Ended, Ordered

\* What is left of a queue after its first frame.
LEMMA TailFacts ==
    ASSUME NEW q \in Seq(Frames), q # <<>>
    PROVE  /\ Tail(q) \in Seq(Frames) /\ Len(Tail(q)) \in Nat
           /\ Len(q) = Len(Tail(q)) + 1
           /\ DOMAIN q = 1..(Len(Tail(q)) + 1) /\ DOMAIN Tail(q) = 1..Len(Tail(q))
           /\ \A i \in 1..Len(Tail(q)) : Tail(q)[i] = q[i + 1]
           /\ Tail(q) = <<>> <=> Len(Tail(q)) = 0
<1>1. Len(q) \in Nat /\ Len(q) # 0 /\ DOMAIN q = 1..Len(q)
  OBVIOUS
<1>2. Tail(q) \in Seq(Frames) /\ Len(Tail(q)) = Len(q) - 1
  BY <1>1
<1>3. Len(Tail(q)) \in Nat /\ Len(q) = Len(Tail(q)) + 1
  BY <1>1, <1>2
<1>4. DOMAIN Tail(q) = 1..Len(Tail(q)) /\ (Tail(q) = <<>> <=> Len(Tail(q)) = 0)
  BY <1>2
<1>5. \A i \in 1..Len(Tail(q)) : Tail(q)[i] = q[i + 1]
  BY <1>2
<1> QED
  BY <1>1, <1>2, <1>3, <1>4, <1>5

\* Taking a frame that is not terminal takes no terminal frame.
LEMMA EndKept ==
    ASSUME NEW q \in Seq(Frames), q # <<>>, q[1].type \in {"response_start", "response_chunk"}
    PROVE  Ended(Tail(q)) = Ended(q)
<1> DEFINE p == Tail(q)
           n == Len(p)
<1>1. /\ n \in Nat /\ Len(q) = n + 1
      /\ \A i \in 1..n : p[i] = q[i + 1]
      /\ p = <<>> <=> n = 0
  BY TailFacts
<1> HIDE DEF p, n
<1>2. CASE n = 0
  BY <1>1, <1>2 DEF Ended, Terminal, p, n
<1>3. CASE n # 0
  <2>1. p[n] = q[n + 1] /\ p # <<>> /\ q # <<>>
    BY <1>1, <1>3
  <2> QED
    BY <1>1, <2>1 DEF Ended, p, n
<1> QED
  BY <1>2, <1>3

\* The sequence numbers in a queue are numbers.
LEMMA QueueTyped ==
    ASSUME NEW q \in Seq(Frames)
    PROVE  \A i \in DOMAIN q : q[i] \in Frames /\ q[i].seq \in Int
<1>1. \A i \in DOMAIN q : q[i] \in Frames
  OBVIOUS
<1> QED
  BY <1>1, FrameFields, ChunkAssumption

\* A frame that Sound's state lets in keeps the queue sound.
LEMMA SoundAppend ==
    ASSUME NEW q \in Seq(Frames), NEW shown \in Nat, NEW waiting \in BOOLEAN, NEW begun \in BOOLEAN,
           NEW last \in Nat, Sound(q, shown, waiting, begun, last, FALSE), Ended(q) = 0,
           NEW f \in Frames,
           f.type = "response_start" => ~begun,
           f.type = "response_chunk" => begun /\ f.seq = last + 1,
           f.type = "response_end" => begun
    PROVE  Sound(Append(q, f), shown, waiting, begun \/ f.type = "response_start",
                 IF f.type = "response_chunk" THEN f.seq ELSE last, FALSE)
<1> DEFINE p == Append(q, f)
           n == Len(q)
<1>1. /\ p \in Seq(Frames) /\ p # <<>> /\ Len(p) = n + 1 /\ p[n + 1] = f /\ n \in Nat
      /\ \A i \in 1..n : p[i] = q[i]
      /\ DOMAIN q = 1..n /\ DOMAIN p = 1..(n + 1)
      /\ q = <<>> <=> n = 0
  OBVIOUS
<1>2. /\ Begun(q) \in {0, 1}
      /\ \A i \in 1..n : ~Terminal(q[i])
      /\ Begun(q) = 1 <=> n # 0 /\ q[1].type = "response_start"
  BY <1>1, EndsTyped DEF Sound
<1>3. /\ \A i \in 1..n :
            /\ q[i].type = "response_start" => i = 1 /\ waiting
            /\ q[i].type = "response_chunk" => q[i].seq = shown + i - Begun(q)
            /\ q[i].type = "response_chunk" => q[i].seq <= last
      /\ waiting /\ n # 0 => q[1].type \in {"response_start", "error"}
      /\ waiting => shown = 0
      /\ shown <= last
      /\ begun \/ (waiting /\ n = 0)
      /\ begun /\ waiting => n # 0
  BY <1>1, EndsTyped DEF Sound, Ordered
<1>4. last = shown + n - Begun(q)
  BY <1>1, <1>2 DEF Sound
<1>5. f.seq \in Int /\ \A i \in 1..n : q[i].seq \in Int
  BY <1>1, QueueTyped, FrameFields, ChunkAssumption
<1>6. Ended(p) = IF Terminal(f) THEN 1 ELSE 0
  BY <1>1 DEF Ended
<1>7. Begun(p) = IF f.type = "response_start" THEN 1 ELSE Begun(q)
  <2>1. CASE n = 0
    BY <1>1, <1>2, <2>1 DEF Begun
  <2>2. CASE n # 0
    <3>1. p[1] = q[1] /\ f.type # "response_start"
      BY <1>1, <1>3, <2>2
    <3> QED
      BY <1>1, <1>2, <2>2, <3>1 DEF Begun
  <2> QED
    BY <2>1, <2>2
<1> HIDE DEF p, n
<1>8. CASE f.type = "response_start"
  <2>1. n = 0 /\ waiting /\ shown = 0 /\ ~Terminal(f)
    BY <1>3, <1>8, TerminalTypes
  <2>2. last = 0 /\ Begun(p) = 1 /\ Ended(p) = 0 /\ p[1] = f /\ Len(p) = 1 /\ DOMAIN p = {1}
    BY <1>1, <1>2, <1>4, <1>6, <1>7, <1>8, <2>1
  <2>3. Ordered(p, shown, waiting)
    BY <1>8, <2>1, <2>2 DEF Ordered
  <2>4. \A i \in DOMAIN p : p[i].type # "response_chunk"
    BY <1>8, <2>2
  <2>5. p # <<>> /\ last = shown + Len(p) - Begun(p) - Ended(p) /\ shown <= last
    BY <1>1, <2>1, <2>2
  <2>6. Sound(p, shown, waiting, TRUE, last, FALSE)
    BY <2>1, <2>3, <2>4, <2>5 DEF Sound
  <2> QED
    BY <1>8, <2>6 DEF p
<1>9. CASE f.type = "response_chunk"
  <2>1. ~Terminal(f) /\ begun /\ f.seq = last + 1 /\ Begun(p) = Begun(q) /\ Ended(p) = 0
    BY <1>6, <1>7, <1>9, TerminalTypes
  <2>2. Ordered(p, shown, waiting)
    <3> SUFFICES ASSUME NEW i \in 1..(n + 1)
                 PROVE  /\ p[i].type = "response_start" => i = 1 /\ waiting
                        /\ p[i].type = "response_chunk" => p[i].seq = shown + i - Begun(q)
                        /\ ~Terminal(p[i])
      <4>1. waiting => p[1] = q[1] /\ n # 0
        BY <1>1, <1>3, <2>1
      <4> QED
        BY <1>1, <1>3, <2>1, <4>1 DEF Ordered
    <3>1. CASE i \in 1..n
      BY <1>1, <1>2, <1>3, <3>1
    <3>2. CASE i = n + 1
      BY <1>1, <1>2, <1>9, <1>4, <2>1, <3>2
    <3> QED
      BY <1>1, <3>1, <3>2
  <2>3. \A i \in 1..(n + 1) : p[i].type = "response_chunk" => p[i].seq <= last + 1
    <3> TAKE i \in 1..(n + 1)
    <3>1. CASE i \in 1..n
      BY <1>1, <1>3, <1>5, <3>1
    <3>2. CASE i = n + 1
      BY <1>1, <2>1, <3>2
    <3> QED
      BY <1>1, <3>1, <3>2
  <2>4. last + 1 = shown + (n + 1) - Begun(p) - Ended(p)
    BY <1>1, <1>2, <1>4, <2>1
  <2>5. Sound(p, shown, waiting, TRUE, last + 1, FALSE)
    BY <1>1, <1>3, <2>1, <2>2, <2>3, <2>4 DEF Sound
  <2> QED
    BY <1>9, <2>1, <2>5 DEF p
<1>10. CASE Terminal(f)
  <2>1. /\ f.type \in {"response_end", "error"} /\ Begun(p) = Begun(q) /\ Ended(p) = 1
    BY <1>6, <1>7, <1>10, TerminalTypes
  <2>2. Ordered(p, shown, waiting)
    BY <1>1, <1>2, <1>3, <2>1 DEF Ordered
  <2>3. \A i \in 1..(n + 1) : p[i].type = "response_chunk" => p[i].seq <= last
    BY <1>1, <1>3, <2>1
  <2>4. last = shown + (n + 1) - Begun(p) - Ended(p)
    BY <1>1, <1>2, <1>4, <2>1
  <2>5. Sound(p, shown, waiting, begun, last, FALSE)
    BY <1>1, <1>2, <1>3, <1>10, <2>1, <2>2, <2>3, <2>4 DEF Sound
  <2> QED
    BY <1>10, <2>1, <2>5, TerminalTypes DEF p
<1> QED
  BY <1>8, <1>9, <1>10, TerminalTypes

\* A frame that is lost leaves the rest sound, of an attempt that is dropped.
LEMMA SoundLose ==
    ASSUME NEW q \in Seq(Frames), NEW shown \in Nat, NEW waiting \in BOOLEAN, NEW begun \in BOOLEAN,
           NEW last \in Nat, Sound(q, shown, waiting, begun, last, FALSE), Ended(q) = 0,
           NEW f \in Frames,
           f.type = "response_chunk" => f.seq = last + 1
    PROVE  Sound(q, shown, waiting, begun \/ f.type = "response_start",
                 IF f.type = "response_chunk" THEN f.seq ELSE last, TRUE)
<1>1. \A i \in DOMAIN q : q[i] \in Frames
  OBVIOUS
<1>2. \A i \in DOMAIN q : q[i].seq \in Int
  BY <1>1, FrameFields, ChunkAssumption
<1> QED
  BY <1>2 DEF Sound

\* response_start is read: the handler no longer waits for it.
LEMMA SoundStart ==
    ASSUME NEW q \in Seq(Frames), NEW shown \in Nat, NEW waiting \in BOOLEAN, NEW begun \in BOOLEAN,
           NEW last \in Nat, NEW dropped \in BOOLEAN, Sound(q, shown, waiting, begun, last, dropped),
           q # <<>>, q[1].type = "response_start"
    PROVE  Sound(Tail(q), shown, FALSE, begun, last, dropped)
<1> DEFINE p == Tail(q)
           n == Len(p)
<1>1. /\ p \in Seq(Frames) /\ n \in Nat /\ Len(q) = n + 1 /\ DOMAIN q = 1..(n + 1) /\ DOMAIN p = 1..n
      /\ \A i \in 1..n : p[i] = q[i + 1]
      /\ p = <<>> <=> n = 0
  BY TailFacts
<1>2. Begun(q) = 1 /\ begun
  BY EndsTyped DEF Sound
<1>3. \A i \in 1..n : i + 1 \in 1..(n + 1) /\ i + 1 # 1
  BY <1>1
<1> HIDE DEF p, n
<1>4. /\ \A i \in 1..n :
            /\ p[i].type # "response_start"
            /\ p[i].type = "response_chunk" => p[i].seq = shown + i /\ p[i].seq <= last
            /\ Terminal(p[i]) => i = n
  <2> SUFFICES ASSUME NEW i \in 1..n
               PROVE  /\ p[i].type # "response_start"
                      /\ p[i].type = "response_chunk" => p[i].seq = shown + i /\ p[i].seq <= last
                      /\ Terminal(p[i]) => i = n
    OBVIOUS
  <2>1. p[i] = q[i + 1] /\ i + 1 \in DOMAIN q /\ i + 1 # 1
    BY <1>1, <1>3
  <2> QED
    BY <1>1, <1>2, <2>1 DEF Sound, Ordered
<1>5. Begun(p) = 0
  BY <1>1, <1>4 DEF Begun
<1>6. Ended(p) = Ended(q)
  BY EndKept DEF p
<1>7. Ordered(p, shown, FALSE)
  BY <1>1, <1>4, <1>5 DEF Ordered
<1>8. Ended(q) \in {0, 1}
  BY EndsTyped DEF Sound
<1>9. ~dropped => last = shown + n - Begun(p) - Ended(p)
  BY <1>1, <1>2, <1>5, <1>6, <1>8 DEF Sound
<1>10. Sound(p, shown, FALSE, begun, last, dropped)
  BY <1>1, <1>2, <1>4, <1>6, <1>7, <1>9 DEF Sound, n
<1> QED
  BY <1>10 DEF p

\* A chunk is read: it is the next one, and one more is shown.
LEMMA SoundChunk ==
    ASSUME NEW q \in Seq(Frames), NEW shown \in Nat, NEW waiting \in BOOLEAN, NEW begun \in BOOLEAN,
           NEW last \in Nat, NEW dropped \in BOOLEAN, Sound(q, shown, waiting, begun, last, dropped),
           q # <<>>, q[1].type = "response_chunk"
    PROVE  /\ ~waiting
           /\ q[1].seq = shown + 1 /\ shown + 1 <= last
           /\ Sound(Tail(q), shown + 1, waiting, begun, last, dropped)
<1> DEFINE p == Tail(q)
           n == Len(p)
<1>1. /\ p \in Seq(Frames) /\ n \in Nat /\ Len(q) = n + 1 /\ DOMAIN q = 1..(n + 1) /\ DOMAIN p = 1..n
      /\ \A i \in 1..n : p[i] = q[i + 1]
      /\ p = <<>> <=> n = 0
  BY TailFacts
<1>2. Begun(q) = 0 /\ ~waiting /\ begun
  BY DEF Sound, Ordered, Begun
<1>3. \A i \in 1..n : i + 1 \in 1..(n + 1) /\ i + 1 # 1
  BY <1>1
<1>4. 1 \in DOMAIN q
  BY <1>1
<1>5. q[1].seq = shown + 1 /\ q[1].seq <= last
  BY <1>2, <1>4 DEF Sound, Ordered
<1> HIDE DEF p, n
<1>6. \A i \in 1..n :
            /\ p[i].type # "response_start"
            /\ p[i].type = "response_chunk" => p[i].seq = shown + 1 + i /\ p[i].seq <= last
            /\ Terminal(p[i]) => i = n
  <2> SUFFICES ASSUME NEW i \in 1..n
               PROVE  /\ p[i].type # "response_start"
                      /\ p[i].type = "response_chunk" => p[i].seq = shown + 1 + i /\ p[i].seq <= last
                      /\ Terminal(p[i]) => i = n
    OBVIOUS
  <2>1. p[i] = q[i + 1] /\ i + 1 \in DOMAIN q /\ i + 1 # 1
    BY <1>1, <1>3
  <2>2. /\ q[i + 1].type # "response_start"
        /\ q[i + 1].type = "response_chunk" => q[i + 1].seq = shown + (i + 1) - 0 /\ q[i + 1].seq <= last
        /\ Terminal(q[i + 1]) => i + 1 = n + 1
    BY <1>1, <1>2, <2>1 DEF Sound, Ordered
  <2>3. shown + (i + 1) - 0 = shown + 1 + i /\ (i + 1 = n + 1 => i = n)
    BY <1>1
  <2> QED
    BY <2>1, <2>2, <2>3
<1>7. Begun(p) = 0
  BY <1>1, <1>6 DEF Begun
<1>8. Ended(p) = Ended(q)
  BY EndKept DEF p
<1>9. Ordered(p, shown + 1, waiting)
  BY <1>1, <1>2, <1>6, <1>7 DEF Ordered
<1>10. Ended(q) \in {0, 1}
  BY EndsTyped DEF Sound
<1>11. ~dropped => last = (shown + 1) + n - Begun(p) - Ended(p)
  <2>1. ~dropped => last = shown + (n + 1) - 0 - Ended(q)
    BY <1>1, <1>2 DEF Sound
  <2>2. \A i, j \in Nat : \A e \in {0, 1} : i + (j + 1) - 0 - e = (i + 1) + j - 0 - e
    OBVIOUS
  <2>3. n \in Nat
    BY <1>1
  <2>4. shown + (n + 1) - 0 - Ended(q) = (shown + 1) + n - 0 - Ended(q)
    BY <1>10, <2>2, <2>3
  <2> QED
    BY <1>7, <1>8, <2>1, <2>4
<1>12. Sound(p, shown + 1, waiting, begun, last, dropped)
  BY <1>1, <1>2, <1>5, <1>6, <1>8, <1>9, <1>11 DEF Sound, n
<1> QED
  BY <1>2, <1>5, <1>12 DEF p
-----------------------------------------------------------------------------
(* What a step may do to the variables the strengthening speaks of.         *)

IInv == /\ TypeOK /\ Placement /\ Registration
        /\ Unread /\ Body /\ Reception /\ Disconnected /\ Succession /\ Awake

handlerState == <<pc, attempt, out, starting, reply>>
attemptState == <<events, seq, started, failure>>

\* Nothing but the control point of a session, which neither ends nor restarts.
Elsewhere ==
    /\ UNCHANGED <<attemptState, handlerState, dropping, requested, job, jobs>>
    /\ \A s \in Sessions :
        /\ conn[s] = "gone" => conn'[s] = "gone"
        /\ conn'[s] = "gone" => conn[s] \in {"new", "gone"}
        /\ conn'[s] = "new" => conn[s] = "new"

\* A session ends.
Ends(s) ==
    /\ UNCHANGED <<events, seq, started, handlerState, dropping, requested, job, jobs>>
    /\ conn[s] \in {"registered", "reading"}
    /\ EndSession(s)

\* A handler is accepted, or answers before it has selected.
Steps(r) ==
    /\ UNCHANGED <<attemptState, attempt, out, starting, dropping, requested, job, jobs, conn>>
    /\ \/ pc[r] = "idle" /\ pc' = [pc EXCEPT ![r] = "selecting"] /\ UNCHANGED reply
       \/ /\ pc[r] \in {"idle", "selecting"} /\ pc' = [pc EXCEPT ![r] = "done"]
          /\ reply' = [reply EXCEPT ![r] = "error"]

\* What the handler must have shown, or be about to read, to answer so.
Justified(r, how) ==
    LET q == events[Current(r)] IN
    /\ how = "complete" => out[r] # <<>> /\ q # <<>> /\ q[1].type = "response_end"
    /\ how = "interrupted" => out[r] # <<>> \/ (q # <<>> /\ q[1].type = "response_chunk")
    /\ how \in {"error", "abandoned"} => out[r] = <<>>

\* How an attempt is left: for another, while nothing is shown, or for good.
Closing(r) ==
    \/ Retry(r) /\ attempt[r] = 0 /\ out[r] = <<>>
    \/ \E how \in {"error", "complete", "interrupted", "abandoned"} :
        Answer(r, how) /\ Justified(r, how)

Leaves(r) ==
    /\ Abandon(Current(r), Held(Current(r)))
    /\ UNCHANGED <<out, job, jobs, conn>>
    /\ Closing(r)

\* It is left before its request is sent, or with the request half sent.
LeavesUnsent(r) ==
    /\ pc[r] = "selected"
    /\ UNCHANGED <<attemptState, starting>>
    /\ requested \subseteq requested' /\ requested' \subseteq requested \cup {Current(r)}
    /\ Leaves(r)

\* It is left by forward.
LeavesForward(r) ==
    /\ pc[r] = "forwarding"
    /\ UNCHANGED requested
    /\ Leave(r)
    /\ Leaves(r)

\* A frame of an attempt is recorded: queued, or lost.
Records(s, a, f) ==
    /\ Track(s, a, f)
    /\ UNCHANGED <<handlerState, requested, job, conn>>
    /\ \/ /\ events' = [events EXCEPT ![a] = Append(@, f)]
          /\ UNCHANGED <<failure, dropping>>
       \/ /\ UNCHANGED events
          /\ failure' = Fail(failure, {a}, "slow_consumer")
          /\ dropping' = [dropping EXCEPT ![a] = TRUE]

\* A frame of an attempt that was given up.
Ignores(s, a, f) ==
    /\ UNCHANGED <<attemptState, handlerState, dropping, requested, job, conn>>
    /\ a \in jobs[s] /\ dropping[a]
    /\ jobs' = [jobs EXCEPT ![s] = Reserved(s, a, f)]

\* A frame is taken from the queue and shown to the buyer, if it is a chunk.
Takes(r) ==
    /\ UNCHANGED <<seq, started, failure, pc, attempt, reply, dropping, requested, job, jobs, conn>>
    /\ Forwarding(r) /\ events[Current(r)] # <<>>
    /\ events' = [events EXCEPT ![Current(r)] = Tail(@)]
    /\ \/ /\ events[Current(r)][1].type = "response_start"
          /\ starting' = [starting EXCEPT ![r] = FALSE]
          /\ UNCHANGED out
       \/ /\ events[Current(r)][1].type = "response_chunk"
          /\ out' = [out EXCEPT ![r] = Append(@, <<attempt[r], events[Current(r)][1].seq>>)]
          /\ UNCHANGED starting

\* A handler that still waits for response_start has shown nothing.
LEMMA NothingShown ==
    ASSUME IInv, NEW r \in Requests, Ready(r, "response_start")
    PROVE  out[r] = <<>>
<1> DEFINE q == events[Current(r)]
<1>1. Forwarding(r) /\ q # <<>> /\ q \in Seq(Frames) /\ q[1].type = "response_start"
  BY CurrentTyped DEF IInv, TypeOK, Ready, Forwarding
<1>2. 1 \in DOMAIN q
  BY <1>1
<1>3. starting[r] /\ Len(out[r]) = 0
  BY <1>1, <1>2 DEF IInv, Reception, Received, Sound, Ordered
<1>4. out[r] \in Seq({0, 1} \X (1..MaxSeq))
  BY DEF IInv, TypeOK
<1> QED
  BY <1>3, <1>4

\* Every end of forward is one of those.
LEMMA ForwardSteps ==
    ASSUME IInv, NEW r \in Requests, Forward(r)
    PROVE  LeavesForward(r) \/ Takes(r)
<1> USE DEF handlerState, attemptState
<1>1. ASSUME NEW retryable, FailWith(r, retryable) PROVE Closing(r)
  BY <1>1 DEF FailWith, Closing, Justified
<1>2. ASSUME pc[r] = "forwarding", Leave(r), UNCHANGED buyerVars, Closing(r)
      PROVE  LeavesForward(r)
  BY <1>2 DEF Leave, LeavesForward, Leaves
<1>3. ASSUME NEW type, Ready(r, type)
      PROVE  pc[r] = "forwarding" /\ events[Current(r)] # <<>> /\ events[Current(r)][1].type = type
  <2>1. pc[r] = "forwarding" /\ events[Current(r)] # <<>> /\ Head(events[Current(r)]).type = type
    BY <1>3 DEF Ready
  <2>2. Head(events[Current(r)]) = events[Current(r)][1]
    BY <2>1, CurrentTyped DEF IInv, TypeOK
  <2> QED
    BY <2>1, <2>2
<1>4. CASE TakeStart(r)
  BY <1>4, <1>3 DEF TakeStart, Consume, Takes, Forwarding
<1>5. CASE TakeChunk(r)
  <2>1. /\ Forwarding(r) /\ events[Current(r)] # <<>>
        /\ events[Current(r)][1].type = "response_chunk"
    BY <1>5, <1>3 DEF TakeChunk, Forwarding
  <2>2. Head(events[Current(r)]) = events[Current(r)][1]
    BY <2>1, CurrentTyped DEF IInv, TypeOK
  <2> QED
    BY <1>5, <2>1, <2>2 DEF TakeChunk, Consume, Takes
<1>6. CASE ContextDone(r)
  BY <1>1, <1>2, <1>6 DEF ContextDone
<1>7. CASE StartTimeout(r)
  BY <1>1, <1>2, <1>7 DEF StartTimeout
<1>8. CASE TakeFailure(r)
  BY <1>1, <1>2, <1>8 DEF TakeFailure
<1>9. CASE TakeBadStart(r)
  <2>1. pc[r] = "forwarding" /\ Leave(r) /\ UNCHANGED buyerVars /\ out[r] = <<>>
    BY <1>9, NothingShown DEF TakeBadStart, Ready
  <2>2. (Retry(r) /\ attempt[r] = 0) \/ Answer(r, "error") \/ FailWith(r, TRUE)
    BY <1>9 DEF TakeBadStart
  <2>3. Closing(r)
    BY <1>1, <2>1, <2>2 DEF Closing, Justified
  <2> QED
    BY <1>2, <2>1, <2>3
<1>10. CASE TakeChunkWriteFails(r)
  <2>1. Closing(r)
    BY <1>10, <1>3 DEF TakeChunkWriteFails, Closing, Justified
  <2> QED
    BY <1>2, <1>10, <2>1 DEF TakeChunkWriteFails, Ready
<1>11. CASE TakeEnd(r)
  <2>1. Closing(r)
    BY <1>1, <1>11, <1>3 DEF TakeEnd, Closing, Justified
  <2> QED
    BY <1>2, <1>11, <2>1 DEF TakeEnd, Ready
<1>12. CASE TakeError(r)
  BY <1>1, <1>2, <1>12 DEF TakeError, Ready
<1> QED
  BY <1>4, <1>5, <1>6, <1>7, <1>8, <1>9, <1>10, <1>11, <1>12 DEF Forward

\* Every step is one of these, as far as streams and handlers are concerned.
LEMMA FlowSteps ==
    ASSUME IInv, [Next]_vars
    PROVE  \/ Elsewhere
           \/ \E s \in Sessions : Ends(s)
           \/ \E r \in Requests :
                \/ Steps(r) \/ SendOK(r) \/ LeavesUnsent(r) \/ LeavesForward(r) \/ Takes(r)
                \/ \E s \in Sessions, o \in Offers : Select(r, s, o)
           \/ \E s \in Sessions, a \in Attempts, f \in Frames : Records(s, a, f) \/ Ignores(s, a, f)
<1> USE DEF handlerState, attemptState
<1>1. conn \in [Sessions -> {"new", "registered", "reading", "gone"}]
  BY DEF IInv, TypeOK
<1>2. ASSUME NEW s \in Sessions, Session(s) PROVE Elsewhere \/ Ends(s)
  <2>1. ASSUME NEW c \in Catalogs[Owner[s]], Register(s, c) \/ UpdateCatalog(s, c) PROVE Elsewhere
    BY <1>1, <2>1 DEF Register, UpdateCatalog, Elsewhere
  <2>2. CASE Refuse(s) \/ WelcomeSent(s)
    BY <1>1, <2>2 DEF Refuse, WelcomeSent, Elsewhere
  <2>3. CASE Heartbeat(s) \/ Ticker(s) \/ CloseNow(s)
    BY <2>3 DEF Heartbeat, Ticker, CloseNow, Elsewhere
  <2>4. CASE WelcomeFails(s) \/ HeartbeatUnanswered(s) \/ BadFrame(s) \/ ReadFails(s)
    BY <2>4 DEF WelcomeFails, HeartbeatUnanswered, BadFrame, ReadFails, Readable, EndSession, Ends
  <2> QED
    BY <1>2, <2>1, <2>2, <2>3, <2>4 DEF Session
<1>3. ASSUME NEW s \in Sessions, NEW a \in Attempts, NEW f \in Frames, Deliver(s, a, f)
      PROVE  Ends(s) \/ Records(s, a, f) \/ Ignores(s, a, f)
  <2>1. CASE DeliverViolation(s, a, f)
    BY <2>1 DEF DeliverViolation, Incoming, Readable, EndSession, Ends
  <2>2. CASE DeliverDropped(s, a, f)
    BY <2>2 DEF DeliverDropped, Incoming, Ignores
  <2>3. CASE DeliverQueued(s, a, f)
    BY <2>3 DEF DeliverQueued, Records
  <2>4. CASE DeliverOverflow(s, a, f)
    BY <2>4 DEF DeliverOverflow, Records, Abandon
  <2> QED
    BY <1>3, <2>1, <2>2, <2>3, <2>4 DEF Deliver
<1>4. ASSUME NEW a \in Attempts, Reaper(a) PROVE Elsewhere
  BY <1>4 DEF Reaper, CancelWritten, CancelFails, ReaperQuits, ReaperTimesOut, Elsewhere
<1>5. ASSUME NEW r \in Requests, Dispatch(r)
      PROVE  \/ Steps(r) \/ SendOK(r) \/ LeavesUnsent(r)
             \/ \E s \in Sessions, o \in Offers : Select(r, s, o)
  <2>1. CASE NoCapacity(r)
    BY <2>1 DEF NoCapacity, Answer, Steps
  <2>2. CASE DeadlineExceeded(r)
    <3>1. out[r] = <<>> /\ Answer(r, "error")
      BY <2>2 DEF DeadlineExceeded, IInv, Body
    <3>2. Closing(r)
      BY <3>1 DEF Closing, Justified
    <3> QED
      BY <2>2, <3>2 DEF DeadlineExceeded, LeavesUnsent, Leaves
  <2>3. ASSUME NEW written \in BOOLEAN, SendFails(r, written) PROVE LeavesUnsent(r)
    <3>1. pc[r] = "selected" /\ out[r] = <<>>
      BY <2>3 DEF SendFails, IInv, Body
    <3>2. Closing(r)
      BY <2>3, <3>1 DEF SendFails, Closing, Justified
    <3> QED
      BY <2>3, <3>1, <3>2 DEF SendFails, LeavesUnsent, Leaves
  <2> QED
    BY <1>5, <2>1, <2>2, <2>3 DEF Dispatch
<1>6. ASSUME NEW r \in Requests, ArriveInvalid(r) \/ \E m \in Models : Arrive(r, m)
      PROVE  Steps(r)
  BY <1>6 DEF Arrive, ArriveInvalid, Steps
<1>7. CASE Close
  BY <1>7 DEF Close, Elsewhere
<1>8. CASE Environment
  BY <1>8 DEF Environment, Lapse, LinkStalls, LinkFails, Expire, BuyerLeaves, Elsewhere
<1>9. CASE UNCHANGED vars
  BY <1>9 DEF vars, Elsewhere
<1> QED
  BY <1>2, <1>3, <1>4, <1>5, <1>6, <1>7, <1>8, <1>9, ForwardSteps DEF Next

-----------------------------------------------------------------------------
(* Each part of the strengthening is kept by every step.                    *)

\* An attempt is its request's, and is read only while it is the current one.
LEMMA AttemptParts ==
    /\ \A a \in Attempts : a[1] \in Requests /\ a[2] \in {0, 1} /\ a = <<a[1], a[2]>>
    /\ \A r \in Requests : Current(r)[1] = r /\ (Reading(Current(r)) <=> Forwarding(r))
BY DEF Attempts, Current, Reading

\* What a handler reads of its attempt is typed as the lemmas on queues ask.
LEMMA ReadTyped ==
    ASSUME TypeOK, NEW r \in Requests
    PROVE  /\ events[Current(r)] \in Seq(Frames)
           /\ out[r] \in Seq({0, 1} \X (1..MaxSeq)) /\ Len(out[r]) \in Nat
           /\ starting[r] \in BOOLEAN /\ started[Current(r)] \in BOOLEAN
           /\ seq[Current(r)] \in Nat /\ dropping[Current(r)] \in BOOLEAN
<1>1. Current(r) \in Attempts
  BY CurrentTyped
<1>2. seq[Current(r)] \in Nat
  <2>1. seq[Current(r)] \in 0..MaxSeq
    BY <1>1 DEF TypeOK
  <2> QED
    BY <2>1, ChunkAssumption
<1>3. out[r] \in Seq({0, 1} \X (1..MaxSeq))
  BY DEF TypeOK
<1>4. Len(out[r]) \in Nat
  BY <1>3
<1> QED
  BY <1>1, <1>2, <1>3, <1>4 DEF TypeOK

\* An agent's frame that is recorded is of an attempt that is being read.
LEMMA RecordsRead ==
    ASSUME IInv, NEW s \in Sessions, NEW a \in Attempts, NEW f \in Frames, Records(s, a, f)
    PROVE  /\ a[1] \in Requests /\ a = Current(a[1]) /\ Forwarding(a[1])
           /\ a \in jobs[s] /\ job[a] # None /\ SessionOf(a) = s /\ Held(a) /\ conn[s] = "reading"
           /\ ~dropping[a] /\ ~OutOfOrder(a, f)
<1>1. /\ a \in requested /\ a \in jobs[s] /\ ~dropping[a] /\ ~OutOfOrder(a, f) /\ conn[s] = "reading"
  BY DEF Records, Track, Incoming, Readable
<1>2. Reading(a)
  BY <1>1 DEF IInv, Unread
<1>3. job[a] # None /\ SessionOf(a) = s
  BY <1>1 DEF IInv, Placement
<1> QED
  BY <1>1, <1>2, <1>3, AttemptParts DEF Reading, Held

\* An attempt that is left or not yet read has nothing, and gains nothing.
LEMMA UnreadNext ==
    ASSUME IInv, TypeOK', [Next]_vars
    PROVE  Unread'
<1> USE DEF handlerState, attemptState
<1>1. TypeOK /\ Unread
  BY DEF IInv
<1> SUFFICES ASSUME NEW b \in Attempts, ~Reading(b)'
             PROVE  /\ events'[b] = <<>> /\ seq'[b] = 0 /\ ~started'[b]
                    /\ b \in requested' => dropping'[b]
  BY DEF Unread
<1>2. CASE Elsewhere \/ \E s \in Sessions : Ends(s)
  BY <1>1, <1>2 DEF Elsewhere, Ends, Unread, Reading, Forwarding, Current
<1>3. ASSUME NEW r \in Requests, Steps(r) \/ \E s \in Sessions, o \in Offers : Select(r, s, o)
      PROVE  /\ events'[b] = <<>> /\ seq'[b] = 0 /\ ~started'[b]
             /\ b \in requested' => dropping'[b]
  <2>1. UNCHANGED <<attemptState, attempt, dropping, requested>>
    BY <1>3 DEF Steps, Select
  <2>2. /\ pc[r] # "forwarding"
        /\ \A q \in Requests : q # r => pc'[q] = pc[q]
    <3>1. pc \in [Requests -> {"idle", "selecting", "selected", "forwarding", "done"}]
      BY <1>1 DEF TypeOK
    <3>2. CASE Steps(r)
      BY <3>1, <3>2 DEF Steps
    <3>3. ASSUME NEW s \in Sessions, NEW o \in Offers, Select(r, s, o)
          PROVE  pc[r] = "selecting" /\ \A q \in Requests : q # r => pc'[q] = pc[q]
      BY <3>1, <3>3 DEF Select
    <3> QED
      BY <1>3, <3>2, <3>3
  <2>3. ~Reading(b)
    BY <2>1, <2>2, AttemptParts DEF Reading, Forwarding, Current
  <2> QED
    BY <1>1, <2>1, <2>3 DEF Unread
<1>4. ASSUME NEW r \in Requests, SendOK(r)
      PROVE  /\ events'[b] = <<>> /\ seq'[b] = 0 /\ ~started'[b]
             /\ b \in requested' => dropping'[b]
  <2>1. /\ UNCHANGED <<attemptState, attempt, dropping>> /\ requested' = requested \cup {Current(r)}
        /\ pc' = [pc EXCEPT ![r] = "forwarding"]
    BY <1>4 DEF SendOK
  <2>2. b # Current(r)
    BY <1>1, <2>1, AttemptParts DEF Reading, Forwarding, Current, TypeOK
  <2>3. ~Reading(b)
    BY <1>1, <2>1 DEF Reading, Forwarding, Current, TypeOK
  <2> QED
    BY <1>1, <2>1, <2>2, <2>3 DEF Unread
<1>5. ASSUME NEW r \in Requests, LeavesUnsent(r)
      PROVE  /\ events'[b] = <<>> /\ seq'[b] = 0 /\ ~started'[b]
             /\ b \in requested' => dropping'[b]
  <2>1. /\ UNCHANGED attemptState /\ pc[r] = "selected"
        /\ requested' \subseteq requested \cup {Current(r)}
        /\ dropping' = [dropping EXCEPT ![Current(r)] = TRUE]
    BY <1>5 DEF LeavesUnsent, Leaves, Closing, Abandon
  <2>2. \A q \in Requests : q # r => pc'[q] = pc[q] /\ attempt'[q] = attempt[q]
    BY <1>1, <1>5 DEF LeavesUnsent, Leaves, Closing, Retry, Answer, TypeOK
  <2>3. ~Reading(b)
    BY <2>1, <2>2, AttemptParts DEF Reading, Forwarding, Current
  <2> QED
    BY <1>1, <2>1, <2>3 DEF Unread, TypeOK
<1>6. ASSUME NEW r \in Requests, LeavesForward(r)
      PROVE  /\ events'[b] = <<>> /\ seq'[b] = 0 /\ ~started'[b]
             /\ b \in requested' => dropping'[b]
  <2> DEFINE c == Current(r)
  <2>1. /\ events' = [events EXCEPT ![c] = <<>>]
        /\ started' = [started EXCEPT ![c] = FALSE]
        /\ seq' = [seq EXCEPT ![c] = 0]
        /\ dropping' = [dropping EXCEPT ![c] = TRUE]
        /\ requested' = requested
    BY <1>6 DEF LeavesForward, Leave, Abandon
  <2>2. \A q \in Requests : q # r => pc'[q] = pc[q] /\ attempt'[q] = attempt[q]
    BY <1>1, <1>6 DEF LeavesForward, Leaves, Closing, Retry, Answer, TypeOK
  <2>3. CASE b = c
    BY <1>1, <2>1, <2>3 DEF TypeOK
  <2>4. CASE b # c
    <3>1. ~Reading(b)
      BY <2>2, <2>4, AttemptParts DEF Reading, Forwarding, Current
    <3> QED
      BY <1>1, <2>1, <2>4, <3>1 DEF Unread, TypeOK
  <2> QED
    BY <2>3, <2>4
<1>7. ASSUME NEW r \in Requests, Takes(r)
      PROVE  /\ events'[b] = <<>> /\ seq'[b] = 0 /\ ~started'[b]
             /\ b \in requested' => dropping'[b]
  <2>1. /\ UNCHANGED <<pc, attempt, seq, started, dropping, requested>> /\ Forwarding(r)
        /\ events' = [events EXCEPT ![Current(r)] = Tail(@)]
    BY <1>7 DEF Takes
  <2>2. ~Reading(b)
    BY <2>1 DEF Reading, Forwarding, Current
  <2>3. b # Current(r)
    BY <2>1, <2>2, AttemptParts
  <2> QED
    BY <1>1, <2>1, <2>2, <2>3 DEF Unread, TypeOK
<1>8. ASSUME NEW s \in Sessions, NEW a \in Attempts, NEW f \in Frames, Records(s, a, f)
      PROVE  /\ events'[b] = <<>> /\ seq'[b] = 0 /\ ~started'[b]
             /\ b \in requested' => dropping'[b]
  <2>1. UNCHANGED <<pc, attempt, requested>>
    BY <1>8 DEF Records
  <2>2. ~Reading(b)
    BY <2>1 DEF Reading, Forwarding, Current
  <2>3. b # a
    BY <1>8, <2>2, RecordsRead DEF Reading
  <2>4. /\ started'[b] = started[b] /\ seq'[b] = seq[b]
    BY <1>1, <1>8, <2>3 DEF Records, Track, TypeOK
  <2>5. events'[b] = events[b] /\ dropping'[b] = dropping[b]
    BY <1>1, <1>8, <2>3 DEF Records, TypeOK
  <2> QED
    BY <1>1, <2>1, <2>2, <2>4, <2>5 DEF Unread
<1>9. ASSUME NEW s \in Sessions, NEW a \in Attempts, NEW f \in Frames, Ignores(s, a, f)
      PROVE  /\ events'[b] = <<>> /\ seq'[b] = 0 /\ ~started'[b]
             /\ b \in requested' => dropping'[b]
  BY <1>1, <1>9 DEF Ignores, Unread, Reading, Forwarding, Current
<1> QED
  BY <1>2, <1>3, <1>4, <1>5, <1>6, <1>7, <1>8, <1>9, FlowSteps

\* The body grows by the current attempt alone, and a retry finds it empty.
LEMMA BodyNext ==
    ASSUME IInv, TypeOK', [Next]_vars
    PROVE  Body'
<1> USE DEF handlerState, attemptState
<1>1. TypeOK /\ Body
  BY DEF IInv
<1> DEFINE Mine(q) ==
        /\ \A i \in DOMAIN out[q] : out[q][i] = <<attempt[q], i>>
        /\ pc[q] \in {"idle", "selecting", "selected"} => out[q] = <<>>
        /\ pc[q] = "selected" => ~dropping[Current(q)]
<1> SUFFICES ASSUME NEW q \in Requests PROVE Mine(q)'
  BY DEF Body
<1>2. Mine(q)
  BY <1>1 DEF Body
<1>3. CASE Elsewhere \/ \E s \in Sessions : Ends(s)
  BY <1>2, <1>3 DEF Elsewhere, Ends, Current
<1>4. ASSUME NEW r \in Requests, Steps(r) PROVE Mine(q)'
  <2>1. UNCHANGED <<attempt, out, dropping>>
    BY <1>4 DEF Steps
  <2>2. /\ pc'[q] \in {"idle", "selecting"} => pc[q] \in {"idle", "selecting"}
        /\ pc'[q] = "selected" => pc[q] = "selected"
    BY <1>1, <1>4 DEF Steps, TypeOK
  <2> QED
    BY <1>2, <2>1, <2>2 DEF Current
<1>5. ASSUME NEW r \in Requests, NEW s \in Sessions, NEW o \in Offers, Select(r, s, o)
      PROVE  Mine(q)'
  <2>1. UNCHANGED <<attempt, out, dropping>> /\ pc[r] = "selecting" /\ pc' = [pc EXCEPT ![r] = "selected"]
    BY <1>5 DEF Select
  <2>2. ~dropping[Current(r)] /\ out[r] = <<>>
    BY <2>1, CurrentTyped DEF IInv, Placement, Body
  <2>3. q # r => pc'[q] = pc[q]
    BY <1>1, <2>1 DEF TypeOK
  <2> QED
    BY <1>2, <2>1, <2>2, <2>3 DEF Current
<1>6. ASSUME NEW r \in Requests, SendOK(r) PROVE Mine(q)'
  <2>1. UNCHANGED <<attempt, out, dropping>> /\ pc' = [pc EXCEPT ![r] = "forwarding"]
    BY <1>6 DEF SendOK
  <2>2. pc'[q] = pc[q] \/ pc'[q] = "forwarding"
    BY <1>1, <2>1 DEF TypeOK
  <2> QED
    BY <1>2, <2>1, <2>2 DEF Current
<1>7. ASSUME NEW r \in Requests, LeavesUnsent(r) \/ LeavesForward(r) PROVE Mine(q)'
  <2>1. /\ UNCHANGED out
        /\ dropping' = [dropping EXCEPT ![Current(r)] = TRUE]
        /\ \/ Retry(r) /\ attempt[r] = 0 /\ out[r] = <<>>
           \/ \E how \in {"error", "complete", "interrupted", "abandoned"} : Answer(r, how)
    BY <1>7 DEF LeavesUnsent, LeavesForward, Leaves, Closing, Abandon
  <2>2. CASE q = r
    <3>1. CASE Retry(r) /\ out[r] = <<>>
      <4>1. pc'[q] = "selecting"
        BY <1>1, <2>2, <3>1 DEF Retry, TypeOK
      <4> QED
        BY <2>1, <2>2, <3>1, <4>1
    <3>2. ASSUME NEW how, Answer(r, how) PROVE Mine(q)'
      <4>1. pc'[q] = "done" /\ attempt' = attempt
        BY <1>1, <2>2, <3>2 DEF Answer, TypeOK
      <4> QED
        BY <1>2, <2>1, <4>1
    <3> QED
      BY <2>1, <3>1, <3>2
  <2>3. CASE q # r
    <3>1. pc'[q] = pc[q] /\ attempt'[q] = attempt[q]
      BY <1>1, <2>1, <2>3 DEF Retry, Answer, TypeOK
    <3>2. dropping'[Current(q)'] = dropping[Current(q)]
      BY <1>1, <2>1, <2>3, <3>1, CurrentTyped DEF Current, TypeOK
    <3> QED
      BY <1>2, <2>1, <3>1, <3>2
  <2> QED
    BY <2>2, <2>3
<1>8. ASSUME NEW r \in Requests, Takes(r) PROVE Mine(q)'
  <2>1. /\ UNCHANGED <<pc, attempt, dropping>> /\ pc[r] = "forwarding"
    BY <1>8 DEF Takes, Forwarding
  <2>2. CASE out' = out
    BY <1>2, <2>1, <2>2 DEF Current
  <2> DEFINE c == events[Current(r)]
             m == <<attempt[r], c[1].seq>>
  <2>3. CASE /\ c # <<>> /\ c[1].type = "response_chunk"
             /\ out' = [out EXCEPT ![r] = Append(@, m)]
    <3>1. /\ c \in Seq(Frames) /\ out[r] \in Seq({0, 1} \X (1..MaxSeq))
          /\ starting[r] \in BOOLEAN /\ started[Current(r)] \in BOOLEAN
          /\ seq[Current(r)] \in Nat /\ dropping[Current(r)] \in BOOLEAN
      BY <1>1, ReadTyped
    <3>2. Sound(c, Len(out[r]), starting[r], started[Current(r)], seq[Current(r)], dropping[Current(r)])
      BY <1>8 DEF Takes, IInv, Reception, Received
    <3>3. Len(out[r]) \in Nat
      BY <3>1
    <3>4. c[1].seq = Len(out[r]) + 1
      BY <2>3, <3>1, <3>2, <3>3, SoundChunk
    <3>5. CASE q = r
      <4>1. out'[q] = Append(out[q], <<attempt[q], Len(out[q]) + 1>>)
        BY <1>1, <2>3, <3>4, <3>5 DEF TypeOK
      <4>2. \A i \in DOMAIN out'[q] : out'[q][i] = <<attempt[q], i>>
        BY <1>2, <3>1, <3>5, <4>1
      <4> QED
        BY <2>1, <3>5, <4>2 DEF Current
    <3>6. CASE q # r
      <4>1. out'[q] = out[q]
        BY <1>1, <2>3, <3>6 DEF TypeOK
      <4> QED
        BY <1>2, <2>1, <4>1 DEF Current
    <3> QED
      BY <3>5, <3>6
  <2> QED
    BY <1>8, <2>2, <2>3 DEF Takes
<1>9. ASSUME NEW s \in Sessions, NEW a \in Attempts, NEW f \in Frames, Records(s, a, f) \/ Ignores(s, a, f)
      PROVE  Mine(q)'
  <2>1. UNCHANGED <<pc, attempt, out>>
    BY <1>9 DEF Records, Ignores
  <2>2. pc[q] = "selected" => dropping'[Current(q)] = dropping[Current(q)]
    <3>1. CASE Ignores(s, a, f)
      BY <3>1 DEF Ignores
    <3>2. CASE Records(s, a, f)
      <4>1. pc[q] = "selected" => a # Current(q)
        BY <3>2, RecordsRead, AttemptParts DEF Forwarding
      <4> QED
        BY <1>1, <3>2, <4>1, CurrentTyped DEF Records, TypeOK
    <3> QED
      BY <1>9, <3>1, <3>2
  <2> QED
    BY <1>2, <2>1, <2>2 DEF Current
<1> QED
  BY <1>3, <1>4, <1>5, <1>6, <1>7, <1>8, <1>9, FlowSteps

\* An attempt that a step does not touch stays as it was received.
LEMMA ReceivedSame ==
    ASSUME NEW q \in Requests, Received(q), attempt'[q] = attempt[q],
           out'[q] = out[q], starting'[q] = starting[q],
           events'[Current(q)] = events[Current(q)], started'[Current(q)] = started[Current(q)],
           seq'[Current(q)] = seq[Current(q)], dropping'[Current(q)] = dropping[Current(q)],
           failure[Current(q)] = "slow_consumer" => failure'[Current(q)] = "slow_consumer",
           NEW c, c = Current(q), Held(c)' => Held(c)
    PROVE  Received(q)'
<1>1. Current(q)' = c
  BY DEF Current
<1>2. Received(q)' <=>
        /\ Sound(events'[c], Len(out'[q]), starting'[q], started'[c], seq'[c], dropping'[c])
        /\ dropping'[c] => failure'[c] = "slow_consumer"
        /\ Ended(events'[c]) = 1 => ~Held(c)'
  BY <1>1 DEF Received, Sound, Ended
<1> QED
  BY <1>2 DEF Received

\* A step that neither places nor takes an attempt keeps who holds it.
LEMMA HeldSame ==
    ASSUME UNCHANGED <<job, jobs>>
    PROVE  \A c : Held(c)' <=> Held(c)
BY DEF Held, SessionOf

\* An attempt that has just been sent has received nothing.
LEMMA SoundEmpty == Sound(<<>>, 0, TRUE, FALSE, 0, FALSE)
<1>1. Len(<<>>) = 0 /\ DOMAIN <<>> = {} /\ Begun(<<>>) = 0 /\ Ended(<<>>) = 0
  BY DEF Begun, Ended
<1> QED
  BY <1>1 DEF Sound, Ordered

\* What a frame that is recorded makes of the attempt it speaks of.
LEMMA ReceivedRecords ==
    ASSUME IInv, TypeOK', NEW s \in Sessions, NEW a \in Attempts, NEW f \in Frames,
           Records(s, a, f), NEW r \in Requests, a = Current(r)
    PROVE  Received(r)'
<1> USE DEF handlerState
<1>1. TypeOK
  BY DEF IInv
<1> DEFINE n == Len(out[r])
<1>2. /\ Forwarding(r) /\ a \in jobs[s] /\ job[a] # None /\ SessionOf(a) = s /\ Held(a)
      /\ conn[s] = "reading" /\ ~dropping[a] /\ ~OutOfOrder(a, f)
  BY RecordsRead, AttemptParts
<1>3. Received(r) /\ Ended(events[a]) # 1 /\ Sound(events[a], n, starting[r], started[a], seq[a], FALSE)
  <2>1. Received(r) /\ dropping[a] = FALSE
    BY <1>1, <1>2 DEF IInv, Reception, TypeOK
  <2> QED
    BY <1>2, <2>1 DEF Received
<1>4. /\ events[a] \in Seq(Frames) /\ n \in Nat /\ starting[r] \in BOOLEAN /\ started[a] \in BOOLEAN
      /\ seq[a] \in Nat
  BY <1>1, ReadTyped
<1>5. Ended(events[a]) = 0
  BY <1>3, <1>4, EndsTyped DEF Sound
<1>6. /\ UNCHANGED <<out, starting, attempt, job>> /\ Current(r)' = a
      /\ started'[a] = (started[a] \/ f.type = "response_start")
      /\ seq'[a] = IF f.type = "response_chunk" THEN f.seq ELSE seq[a]
      /\ jobs'[s] = Reserved(s, a, f)
  BY <1>1, <1>2 DEF Records, Track, Current, TypeOK
<1>7. /\ f.type = "response_start" => ~started[a]
      /\ f.type = "response_chunk" => started[a] /\ f.seq = seq[a] + 1
      /\ f.type = "response_end" => started[a]
  BY <1>2 DEF OutOfOrder
<1>8. Received(r)' <=>
        /\ Sound(events'[a], Len(out'[r]), starting'[r], started'[a], seq'[a], dropping'[a])
        /\ dropping'[a] => failure'[a] = "slow_consumer"
        /\ Ended(events'[a]) = 1 => ~Held(a)'
  BY <1>6 DEF Received, Sound, Ended
<1> DEFINE q == events[a]
           w == starting[r]
           b == started[a]
           l == seq[a]
<1>9. /\ Sound(q, n, w, b, l, FALSE) /\ Ended(q) = 0
      /\ q \in Seq(Frames) /\ n \in Nat /\ w \in BOOLEAN /\ b \in BOOLEAN /\ l \in Nat
      /\ f.type = "response_start" => ~b
      /\ f.type = "response_chunk" => b /\ f.seq = l + 1
      /\ f.type = "response_end" => b
  BY <1>3, <1>4, <1>5, <1>7
<1>10. /\ Len(out'[r]) = n /\ starting'[r] = w /\ started'[a] = (b \/ f.type = "response_start")
       /\ seq'[a] = IF f.type = "response_chunk" THEN f.seq ELSE l
  BY <1>6
<1>11. CASE events' = [events EXCEPT ![a] = Append(@, f)] /\ UNCHANGED dropping
  <2>1. events'[a] = Append(events[a], f) /\ ~dropping'[a]
    BY <1>1, <1>2, <1>11 DEF TypeOK
  <2>2. Sound(events'[a], Len(out'[r]), starting'[r], started'[a], seq'[a], FALSE)
    <3> HIDE DEF n, q, w, b, l
    <3>1. Sound(Append(q, f), n, w, b \/ f.type = "response_start",
                IF f.type = "response_chunk" THEN f.seq ELSE l, FALSE)
      BY <1>9, SoundAppend
    <3>2. events'[a] = Append(q, f)
      BY <2>1 DEF q
    <3> QED
      BY <1>10, <3>1, <3>2
  <2>3. Ended(events'[a]) = 1 => Terminal(f)
    <3>1. /\ Append(events[a], f) # <<>>
          /\ Append(events[a], f)[Len(Append(events[a], f))] = f
      BY <1>4
    <3> QED
      BY <2>1, <3>1 DEF Ended
  <2>4. Terminal(f) => ~Held(a)'
    BY <1>2, <1>6 DEF Held, SessionOf, Reserved
  <2>5. dropping'[a] = FALSE
    BY <1>2, <1>11
  <2> QED
    BY <1>8, <2>2, <2>3, <2>4, <2>5
<1>12. CASE /\ UNCHANGED events
            /\ failure' = Fail(failure, {a}, "slow_consumer")
            /\ dropping' = [dropping EXCEPT ![a] = TRUE]
  <2>1. events'[a] = events[a] /\ dropping'[a] = TRUE
    BY <1>1, <1>12 DEF TypeOK
  <2>2. Sound(events'[a], Len(out'[r]), starting'[r], started'[a], seq'[a], TRUE)
    <3> HIDE DEF n, q, w, b, l
    <3>1. Sound(q, n, w, b \/ f.type = "response_start",
                IF f.type = "response_chunk" THEN f.seq ELSE l, TRUE)
      BY <1>9, SoundLose
    <3>2. events'[a] = q
      BY <2>1 DEF q
    <3> QED
      BY <1>10, <3>1, <3>2
  <2>3. failure[a] \in {"none", "slow_consumer"}
    <3>1. failure[a] # "host_disconnected"
      BY <1>2 DEF IInv, Disconnected
    <3> QED
      BY <1>1, <3>1 DEF TypeOK
  <2>4. failure'[a] = "slow_consumer"
    BY <1>12, <2>3 DEF Fail
  <2>5. Ended(events'[a]) = 0
    BY <1>5, <2>1
  <2>6. Sound(events'[a], Len(out'[r]), starting'[r], started'[a], seq'[a], dropping'[a])
    BY <2>1, <2>2
  <2> QED
    BY <1>8, <2>4, <2>5, <2>6
<1> QED
  BY <1>11, <1>12 DEF Records

\* What a frame that is taken leaves of the attempt that is read.
LEMMA ReceivedTakes ==
    ASSUME IInv, TypeOK', NEW r \in Requests, Takes(r)
    PROVE  Received(r)'
<1>1. TypeOK
  BY DEF IInv
<1>2. PICK a \in Attempts : a = Current(r)
  BY <1>1, CurrentTyped
<1> DEFINE q == events[a]
           n == Len(out[r])
<1>3. Received(r) /\ Sound(q, n, starting[r], started[a], seq[a], dropping[a]) /\ q # <<>>
  BY <1>2 DEF Takes, IInv, Reception, Received
<1>4. /\ q \in Seq(Frames) /\ n \in Nat /\ starting[r] \in BOOLEAN /\ started[a] \in BOOLEAN
      /\ seq[a] \in Nat /\ dropping[a] \in BOOLEAN
      /\ out[r] \in Seq({0, 1} \X (1..MaxSeq))
  BY <1>1, <1>2, ReadTyped
<1>5. /\ UNCHANGED <<seq, started, failure, attempt, dropping, job, jobs>> /\ Current(r)' = a
      /\ events'[a] = Tail(q)
  BY <1>1, <1>2 DEF Takes, Current, TypeOK
<1>6. Received(r)' <=>
        /\ Sound(events'[a], Len(out'[r]), starting'[r], started'[a], seq'[a], dropping'[a])
        /\ dropping'[a] => failure'[a] = "slow_consumer"
        /\ Ended(events'[a]) = 1 => ~Held(a)'
  BY <1>5 DEF Received, Sound, Ended
<1>7. Held(a)' <=> Held(a)
  BY <1>5, HeldSame
<1>8. CASE /\ q[1].type = "response_start"
           /\ starting' = [starting EXCEPT ![r] = FALSE]
           /\ UNCHANGED out
  <2>1. Sound(Tail(q), n, FALSE, started[a], seq[a], dropping[a]) /\ Ended(Tail(q)) = Ended(q)
    <3> DEFINE w == starting[r]
               b == started[a]
               l == seq[a]
               d == dropping[a]
    <3>1. /\ q \in Seq(Frames) /\ n \in Nat /\ w \in BOOLEAN /\ b \in BOOLEAN /\ l \in Nat
          /\ d \in BOOLEAN /\ Sound(q, n, w, b, l, d) /\ q # <<>> /\ q[1].type = "response_start"
      BY <1>3, <1>4, <1>8
    <3> HIDE DEF q, n, w, b, l, d
    <3>2. Sound(Tail(q), n, FALSE, b, l, d)
      BY <3>1, SoundStart
    <3>3. Ended(Tail(q)) = Ended(q)
      BY <3>1, EndKept
    <3> QED
      BY <3>2, <3>3 DEF b, l, d
  <2>2. starting'[r] = FALSE
    BY <1>1, <1>8 DEF TypeOK
  <2> QED
    BY <1>2, <1>3, <1>5, <1>6, <1>7, <1>8, <2>1, <2>2 DEF Received
<1>9. CASE /\ q[1].type = "response_chunk"
           /\ out' = [out EXCEPT ![r] = Append(@, <<attempt[r], q[1].seq>>)]
           /\ UNCHANGED starting
  <2>1. Sound(Tail(q), n + 1, starting[r], started[a], seq[a], dropping[a]) /\ Ended(Tail(q)) = Ended(q)
    BY <1>3, <1>4, <1>9, SoundChunk, EndKept
  <2>2. Len(out'[r]) = n + 1
    BY <1>1, <1>4, <1>9 DEF TypeOK
  <2> QED
    BY <1>2, <1>3, <1>5, <1>6, <1>7, <1>9, <2>1, <2>2 DEF Received
<1> QED
  BY <1>2, <1>8, <1>9 DEF Takes

\* The attempt that is read stays sound: each frame recorded is in order, each
\* frame taken is the next one, and losing one leaves a failure.
LEMMA ReceptionNext ==
    ASSUME IInv, TypeOK', [Next]_vars
    PROVE  Reception'
<1> USE DEF handlerState, attemptState
<1>1. TypeOK
  BY DEF IInv
<1> SUFFICES ASSUME NEW q \in Requests, Forwarding(q)' PROVE Received(q)'
  BY DEF Reception
<1>2. PICK c \in Attempts : c = Current(q)
  BY <1>1, CurrentTyped
<1>3. Forwarding(q) => Received(q)
  BY DEF IInv, Reception
<1>4. CASE Elsewhere
  BY <1>2, <1>3, <1>4, ReceivedSame, HeldSame DEF Elsewhere, Forwarding
<1>5. ASSUME NEW s \in Sessions, Ends(s) PROVE Received(q)'
  <2>1. failure[c] = "slow_consumer" => failure'[c] = "slow_consumer"
    BY <1>5 DEF Ends, EndSession, Fail
  <2> QED
    BY <1>2, <1>3, <1>5, <2>1, ReceivedSame, HeldSame DEF Ends, Forwarding
<1>6. ASSUME NEW r \in Requests, Steps(r) PROVE Received(q)'
  <2>1. Forwarding(q)
    BY <1>1, <1>6 DEF Steps, Forwarding, TypeOK
  <2> QED
    BY <1>2, <1>3, <1>6, <2>1, ReceivedSame, HeldSame DEF Steps
<1>7. ASSUME NEW r \in Requests, NEW s \in Sessions, NEW o \in Offers, Select(r, s, o)
      PROVE  Received(q)'
  <2>1. /\ pc' = [pc EXCEPT ![r] = "selected"]
        /\ job' = [job EXCEPT ![Current(r)] = [session |-> s, offer |-> o]]
        /\ jobs' = [jobs EXCEPT ![s] = @ \cup {Current(r)}]
        /\ UNCHANGED <<attemptState, dropping, attempt, out, starting>>
    BY <1>7 DEF Select
  <2>2. Forwarding(q) /\ q # r
    BY <1>1, <2>1 DEF Forwarding, TypeOK
  <2>3. c # Current(r)
    BY <1>2, <2>2, CurrentInjective
  <2>4. job'[c] = job[c] /\ \A t \in Sessions : c \in jobs'[t] => c \in jobs[t]
    BY <1>1, <2>1, <2>3 DEF TypeOK
  <2>5. Held(c)' => Held(c)
    <3>1. job[c] # None => SessionOf(c) \in Sessions
      BY <1>1, SessionTyped
    <3>2. SessionOf(c)' = SessionOf(c)
      BY <2>4 DEF SessionOf
    <3> QED
      BY <2>4, <3>1, <3>2 DEF Held
  <2> QED
    BY <1>2, <1>3, <2>1, <2>2, <2>5, ReceivedSame
<1>8. ASSUME NEW r \in Requests, SendOK(r) PROVE Received(q)'
  <2>1. /\ pc[r] = "selected" /\ pc' = [pc EXCEPT ![r] = "forwarding"]
        /\ starting' = [starting EXCEPT ![r] = TRUE]
        /\ UNCHANGED <<attemptState, dropping, attempt, out, job, jobs>>
    BY <1>8 DEF SendOK
  <2>2. CASE q = r
    <3>1. ~Reading(c)
      BY <1>2, <2>1, <2>2, AttemptParts DEF Reading, Forwarding
    <3>2. /\ events'[c] = <<>> /\ seq'[c] = 0 /\ started'[c] = FALSE
      BY <1>1, <2>1, <3>1 DEF IInv, Unread, TypeOK
    <3>3. out'[q] = <<>> /\ starting'[q] = TRUE /\ dropping'[c] = FALSE
      BY <1>1, <1>2, <2>1, <2>2 DEF IInv, Body, TypeOK
    <3>4. Current(q)' = c
      BY <1>2, <2>1 DEF Current
    <3>5. Len(out'[q]) = 0 /\ Ended(events'[c]) = 0
      BY <3>2, <3>3 DEF Ended
    <3>6. Sound(events'[c], Len(out'[q]), starting'[q], started'[c], seq'[c], dropping'[c])
      BY <3>2, <3>3, <3>5, SoundEmpty
    <3>7. Received(q)' <=>
            /\ Sound(events'[c], Len(out'[q]), starting'[q], started'[c], seq'[c], dropping'[c])
            /\ dropping'[c] => failure'[c] = "slow_consumer"
            /\ Ended(events'[c]) = 1 => ~Held(c)'
      BY <3>4 DEF Received, Sound, Ended
    <3> QED
      BY <3>3, <3>5, <3>6, <3>7
  <2>3. CASE q # r
    <3>1. Forwarding(q) /\ starting'[q] = starting[q]
      BY <1>1, <2>1, <2>3 DEF Forwarding, TypeOK
    <3> QED
      BY <1>2, <1>3, <2>1, <3>1, ReceivedSame, HeldSame
  <2> QED
    BY <2>2, <2>3
<1>9. ASSUME NEW r \in Requests, LeavesUnsent(r) \/ LeavesForward(r) PROVE Received(q)'
  <2>1. /\ UNCHANGED <<out, job, jobs>>
        /\ dropping' = [dropping EXCEPT ![Current(r)] = TRUE]
    BY <1>9 DEF LeavesUnsent, LeavesForward, Leaves, Closing, Abandon
  <2>2. \/ pc' = [pc EXCEPT ![r] = "selecting"] /\ attempt' = [attempt EXCEPT ![r] = 1]
        \/ pc' = [pc EXCEPT ![r] = "done"] /\ UNCHANGED attempt
    BY <1>9 DEF LeavesUnsent, LeavesForward, Leaves, Closing, Retry, Answer
  <2>3. q # r /\ Forwarding(q) /\ attempt'[q] = attempt[q]
    BY <1>1, <2>2 DEF Forwarding, TypeOK
  <2>4. c # Current(r)
    BY <1>2, <2>3, CurrentInjective
  <2>5. /\ events'[c] = events[c] /\ started'[c] = started[c] /\ seq'[c] = seq[c]
        /\ failure'[c] = failure[c] /\ starting'[q] = starting[q]
    BY <1>1, <1>9, <2>3, <2>4 DEF LeavesUnsent, LeavesForward, Leave, TypeOK
  <2>6. dropping'[c] = dropping[c]
    BY <1>1, <2>1, <2>4 DEF TypeOK
  <2> QED
    BY <1>2, <1>3, <2>1, <2>3, <2>5, <2>6, ReceivedSame, HeldSame
<1>10. ASSUME NEW r \in Requests, Takes(r) PROVE Received(q)'
  <2>1. CASE q = r
    BY <1>10, <2>1, ReceivedTakes
  <2>2. CASE q # r
    <3>1. c # Current(r)
      BY <1>2, <2>2, CurrentInjective
    <3>2. /\ UNCHANGED <<seq, started, failure, pc, attempt, dropping, job, jobs>>
          /\ events'[c] = events[c] /\ out'[q] = out[q] /\ starting'[q] = starting[q]
      BY <1>1, <1>10, <2>2, <3>1 DEF Takes, TypeOK
    <3> QED
      BY <1>2, <1>3, <3>2, ReceivedSame, HeldSame DEF Forwarding
  <2> QED
    BY <2>1, <2>2
<1>11. ASSUME NEW s \in Sessions, NEW a \in Attempts, NEW f \in Frames, Records(s, a, f) \/ Ignores(s, a, f)
       PROVE  Received(q)'
  <2>1. UNCHANGED <<pc, attempt, out, starting, job>> /\ Forwarding(q)
    BY <1>11 DEF Records, Ignores, Forwarding
  <2>2. jobs' = [jobs EXCEPT ![s] = Reserved(s, a, f)]
    BY <1>11 DEF Records, Ignores, Track
  <2>3. Held(c)' => Held(c)
    <3>1. job[c] # None => SessionOf(c) \in Sessions
      BY <1>1, SessionTyped
    <3>2. SessionOf(c)' = SessionOf(c) /\ \A t \in Sessions : c \in jobs'[t] => c \in jobs[t]
      BY <1>1, <2>1, <2>2 DEF SessionOf, Reserved, TypeOK
    <3> QED
      BY <2>1, <3>1, <3>2 DEF Held
  <2>4. CASE a = c
    <3>1. CASE Records(s, a, f)
      BY <1>2, <2>4, <3>1, ReceivedRecords
    <3>2. CASE Ignores(s, a, f)
      BY <1>2, <1>3, <2>1, <2>3, <3>2, ReceivedSame DEF Ignores
    <3> QED
      BY <1>11, <3>1, <3>2
  <2>5. CASE a # c
    <3>1. CASE Records(s, a, f)
      <4>1. started'[c] = started[c] /\ seq'[c] = seq[c]
        BY <1>1, <2>5, <3>1 DEF Records, Track, TypeOK
      <4>2. events'[c] = events[c] /\ dropping'[c] = dropping[c] /\ failure'[c] = failure[c]
        BY <1>1, <2>5, <3>1 DEF Records, Fail, TypeOK
      <4> QED
        BY <1>2, <1>3, <2>1, <2>3, <4>1, <4>2, ReceivedSame
    <3>2. CASE Ignores(s, a, f)
      BY <1>2, <1>3, <2>1, <2>3, <3>2, ReceivedSame DEF Ignores
    <3> QED
      BY <1>11, <3>1, <3>2
  <2> QED
    BY <2>4, <2>5
<1> QED
  BY <1>4, <1>5, <1>6, <1>7, <1>8, <1>9, <1>10, <1>11, FlowSteps

\* Only the end of a session tells a handler that its host is gone.
LEMMA DisconnectedNext ==
    ASSUME IInv, TypeOK', [Next]_vars
    PROVE  Disconnected'
<1> USE DEF handlerState, attemptState
<1>1. TypeOK /\ Disconnected
  BY DEF IInv
<1> SUFFICES ASSUME NEW b \in Attempts, failure'[b] = "host_disconnected"
             PROVE  job'[b] # None /\ conn'[SessionOf(b)'] = "gone"
  BY DEF Disconnected
<1>2. failure[b] = "host_disconnected" =>
        job[b] # None /\ SessionOf(b) \in Sessions /\ conn[SessionOf(b)] = "gone"
  BY <1>1, SessionTyped DEF Disconnected
<1>3. CASE Elsewhere
  BY <1>2, <1>3 DEF Elsewhere, SessionOf
<1>4. ASSUME NEW s \in Sessions, Ends(s) PROVE job'[b] # None /\ conn'[SessionOf(b)'] = "gone"
  <2>1. SessionOf(b)' = SessionOf(b) /\ job' = job /\ conn' = [conn EXCEPT ![s] = "gone"]
    BY <1>4 DEF Ends, EndSession, SessionOf
  <2>2. failure'[b] = failure[b] \/ b \in jobs[s]
    BY <1>1, <1>4 DEF Ends, EndSession, Fail, TypeOK
  <2>3. b \in jobs[s] => job[b] # None /\ SessionOf(b) = s
    BY DEF IInv, Placement
  <2> QED
    BY <1>1, <1>2, <2>1, <2>2, <2>3 DEF TypeOK
<1>5. ASSUME failure[b] = "host_disconnected", UNCHANGED <<job, conn>>
      PROVE  job'[b] # None /\ conn'[SessionOf(b)'] = "gone"
  BY <1>2, <1>5 DEF SessionOf
<1>6. ASSUME NEW r \in Requests, NEW s \in Sessions, NEW o \in Offers, Select(r, s, o)
      PROVE  job'[b] # None /\ conn'[SessionOf(b)'] = "gone"
  <2>1. failure[b] = "host_disconnected" /\ conn' = conn /\ pc[r] = "selecting"
        /\ job' = [job EXCEPT ![Current(r)] = [session |-> s, offer |-> o]]
    BY <1>6 DEF Select
  <2>2. b # Current(r)
    BY <1>2, <2>1 DEF IInv, Placement
  <2>3. job'[b] = job[b]
    BY <1>1, <2>1, <2>2 DEF TypeOK
  <2> QED
    BY <1>2, <2>1, <2>3 DEF SessionOf
<1>7. ASSUME NEW r \in Requests, Steps(r) \/ SendOK(r) \/ LeavesUnsent(r) \/ Takes(r)
      PROVE  failure[b] = "host_disconnected" /\ UNCHANGED <<job, conn>>
  BY <1>7 DEF Steps, SendOK, LeavesUnsent, Leaves, Closing, Takes
<1>8. ASSUME NEW r \in Requests, LeavesForward(r)
      PROVE  failure[b] = "host_disconnected" /\ UNCHANGED <<job, conn>>
  BY <1>1, <1>8 DEF LeavesForward, Leaves, Closing, Leave, TypeOK
<1>9. ASSUME NEW s \in Sessions, NEW a \in Attempts, NEW f \in Frames, Records(s, a, f) \/ Ignores(s, a, f)
      PROVE  failure[b] = "host_disconnected" /\ UNCHANGED <<job, conn>>
  BY <1>9 DEF Records, Ignores, Fail
<1> QED
  BY <1>3, <1>4, <1>5, <1>6, <1>7, <1>8, <1>9, FlowSteps

\* The second attempt is reserved elsewhere, with the same kind and digest.
LEMMA SuccessionNext ==
    ASSUME IInv, TypeOK', [Next]_vars
    PROVE  Succession'
<1> USE DEF handlerState, attemptState
<1>1. TypeOK /\ Succession
  BY DEF IInv
<1> DEFINE Follows(q) ==
        job[<<q, 1>>] # None =>
            /\ Owner[job[<<q, 1>>].session] # Owner[Previous(q).session]
            /\ job[<<q, 1>>].offer.kind = Previous(q).offer.kind
            /\ job[<<q, 1>>].offer.kind = "ollama" =>
                job[<<q, 1>>].offer.digest = Previous(q).offer.digest
<1> SUFFICES ASSUME NEW q \in Requests, attempt'[q] = 1
             PROVE  dropping'[<<q, 0>>] /\ Follows(q)'
  BY DEF Succession
<1>2. attempt[q] = 1 => dropping[<<q, 0>>] /\ Follows(q)
  BY <1>1 DEF Succession
<1>3. <<q, 0>> \in Attempts /\ <<q, 1>> \in Attempts
  BY DEF Attempts
<1>4. ASSUME attempt[q] = 1, UNCHANGED job, dropping[<<q, 0>>] => dropping'[<<q, 0>>]
      PROVE  dropping'[<<q, 0>>] /\ Follows(q)'
  BY <1>2, <1>4 DEF Previous
<1>5. CASE Elsewhere \/ \E s \in Sessions : Ends(s)
  BY <1>4, <1>5 DEF Elsewhere, Ends
<1>6. ASSUME NEW r \in Requests, Steps(r) \/ SendOK(r) \/ Takes(r)
      PROVE  dropping'[<<q, 0>>] /\ Follows(q)'
  BY <1>4, <1>6 DEF Steps, SendOK, Takes
<1>7. ASSUME NEW s \in Sessions, NEW a \in Attempts, NEW f \in Frames, Records(s, a, f) \/ Ignores(s, a, f)
      PROVE  dropping'[<<q, 0>>] /\ Follows(q)'
  <2>1. dropping[<<q, 0>>] => dropping'[<<q, 0>>]
    <3>1. dropping' = dropping \/ dropping' = [dropping EXCEPT ![a] = TRUE]
      BY <1>7 DEF Records, Ignores
    <3>2. CASE dropping' = dropping
      BY <3>2
    <3>3. CASE dropping' = [dropping EXCEPT ![a] = TRUE]
      <4>1. dropping'[<<q, 0>>] = dropping[<<q, 0>>] \/ dropping'[<<q, 0>>] = TRUE
        BY <1>1, <1>3, <3>3 DEF TypeOK
      <4> QED
        BY <4>1
    <3> QED
      BY <3>1, <3>2, <3>3
  <2> QED
    BY <1>4, <1>7, <2>1 DEF Records, Ignores
<1>8. ASSUME NEW r \in Requests, LeavesUnsent(r) \/ LeavesForward(r)
      PROVE  dropping'[<<q, 0>>] /\ Follows(q)'
  <2>1. /\ job' = job /\ dropping' = [dropping EXCEPT ![Current(r)] = TRUE]
        /\ \/ attempt' = [attempt EXCEPT ![r] = 1] /\ attempt[r] = 0
           \/ attempt' = attempt
    BY <1>8 DEF LeavesUnsent, LeavesForward, Leaves, Closing, Abandon, Retry, Answer
  <2>2. dropping[<<q, 0>>] => dropping'[<<q, 0>>]
    BY <1>1, <1>3, <2>1 DEF TypeOK
  <2>3. CASE attempt[q] = 1
    BY <1>4, <2>1, <2>2, <2>3
  <2>4. CASE attempt[q] # 1
    <3>1. q = r /\ attempt[q] = 0 /\ Current(r) = <<q, 0>>
      BY <1>1, <2>1, <2>4 DEF Current, TypeOK
    <3>2. job'[<<q, 1>>] = None
      BY <2>1, <3>1 DEF IInv, Placement
    <3> QED
      BY <1>1, <1>3, <2>1, <3>1, <3>2 DEF TypeOK
  <2> QED
    BY <2>3, <2>4
<1>9. ASSUME NEW r \in Requests, NEW s \in Sessions, NEW o \in Offers, Select(r, s, o)
      PROVE  dropping'[<<q, 0>>] /\ Follows(q)'
  <2> DEFINE p == [session |-> s, offer |-> o]
  <2>1. /\ attempt' = attempt /\ dropping' = dropping /\ Matches(r, s, o)
        /\ job' = [job EXCEPT ![Current(r)] = p]
    BY <1>9 DEF Select, Candidate
  <2>2. CASE q = r
    <3>1. Current(r) = <<q, 1>> /\ <<q, 0>> # <<q, 1>>
      BY <2>1, <2>2 DEF Current
    <3>2. job'[<<q, 1>>] = p /\ Previous(q)' = Previous(q)
      BY <1>1, <1>3, <2>1, <3>1 DEF Previous, TypeOK
    <3>3. /\ Owner[s] # Owner[Previous(q).session]
          /\ o.kind = Previous(q).offer.kind
          /\ o.kind = "ollama" => o.digest = Previous(q).offer.digest
      BY <2>1, <2>2 DEF Matches
    <3>4. p.session = s /\ p.offer = o
      OBVIOUS
    <3> HIDE DEF p
    <3>5. Follows(q)'
      BY <3>2, <3>3, <3>4
    <3> QED
      BY <1>2, <2>1, <3>5
  <2>3. CASE q # r
    <3>1. <<q, 0>> # Current(r) /\ <<q, 1>> # Current(r)
      BY <2>3 DEF Current
    <3>2. job'[<<q, 1>>] = job[<<q, 1>>] /\ Previous(q)' = Previous(q)
      BY <1>1, <1>3, <2>1, <3>1 DEF Previous, TypeOK
    <3> QED
      BY <1>2, <2>1, <3>2
  <2> QED
    BY <2>2, <2>3
<1> QED
  BY <1>5, <1>6, <1>7, <1>8, <1>9, FlowSteps

\* A handler stays awake while its session lives and what it was told stays.
LEMMA AwakeSame ==
    ASSUME NEW q \in Requests, NEW c \in Attempts, c = Current(q), AwakeAt(q),
           attempt'[q] = attempt[q], Forwarding(q) => Forwarding(q)',
           job'[c] = job[c], Held(c) => Held(c)', Told(c) => Told(c)',
           LET s == SessionOf(c) IN
               /\ conn'[s] = "new" => conn[s] = "new"
               /\ conn'[s] = "gone" => conn[s] \in {"new", "gone"}
    PROVE  AwakeAt(q)'
<1>1. Current(q)' = c /\ SessionOf(c)' = SessionOf(c)
  BY DEF Current, SessionOf
<1>2. AwakeAt(q)' <=>
        /\ conn'[SessionOf(c)'] # "new"
        /\ conn'[SessionOf(c)'] = "gone" => Told(c)'
        /\ Held(c)' \/ (Forwarding(q)' /\ Told(c)')
  BY <1>1 DEF AwakeAt, Told, Held, SessionOf, Ended
<1> QED
  BY <1>1, <1>2 DEF AwakeAt

\* Whatever ends a session or a reservation tells the handler that waits on it.
LEMMA AwakeNext ==
    ASSUME IInv, TypeOK', [Next]_vars
    PROVE  Awake'
<1> USE DEF handlerState, attemptState
<1>1. TypeOK
  BY DEF IInv
<1> SUFFICES ASSUME NEW q \in Requests, pc'[q] \in {"selected", "forwarding"} PROVE AwakeAt(q)'
  BY DEF Awake
<1>2. PICK c \in Attempts : c = Current(q)
  BY <1>1, CurrentTyped
<1>3. pc[q] \in {"selected", "forwarding"} =>
        /\ AwakeAt(q) /\ job[c] # None /\ SessionOf(c) \in Sessions
  BY <1>1, <1>2, SessionTyped DEF IInv, Awake, Placement
<1>4. CASE Elsewhere
  <2>1. Told(c)' <=> Told(c)
    BY <1>4 DEF Elsewhere, Told
  <2> QED
    BY <1>2, <1>3, <1>4, <2>1, AwakeSame, HeldSame DEF Elsewhere, Forwarding
<1>5. ASSUME NEW s \in Sessions, Ends(s) PROVE AwakeAt(q)'
  <2>1. /\ UNCHANGED <<events, attempt, pc, job, jobs, dropping>> /\ conn[s] \in {"registered", "reading"}
        /\ conn' = [conn EXCEPT ![s] = "gone"]
        /\ failure' = IF hosts[Owner[s]] = s
                      THEN Fail(failure, {a \in jobs[s] : ~dropping[a]}, "host_disconnected")
                      ELSE failure
    BY <1>5 DEF Ends, EndSession
  <2>2. /\ AwakeAt(q) /\ SessionOf(c) \in Sessions /\ Forwarding(q)' = Forwarding(q)
        /\ Current(q)' = c /\ SessionOf(c)' = SessionOf(c) /\ (Held(c)' <=> Held(c)) /\ job[c] # None
    BY <1>2, <1>3, <2>1, HeldSame DEF Current, SessionOf, Forwarding
  <2>3. Told(c) => Told(c)'
    BY <2>1 DEF Told, Fail
  <2>4. CASE SessionOf(c) # s
    BY <1>1, <1>2, <2>1, <2>2, <2>3, <2>4, AwakeSame DEF TypeOK
  <2>5. CASE SessionOf(c) = s
    <3>1. conn'[s] = "gone"
      BY <1>1, <2>1 DEF TypeOK
    <3>2. Told(c)'
      <4>1. CASE ~Held(c)
        BY <1>2, <2>2, <2>3, <4>1 DEF AwakeAt
      <4>2. CASE Held(c) /\ dropping[c]
        <5>1. failure[c] = "slow_consumer"
          BY <1>2, <2>1, <4>2 DEF IInv, Body, Reception, Received, Forwarding
        <5> QED
          BY <2>3, <5>1 DEF Told
      <4>3. CASE Held(c) /\ ~dropping[c]
        <5>1. c \in jobs[s]
          BY <2>5, <4>3 DEF Held
        <5>2. hosts[Owner[s]] = s
          BY <2>1, OwnerAssumption DEF IInv, Registration
        <5>3. failure'[c] # "none"
          BY <2>1, <4>3, <5>1, <5>2 DEF Fail
        <5> QED
          BY <5>3 DEF Told
      <4> QED
        BY <4>1, <4>2, <4>3
    <3>3. AwakeAt(q)' <=>
            /\ conn'[SessionOf(c)'] # "new"
            /\ conn'[SessionOf(c)'] = "gone" => Told(c)'
            /\ Held(c)' \/ (Forwarding(q)' /\ Told(c)')
      BY <2>2 DEF AwakeAt, Told, Held, SessionOf, Ended
    <3>4. Held(c) \/ Forwarding(q)
      BY <1>2, <2>2 DEF AwakeAt
    <3> QED
      BY <2>2, <2>5, <3>1, <3>2, <3>3, <3>4
  <2> QED
    BY <2>4, <2>5
<1>6. ASSUME NEW r \in Requests, Steps(r) PROVE AwakeAt(q)'
  <2>1. pc[q] \in {"selected", "forwarding"} /\ (Forwarding(q) => Forwarding(q)')
    BY <1>1, <1>6 DEF Steps, Forwarding, TypeOK
  <2>2. Told(c)' <=> Told(c)
    BY <1>6 DEF Steps, Told
  <2> QED
    BY <1>2, <1>3, <1>6, <2>1, <2>2, AwakeSame, HeldSame DEF Steps
<1>7. ASSUME NEW r \in Requests, NEW s \in Sessions, NEW o \in Offers, Select(r, s, o)
      PROVE  AwakeAt(q)'
  <2> DEFINE p == [session |-> s, offer |-> o]
  <2>1. /\ pc' = [pc EXCEPT ![r] = "selected"]
        /\ job' = [job EXCEPT ![Current(r)] = p]
        /\ jobs' = [jobs EXCEPT ![s] = @ \cup {Current(r)}]
        /\ UNCHANGED <<attemptState, conn, attempt>>
        /\ hosts[Owner[s]] = s
    BY <1>7 DEF Select, Candidate
  <2>2. CASE q = r
    <3>1. conn[s] \in {"registered", "reading"}
      BY <2>1, OwnerAssumption DEF IInv, Registration
    <3>2. job'[c] = p /\ c \in jobs'[s] /\ p # None /\ p.session = s
      <4>1. p \in [session: Sessions, offer: Offers]
        OBVIOUS
      <4> QED
        BY <1>1, <1>2, <2>1, <2>2, <4>1, NoneAssumption DEF TypeOK
    <3>3. Current(q)' = c /\ SessionOf(c)' = s /\ Held(c)'
      BY <1>2, <2>1, <3>2 DEF Current, SessionOf, Held
    <3>4. conn' = conn
      BY <2>1
    <3> QED
      BY <3>1, <3>3, <3>4 DEF AwakeAt
  <2>3. CASE q # r
    <3>1. pc'[q] = pc[q] /\ c # Current(r)
      BY <1>1, <1>2, <2>1, <2>3, CurrentInjective DEF TypeOK
    <3>2. job'[c] = job[c] /\ \A t \in Sessions : jobs[t] \subseteq jobs'[t]
      BY <1>1, <2>1, <3>1 DEF TypeOK
    <3>3. Held(c) => Held(c)'
      BY <1>3, <3>1, <3>2 DEF Held, SessionOf
    <3>4. Told(c)' <=> Told(c)
      BY <2>1 DEF Told
    <3> QED
      BY <1>2, <1>3, <2>1, <3>1, <3>2, <3>3, <3>4, AwakeSame DEF Forwarding
  <2> QED
    BY <2>2, <2>3
<1>8. ASSUME NEW r \in Requests, SendOK(r) PROVE AwakeAt(q)'
  <2>1. /\ pc[r] = "selected" /\ pc' = [pc EXCEPT ![r] = "forwarding"]
        /\ UNCHANGED <<attemptState, attempt, conn, job, jobs>>
    BY <1>8 DEF SendOK
  <2>2. pc[q] \in {"selected", "forwarding"} /\ (Forwarding(q) => Forwarding(q)')
    BY <1>1, <2>1 DEF Forwarding, TypeOK
  <2>3. Told(c)' <=> Told(c)
    BY <2>1 DEF Told
  <2> QED
    BY <1>2, <1>3, <2>1, <2>2, <2>3, AwakeSame, HeldSame
<1>9. ASSUME NEW r \in Requests, LeavesUnsent(r) \/ LeavesForward(r) PROVE AwakeAt(q)'
  <2>1. UNCHANGED <<job, jobs, conn>>
    BY <1>9 DEF LeavesUnsent, LeavesForward, Leaves, Closing
  <2>2. \/ pc' = [pc EXCEPT ![r] = "selecting"] /\ attempt' = [attempt EXCEPT ![r] = 1]
        \/ pc' = [pc EXCEPT ![r] = "done"] /\ UNCHANGED attempt
    BY <1>9 DEF LeavesUnsent, LeavesForward, Leaves, Closing, Retry, Answer
  <2>3. q # r /\ pc'[q] = pc[q] /\ attempt'[q] = attempt[q]
    BY <1>1, <2>2 DEF TypeOK
  <2>4. c # Current(r)
    BY <1>2, <2>3, CurrentInjective
  <2>5. events'[c] = events[c] /\ failure'[c] = failure[c]
    BY <1>1, <1>9, <2>4 DEF LeavesUnsent, LeavesForward, Leave, TypeOK
  <2>6. Told(c)' <=> Told(c)
    BY <2>5 DEF Told
  <2> QED
    BY <1>2, <1>3, <2>1, <2>3, <2>6, AwakeSame, HeldSame DEF Forwarding
<1>10. ASSUME NEW r \in Requests, Takes(r) PROVE AwakeAt(q)'
  <2>1. UNCHANGED <<failure, pc, attempt, job, jobs, conn>> /\ Forwarding(r)
        /\ events[Current(r)] # <<>>
        /\ events[Current(r)][1].type \in {"response_start", "response_chunk"}
        /\ events' = [events EXCEPT ![Current(r)] = Tail(@)]
    BY <1>10 DEF Takes
  <2>2. Ended(events'[c]) = Ended(events[c])
    <3>1. CASE c = Current(r)
      <4>1. events'[c] = Tail(events[c]) /\ events[c] \in Seq(Frames)
        BY <1>1, <2>1, <3>1 DEF TypeOK
      <4> QED
        BY <2>1, <3>1, <4>1, EndKept
    <3>2. CASE c # Current(r)
      BY <1>1, <2>1, <3>2 DEF TypeOK
    <3> QED
      BY <3>1, <3>2
  <2>3. Told(c) => Told(c)'
    BY <2>1, <2>2 DEF Told, Ended
  <2> QED
    BY <1>2, <1>3, <2>1, <2>3, AwakeSame, HeldSame DEF Forwarding
<1>11. ASSUME NEW s \in Sessions, NEW a \in Attempts, NEW f \in Frames, Records(s, a, f) \/ Ignores(s, a, f)
       PROVE  AwakeAt(q)'
  <2>1. /\ UNCHANGED <<pc, attempt, job, conn>> /\ a \in jobs[s]
        /\ jobs' = [jobs EXCEPT ![s] = Reserved(s, a, f)]
    BY <1>11 DEF Records, Ignores, Track, Incoming
  <2>2. /\ AwakeAt(q) /\ job[c] # None /\ SessionOf(c) \in Sessions /\ Current(q)' = c
        /\ SessionOf(c)' = SessionOf(c) /\ Forwarding(q)' = Forwarding(q)
    BY <1>2, <1>3, <2>1 DEF Current, SessionOf, Forwarding
  <2>3. Told(c) => Told(c)'
    <3>1. CASE Ignores(s, a, f)
      BY <3>1 DEF Ignores, Told
    <3>2. CASE Records(s, a, f) /\ events' = [events EXCEPT ![a] = Append(@, f)] /\ UNCHANGED failure
      <4>1. CASE a = c
        <5>1. Ended(events[c]) # 1
          BY <1>2, <3>2, <4>1, RecordsRead, AttemptParts DEF IInv, Reception, Received
        <5> QED
          BY <3>2, <5>1 DEF Told
      <4>2. CASE a # c
        <5>1. events'[c] = events[c]
          BY <1>1, <3>2, <4>2 DEF TypeOK
        <5> QED
          BY <3>2, <5>1 DEF Told
      <4> QED
        BY <4>1, <4>2
    <3>3. CASE UNCHANGED events /\ failure' = Fail(failure, {a}, "slow_consumer")
      BY <3>3 DEF Told, Fail
    <3> QED
      BY <1>11, <3>1, <3>2, <3>3 DEF Records
  <2>4. CASE Held(c) => Held(c)'
    BY <1>2, <2>1, <2>2, <2>3, <2>4, AwakeSame
  <2>5. CASE Held(c) /\ ~Held(c)'
    <3>1. a = c /\ Terminal(f) /\ s = SessionOf(c)
      BY <1>1, <2>1, <2>2, <2>5 DEF Held, Reserved, TypeOK
    <3>2. Told(c)' /\ Forwarding(q)
      <4>1. CASE Records(s, a, f)
        <5>1. Forwarding(q)
          BY <1>2, <3>1, <4>1, RecordsRead, AttemptParts
        <5>2. CASE events' = [events EXCEPT ![a] = Append(@, f)]
          <6>1. events[c] \in Seq(Frames) /\ events'[c] = Append(events[c], f)
            BY <1>1, <3>1, <5>2 DEF TypeOK
          <6>2. /\ Append(events[c], f) # <<>>
                /\ Append(events[c], f)[Len(Append(events[c], f))] = f
            BY <6>1
          <6>3. Ended(events'[c]) = 1
            BY <3>1, <6>1, <6>2 DEF Ended
          <6> QED
            BY <5>1, <6>3 DEF Told, Ended
        <5>3. CASE failure' = Fail(failure, {a}, "slow_consumer")
          BY <3>1, <5>1, <5>3 DEF Fail, Told
        <5> QED
          BY <4>1, <5>2, <5>3 DEF Records
      <4>2. CASE Ignores(s, a, f)
        <5>1. dropping[c] /\ failure' = failure
          BY <3>1, <4>2 DEF Ignores
        <5>2. Forwarding(q) /\ failure[c] = "slow_consumer"
          BY <1>2, <2>1, <5>1 DEF IInv, Body, Reception, Received, Forwarding
        <5> QED
          BY <5>1, <5>2 DEF Told
      <4> QED
        BY <1>11, <4>1, <4>2
    <3>3. AwakeAt(q)' <=>
            /\ conn'[SessionOf(c)'] # "new"
            /\ conn'[SessionOf(c)'] = "gone" => Told(c)'
            /\ Held(c)' \/ (Forwarding(q)' /\ Told(c)')
      BY <2>2 DEF AwakeAt, Told, Held, SessionOf, Ended
    <3>4. conn[SessionOf(c)] # "new" /\ conn' = conn
      BY <1>2, <2>1, <2>2 DEF AwakeAt
    <3> QED
      BY <2>2, <3>2, <3>3, <3>4
  <2> QED
    BY <2>4, <2>5
<1> QED
  BY <1>4, <1>5, <1>6, <1>7, <1>8, <1>9, <1>10, <1>11, FlowSteps

-----------------------------------------------------------------------------
(* The theorems.                                                            *)

\* The strengthening holds at the start.
LEMMA IInvInit == Init => IInv
<1> SUFFICES ASSUME Init PROVE IInv
  OBVIOUS
<1>1. TypeOK /\ Placement /\ Registration
  BY TypeInit, NoneAssumption DEF Init, Placement, Registration, Current, Attempts
<1>2. Unread /\ Disconnected
  BY DEF Init, Unread, Disconnected
<1>3. \A r \in Requests : /\ pc[r] = "idle" /\ attempt[r] = 0 /\ out[r] = <<>>
  BY DEF Init
<1>4. DOMAIN <<>> = {}
  OBVIOUS
<1>5. Body /\ Reception /\ Succession /\ Awake
  BY <1>3, <1>4 DEF Body, Reception, Succession, Awake, Forwarding
<1> QED
  BY <1>1, <1>2, <1>5 DEF IInv

\* The strengthening is inductive.
LEMMA IInvNext == IInv /\ [Next]_vars => IInv'
<1> SUFFICES ASSUME IInv, [Next]_vars PROVE IInv'
  OBVIOUS
<1>1. TypeOK' /\ Placement' /\ Registration'
  BY TypeNext, PlacementNext, RegistrationNext DEF IInv
<1> QED
  BY <1>1, UnreadNext, BodyNext, ReceptionNext, DisconnectedNext, SuccessionNext, AwakeNext DEF IInv

\* The strengthening holds of every reachable state.
LEMMA Strengthening == Spec => []IInv
BY IInvInit, IInvNext, PTL DEF Spec

\* What the buyer got and what is queued are together 1, 2, 3, ... of the one
\* attempt that is read, whatever the sizes of queue and chunks: a gap either
\* cannot be queued or has left a failure to be read.
THEOREM StreamGaplessHolds == Spec => []StreamGapless
<1>1. IInv => StreamGapless
  <2> SUFFICES ASSUME IInv, NEW r \in Requests, Forwarding(r)
               PROVE  LET a == Current(r)
                          q == events[a]
                      IN  /\ \A i \in DOMAIN out[r] : out[r][i] = <<attempt[r], i>>
                          /\ Ordered(q, Len(out[r]), starting[r])
                          /\ IF dropping[a] THEN failure[a] = "slow_consumer"
                             ELSE seq[a] = Len(out[r]) + Len(q) - Begun(q) - Ended(q)
    BY DEF StreamGapless
  <2>1. Received(r) /\ \A i \in DOMAIN out[r] : out[r][i] = <<attempt[r], i>>
    BY DEF IInv, Reception, Body
  <2> QED
    BY <2>1 DEF Received, Sound
<1> QED
  BY <1>1, Strengthening, PTL

\* A second attempt runs only when the first is given up with nothing shown, on
\* another host, with the same kind of backend and, if local, the same digest.
THEOREM RetryDisciplineHolds == Spec => []RetryDiscipline
<1>1. IInv => RetryDiscipline
  <2> SUFFICES ASSUME IInv, NEW r \in Requests, attempt[r] = 1
               PROVE  \A i \in DOMAIN out[r] : out[r][i][1] = 1
    BY DEF IInv, Succession, RetryDiscipline
  <2>1. \A i \in DOMAIN out[r] : out[r][i] = <<1, i>>
    BY DEF IInv, Body
  <2> QED
    BY <2>1
<1> QED
  BY <1>1, Strengthening, PTL

\* A handler is never left waiting on a session that is gone or an attempt that
\* is over: the failure or the terminal frame is there for it to read.
THEOREM NoLostWakeupHolds == Spec => []NoLostWakeup
<1>1. IInv => NoLostWakeup
  <2> SUFFICES ASSUME IInv, NEW r \in Requests, Forwarding(r),
                      conn[SessionOf(Current(r))] = "gone" \/ ~Held(Current(r))
               PROVE  LET a == Current(r) IN
                      \/ failure[a] # "none"
                      \/ events[a] # <<>> /\ Terminal(events[a][Len(events[a])])
    BY DEF NoLostWakeup
  <2>1. Told(Current(r))
    BY DEF IInv, Awake, AwakeAt, Forwarding
  <2> QED
    BY <2>1 DEF Told, Ended
<1> QED
  BY <1>1, Strengthening, PTL

-----------------------------------------------------------------------------
(* Coordinator implements Gateway.                                          *)

\* A step changes nothing of what Gateway sees of a request, or of the others.
Same(r) == phaseOf'[r] = phaseOf[r] /\ madeOf'[r] = madeOf[r] /\ overOf'[r] = overOf[r]

Only(r) == \A q \in Requests : q # r => Same(q)

\* The mapped values of one request.
LEMMA MappedValues ==
    ASSUME NEW r \in Requests
    PROVE  /\ phaseOf[r] = IF pc[r] = "idle" THEN "idle" ELSE IF pc[r] = "done" THEN "closed" ELSE "open"
           /\ madeOf[r] = IF Forwarding(r) THEN seq[Current(r)] ELSE 0
           /\ overOf[r] = (Forwarding(r) /\ Finished(events[Current(r)]))
BY DEF phaseOf, madeOf, overOf

\* The same, after a step.
LEMMA MappedValuesNext ==
    ASSUME NEW r \in Requests, NEW c, c = Current(r)'
    PROVE  /\ phaseOf'[r] = IF pc'[r] = "idle" THEN "idle" ELSE IF pc'[r] = "done" THEN "closed" ELSE "open"
           /\ madeOf'[r] = IF pc'[r] = "forwarding" THEN seq'[c] ELSE 0
           /\ overOf'[r] = (pc'[r] = "forwarding" /\ Finished(events'[c]))
BY DEF phaseOf, madeOf, overOf, Forwarding, Finished

\* A request whose handler and whose attempt a step leaves alone looks the same.
LEMMA MappedSame ==
    ASSUME NEW q \in Requests, NEW c, c = Current(q), attempt'[q] = attempt[q], pc'[q] = pc[q],
           pc[q] = "forwarding" => events'[c] = events[c] /\ seq'[c] = seq[c]
    PROVE  Same(q)
<1>1. c = Current(q)'
  BY DEF Current
<1>2. pc[q] = "forwarding" => Finished(events'[c]) = Finished(events[c])
  BY DEF Finished
<1> QED
  BY <1>1, <1>2, MappedValues, MappedValuesNext DEF Same, Forwarding

\* Functions of the requests that agree are equal: a step that changes what
\* Gateway sees of one request only updates it there.
LEMMA MappedUpdate ==
    ASSUME NEW r \in Requests, Only(r)
    PROVE  /\ phaseOf' = [phaseOf EXCEPT ![r] = phaseOf'[r]]
           /\ madeOf' = [madeOf EXCEPT ![r] = madeOf'[r]]
           /\ overOf' = [overOf EXCEPT ![r] = overOf'[r]]
<1>1. ASSUME NEW F, NEW G, DOMAIN F = Requests, DOMAIN G = Requests,
             F = [q \in Requests |-> F[q]], G = [q \in Requests |-> G[q]],
             \A q \in Requests : q # r => G[q] = F[q]
      PROVE  G = [F EXCEPT ![r] = G[r]]
  BY <1>1
<1>2. /\ phaseOf = [q \in Requests |-> phaseOf[q]] /\ phaseOf' = [q \in Requests |-> phaseOf'[q]]
      /\ DOMAIN phaseOf = Requests /\ DOMAIN phaseOf' = Requests
  BY DEF phaseOf
<1>3. /\ madeOf = [q \in Requests |-> madeOf[q]] /\ madeOf' = [q \in Requests |-> madeOf'[q]]
      /\ DOMAIN madeOf = Requests /\ DOMAIN madeOf' = Requests
  BY DEF madeOf
<1>4. /\ overOf = [q \in Requests |-> overOf[q]] /\ overOf' = [q \in Requests |-> overOf'[q]]
      /\ DOMAIN overOf = Requests /\ DOMAIN overOf' = Requests
  BY DEF overOf
<1> QED
  BY <1>1, <1>2, <1>3, <1>4 DEF Only, Same

\* A step that changes nothing that Gateway sees is a stutter.
LEMMA Stutter ==
    ASSUME \A q \in Requests : Same(q), UNCHANGED <<attempt, out, reply>>
    PROVE  UNCHANGED Promise!vars
<1>1. /\ phaseOf = [q \in Requests |-> phaseOf[q]] /\ phaseOf' = [q \in Requests |-> phaseOf'[q]]
  BY DEF phaseOf
<1>2. /\ madeOf = [q \in Requests |-> madeOf[q]] /\ madeOf' = [q \in Requests |-> madeOf'[q]]
  BY DEF madeOf
<1>3. /\ overOf = [q \in Requests |-> overOf[q]] /\ overOf' = [q \in Requests |-> overOf'[q]]
  BY DEF overOf
<1>4. \A q \in Requests : phaseOf'[q] = phaseOf[q] /\ madeOf'[q] = madeOf[q] /\ overOf'[q] = overOf[q]
  BY DEF Same
<1>5. phaseOf' = phaseOf /\ madeOf' = madeOf /\ overOf' = overOf
  BY <1>1, <1>2, <1>3, <1>4
<1> QED
  BY <1>5 DEF Promise!vars

\* Taking a frame that is not response_end does not finish the generation, nor
\* does it take the end away.
LEMMA FinishKept ==
    ASSUME NEW q \in Seq(Frames), q # <<>>, q[1].type \in {"response_start", "response_chunk"}
    PROVE  Finished(Tail(q)) <=> Finished(q)
<1> DEFINE p == Tail(q)
           n == Len(p)
<1>1. /\ n \in Nat /\ Len(q) = n + 1
      /\ \A i \in 1..n : p[i] = q[i + 1]
      /\ p = <<>> <=> n = 0
  BY TailFacts
<1> HIDE DEF p, n
<1>2. CASE n = 0
  BY <1>1, <1>2 DEF Finished, p, n
<1>3. CASE n # 0
  <2>1. p[n] = q[n + 1] /\ p # <<>> /\ q # <<>>
    BY <1>1, <1>3
  <2> QED
    BY <1>1, <2>1 DEF Finished, p, n
<1> QED
  BY <1>2, <1>3

\* A handler that leaves an attempt regenerates, or concludes as it may.
LEMMA LeavesRefines ==
    ASSUME IInv, NEW r \in Requests, LeavesUnsent(r) \/ LeavesForward(r)
    PROVE  Promise!Next
<1>1. TypeOK
  BY DEF IInv
<1>2. PICK c \in Attempts : c = Current(r)
  BY <1>1, CurrentTyped
<1>3. /\ UNCHANGED out /\ Closing(r) /\ pc[r] \in {"selected", "forwarding"}
  BY DEF LeavesUnsent, LeavesForward, Leaves
<1>4. \/ pc' = [pc EXCEPT ![r] = "selecting"] /\ attempt' = [attempt EXCEPT ![r] = 1]
      \/ pc' = [pc EXCEPT ![r] = "done"] /\ UNCHANGED attempt
  BY <1>3 DEF Closing, Retry, Answer
<1>5. Only(r)
  <2> SUFFICES ASSUME NEW q \in Requests, q # r PROVE Same(q)
    BY DEF Only
  <2>1. PICK d \in Attempts : d = Current(q)
    BY <1>1, CurrentTyped
  <2>2. pc'[q] = pc[q] /\ attempt'[q] = attempt[q] /\ d # c
    BY <1>1, <1>2, <1>4, <2>1, CurrentInjective DEF TypeOK
  <2>3. events'[d] = events[d] /\ seq'[d] = seq[d]
    BY <1>1, <1>2, <2>2 DEF LeavesUnsent, LeavesForward, Leave, attemptState, TypeOK
  <2> QED
    BY <2>1, <2>2, <2>3, MappedSame
<1>6. PICK d : d = Current(r)'
  OBVIOUS
<1>7. pc'[r] \in {"selecting", "done"}
  BY <1>1, <1>4 DEF TypeOK
<1>8. madeOf'[r] = 0 /\ overOf'[r] = FALSE /\ phaseOf[r] = "open"
  BY <1>3, <1>6, <1>7, MappedValues, MappedValuesNext
<1>9. /\ madeOf' = [madeOf EXCEPT ![r] = 0] /\ overOf' = [overOf EXCEPT ![r] = FALSE]
      /\ phaseOf' = [phaseOf EXCEPT ![r] = phaseOf'[r]]
  BY <1>5, <1>8, MappedUpdate
<1>10. CASE Retry(r) /\ attempt[r] = 0 /\ out[r] = <<>>
  <2>1. phaseOf'[r] = phaseOf[r]
    <3>1. pc'[r] = "selecting"
      BY <1>1, <1>10 DEF Retry, TypeOK
    <3> QED
      BY <1>6, <1>8, <3>1, MappedValuesNext
  <2>2. phaseOf' = phaseOf
    BY <1>9, <2>1 DEF phaseOf
  <2>3. Promise!Regenerate(r)
    BY <1>3, <1>8, <1>9, <1>10, <2>2 DEF Promise!Regenerate, Promise!Forget, Retry
  <2> QED
    BY <2>3 DEF Promise!Next
<1>11. ASSUME NEW how \in {"error", "complete", "interrupted", "abandoned"}, Answer(r, how), Justified(r, how)
       PROVE  Promise!Next
  <2>1. pc'[r] = "done" /\ reply' = [reply EXCEPT ![r] = how] /\ attempt' = attempt
    BY <1>1, <1>11 DEF Answer, TypeOK
  <2>2. phaseOf' = [phaseOf EXCEPT ![r] = "closed"]
    BY <1>6, <1>9, <2>1, MappedValuesNext
  <2> DEFINE q == events[c]
             n == Len(out[r])
  <2>3. how \in {"error", "abandoned"} => out[r] = <<>>
    BY <1>11 DEF Justified
  <2>4. CASE how \in {"error", "abandoned"}
    <3>1. Promise!Conclude(r, how)
      BY <1>3, <1>8, <1>9, <2>1, <2>2, <2>3, <2>4 DEF Promise!Conclude, Promise!Forget
    <3> QED
      BY <2>4, <3>1 DEF Promise!Next
  <2>5. CASE how \in {"complete", "interrupted"}
    <3>1. Forwarding(r)
      <4>1. out[r] # <<>> \/ events[c] # <<>>
        BY <1>2, <1>11, <2>5 DEF Justified
      <4>2. pc[r] = "selected" => out[r] = <<>> /\ events[c] = <<>>
        BY <1>2, AttemptParts DEF IInv, Body, Unread, Reading, Forwarding
      <4> QED
        BY <1>3, <4>1, <4>2 DEF Forwarding
    <3>2. /\ q \in Seq(Frames) /\ n \in Nat /\ starting[r] \in BOOLEAN /\ started[c] \in BOOLEAN
          /\ seq[c] \in Nat /\ dropping[c] \in BOOLEAN
          /\ out[r] \in Seq({0, 1} \X (1..MaxSeq))
      BY <1>1, <1>2, ReadTyped
    <3>3. Sound(q, n, starting[r], started[c], seq[c], dropping[c])
      BY <1>2, <3>1 DEF IInv, Reception, Received
    <3>4. madeOf[r] = seq[c] /\ (overOf[r] <=> Finished(q))
      <4>1. madeOf[r] = seq[c]
        BY <1>2, <3>1, MappedValues
      <4>2. overOf[r] <=> Finished(q)
        BY <1>2, <3>1, MappedValues DEF Finished
      <4> QED
        BY <4>1, <4>2
    <3>5. CASE how = "complete"
      <4>1. out[r] # <<>> /\ q # <<>> /\ q[1].type = "response_end"
        BY <1>2, <1>11, <3>5 DEF Justified
      <4>2. 1 \in DOMAIN q /\ Terminal(q[1])
        BY <3>2, <4>1 DEF Terminal
      <4>3. Len(q) = 1
        BY <3>3, <4>2 DEF Sound, Ordered
      <4>4. Finished(q) /\ Ended(q) = 1 /\ Begun(q) = 0
        BY <4>1, <4>2, <4>3 DEF Finished, Ended, Begun
      <4>5. dropping[c] = FALSE
        BY <3>2, <3>3, <4>4 DEF Sound
      <4>6. seq[c] = n
        BY <3>2, <3>3, <4>3, <4>4, <4>5 DEF Sound
      <4>7. Promise!Conclude(r, how)
        BY <1>3, <1>8, <1>9, <2>1, <2>2, <3>4, <3>5, <4>1, <4>4, <4>6 DEF Promise!Conclude, Promise!Forget
      <4> QED
        BY <3>5, <4>7 DEF Promise!Next
    <3>6. CASE how = "interrupted"
      <4>1. out[r] # <<>> \/ (q # <<>> /\ q[1].type = "response_chunk")
        BY <1>2, <1>11, <3>6 DEF Justified
      <4>2. n <= seq[c] /\ (out[r] # <<>> => n > 0)
        BY <3>2, <3>3 DEF Sound
      <4>3. q # <<>> /\ q[1].type = "response_chunk" => n + 1 <= seq[c]
        BY <3>2, <3>3, SoundChunk
      <4>4. madeOf[r] > 0
        BY <3>2, <3>4, <4>1, <4>2, <4>3
      <4>5. Promise!Conclude(r, how)
        BY <1>3, <1>8, <1>9, <2>1, <2>2, <3>6, <4>4 DEF Promise!Conclude, Promise!Forget
      <4> QED
        BY <3>6, <4>5 DEF Promise!Next
    <3> QED
      BY <2>5, <3>5, <3>6
  <2> QED
    BY <2>4, <2>5
<1> QED
  BY <1>3, <1>10, <1>11 DEF Closing

\* A frame that is recorded is a chunk produced, the end, or nothing Gateway sees.
LEMMA RecordsRefines ==
    ASSUME IInv, TypeOK', NEW s \in Sessions, NEW a \in Attempts, NEW f \in Frames, Records(s, a, f)
    PROVE  Promise!Next \/ UNCHANGED Promise!vars
<1> USE DEF handlerState
<1>1. TypeOK
  BY DEF IInv
<1>2. PICK r \in Requests : r = a[1]
  BY AttemptParts
<1>3. a = Current(r) /\ Forwarding(r) /\ Held(a) /\ ~dropping[a] /\ ~OutOfOrder(a, f)
  BY <1>2, RecordsRead
<1>4. /\ UNCHANGED <<pc, attempt, out, reply>> /\ a = Current(r)'
      /\ pc[r] = "forwarding" /\ pc'[r] = "forwarding"
  BY <1>3 DEF Records, Current, Forwarding
<1> DEFINE q == events[a]
<1>5. q \in Seq(Frames) /\ seq[a] \in Nat
  BY <1>1, <1>3, ReadTyped
<1>6. Ended(q) = 0 /\ ~Finished(q)
  <2>1. Received(r) /\ Ended(q) # 1
    BY <1>3 DEF IInv, Reception, Received
  <2>2. Ended(q) = 0
    BY <1>3, <1>5, <2>1, EndsTyped DEF Received, Sound
  <2> QED
    BY <2>2 DEF Ended, Finished, Terminal
<1>7. Only(r)
  <2> SUFFICES ASSUME NEW p \in Requests, p # r PROVE Same(p)
    BY DEF Only
  <2>1. PICK d \in Attempts : d = Current(p)
    BY <1>1, CurrentTyped
  <2>2. d # a
    BY <1>3, <2>1, CurrentInjective
  <2>3. events'[d] = events[d] /\ seq'[d] = seq[d]
    BY <1>1, <2>2 DEF Records, Track, TypeOK
  <2> QED
    BY <1>4, <2>1, <2>3, MappedSame
<1>8. /\ phaseOf[r] = "open" /\ phaseOf'[r] = "open"
      /\ madeOf[r] = seq[a] /\ madeOf'[r] = seq'[a]
  BY <1>3, <1>4, MappedValues, MappedValuesNext
<1>9. overOf[r] = FALSE /\ overOf'[r] = Finished(events'[a])
  <2>1. overOf[r] = FALSE
    BY <1>3, <1>6, MappedValues
  <2>2. overOf'[r] = Finished(events'[a])
    BY <1>4, MappedValuesNext DEF Finished
  <2> QED
    BY <2>1, <2>2
<1>10. seq'[a] = IF f.type = "response_chunk" THEN f.seq ELSE seq[a]
  BY <1>1 DEF Records, Track, TypeOK
<1>11. /\ phaseOf' = [phaseOf EXCEPT ![r] = phaseOf'[r]]
       /\ madeOf' = [madeOf EXCEPT ![r] = madeOf'[r]]
       /\ overOf' = [overOf EXCEPT ![r] = overOf'[r]]
  BY <1>7, MappedUpdate
<1>12. phaseOf' = phaseOf
  BY <1>8, <1>11 DEF phaseOf
<1>13. Finished(events'[a]) => f.type = "response_end"
  <2>1. CASE events' = [events EXCEPT ![a] = Append(@, f)]
    <3>1. events'[a] = Append(q, f) /\ Append(q, f)[Len(Append(q, f))] = f
      BY <1>1, <1>5, <2>1 DEF TypeOK
    <3> QED
      BY <3>1 DEF Finished
  <2>2. CASE UNCHANGED events
    BY <1>6, <2>2 DEF Finished
  <2> QED
    BY <2>1, <2>2 DEF Records
<1>14. CASE f.type = "response_chunk"
  <2>1. overOf'[r] = FALSE
    BY <1>9, <1>13, <1>14
  <2>2. overOf' = overOf
    BY <1>9, <1>11, <2>1 DEF overOf
  <2>3. f.seq = seq[a] + 1 /\ f.seq \in 1..MaxSeq
    BY <1>3, <1>14, FrameFields DEF OutOfOrder
  <2>4. madeOf' = [madeOf EXCEPT ![r] = @ + 1] /\ madeOf[r] < MaxSeq
    <3>1. madeOf'[r] = madeOf[r] + 1
      BY <1>8, <1>10, <1>14, <2>3
    <3>2. madeOf[r] < MaxSeq
      BY <1>5, <1>8, <2>3, ChunkAssumption
    <3> QED
      BY <1>11, <3>1, <3>2
  <2>5. Promise!Produce(r)
    BY <1>4, <1>8, <1>9, <1>12, <2>2, <2>4 DEF Promise!Produce
  <2> QED
    BY <2>5 DEF Promise!Next
<1>15. CASE f.type # "response_chunk"
  <2>1. madeOf'[r] = madeOf[r]
    BY <1>8, <1>10, <1>15
  <2>2. madeOf' = madeOf
    BY <1>11, <2>1 DEF madeOf
  <2>3. CASE Finished(events'[a])
    <3>1. overOf' = [overOf EXCEPT ![r] = TRUE]
      BY <1>9, <1>11, <2>3 DEF Finished
    <3>2. Promise!Finish(r)
      BY <1>4, <1>8, <1>9, <1>12, <2>2, <3>1 DEF Promise!Finish
    <3> QED
      BY <3>2 DEF Promise!Next
  <2>4. CASE ~Finished(events'[a])
    <3>1. Same(r)
      BY <1>8, <1>9, <2>1, <2>4 DEF Same, Finished
    <3>2. UNCHANGED Promise!vars
      BY <1>4, <1>7, <3>1, Stutter DEF Only
    <3> QED
      BY <3>2
  <2> QED
    BY <2>3, <2>4
<1> QED
  BY <1>14, <1>15

\* A frame that is taken is a chunk shown, or nothing Gateway sees.
LEMMA TakesRefines ==
    ASSUME IInv, TypeOK', NEW r \in Requests, Takes(r)
    PROVE  Promise!Next \/ UNCHANGED Promise!vars
<1>1. TypeOK
  BY DEF IInv
<1>2. PICK a \in Attempts : a = Current(r)
  BY <1>1, CurrentTyped
<1> DEFINE q == events[a]
           n == Len(out[r])
<1>3. /\ UNCHANGED <<seq, pc, attempt, reply>> /\ Forwarding(r) /\ q # <<>>
      /\ events' = [events EXCEPT ![a] = Tail(q)]
      /\ q[1].type \in {"response_start", "response_chunk"}
  BY <1>2 DEF Takes
<1>4. /\ q \in Seq(Frames) /\ n \in Nat /\ starting[r] \in BOOLEAN /\ started[a] \in BOOLEAN
      /\ seq[a] \in Nat /\ dropping[a] \in BOOLEAN
      /\ out[r] \in Seq({0, 1} \X (1..MaxSeq))
  BY <1>1, <1>2, ReadTyped
<1>5. Sound(q, n, starting[r], started[a], seq[a], dropping[a])
  BY <1>2, <1>3 DEF IInv, Reception, Received
<1>6. a = Current(r)' /\ pc[r] = "forwarding" /\ pc'[r] = "forwarding" /\ events'[a] = Tail(q)
  BY <1>1, <1>2, <1>3 DEF Current, Forwarding, TypeOK
<1>7. Finished(events'[a]) <=> Finished(q)
  BY <1>3, <1>4, <1>6, FinishKept
<1>8. \A p \in Requests : Same(p)
  <2> TAKE p \in Requests
  <2>1. PICK d \in Attempts : d = Current(p)
    BY <1>1, CurrentTyped
  <2>2. CASE d = a
    <3>1. p = r
      BY <1>2, <2>1, <2>2, CurrentInjective
    <3>2. phaseOf'[r] = phaseOf[r] /\ madeOf'[r] = madeOf[r]
      BY <1>2, <1>3, <1>6, MappedValues, MappedValuesNext DEF Forwarding
    <3>3. overOf'[r] = overOf[r]
      <4>1. overOf[r] = Finished(q)
        BY <1>2, <1>3, MappedValues DEF Finished
      <4>2. overOf'[r] = Finished(events'[a])
        BY <1>6, MappedValuesNext DEF Finished
      <4> QED
        BY <1>7, <4>1, <4>2 DEF Finished
    <3> QED
      BY <3>1, <3>2, <3>3 DEF Same
  <2>3. CASE d # a
    <3>1. events'[d] = events[d]
      BY <1>1, <1>3, <2>3 DEF TypeOK
    <3> QED
      BY <1>3, <2>1, <3>1, MappedSame
  <2> QED
    BY <2>2, <2>3
<1>9. CASE UNCHANGED out
  BY <1>3, <1>8, <1>9, Stutter
<1>10. CASE /\ q[1].type = "response_chunk"
            /\ out' = [out EXCEPT ![r] = Append(@, <<attempt[r], q[1].seq>>)]
  <2>1. q[1].seq = n + 1 /\ n + 1 <= seq[a]
    BY <1>3, <1>4, <1>5, <1>10, SoundChunk
  <2>2. out' = [out EXCEPT ![r] = Append(@, <<attempt[r], Len(@) + 1>>)]
    BY <1>10, <2>1
  <2>3. phaseOf[r] = "open" /\ madeOf[r] = seq[a]
    BY <1>2, <1>3, <1>6, MappedValues
  <2>4. n < madeOf[r]
    BY <1>4, <2>1, <2>3
  <2>5. phaseOf' = phaseOf /\ madeOf' = madeOf /\ overOf' = overOf
    <3>1. /\ phaseOf = [p \in Requests |-> phaseOf[p]] /\ phaseOf' = [p \in Requests |-> phaseOf'[p]]
      BY DEF phaseOf
    <3>2. /\ madeOf = [p \in Requests |-> madeOf[p]] /\ madeOf' = [p \in Requests |-> madeOf'[p]]
      BY DEF madeOf
    <3>3. /\ overOf = [p \in Requests |-> overOf[p]] /\ overOf' = [p \in Requests |-> overOf'[p]]
      BY DEF overOf
    <3> QED
      BY <1>8, <3>1, <3>2, <3>3 DEF Same
  <2>6. Promise!Show(r)
    BY <1>3, <2>2, <2>3, <2>4, <2>5 DEF Promise!Show
  <2> QED
    BY <2>6 DEF Promise!Next
<1> QED
  BY <1>2, <1>9, <1>10 DEF Takes

\* Every step of the coordinator is a step of Gateway, or none.
LEMMA NextRefines ==
    ASSUME IInv, TypeOK', [Next]_vars
    PROVE  Promise!Next \/ UNCHANGED Promise!vars
<1> USE DEF handlerState, attemptState
<1>1. TypeOK
  BY DEF IInv
<1>2. ASSUME UNCHANGED <<events, seq, pc, attempt, out, reply>>
      PROVE  UNCHANGED Promise!vars
  <2>1. \A q \in Requests : Same(q)
    <3> TAKE q \in Requests
    <3>1. PICK c \in Attempts : c = Current(q)
      BY <1>1, CurrentTyped
    <3> QED
      BY <1>2, <3>1, MappedSame
  <2> QED
    BY <1>2, <2>1, Stutter
<1>3. CASE Elsewhere \/ \E s \in Sessions : Ends(s)
  BY <1>2, <1>3 DEF Elsewhere, Ends
<1>4. ASSUME NEW s \in Sessions, NEW a \in Attempts, NEW f \in Frames, Ignores(s, a, f)
      PROVE  UNCHANGED Promise!vars
  BY <1>2, <1>4 DEF Ignores
<1>5. ASSUME NEW r \in Requests, pc[r] # "forwarding", UNCHANGED <<events, seq, attempt>>,
             \A q \in Requests : q # r => pc'[q] = pc[q]
      PROVE  Only(r)
  <2> SUFFICES ASSUME NEW q \in Requests, q # r PROVE Same(q)
    BY DEF Only
  <2>1. PICK c \in Attempts : c = Current(q)
    BY <1>1, CurrentTyped
  <2> QED
    BY <1>5, <2>1, MappedSame
<1>6. ASSUME NEW r \in Requests, SendOK(r) \/ \E s \in Sessions, o \in Offers : Select(r, s, o)
      PROVE  UNCHANGED Promise!vars
  <2>1. /\ UNCHANGED <<events, seq, attempt, out, reply>> /\ pc[r] \in {"selecting", "selected"}
        /\ \/ pc' = [pc EXCEPT ![r] = "selected"]
           \/ pc' = [pc EXCEPT ![r] = "forwarding"]
    BY <1>6 DEF SendOK, Select
  <2>2. Only(r)
    BY <1>1, <1>5, <2>1 DEF TypeOK
  <2>3. PICK c \in Attempts : c = Current(r)
    BY <1>1, CurrentTyped
  <2>4. events[c] = <<>> /\ seq[c] = 0
    BY <2>1, <2>3, AttemptParts DEF IInv, Unread, Reading, Forwarding
  <2>5. c = Current(r)' /\ pc'[r] \in {"selected", "forwarding"}
    BY <1>1, <2>1, <2>3 DEF Current, TypeOK
  <2>6. Same(r)
    BY <2>1, <2>3, <2>4, <2>5, MappedValues, MappedValuesNext DEF Same, Forwarding, Finished
  <2> QED
    BY <2>1, <2>2, <2>6, Stutter DEF Only
<1>7. ASSUME NEW r \in Requests, Steps(r) PROVE Promise!Next
  <2>1. /\ UNCHANGED <<events, seq, attempt, out>> /\ pc[r] \in {"idle", "selecting"}
        /\ out[r] = <<>>
    BY <1>7 DEF Steps, IInv, Body
  <2>2. Only(r)
    <3>1. \/ pc' = [pc EXCEPT ![r] = "selecting"]
          \/ pc' = [pc EXCEPT ![r] = "done"]
      BY <1>7 DEF Steps
    <3>2. \A q \in Requests : q # r => pc'[q] = pc[q]
      BY <1>1, <3>1 DEF TypeOK
    <3> QED
      BY <1>5, <2>1, <3>2
  <2>3. PICK c \in Attempts : c = Current(r)'
    BY <1>1, <2>1, CurrentTyped DEF Current
  <2>4. pc'[r] \in {"selecting", "done"}
    BY <1>1, <1>7 DEF Steps, TypeOK
  <2>5. /\ madeOf[r] = 0 /\ overOf[r] = FALSE /\ madeOf'[r] = 0 /\ overOf'[r] = FALSE
        /\ phaseOf[r] = IF pc[r] = "idle" THEN "idle" ELSE "open"
        /\ phaseOf'[r] = IF pc'[r] = "done" THEN "closed" ELSE "open"
    BY <2>1, <2>3, <2>4, MappedValues, MappedValuesNext DEF Forwarding
  <2>6. /\ phaseOf' = [phaseOf EXCEPT ![r] = phaseOf'[r]]
        /\ madeOf' = [madeOf EXCEPT ![r] = 0]
        /\ overOf' = [overOf EXCEPT ![r] = FALSE]
    BY <2>2, <2>5, MappedUpdate
  <2>7. madeOf' = madeOf /\ overOf' = overOf
    BY <2>5, <2>6 DEF madeOf, overOf
  <2>8. CASE pc[r] = "idle" /\ pc' = [pc EXCEPT ![r] = "selecting"] /\ UNCHANGED reply
    <3>1. pc'[r] = "selecting"
      BY <1>1, <2>8 DEF TypeOK
    <3>2. Promise!Accept(r)
      BY <2>1, <2>5, <2>6, <2>7, <2>8, <3>1 DEF Promise!Accept
    <3> QED
      BY <3>2 DEF Promise!Next
  <2>9. CASE pc' = [pc EXCEPT ![r] = "done"] /\ reply' = [reply EXCEPT ![r] = "error"]
    <3>1. pc'[r] = "done"
      BY <1>1, <2>9 DEF TypeOK
    <3>2. phaseOf' = [phaseOf EXCEPT ![r] = "closed"]
      BY <2>5, <2>6, <3>1
    <3>3. CASE pc[r] = "idle"
      <4>1. Promise!Reject(r)
        BY <2>1, <2>5, <2>7, <2>9, <3>2, <3>3 DEF Promise!Reject
      <4> QED
        BY <4>1 DEF Promise!Next
    <3>4. CASE pc[r] = "selecting"
      <4>1. Promise!Conclude(r, "error")
        BY <2>1, <2>5, <2>6, <2>9, <3>2, <3>4 DEF Promise!Conclude, Promise!Forget
      <4> QED
        BY <4>1 DEF Promise!Next
    <3> QED
      BY <2>1, <3>3, <3>4
  <2> QED
    BY <1>7, <2>8, <2>9 DEF Steps
<1> QED
  BY <1>3, <1>4, <1>6, <1>7, FlowSteps, LeavesRefines, RecordsRefines, TakesRefines

\* The coordinator keeps the promise that Gateway states, for every number of
\* hosts and requests: a buyer gets a gapless prefix of one generation, never
\* replaced once shown, and "complete" means all of it.
THEOREM GatewayHolds == Spec => GatewayPromise
<1>1. Init => Promise!Init
  <2> SUFFICES ASSUME Init PROVE Promise!Init
    OBVIOUS
  <2>1. /\ \A r \in Requests : pc[r] = "idle"
        /\ attempt = [r \in Requests |-> 0] /\ out = [r \in Requests |-> <<>>]
        /\ reply = [r \in Requests |-> "none"]
    BY DEF Init
  <2>2. \A r \in Requests : phaseOf[r] = "idle" /\ madeOf[r] = 0 /\ overOf[r] = FALSE
    BY <2>1, MappedValues DEF Forwarding
  <2>3. /\ phaseOf = [q \in Requests |-> phaseOf[q]] /\ madeOf = [q \in Requests |-> madeOf[q]]
        /\ overOf = [q \in Requests |-> overOf[q]]
    BY DEF phaseOf, madeOf, overOf
  <2>4. /\ phaseOf = [r \in Requests |-> "idle"] /\ madeOf = [r \in Requests |-> 0]
        /\ overOf = [r \in Requests |-> FALSE]
    BY <2>2, <2>3
  <2> QED
    BY <2>1, <2>4 DEF Promise!Init
<1>2. IInv /\ [Next]_vars => [Promise!Next]_(Promise!vars)
  <2> SUFFICES ASSUME IInv, [Next]_vars PROVE Promise!Next \/ UNCHANGED Promise!vars
    OBVIOUS
  <2>1. TypeOK'
    BY TypeNext DEF IInv
  <2> QED
    BY <2>1, NextRefines
<1> QED
  BY <1>1, <1>2, Strengthening, PTL DEF Spec, GatewayPromise, Promise!Spec
=============================================================================
