-------------------------------- MODULE Peer --------------------------------
(***************************************************************************)
(* One end of a connection, internal/wire: goroutines call Send, which      *)
(* queues a frame and waits; one write loop takes control frames before     *)
(* chunks and writes them.                                                  *)
(*                                                                          *)
(* The other end is the environment: it reads, or stops reading, in which   *)
(* case a write goes on until its context ends. A read loop that answers is *)
(* a sender too, so two ends that wait for each other are two such peers.   *)
(***************************************************************************)
EXTENDS Naturals, Sequences

CONSTANTS
    Senders,   \* goroutines that send: read loop, heartbeats, attempts
    QueueCap,  \* slots of each queue, 64 in the code
    MaxSends   \* bound: frames of one sender

ASSUME BoundsAssumption == QueueCap \in Nat \ {0} /\ MaxSends \in Nat

VARIABLES
    closed,   \* the peer's context is done
    conn,     \* the socket: "up", "stalled" (nobody reads), "down"
    control,  \* queue of all frames but chunks
    data,     \* queue of chunks
    loop,     \* writeLoop: "poll", "select", "check", "write", "over"
    current,  \* the frame the loop has taken last
    at,       \* each sender in Send: "idle", "control" or "data" until queued, "wait"
    sends,    \* its calls of Send so far; a frame is a sender and this number
    ended,    \* the context of its call has ended
    done,     \* what the loop said of its call
    result,   \* what its last call returned
    wire,     \* frames written, in order
    passed    \* chunks taken while a control frame waited, since one was taken

queues == <<control, data>>
calls == <<at, sends, ended, done, result>>
vars == <<closed, conn, queues, loop, current, calls, wire, passed>>

Frames == Senders \X (1..MaxSends)
None == <<>>

\* The frame of the call a sender is in.
FrameOf(s) == <<s, sends[s]>>

\* The context of a frame's call: it has ended, or the call has returned, which
\* cancels it.
Dead(f) == f # FrameOf(f[1]) \/ at[f[1]] = "idle" \/ ended[f[1]]

TypeOK ==
    /\ closed \in BOOLEAN
    /\ conn \in {"up", "stalled", "down"}
    /\ control \in Seq(Frames) /\ Len(control) <= QueueCap
    /\ data \in Seq(Frames) /\ Len(data) <= QueueCap
    /\ loop \in {"poll", "select", "check", "write", "over"}
    /\ current \in Frames \cup {None}
    /\ loop \in {"check", "write"} => current \in Frames
    /\ at \in [Senders -> {"idle", "control", "data", "wait"}]
    /\ sends \in [Senders -> 0..MaxSends]
    /\ ended \in [Senders -> BOOLEAN]
    /\ done \in [Senders -> {"none", "ok", "error"}]
    /\ result \in [Senders -> {"none", "ok", "error"}]
    /\ wire \in Seq(Frames)
    /\ passed \in Nat

Init ==
    /\ closed = FALSE /\ conn = "up"
    /\ control = <<>> /\ data = <<>>
    /\ loop = "poll" /\ current = None
    /\ at = [s \in Senders |-> "idle"]
    /\ sends = [s \in Senders |-> 0]
    /\ ended = [s \in Senders |-> FALSE]
    /\ done = [s \in Senders |-> "none"]
    /\ result = [s \in Senders |-> "none"]
    /\ wire = <<>> /\ passed = 0

-----------------------------------------------------------------------------
(* Send.                                                                    *)

\* A call, of a chunk or of another frame, with a context of five seconds at most.
Begin(s, queue) ==
    /\ at[s] = "idle" /\ sends[s] < MaxSends
    /\ at' = [at EXCEPT ![s] = queue]
    /\ sends' = [sends EXCEPT ![s] = @ + 1]
    /\ UNCHANGED <<closed, conn, queues, loop, current, ended, done, result, wire, passed>>

\* The frame finds room in its queue.
Enqueue(s) ==
    /\ \/ /\ at[s] = "control" /\ Len(control) < QueueCap
          /\ control' = Append(control, FrameOf(s)) /\ UNCHANGED data
       \/ /\ at[s] = "data" /\ Len(data) < QueueCap
          /\ data' = Append(data, FrameOf(s)) /\ UNCHANGED control
    /\ at' = [at EXCEPT ![s] = "wait"]
    /\ UNCHANGED <<closed, conn, loop, current, sends, ended, done, result, wire, passed>>

\* The call returns, and its variables end with it.
Return(s, how) ==
    /\ at' = [at EXCEPT ![s] = "idle"]
    /\ result' = [result EXCEPT ![s] = how]
    /\ ended' = [ended EXCEPT ![s] = FALSE]
    /\ done' = [done EXCEPT ![s] = "none"]
    /\ UNCHANGED <<closed, conn, queues, loop, current, sends, wire, passed>>

\* The loop's answer is one of the three cases select may find ready.
Answered(s) == at[s] = "wait" /\ done[s] # "none" /\ Return(s, done[s])

GivesUp(s) == at[s] # "idle" /\ (ended[s] \/ closed) /\ Return(s, "error")

\* Mutant: Send waits as long as its caller lets it.
ExpireNever(s) == FALSE

\* Five seconds have passed, or the caller's context ends.
Expire(s) ==
    /\ at[s] # "idle" /\ ~ended[s]
    /\ ended' = [ended EXCEPT ![s] = TRUE]
    /\ UNCHANGED <<closed, conn, queues, loop, current, at, sends, done, result, wire, passed>>

-----------------------------------------------------------------------------
(* writeLoop.                                                               *)

\* The loop answers a call; nobody listens to one that has returned.
Say(f, how) ==
    done' = [s \in Senders |-> IF f = FrameOf(s) /\ at[s] = "wait" THEN how ELSE done[s]]

TakeControl ==
    /\ control # <<>>
    /\ current' = Head(control) /\ control' = Tail(control)
    /\ loop' = "check" /\ passed' = 0
    /\ UNCHANGED <<closed, conn, data, calls, wire>>

TakeData ==
    /\ data # <<>>
    /\ current' = Head(data) /\ data' = Tail(data)
    /\ loop' = "check"
    /\ passed' = IF control = <<>> THEN 0 ELSE passed + 1
    /\ UNCHANGED <<closed, conn, control, calls, wire>>

\* Mutant: one select for both queues.
PollBoth == loop = "poll" /\ (TakeControl \/ TakeData)

\* A control frame is taken if there is one.
Poll ==
    /\ loop = "poll"
    /\ IF control # <<>> THEN TakeControl
       ELSE /\ loop' = "select" /\ passed' = 0
            /\ UNCHANGED <<closed, conn, queues, current, calls, wire>>

\* The loop returns, and closes the peer.
Leave ==
    /\ loop' = "over" /\ closed' = TRUE
    /\ UNCHANGED <<conn, queues, current, passed>>

\* Mutant: the loop waits for frames only.
SelectDeaf == loop = "select" /\ (TakeControl \/ TakeData)

\* Whichever comes first: a frame, or the end of the peer.
Select ==
    /\ loop = "select"
    /\ TakeControl \/ TakeData \/ (closed /\ Leave /\ UNCHANGED <<calls, wire>>)

\* Mutant: a frame is written although its sender has given up.
CheckNothing ==
    /\ loop = "check"
    /\ loop' = "write"
    /\ UNCHANGED <<closed, conn, queues, current, calls, wire, passed>>

\* A frame whose sender has given up is dropped.
Check ==
    /\ loop = "check"
    /\ IF Dead(current)
        THEN loop' = "poll" /\ Say(current, "error")
        ELSE loop' = "write" /\ UNCHANGED done
    /\ UNCHANGED <<closed, conn, queues, current, at, sends, ended, result, wire, passed>>

Written ==
    /\ loop = "write" /\ conn = "up"
    /\ wire' = Append(wire, current)
    /\ Say(current, "ok")
    /\ loop' = "poll"
    /\ UNCHANGED <<closed, conn, queues, current, at, sends, ended, result, passed>>

\* Mutant: the loop reports the frame as sent whatever Write returned.
WriteFailsSilently ==
    /\ loop = "write" /\ (conn = "down" \/ Dead(current))
    /\ UNCHANGED wire
    /\ Say(current, "ok")
    /\ Leave
    /\ UNCHANGED <<at, sends, ended, result>>

\* A write whose context ends may have reached the other end all the same.
WriteFails ==
    /\ loop = "write" /\ (conn = "down" \/ Dead(current))
    /\ UNCHANGED wire \/ (conn = "up" /\ wire' = Append(wire, current))
    /\ Say(current, "error")
    /\ Leave
    /\ UNCHANGED <<at, sends, ended, result>>

-----------------------------------------------------------------------------
(* The peer's end, and the other end.                                       *)

Close ==
    /\ ~closed
    /\ closed' = TRUE
    /\ UNCHANGED <<conn, queues, loop, current, calls, wire, passed>>

\* context.AfterFunc closes the socket of a closed peer.
CloseNow ==
    /\ closed /\ conn # "down"
    /\ conn' = "down"
    /\ UNCHANGED <<closed, queues, loop, current, calls, wire, passed>>

\* The other end stops reading, reads again, or is gone.
Other ==
    /\ conn # "down"
    /\ conn' \in {"up", "stalled", "down"} \ {conn}
    /\ UNCHANGED <<closed, queues, loop, current, calls, wire, passed>>

-----------------------------------------------------------------------------

WriteLoop == Poll \/ Select \/ Check \/ Written \/ WriteFails

Send(s) ==
    \/ \E queue \in {"control", "data"} : Begin(s, queue)
    \/ Enqueue(s) \/ Answered(s) \/ GivesUp(s) \/ Expire(s)

Next == (\E s \in Senders : Send(s)) \/ WriteLoop \/ Close \/ CloseNow \/ Other

Spec == Init /\ [][Next]_vars

\* Timers fire, selects with a ready case go on, and AfterFunc runs.
Liveness ==
    /\ \A s \in Senders :
        WF_vars(Expire(s)) /\ WF_vars(Enqueue(s) \/ Answered(s) \/ GivesUp(s))
    /\ WF_vars(WriteLoop) /\ WF_vars(CloseNow)

FairSpec == Spec /\ Liveness

-----------------------------------------------------------------------------
(* Properties.                                                              *)

\* The frames of one sender arrive in the order it sent them and none of them
\* twice, though chunks and control frames take different queues and a sender
\* goes on while a frame it gave up is still queued or being written (peer.go:70).
SendOrder ==
    \A i, j \in DOMAIN wire :
        i < j /\ wire[i][1] = wire[j][1] => wire[i][2] < wire[j][2]

\* A call that returned nil has its frame on the wire, and so has a call that
\* is about to.
SentIsWritten ==
    \A s \in Senders :
        done[s] = "ok" \/ (at[s] = "idle" /\ result[s] = "ok") =>
            \E i \in DOMAIN wire : wire[i] = FrameOf(s)

\* "prioritizing control messages between chunks" (peer.go:1): a control frame
\* that waits sees at most one chunk go first.
ControlFirst == passed <= 1

\* No call of Send lasts for ever, though the other end reads nothing, the
\* queues are full and its read loop may itself be in Send (peer.go:41).
SendReturns == \A s \in Senders : at[s] # "idle" ~> at[s] = "idle"

\* A peer that is closed, by whomever, ends its write loop and its socket.
CloseCompletes == closed ~> (loop = "over" /\ conn = "down")
=============================================================================
