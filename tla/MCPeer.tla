------------------------------- MODULE MCPeer -------------------------------
(***************************************************************************)
(* Two senders of two frames each and queues of one slot: a queue can be    *)
(* full while the loop writes, and a sender can go on while the frame it    *)
(* gave up is still queued, taken or being written.                         *)
(***************************************************************************)
EXTENDS Peer
=============================================================================
