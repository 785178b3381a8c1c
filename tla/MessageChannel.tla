---------------------------- MODULE MessageChannel -----------------------------
(***************************************************************************)
(* What a reliable_message_queue promises its single reader: the messages  *)
(* it receives are the messages that were sent, whole, once each, in the   *)
(* order of sending.  The ones not received yet are given up only all      *)
(* together, and only when somebody asks for it (clear) or a process died  *)
(* in the middle of an operation on the queue.                             *)
(*                                                                         *)
(* broken and clearing are inputs: the channel looks at them when it gives *)
(* up messages, and lets them change in any way.                           *)
(***************************************************************************)
EXTENDS Sequences

CONSTANT Messages

VARIABLES pending, received,
          broken,     \* whether a process died in the middle of an operation
          clearing    \* the threads that have called clear

channelVars == <<pending, received>>

Init == pending = <<>> /\ received = <<>>

Send(m) ==
  /\ pending' = Append(pending, m)
  /\ UNCHANGED received

Receive ==
  /\ pending # <<>>
  /\ received' = Append(received, Head(pending))
  /\ pending' = Tail(pending)

Discard ==
  /\ broken \/ clearing # {}
  /\ pending' = <<>>
  /\ UNCHANGED received

Next == (\E m \in Messages : Send(m)) \/ Receive \/ Discard

Spec == Init /\ [][Next]_channelVars
=============================================================================
