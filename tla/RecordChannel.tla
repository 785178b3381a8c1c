----------------------------- MODULE RecordChannel -----------------------------
(***************************************************************************)
(* What an asynchronous sink with a FIFO queue promises: the records it    *)
(* accepts reach the backend once each, in the order of acceptance, and a  *)
(* thread's records are accepted in the order the thread logged them.  A   *)
(* record is <<thread, number>>, numbered in the order of logging; numbers *)
(* may be missing, because a record may be discarded instead of accepted.  *)
(***************************************************************************)
EXTENDS Naturals, Sequences

CONSTANT Records

VARIABLES accepted, delivered

channelVars == <<accepted, delivered>>

Init == accepted = <<>> /\ delivered = <<>>

Accept(r) ==
  /\ \A i \in 1 .. Len(accepted) : accepted[i][1] = r[1] => accepted[i][2] < r[2]
  /\ accepted' = Append(accepted, r)
  /\ UNCHANGED delivered

Deliver ==
  /\ Len(delivered) < Len(accepted)
  /\ delivered' = Append(delivered, accepted[Len(delivered) + 1])
  /\ UNCHANGED accepted

Next == (\E r \in Records : Accept(r)) \/ Deliver

Spec == Init /\ [][Next]_channelVars
=============================================================================
