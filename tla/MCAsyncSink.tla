------------------------------ MODULE MCAsyncSink ------------------------------
(***************************************************************************)
(* Instances of AsyncSink for TLC.  The threads are model values: d is the *)
(* dedicated thread, p1 and p2 log records, f1 and f2 flush, s1 stops and  *)
(* u1 and u2 are user threads that feed records.  A cfg picks the ones     *)
(* that take part by the roles it fills.                                   *)
(***************************************************************************)
EXTENDS AsyncSink

CONSTANTS d, p1, p2, f1, f2, s1, u1, u2

AllThreads == Producers \cup Flushers \cup Stoppers \cup Feeders \cup Dedicated
=============================================================================
