--------------------------- MODULE MCIpcMessageQueue ---------------------------
(***************************************************************************)
(* Instances of IpcMessageQueue for TLC, of which a behaviour runs the one *)
(* chosen at the start (part).  The threads are model values: w1 and w2    *)
(* send, r receives, and c1 and c2 stop and clear through the object of w1 *)
(* and of r.                                                               *)
(*   crash    IpcMessageQueue as this module extends it: two writers, and  *)
(*            processes that die;                                          *)
(*   control  one writer that blocks or throws when the queue is full,     *)
(*            threads that stop and clear, and spurious wake-ups.          *)
(***************************************************************************)
EXTENDS IpcMessageQueue

CONSTANTS w1, w2, r, c1, c2, P1, P2, PR,
          Parts

VARIABLE part

AllThreads == {w1, w2, r}
AllProcesses == {P1, P2, PR}
MCProcessOf == [t \in AllThreads |-> CASE t = w1 -> P1 [] t = w2 -> P2 [] t = r -> PR]
MCPoliciesOf == [p \in AllProcesses |-> {"block"}]

Control == INSTANCE IpcMessageQueue
  WITH Threads <- {w1, r, c1, c2}, Processes <- {P1, PR}, Writers <- {w1}, Controllers <- {c1, c2},
       ProcessOf <- [t \in {w1, r, c1, c2} |-> IF t \in {w1, c1} THEN P1 ELSE PR],
       PoliciesOf <- [p \in {P1, PR} |-> IF p = P1 THEN {"block", "throw"} ELSE {"block"}],
       MaxControls <- 1, MaxWakeups <- 1, MaxCrashes <- 0

allVars == <<part, vars>>

PartInit == part \in Parts /\ IF part = "crash" THEN Init ELSE Control!Init

InCrash(A) == part = "crash" /\ A /\ UNCHANGED part
InControl(A) == part = "control" /\ A /\ UNCHANGED part

PartNext == InCrash(Next) \/ InControl(Control!Next)

PartSpec == PartInit /\ [][PartNext]_allVars
=============================================================================
