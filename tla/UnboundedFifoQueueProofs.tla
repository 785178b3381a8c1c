----------------------- MODULE UnboundedFifoQueueProofs ------------------------
(***************************************************************************)
(* The safety of sinks::unbounded_fifo_queue for any number of threads     *)
(* that enqueue and interrupt: the list is never read or written after it  *)
(* is freed, the queue implements a FIFO channel, and no wake-up is lost   *)
(* in any implementation of the event.                                     *)
(*                                                                         *)
(* ListInv ties the pointers to the history: the nodes since the start,    *)
(* numbered in the order of linking, are chained by next; the head is the  *)
(* node of the last record taken out, the tail the last node or, while a   *)
(* producer moves it, the last but one.  EventInv says for each            *)
(* implementation of the event who wakes a consumer that blocks.           *)
(***************************************************************************)
EXTENDS UnboundedFifoQueue, SequenceTheorems, TLAPS

(* The provers, with their limits in seconds, for the leaves that name none.  *)
USE ZenonT(10), SMTT(30)

(* The consumer is a thread of its own. *)
Roles == Consumer \notin Producers \cup Interrupters /\ MaxRecords \in Nat

KnownBuilds == Builds \subseteq {"atomic", "winapi", "semaphore", "generic"}

SignalPoints == {"outside", "lock_tail", "link", "move_tail", "signal", "exchange", "notify"}
ConsumerPoints ==
  {"outside", "try_dequeue", "dequeue_ready", "pop_again", "move_value", "wait", "block", "woken"}
Pushing == {"lock_tail", "link", "move_tail"}

Typed ==
  /\ pc \in [FifoThreads -> SignalPoints \cup ConsumerPoints]
  /\ pc[Consumer] \in ConsumerPoints
  /\ \A t \in FifoThreads \ {Consumer} : pc[t] \in SignalPoints
  /\ calls \in [FifoThreads -> Nat]
  /\ \A t \in FifoThreads : pc[t] \in Pushing => t \in Producers /\ calls[t] \in 1 .. MaxRecords
  /\ next \in [Nodes -> Nodes \cup {NULL}]
  /\ m_Head \in Nodes /\ m_Tail \in Nodes
  /\ linked \in Seq(Records) /\ popped \in Seq(Records)

-----------------------------------------------------------------------------
(* The list *)

(* Node i of the list since the start: the records behind the first node. *)
At(q, i) == IF i = 0 THEN FirstNode ELSE q[i]

(* Every record is linked once, and records of a thread in order. *)
Linked ==
  /\ \A i, j \in 1 .. Len(linked) : linked[i] = linked[j] => i = j
  /\ \A i \in 1 .. Len(linked) :
       LET p == linked[i][1]
       IN  /\ linked[i][2] <= calls[p]
           /\ pc[p] \in {"lock_tail", "link"} => linked[i][2] < calls[p]

(* The links lead from each node to the next. *)
Chained ==
  /\ \A i \in 0 .. Len(linked) - 1 : next[At(linked, i)] = linked[i + 1]
  /\ \A n \in Nodes : (\A i \in 0 .. Len(linked) - 1 : n # At(linked, i)) => next[n] = NULL

(* One producer at a time is at the tail. *)
AtTail ==
  /\ \A p \in Producers : p \in tail_mutex <=> pc[p] \in {"link", "move_tail"}
  /\ tail_mutex \subseteq Producers
  /\ \A p, r \in tail_mutex : p = r
  /\ \A p \in Producers :
       pc[p] = "move_tail" => /\ Len(linked) > 0 /\ linked[Len(linked)] = NewNode(p)
                              /\ m_Tail = At(linked, Len(linked) - 1)
  /\ (\A p \in Producers : pc[p] # "move_tail") => m_Tail = At(linked, Len(linked))

(* The records taken out are the first that were linked. *)
Taken == Len(popped) + (IF pc[Consumer] = "move_value" THEN 1 ELSE 0)
AtHead ==
  /\ Taken <= Len(linked)
  /\ \A i \in 1 .. Len(popped) : popped[i] = linked[i]
  /\ m_Head = At(linked, Taken)
  /\ pc[Consumer] = "move_value" => node_to_free = At(linked, Len(popped))

(* The nodes before the head are deallocated, and values are there to be read. *)
Memory ==
  /\ freed = {At(linked, i) : i \in 0 .. Len(popped) - 1}
  /\ StoresInOrder =>
       /\ \A i \in 1 .. Len(linked) : linked[i] \in constructed
       /\ \A p \in Producers : pc[p] \in {"lock_tail", "link"} => NewNode(p) \in constructed

ListInv == Typed /\ Linked /\ Chained /\ AtTail /\ AtHead /\ Memory

(* The first node is no record, and no node at all is none of them.           *)
LEMMA NodeKinds ==
  ASSUME Roles
  PROVE  /\ FirstNode \in Nodes /\ FirstNode \notin Records /\ Records \subseteq Nodes
         /\ NULL \notin Nodes
  BY DEF FirstNode, Nodes, Records, NULL, Roles

(* A step that leaves the list alone, and every thread out of it. *)
Aside ==
  /\ UNCHANGED <<m_Head, m_Tail, next, tail_mutex, node_to_free, constructed, freed, linked, popped>>
  /\ \A t \in FifoThreads :
       /\ calls'[t] >= calls[t]
       /\ pc[t] \in Pushing \cup {"move_value"} => pc'[t] = pc[t] /\ calls'[t] = calls[t]
       /\ pc'[t] \in Pushing \cup {"move_value"} => pc'[t] = pc[t] /\ calls'[t] = calls[t]

(* Such a step keeps the list in order.                                       *)
LEMMA AsideKeeps ==
  ASSUME Roles, ListInv, Aside, Typed'
  PROVE  ListInv'
  <1> USE DEF FifoThreads, Pushing
  <1>1. UNCHANGED <<m_Head, m_Tail, next, tail_mutex, node_to_free, constructed, freed, linked, popped>>
    BY DEF Aside
  <1>2. \A i \in 1 .. Len(linked) :
          linked[i] \in Records /\ linked[i][1] \in FifoThreads /\ linked[i][2] \in Nat
    BY ElementOfSeq, SMTT(30) DEF ListInv, Typed, Records
  <1>3. Linked'
    BY <1>1, <1>2, SMTT(30) DEF ListInv, Linked, Aside, Typed
  <1>4. Chained'
    BY <1>1 DEF ListInv, Chained, At
  <1>5. \A p \in Producers : pc'[p] \in {"lock_tail", "link", "move_tail"} => NewNode(p)' = NewNode(p)
    BY DEF Aside, NewNode
  <1>6. AtTail'
    BY <1>1, <1>5 DEF ListInv, AtTail, Aside, At
  <1>7. AtHead' /\ Memory'
    BY <1>1, <1>5 DEF ListInv, AtHead, Taken, Memory, Aside, At
  <1> QED BY <1>3, <1>4, <1>6, <1>7 DEF ListInv
(* try_pop, when it finds a record. *)
Pops ==
  /\ next[m_Head] # NULL
  /\ pc[Consumer] \in {"try_dequeue", "dequeue_ready", "pop_again"}
  /\ pc' = [pc EXCEPT ![Consumer] = "move_value"]
  /\ node_to_free' = m_Head /\ m_Head' = next[m_Head]
  /\ UNCHANGED <<m_Tail, next, tail_mutex, calls, constructed, freed, linked, popped>>

(* A step changes the list in one of six ways, or not at all.                 *)
LEMMA ListSteps ==
  ASSUME Roles, Typed, [Next]_vars
  PROVE  \/ (Aside /\ Typed')
         \/ \E p \in Producers : enqueue(p) \/ lock_tail(p) \/ link(p) \/ move_tail(p)
         \/ Pops
         \/ move_value
  <1> USE DEF step, eventVars, listVars, memoryVars, FifoThreads, Pushing, SignalPoints,
              ConsumerPoints, Roles
  <1>T. ASSUME NEW t \in FifoThreads, set_signalled(t) \/ exchange_state(t) \/ notify(t)
        PROVE  Aside /\ Typed'
    <2>1. /\ UNCHANGED <<m_Head, m_Tail, next, tail_mutex, node_to_free, constructed, freed, linked,
                         popped, calls>>
          /\ pc[t] \in {"signal", "exchange", "notify"}
          /\ pc' = [pc EXCEPT ![t] = pc'[t]] /\ pc'[t] \in {"outside", "exchange", "notify"}
      BY <1>T DEF set_signalled, exchange_state, notify, signalVars, Typed
    <2>2. t # Consumer
      BY <2>1 DEF Typed
    <2> QED BY <2>1, <2>2, SMTT(30) DEF Aside, Typed
  <1>C. ASSUME wait \/ block \/ woken \/ begin_dequeue
        PROVE  Aside /\ Typed'
    <2>1. /\ UNCHANGED <<m_Head, m_Tail, next, tail_mutex, node_to_free, constructed, freed, linked,
                         popped, calls>>
          /\ pc[Consumer] \in {"wait", "block", "woken", "outside"}
          /\ pc' = [pc EXCEPT ![Consumer] = pc'[Consumer]]
          /\ pc'[Consumer] \in {"outside", "wait", "block", "woken", "pop_again", "try_dequeue",
                                "dequeue_ready"}
      BY <1>C DEF wait, block, woken, begin_dequeue, consumerVars, Typed
    <2> QED BY <2>1, SMTT(30) DEF Aside, Typed
  <1>P. ASSUME NEW from \in {"try_dequeue", "dequeue_ready", "pop_again"}, try_pop(from)
        PROVE  (Aside /\ Typed') \/ Pops
    <2>1. CASE next[m_Head] = NULL
      <3>1. /\ UNCHANGED <<m_Head, m_Tail, next, tail_mutex, node_to_free, constructed, freed, linked,
                           popped, calls>>
            /\ pc[Consumer] = from /\ pc' = [pc EXCEPT ![Consumer] = after_empty(from)]
            /\ after_empty(from) \in {"outside", "wait"}
        BY <1>P, <2>1 DEF try_pop, after_empty
      <3> QED BY <3>1, SMTT(30) DEF Aside, Typed
    <2>2. CASE next[m_Head] # NULL
      BY <1>P, <2>2 DEF try_pop, Pops
    <2> QED BY <2>1, <2>2
  <1>I. ASSUME NEW t \in FifoThreads, interrupt_dequeue(t)
        PROVE  Aside /\ Typed'
    <2>1. /\ UNCHANGED <<m_Head, m_Tail, next, tail_mutex, node_to_free, constructed, freed, linked,
                         popped>>
          /\ pc[t] = "outside" /\ t # Consumer
          /\ pc' = [pc EXCEPT ![t] = "signal"] /\ calls' = [calls EXCEPT ![t] = @ + 1]
      BY <1>I DEF interrupt_dequeue
    <2> QED BY <2>1, SMTT(30) DEF Aside, Typed
  <1>U. CASE UNCHANGED vars
    BY <1>U, SMTT(30) DEF vars, Aside, Typed
  <1> QED BY <1>T, <1>C, <1>P, <1>I, <1>U DEF Next, ThreadStep, ConsumerStep, enqueue

(* Facts about the lists of records that every step below uses.               *)
LEMMA ListFacts ==
  ASSUME Roles, ListInv
  PROVE  /\ Len(linked) \in Nat /\ Len(popped) \in Nat
         /\ \A i \in 1 .. Len(linked) :
              linked[i] \in Records /\ linked[i][1] \in FifoThreads /\ linked[i][2] \in Nat
         /\ \A i \in 0 .. Len(linked) : At(linked, i) \in Nodes /\ At(linked, i) # NULL
         /\ \A i, j \in 0 .. Len(linked) : At(linked, i) = At(linked, j) => i = j
  <1>1. Len(linked) \in Nat /\ Len(popped) \in Nat
    BY LenProperties DEF ListInv, Typed
  <1>2. \A i \in 1 .. Len(linked) :
          linked[i] \in Records /\ linked[i][1] \in FifoThreads /\ linked[i][2] \in Nat
    BY ElementOfSeq, SMTT(30) DEF ListInv, Typed, Records, FifoThreads
  <1>3. \A i \in 0 .. Len(linked) : At(linked, i) \in Nodes /\ At(linked, i) # NULL
    BY <1>1, <1>2, NodeKinds DEF At
  <1>4. \A i, j \in 0 .. Len(linked) : At(linked, i) = At(linked, j) => i = j
    BY <1>1, <1>2, NodeKinds, SMTT(30) DEF At, ListInv, Linked
  <1> QED BY <1>1, <1>2, <1>3, <1>4

(* A producer allocates a node, and locks the tail.                           *)
LEMMA ReserveKeeps ==
  ASSUME Roles, ListInv, NEW p \in Producers, enqueue(p) \/ lock_tail(p)
  PROVE  ListInv'
  <1> USE DEF step, eventVars, listVars, memoryVars, FifoThreads, Pushing
  <1>1. /\ UNCHANGED <<m_Head, m_Tail, next, node_to_free, freed, linked, popped>>
        /\ pc' = [pc EXCEPT ![p] = pc'[p]] /\ p # Consumer
    BY DEF enqueue, lock_tail, ListInv, Typed, Roles
  <1>2. Typed'
    <2>1. CASE enqueue(p)
      <3>1. /\ pc' = [pc EXCEPT ![p] = "lock_tail"] /\ calls' = [calls EXCEPT ![p] = calls[p] + 1]
            /\ calls[p] \in Nat /\ calls[p] + 1 \in 1 .. MaxRecords
        BY <2>1, SMTT(30) DEF enqueue, ListInv, Typed, Roles
      <3> QED BY <1>1, <3>1, SMTT(30) DEF ListInv, Typed, SignalPoints
    <2>2. CASE lock_tail(p)
      BY <1>1, <2>2 DEF lock_tail, ListInv, Typed, SignalPoints
    <2> QED BY <2>1, <2>2
  <1>3. Chained' /\ AtHead'
    BY <1>1 DEF ListInv, Chained, AtHead, Taken, At, Typed
  <1>4. Linked'
    <2>1. /\ \A t \in FifoThreads \ {p} : pc'[t] = pc[t] /\ calls'[t] = calls[t]
          /\ calls[p] \in Nat /\ calls'[p] \in Nat
          /\ (pc[p] = "lock_tail" /\ calls'[p] = calls[p]) \/ calls'[p] = calls[p] + 1
      BY SMTT(30) DEF enqueue, lock_tail, ListInv, Typed
    <2>2. ASSUME NEW i \in 1 .. Len(linked)
          PROVE  LET u == linked[i][1]
                 IN  /\ linked[i][2] <= calls'[u]
                     /\ pc'[u] \in {"lock_tail", "link"} => linked[i][2] < calls'[u]
      BY <2>1, ListFacts, SMTT(30) DEF ListInv, Linked
    <2> QED BY <1>1, <2>2 DEF ListInv, Linked
  <1>5. AtTail'
    BY <1>1, <1>2 DEF ListInv, AtTail, At, NewNode, enqueue, lock_tail, Typed
  <1>6. Memory'
    <2>1. freed' = freed /\ constructed \subseteq constructed'
      BY DEF enqueue, lock_tail, memoryVars
    <2>2. \A r \in Producers \ {p} : pc'[r] = pc[r] /\ NewNode(r)' = NewNode(r)
      BY DEF ListInv, Typed, NewNode, enqueue, lock_tail, step, FifoThreads
    <2>3. CASE enqueue(p)
      <3>1. StoresInOrder => NewNode(p)' \in constructed'
        BY <2>3 DEF ListInv, Typed, NewNode, enqueue, FifoThreads
      <3> QED BY <1>1, <2>1, <2>2, <3>1 DEF ListInv, Memory, At
    <2>4. CASE lock_tail(p)
      <3>1. pc[p] = "lock_tail" /\ NewNode(p)' = NewNode(p)
        BY <2>4 DEF lock_tail, step, NewNode
      <3> QED BY <1>1, <2>1, <2>2, <3>1 DEF ListInv, Memory, At
    <2> QED BY <2>3, <2>4
  <1> QED BY <1>2, <1>3, <1>4, <1>5, <1>6 DEF ListInv

(* A producer makes the last node lead to its own.                            *)
LEMMA LinkKeeps ==
  ASSUME Roles, ListInv, NEW p \in Producers, link(p)
  PROVE  ListInv'
  <1> USE DEF step, eventVars, memoryVars, FifoThreads, Pushing
  <1> DEFINE n == Len(linked)
             r == NewNode(p)
  <1>1. /\ UNCHANGED <<m_Head, m_Tail, node_to_free, constructed, freed, popped, tail_mutex, calls>>
        /\ pc[p] = "link" /\ pc' = [pc EXCEPT ![p] = "move_tail"]
        /\ next' = [next EXCEPT ![m_Tail] = r] /\ linked' = Append(linked, r)
    BY DEF link
  <1>2. r \in Records /\ r[1] = p /\ r[2] = calls[p] /\ r \in Nodes /\ p # Consumer
    BY <1>1 DEF NewNode, Records, ListInv, Typed, Nodes, Roles
  <1>3. n \in Nat /\ linked \in Seq(Records) /\ popped \in Seq(Records) /\ Len(popped) \in Nat
    BY ListFacts DEF ListInv, Typed
  <1>4. /\ linked' \in Seq(Records) /\ Len(linked') = n + 1
        /\ \A i \in 1 .. n : linked'[i] = linked[i]
        /\ linked'[n + 1] = r
    BY <1>1, <1>2, <1>3, AppendProperties, SMTT(30)
  <1>5. /\ \A i \in 0 .. n : At(linked', i) = At(linked, i)
        /\ At(linked', n + 1) = r
    BY <1>3, <1>4 DEF At
  <1>6. m_Tail = At(linked, n)
    BY <1>1 DEF ListInv, AtTail
  <1>7. \A i \in 1 .. n : linked[i] # r
    BY <1>1, <1>2, ListFacts, SMTT(30) DEF ListInv, Linked, Typed
  <1> HIDE DEF n, r
  <1>8. Typed'
    BY <1>1, <1>2, <1>3, <1>4 DEF ListInv, Typed, SignalPoints
  <1>9. Linked'
    <2>1. \A i, j \in 1 .. n + 1 : linked'[i] = linked'[j] => i = j
      BY <1>3, <1>4, <1>7, SMTT(30) DEF ListInv, Linked, n
    <2>2. ASSUME NEW i \in 1 .. n + 1
          PROVE  LET u == linked'[i][1]
                 IN  /\ linked'[i][2] <= calls'[u]
                     /\ pc'[u] \in {"lock_tail", "link"} => linked'[i][2] < calls'[u]
      <3>1. CASE i = n + 1
        BY <1>1, <1>2, <1>4, <3>1, SMTT(30) DEF ListInv, Typed
      <3>2. CASE i \in 1 .. n
        BY <1>1, <1>4, <3>2, ListFacts DEF ListInv, Linked, Typed, n
      <3> QED BY <1>3, <3>1, <3>2
    <2> QED BY <1>4, <2>1, <2>2 DEF Linked
  <1>10. Chained'
    <2>1. ASSUME NEW i \in 0 .. n PROVE next'[At(linked', i)] = linked'[i + 1]
      <3>1. CASE i = n
        BY <1>1, <1>3, <1>4, <1>5, <1>6, <3>1 DEF ListInv, Typed
      <3>2. CASE i \in 0 .. n - 1
        <4>1. At(linked, i) # At(linked, n) /\ At(linked, i) \in Nodes
          BY <1>3, <3>2, ListFacts DEF n
        <4>2. next[At(linked, i)] = linked[i + 1] /\ i + 1 \in 1 .. n
          BY <1>3, <3>2 DEF ListInv, Chained, n
        <4> QED BY <1>1, <1>3, <1>4, <1>5, <1>6, <3>2, <4>1, <4>2 DEF ListInv, Typed
      <3> QED BY <1>3, <3>1, <3>2
    <2>2. ASSUME NEW x \in Nodes, \A i \in 0 .. n : x # At(linked', i) PROVE next'[x] = NULL
      <3>1. \A i \in 0 .. n - 1 : x # At(linked, i)
        BY <1>3, <1>5, <2>2
      <3>2. x # m_Tail
        BY <1>3, <1>5, <1>6, <2>2
      <3> QED BY <1>1, <3>1, <3>2 DEF ListInv, Chained, Typed, n
    <2>3. Len(linked') - 1 = n
      BY <1>3, <1>4
    <2> QED BY <2>1, <2>2, <2>3 DEF Chained
  <1>11. AtTail'
    <2>1. \A u \in Producers : u # p => pc[u] # "move_tail"
      BY <1>1 DEF ListInv, AtTail
    <2>2. NewNode(p)' = r
      BY <1>1 DEF NewNode, r
    <2> QED BY <1>1, <1>3, <1>4, <1>5, <1>6, <2>1, <2>2, SMTT(30) DEF ListInv, AtTail, Typed
  <1>12. AtHead'
    <2>1. Taken' = Taken /\ Taken \in 0 .. n
      BY <1>1, <1>2, <1>3, SMTT(30) DEF ListInv, AtHead, Taken, Typed, n
    <2> QED BY <1>1, <1>2, <1>3, <1>4, <1>5, <2>1, SMTT(30) DEF ListInv, AtHead, Taken, Typed, n
  <1>13. Memory'
    <2>1. freed' = {At(linked', i) : i \in 0 .. Len(popped') - 1}
      <3>1. Len(popped) <= n
        BY <1>3 DEF ListInv, AtHead, Taken, n
      <3>2. \A i \in 0 .. Len(popped) - 1 : At(linked', i) = At(linked, i)
        BY <1>3, <1>5, <3>1
      <3>3. {At(linked', i) : i \in 0 .. Len(popped) - 1} = {At(linked, i) : i \in 0 .. Len(popped) - 1}
        BY <3>2
      <3> QED BY <1>1, <3>3 DEF ListInv, Memory
    <2>2. \A u \in Producers : NewNode(u)' = NewNode(u)
      BY <1>1 DEF NewNode
    <2> QED BY <1>1, <1>3, <1>4, <2>1, <2>2, SMTT(30) DEF ListInv, Memory, Typed, n, r
  <1> QED BY <1>8, <1>9, <1>10, <1>11, <1>12, <1>13 DEF ListInv

(* The tail moves to the node that was linked.                                *)
LEMMA MoveKeeps ==
  ASSUME Roles, ListInv, NEW p \in Producers, move_tail(p)
  PROVE  ListInv'
  <1> USE DEF step, eventVars, FifoThreads, Pushing
  <1>1. /\ UNCHANGED <<m_Head, next, node_to_free, freed, linked, popped, calls>>
        /\ pc[p] = "move_tail" /\ pc' = [pc EXCEPT ![p] = "signal"] /\ p # Consumer
        /\ m_Tail' = NewNode(p) /\ tail_mutex' = {} /\ constructed' = constructed \cup {NewNode(p)}
    BY DEF move_tail, Roles
  <1>2. m_Tail' = At(linked, Len(linked)) /\ m_Tail' \in Nodes
    BY <1>1, ListFacts, SMTT(30) DEF ListInv, AtTail, At
  <1>3. Typed'
    BY <1>1, <1>2 DEF ListInv, Typed, SignalPoints
  <1>4. Linked' /\ Chained' /\ AtHead'
    BY <1>1, ListFacts DEF ListInv, Linked, Chained, AtHead, Taken, At, Typed
  <1>5. AtTail'
    BY <1>1, <1>2 DEF ListInv, AtTail, At, Typed
  <1>6. Memory'
    BY <1>1 DEF ListInv, Memory, NewNode, At, Typed
  <1> QED BY <1>3, <1>4, <1>5, <1>6 DEF ListInv

(* The consumer takes the next node for its head.                             *)
LEMMA PopKeeps ==
  ASSUME Roles, ListInv, Pops
  PROVE  ListInv'
  <1> USE DEF FifoThreads, Pushing
  <1>1. Taken = Len(popped) /\ m_Head = At(linked, Len(popped)) /\ Len(popped) <= Len(linked)
    BY ListFacts, SMTT(30) DEF ListInv, AtHead, Taken, Pops
  <1>2. Len(popped) # Len(linked)
    <2> SUFFICES ASSUME Len(popped) = Len(linked) PROVE FALSE
      OBVIOUS
    <2>1. \A i \in 0 .. Len(linked) - 1 : m_Head # At(linked, i)
      BY <1>1, ListFacts
    <2> QED BY <2>1 DEF ListInv, Chained, Typed, Pops
  <1>3. m_Head' = At(linked, Len(popped) + 1) /\ Len(popped) + 1 <= Len(linked)
    BY <1>1, <1>2, ListFacts, SMTT(30) DEF ListInv, Chained, Pops, At
  <1>4. m_Head' \in Nodes
    BY <1>3, ListFacts
  <1>5. Typed'
    BY <1>4 DEF ListInv, Typed, Pops, ConsumerPoints
  <1>6. Linked' /\ Chained'
    BY ListFacts DEF ListInv, Linked, Chained, At, Typed, Pops
  <1>7. AtTail' /\ Memory'
    BY SMTT(30) DEF ListInv, AtTail, Memory, At, Typed, Pops, NewNode, Roles
  <1>8. AtHead'
    BY <1>1, <1>3, ListFacts DEF ListInv, AtHead, Taken, Typed, Pops, At
  <1> QED BY <1>5, <1>6, <1>7, <1>8 DEF ListInv

(* The consumer takes the value, and frees the node before it.                *)
LEMMA TakeKeeps ==
  ASSUME Roles, ListInv, move_value
  PROVE  ListInv' /\ Len(popped) < Len(linked) /\ m_Head = linked[Len(popped) + 1]
  <1> USE DEF step, eventVars, listVars, FifoThreads, Pushing
  <1> DEFINE k == Len(popped)
  <1>1. /\ UNCHANGED <<m_Head, m_Tail, next, tail_mutex, node_to_free, constructed, linked, calls>>
        /\ pc[Consumer] = "move_value" /\ pc' = [pc EXCEPT ![Consumer] = "outside"]
        /\ popped' = Append(popped, m_Head) /\ freed' = freed \cup {node_to_free}
    BY DEF move_value
  <1>2. k \in Nat /\ k + 1 <= Len(linked) /\ Len(linked) \in Nat
    BY <1>1, ListFacts DEF ListInv, AtHead, Taken
  <1>3. m_Head = At(linked, k + 1) /\ node_to_free = At(linked, k)
    BY <1>1 DEF ListInv, AtHead, Taken
  <1>4. m_Head = linked[k + 1] /\ m_Head \in Records
    BY <1>2, <1>3, ListFacts, SMTT(30) DEF At
  <1>5. /\ popped' \in Seq(Records) /\ Len(popped') = k + 1
        /\ \A i \in 1 .. k : popped'[i] = popped[i]
        /\ popped'[k + 1] = m_Head
    BY <1>1, <1>4, AppendProperties, SMTT(30) DEF ListInv, Typed
  <1> HIDE DEF k
  <1>6. Typed'
    BY <1>1, <1>5 DEF ListInv, Typed, ConsumerPoints
  <1>7. Linked' /\ Chained'
    BY <1>1, ListFacts DEF ListInv, Linked, Chained, At, Typed
  <1>8. AtTail'
    BY <1>1 DEF ListInv, AtTail, At, Typed, NewNode, Roles
  <1>9. AtHead'
    <2>1. Taken' = k + 1
      BY <1>1, <1>2, <1>5, SMTT(30) DEF Taken, ListInv, Typed
    <2>2. \A i \in 1 .. k + 1 : popped'[i] = linked[i]
      BY <1>2, <1>4, <1>5 DEF ListInv, AtHead, k
    <2> QED BY <1>1, <1>2, <1>3, <1>5, <1>6, <2>1, <2>2 DEF AtHead, Typed
  <1>10. Memory'
    <2>1. freed' = {At(linked, i) : i \in 0 .. k}
      BY <1>1, <1>2, <1>3 DEF ListInv, Memory, k
    <2>2. freed' = {At(linked', i) : i \in 0 .. Len(popped') - 1}
      <3>1. 0 .. Len(popped') - 1 = 0 .. k /\ linked' = linked
        BY <1>1, <1>2, <1>5
      <3> QED BY <2>1, <3>1
    <2> QED BY <1>1, <2>2 DEF ListInv, Memory, NewNode, Typed, Roles
  <1> QED BY <1>2, <1>4, <1>6, <1>7, <1>8, <1>9, <1>10 DEF ListInv, k

(* The list is in order at the start.                                         *)
LEMMA InitList ==
  ASSUME Roles, Init
  PROVE  ListInv
  <1> USE DEF Init
  <1>1. Typed
    BY NodeKinds DEF Typed, SignalPoints, ConsumerPoints, Pushing, FifoThreads
  <1>2. Len(linked) = 0 /\ Len(popped) = 0
    BY EmptySeq
  <1>3. Linked /\ Chained /\ AtTail /\ AtHead
    BY <1>2 DEF Linked, Chained, AtTail, AtHead, Taken, At, FifoThreads
  <1>4. 0 .. Len(popped) - 1 = {}
    BY <1>2
  <1>5. Memory
    BY <1>2, <1>4 DEF Memory, FifoThreads
  <1> QED BY <1>1, <1>3, <1>5 DEF ListInv

(* Every step keeps it in order.                                              *)
LEMMA NextList ==
  ASSUME Roles, ListInv, [Next]_vars
  PROVE  ListInv'
  BY ListSteps, AsideKeeps, ReserveKeeps, LinkKeeps, MoveKeeps, PopKeeps, TakeKeeps DEF ListInv

(* The two locks of threadsafe_queue are enough for any number of producers:  *)
(* although push and try_pop meet at the first node when the queue is empty,  *)
(* no thread reaches a node that has been deallocated, and every node behind  *)
(* the head is deallocated.                                                   *)
THEOREM TwoLocksSuffice ==
  ASSUME Roles
  PROVE  Spec => []ListMemorySafe
  <1>1. Init => ListInv
    BY InitList
  <1>2. ListInv /\ [Next]_vars => ListInv'
    BY NextList
  <1>3. ListInv => ListMemorySafe
    <2> SUFFICES ASSUME ListInv PROVE ListMemorySafe
      OBVIOUS
    <2>1. /\ Len(popped) \in Nat /\ Len(linked) \in Nat /\ Taken \in Nat
          /\ Len(popped) <= Taken /\ Taken <= Len(linked) /\ m_Head = At(linked, Taken)
      BY ListFacts, SMTT(30) DEF ListInv, AtHead, Taken
    <2>2. ASSUME NEW i \in 0 .. Len(linked), i >= Len(popped) PROVE At(linked, i) \notin freed
      BY <2>1, <2>2, ListFacts DEF ListInv, Memory
    <2>3. m_Head \notin freed
      BY <2>1, <2>2
    <2>4. ASSUME NEW p \in Producers, pc[p] = "link" PROVE m_Tail \notin freed
      <3>1. m_Tail = At(linked, Len(linked))
        BY <2>4 DEF ListInv, AtTail
      <3> QED BY <2>1, <2>2, <3>1
    <2>5. ASSUME pc[Consumer] # "move_value"
          PROVE  freed = ({FirstNode} \cup Range(popped)) \ {m_Head}
      <3> DEFINE k == Len(popped)
      <3>1. m_Head = At(linked, k)
        BY <2>1, <2>5 DEF Taken
      <3>2. popped \in Seq(Records) /\ DOMAIN popped = 1 .. k
        BY LenProperties DEF ListInv, Typed
      <3>3. \A i \in 1 .. k : popped[i] = At(linked, i)
        BY <2>1 DEF ListInv, AtHead, At
      <3>4. {FirstNode} \cup Range(popped) = {At(linked, i) : i \in 0 .. k}
        BY <2>1, <3>2, <3>3, SMTT(30) DEF Range, At
      <3>5. \A i \in 0 .. k - 1 : At(linked, i) # At(linked, k)
        BY <2>1, ListFacts
      <3>6. 0 .. k = (0 .. k - 1) \cup {k}
        BY <2>1
      <3> HIDE DEF k
      <3>7. {At(linked, i) : i \in 0 .. k} = {At(linked, i) : i \in 0 .. k - 1} \cup {At(linked, k)}
        BY <3>6
      <3> QED BY <3>1, <3>4, <3>5, <3>7 DEF ListInv, Memory, k
    <2> QED BY <2>3, <2>4, <2>5 DEF ListMemorySafe
  <1> QED BY <1>1, <1>2, <1>3, PTL DEF Spec

(* On a platform that keeps stores in order, the value that try_pop moves out *)
(* of a node has been constructed, although push and try_pop share no lock.   *)
THEOREM ValuesConstructed ==
  ASSUME Roles, StoresInOrder
  PROVE  Spec => []PoppedIsConstructed
  <1>1. Init => ListInv
    BY InitList
  <1>2. ListInv /\ [Next]_vars => ListInv'
    BY NextList
  <1>3. ListInv => PoppedIsConstructed
    BY ListFacts, SMTT(30) DEF ListInv, AtHead, Taken, Memory, At, PoppedIsConstructed
  <1> QED BY <1>1, <1>2, <1>3, PTL DEF Spec

(* The queue is a FIFO channel for any number of producers: records come out  *)
(* once each, in the order in which they were linked, and the records of one  *)
(* thread in the order of its calls.  enqueue takes effect when the node is   *)
(* linked, dequeue when the value is moved out.                               *)
THEOREM QueueIsFifo ==
  ASSUME Roles
  PROVE  Spec => ImplementsFifo
  <1>1. Init => ListInv /\ Channel!Init
    BY InitList DEF Init, Channel!Init
  <1>2. ListInv /\ [Next]_vars => ListInv'
    BY NextList
  <1>3. ListInv /\ [Next]_vars => [Channel!Next]_(Channel!channelVars)
    <2> SUFFICES ASSUME ListInv, [Next]_vars
                 PROVE  Channel!Next \/ UNCHANGED <<linked, popped>>
      BY DEF Channel!channelVars
    <2>1. ASSUME NEW p \in Producers, link(p) PROVE Channel!Next
      <3>1. pc[p] = "link" /\ linked' = Append(linked, NewNode(p)) /\ UNCHANGED popped
        BY <2>1 DEF link, step
      <3>2. NewNode(p) \in Records /\ NewNode(p)[1] = p /\ NewNode(p)[2] = calls[p]
        BY <3>1 DEF NewNode, Records, ListInv, Typed, Pushing, FifoThreads
      <3>3. \A i \in 1 .. Len(linked) : linked[i][1] = p => linked[i][2] < calls[p]
        BY <3>1 DEF ListInv, Linked
      <3> QED BY <3>1, <3>2, <3>3 DEF Channel!Next, Channel!Accept
    <2>2. CASE move_value
      <3>1. Len(popped) < Len(linked) /\ m_Head = linked[Len(popped) + 1]
        BY <2>2, TakeKeeps
      <3> QED BY <2>2, <3>1 DEF move_value, Channel!Next, Channel!Deliver
    <2>3. ASSUME NEW p \in Producers, enqueue(p) \/ lock_tail(p) \/ move_tail(p)
          PROVE  UNCHANGED <<linked, popped>>
      BY <2>3 DEF enqueue, lock_tail, move_tail
    <2> QED BY <2>1, <2>2, <2>3, ListSteps DEF ListInv, Aside, Pops
  <1> QED BY <1>1, <1>2, <1>3, PTL DEF Spec, ImplementsFifo, Channel!Spec

-----------------------------------------------------------------------------
(* The event *)

EventTyped ==
  /\ build \in {"atomic", "winapi", "semaphore", "generic"}
  /\ m_state \in 0 .. 1 /\ m_semaphore \in 0 .. 1 /\ m_event \in BOOLEAN /\ asleep \in BOOLEAN
  /\ m_interruption_requested \in BOOLEAN
  /\ \A t \in FifoThreads : /\ pc[t] = "exchange" => build \in {"atomic", "winapi"}
                            /\ pc[t] = "notify" => build # "generic"

Notifies(t) == pc[t] = "notify"
Nobody == \A t \in FifoThreads : ~ Notifies(t)

(* The atomic and the generic event: a sleeper is woken after m_state is set. *)
Sleep ==
  /\ asleep => \/ (build = "atomic" /\ pc[Consumer] = "block")
               \/ (build = "generic" /\ pc[Consumer] = "wait" /\ m_state = 0)
  /\ build = "atomic" /\ asleep /\ m_state # 0 => ~ Nobody

(* The Windows event: who sets m_state while the consumer blocks sets the     *)
(* event after it.                                                            *)
Windows == build = "winapi" /\ pc[Consumer] = "block" /\ m_state # 0 => m_event \/ ~ Nobody

(* The semaphore event: while m_state is set there is exactly one unit, which *)
(* is about to be posted, in the semaphore, or just taken.                    *)
Semaphore ==
  build = "semaphore" =>
    \/ (m_state = 0 /\ m_semaphore = 0 /\ Nobody /\ pc[Consumer] # "block")
    \/ (m_state = 1 /\ m_semaphore = 1 /\ Nobody /\ pc[Consumer] # "block")
    \/ /\ m_state = 1 /\ m_semaphore = 0 /\ pc[Consumer] # "block"
       /\ \E t \in FifoThreads : Notifies(t) /\ \A u \in FifoThreads : Notifies(u) => u = t
    \/ (m_state = 1 /\ m_semaphore = 0 /\ Nobody /\ pc[Consumer] = "block")

(* What the consumer must not miss, and the flag that tells it. *)
Missed ==
  /\ pc[Consumer] # "woken"
  /\ m_interruption_requested \/ (pc[Consumer] \in {"wait", "block"} /\ next[m_Head] # NULL)
Told ==
  \/ m_state # 0
  \/ \E t \in FifoThreads : pc[t] \in {"move_tail", "signal", "exchange"}

EventInv == EventTyped /\ Sleep /\ Windows /\ Semaphore /\ (Missed => Told)

(* A step that leaves the event alone. *)
EventAside(t) ==
  /\ UNCHANGED <<build, m_state, m_semaphore, m_event, asleep>>
  /\ \A u \in FifoThreads \ {t} : pc'[u] = pc[u]
  /\ pc[t] \notin {"block", "signal", "exchange", "notify"}
  /\ pc'[t] \notin {"block", "exchange", "notify"}
  /\ m_interruption_requested' \in BOOLEAN
  /\ asleep => pc'[Consumer] = pc[Consumer]

(* It keeps everything but what the consumer must not miss.                   *)
LEMMA EventAsideKeeps ==
  ASSUME Roles, Typed, EventInv, NEW t \in FifoThreads, EventAside(t)
  PROVE  EventTyped' /\ Sleep' /\ Windows' /\ Semaphore'
  <1>1. Nobody' = Nobody /\ \A u \in FifoThreads : Notifies(u)' = Notifies(u)
    BY DEF EventAside, Nobody, Notifies
  <1>2. pc'[Consumer] = "block" <=> pc[Consumer] = "block"
    BY DEF EventAside, FifoThreads
  <1>3. EventTyped' /\ Sleep' /\ Windows'
    BY <1>1, <1>2 DEF EventAside, EventInv, EventTyped, Sleep, Windows, FifoThreads
  <1>4. Semaphore'
    BY <1>1, <1>2 DEF EventAside, EventInv, Semaphore
  <1> QED BY <1>3, <1>4

(* Steps of push and of interrupt_dequeue before they signal the event.       *)
LEMMA PushEvent ==
  ASSUME Roles, ListInv, EventInv, NEW t \in FifoThreads,
         \/ enqueue(t) \/ interrupt_dequeue(t)
         \/ (t \in Producers /\ (lock_tail(t) \/ link(t) \/ move_tail(t)))
  PROVE  EventInv'
  <1> USE DEF step, eventVars, listVars, memoryVars
  <1>1. Typed /\ t # Consumer
    BY DEF ListInv, enqueue, interrupt_dequeue, Roles
  <1>2. EventAside(t)
    <2>1. /\ UNCHANGED <<build, m_state, m_semaphore, m_event, asleep>>
          /\ pc[t] \in {"outside", "lock_tail", "link", "move_tail"}
          /\ pc' = [pc EXCEPT ![t] = pc'[t]]
          /\ pc'[t] \in {"lock_tail", "link", "move_tail", "signal"}
          /\ m_interruption_requested' \in BOOLEAN
      BY <1>1 DEF enqueue, interrupt_dequeue, lock_tail, link, move_tail, Typed,
         EventInv, EventTyped
    <2> QED BY <1>1, <2>1 DEF EventAside, Typed, FifoThreads
  <1>3. pc'[Consumer] = pc[Consumer] /\ UNCHANGED m_state
    BY <1>1, <1>2 DEF EventAside, FifoThreads
  <1>4. Missed' => Told'
    <2>1. CASE link(t) \/ interrupt_dequeue(t) \/ move_tail(t)
      <3>1. pc'[t] \in {"move_tail", "signal"}
        BY <1>1, <2>1 DEF link, interrupt_dequeue, move_tail, Typed
      <3> QED BY <3>1 DEF Told
    <2>2. CASE enqueue(t) \/ lock_tail(t)
      <3>1. Missed' => Missed
        BY <1>3, <2>2 DEF Missed, enqueue, lock_tail
      <3>2. Told => Told'
        BY <1>1, <1>2, <1>3, <2>2 DEF Told, EventAside, enqueue, lock_tail, Typed
      <3> QED BY <3>1, <3>2 DEF EventInv
    <2> QED BY <2>1, <2>2
  <1> QED BY <1>1, <1>2, <1>4, EventAsideKeeps DEF EventInv

(* Steps of the consumer outside the event.                                   *)
LEMMA PopEvent ==
  ASSUME Roles, ListInv, EventInv,
         \/ move_value \/ woken \/ begin_dequeue
         \/ \E from \in {"try_dequeue", "dequeue_ready", "pop_again"} : try_pop(from)
  PROVE  EventInv'
  <1> USE DEF step, eventVars, listVars, memoryVars
  <1>1. Typed /\ Consumer \in FifoThreads
    BY DEF ListInv, FifoThreads
  <1>2. EventAside(Consumer)
    BY <1>1 DEF EventAside, move_value, woken, begin_dequeue, try_pop, after_empty,
       Typed, EventInv,
       EventTyped, Sleep
  <1>3. Told => Told'
    BY <1>1, <1>2 DEF Told, EventAside, Typed, move_value, woken, begin_dequeue, try_pop,
       ConsumerPoints
  <1>4. Missed' => Missed
    BY <1>1 DEF Missed, move_value, woken, begin_dequeue, try_pop, after_empty, Typed
  <1> QED BY <1>1, <1>2, <1>3, <1>4, EventAsideKeeps DEF EventInv

(* set_signalled: the flag is set, and who set it wakes the consumer.         *)
LEMMA SignalEvent ==
  ASSUME Roles, ListInv, EventInv, NEW t \in FifoThreads,
         set_signalled(t) \/ exchange_state(t) \/ notify(t)
  PROVE  EventInv'
  <1> USE DEF step, eventVars, listVars, memoryVars, signalVars
  <1>1. /\ Typed /\ EventTyped /\ t # Consumer /\ Consumer \in FifoThreads
        /\ UNCHANGED <<build, m_interruption_requested, next, m_Head>>
        /\ pc' = [pc EXCEPT ![t] = pc'[t]] /\ pc'[Consumer] = pc[Consumer]
    BY DEF ListInv, EventInv, set_signalled, exchange_state, notify, Typed, FifoThreads,
       ConsumerPoints
  <1>2. Missed' <=> Missed
    BY <1>1 DEF Missed
  <1>3. \A u \in FifoThreads : u # t => (Notifies(u)' <=> Notifies(u)) /\ pc'[u] = pc[u]
    BY <1>1 DEF Notifies, Typed
  <1>4. CASE notify(t)
    <2>1. /\ pc[t] = "notify" /\ pc'[t] = "outside" /\ UNCHANGED m_state
          /\ Notifies(t) /\ ~ Notifies(t)' /\ ~ Nobody
      BY <1>1, <1>4 DEF notify, Typed, Notifies, Nobody
    <2>2. Told => Told'
      BY <1>3, <2>1 DEF Told
    <2>3. EventTyped' /\ Semaphore'
      <3>1. CASE build = "semaphore"
        <4>1. /\ m_state = 1 /\ m_semaphore = 0 /\ pc[Consumer] # "block"
              /\ \A u \in FifoThreads : Notifies(u) => u = t
          BY <2>1, <3>1 DEF EventInv, Semaphore
        <4>2. Nobody'
          BY <1>3, <2>1, <4>1 DEF Nobody
        <4>3. m_semaphore' = 1
          BY <1>4, <3>1, <4>1 DEF notify
        <4> QED BY <1>1, <1>3, <1>4, <2>1, <3>1, <4>1, <4>2, <4>3 DEF EventTyped, Semaphore, notify
      <3>2. CASE build # "semaphore"
        BY <1>1, <1>3, <1>4, <2>1, <3>2, SMTT(30) DEF EventTyped, Semaphore, notify
      <3> QED BY <3>1, <3>2
    <2>4. Sleep' /\ Windows'
      BY <1>1, <1>4, <2>1 DEF EventInv, EventTyped, Sleep, Windows, notify
    <2> QED BY <1>2, <2>2, <2>3, <2>4 DEF EventInv
  <1>5. CASE m_state # 0 /\ ~ notify(t)
    <2>1. /\ m_state' # 0 /\ m_state' = m_state /\ UNCHANGED <<m_semaphore, m_event, asleep>>
          /\ pc[t] \in {"signal", "exchange"} /\ pc'[t] = "outside"
      BY <1>1, <1>5, SMTT(30) DEF set_signalled, exchange_state, EventTyped, Typed
    <2>2. (Nobody' <=> Nobody) /\ \A u \in FifoThreads : Notifies(u)' <=> Notifies(u)
      BY <1>3, <2>1 DEF Nobody, Notifies
    <2> QED BY <1>1, <1>3, <2>1, <2>2 DEF EventInv, EventTyped, Sleep, Windows, Semaphore, Told
  <1>6. CASE m_state = 0 /\ ~ notify(t)
    <2>1. CASE pc'[t] = "notify"
      <3>1. /\ m_state' = 1 /\ UNCHANGED <<m_semaphore, m_event, asleep>> /\ build # "generic"
            /\ ~ Nobody' /\ Notifies(t)'
        BY <1>1, <1>6, <2>1 DEF set_signalled, exchange_state, EventTyped, Typed, Nobody, Notifies
      <3>2. EventTyped' /\ Sleep' /\ Windows' /\ Told'
        BY <1>1, <1>3, <2>1, <3>1, SMTT(30) DEF EventInv, EventTyped, Sleep, Windows, Told
      <3>3. Semaphore'
        BY <1>1, <1>3, <1>6, <3>1, SMTT(30) DEF EventInv, Semaphore, Nobody
      <3> QED BY <3>2, <3>3 DEF EventInv
    <2>2. CASE pc'[t] # "notify"
      <3>1. \/ /\ build \in {"atomic", "winapi"} /\ pc'[t] = "exchange"
               /\ UNCHANGED <<m_state, m_semaphore, m_event, asleep>>
            \/ /\ build = "generic" /\ m_state' = 1 /\ asleep' = FALSE /\ pc'[t] = "outside"
               /\ UNCHANGED <<m_semaphore, m_event>>
        BY <1>1, <1>6, <2>2 DEF set_signalled, exchange_state, EventTyped, Typed
      <3>2. Nobody => Nobody'
        BY <1>3, <2>2 DEF Nobody, Notifies
      <3>3. Told'
        BY <3>1 DEF Told
      <3>4. ~ Nobody => ~ Nobody' \/ build = "generic"
        BY <1>1, <1>3, <1>6 DEF Nobody, Notifies, set_signalled, exchange_state
      <3>5. EventTyped'
        <4>1. m_state' \in 0 .. 1 /\ m_semaphore' \in 0 .. 1
          BY <1>1, <3>1, SMTT(30) DEF EventTyped
        <4>2. m_event' \in BOOLEAN /\ asleep' \in BOOLEAN
          BY <1>1, <3>1 DEF EventTyped
        <4>3. \A u \in FifoThreads : /\ pc'[u] = "exchange" => build \in {"atomic", "winapi"}
                                     /\ pc'[u] = "notify" => build # "generic"
          BY <1>1, <1>3, <2>2, <3>1 DEF EventTyped
        <4> QED BY <1>1, <4>1, <4>2, <4>3 DEF EventTyped
      <3>6. Sleep' /\ Windows'
        BY <1>1, <1>6, <3>1, <3>4 DEF EventInv, Sleep, Windows
      <3>7. Semaphore'
        BY <1>1, <3>1 DEF Semaphore
      <3> QED BY <3>3, <3>5, <3>6, <3>7 DEF EventInv
    <2> QED BY <2>1, <2>2
  <1> QED BY <1>1, <1>4, <1>5, <1>6 DEF EventTyped

(* event::wait.                                                               *)
LEMMA WaitEvent ==
  ASSUME Roles, ListInv, EventInv, wait \/ block
  PROVE  EventInv'
  <1> USE DEF step, eventVars, listVars, memoryVars, consumerVars
  <1>1. /\ Typed /\ EventTyped /\ Consumer \in FifoThreads /\ ~ asleep
        /\ UNCHANGED <<build, m_interruption_requested, next, m_Head>>
        /\ pc' = [pc EXCEPT ![Consumer] = pc'[Consumer]]
        /\ pc[Consumer] \in {"wait", "block"} /\ pc'[Consumer] \in {"wait", "block", "woken"}
    BY DEF ListInv, EventInv, wait, block, Typed, FifoThreads
  <1>2. \A u \in FifoThreads :
          /\ Notifies(u)' <=> Notifies(u)
          /\ pc[u] \in {"move_tail", "signal", "exchange", "notify"} => pc'[u] = pc[u]
          /\ pc'[u] \in {"move_tail", "signal", "exchange", "notify"} => pc'[u] = pc[u]
    BY <1>1 DEF Notifies, Typed
  <1>3. Nobody' <=> Nobody
    BY <1>2 DEF Nobody
  <1>4. Missed' => Told'
    <2>1. Missed' => Missed
      BY <1>1 DEF Missed
    <2>2. Missed' => (m_state # 0 => m_state' # 0)
      BY <1>1 DEF Missed, wait, block, Typed
    <2> QED BY <1>2, <2>1, <2>2 DEF EventInv, Told
  <1>5. EventTyped'
    <2>1. m_state' \in 0 .. 1 /\ m_semaphore' \in 0 .. 1
      BY <1>1, SMTT(30) DEF EventTyped, wait, block
    <2>2. m_event' \in BOOLEAN /\ asleep' \in BOOLEAN
      BY <1>1 DEF EventTyped, wait, block
    <2> QED BY <1>1, <1>2, <2>1, <2>2 DEF EventTyped
  <1>6. Sleep' /\ Windows'
    BY <1>1, <1>3, SMTT(30) DEF EventInv, EventTyped, Sleep, Windows, wait, block, Typed
  <1>7. Semaphore'
    <2> SUFFICES ASSUME build = "semaphore" PROVE Semaphore'
      BY <1>1 DEF Semaphore
    <2>1. CASE wait
      <3>1. m_semaphore = 1 /\ m_semaphore' = 0 /\ UNCHANGED m_state /\ pc'[Consumer] = "block"
        BY <1>1, <2>1, SMTT(30) DEF wait, EventTyped, Typed
      <3> QED BY <1>1, <1>2, <1>3, <3>1, SMTT(30) DEF EventInv, Semaphore
    <2>2. CASE block
      <3>1. UNCHANGED m_semaphore /\ m_state' = 0 /\ pc[Consumer] = "block" /\ pc'[Consumer] = "woken"
        BY <1>1, <2>2 DEF block, Typed
      <3> QED BY <1>1, <1>2, <1>3, <3>1 DEF EventInv, Semaphore
    <2> QED BY <2>1, <2>2
  <1> QED BY <1>4, <1>5, <1>6, <1>7 DEF EventInv

(* No wake-up is lost, in any of the four implementations of the event, for   *)
(* any number of threads that enqueue and interrupt: when the consumer is     *)
(* going to block while a record or an interruption waits for it, a signal it *)
(* will see is on its way.                                                    *)
THEOREM EventNeverLost ==
  ASSUME Roles, KnownBuilds
  PROVE  Spec => []NoLostWakeup
  <1>1. Init => ListInv /\ EventInv
    <2> SUFFICES ASSUME Init PROVE EventInv
      BY InitList
    <2>1. Nobody
      BY DEF Init, Nobody, Notifies
    <2>2. EventTyped
      <3>1. \A t \in FifoThreads : pc[t] = "outside"
        BY DEF Init
      <3>2. m_state \in 0 .. 1 /\ m_semaphore \in 0 .. 1
        BY DEF Init
      <3> QED BY <3>1, <3>2 DEF Init, EventTyped, KnownBuilds
    <2> QED BY <2>1, <2>2 DEF Init, EventInv, Sleep, Windows, Semaphore, Missed, FifoThreads
  <1>2. ListInv /\ EventInv /\ [Next]_vars => (ListInv /\ EventInv)'
    <2> SUFFICES ASSUME ListInv, EventInv, [Next]_vars PROVE EventInv'
      BY NextList
    <2>1. CASE UNCHANGED vars
      BY <2>1 DEF vars, eventVars, listVars, EventInv, EventTyped, Sleep, Windows, Semaphore,
         Missed,
         Told, Nobody, Notifies
    <2> QED BY <2>1, PushEvent, PopEvent, SignalEvent, WaitEvent DEF Next, ThreadStep, ConsumerStep
  <1>3. ListInv /\ EventInv => NoLostWakeup
    <2> SUFFICES ASSUME EventInv, pc[Consumer] \in {"wait", "block"},
                        next[m_Head] # NULL \/ m_interruption_requested,
                        ~ SignalPending, build # "semaphore" \/ pc[Consumer] # "block"
                 PROVE  FALSE
      BY DEF NoLostWakeup
    <2>1. Missed /\ Nobody
      BY DEF Missed, Nobody, Notifies, SignalPending
    <2>2. m_state # 0
      BY <2>1 DEF EventInv, Told, SignalPending
    <2>3. CASE build \in {"atomic", "generic"}
      BY <2>1, <2>2, <2>3 DEF EventInv, Sleep, SignalPending
    <2>4. CASE build = "winapi"
      BY <2>1, <2>2, <2>4 DEF EventInv, Sleep, Windows, SignalPending
    <2>5. CASE build = "semaphore"
      <3>1. m_semaphore = 1
        BY <2>1, <2>2, <2>5 DEF EventInv, Semaphore, Nobody
      <3> QED BY <3>1 DEF SignalPending
    <2> QED BY <2>3, <2>4, <2>5 DEF EventInv, EventTyped
  <1> QED BY <1>1, <1>2, <1>3, PTL DEF Spec

=============================================================================
