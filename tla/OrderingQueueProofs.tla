-------------------------- MODULE OrderingQueueProofs --------------------------
(***************************************************************************)
(* Proofs about OrderingQueue, for any producers, keys, window and limit.  *)
(*                                                                         *)
(* That records leave in order within a window is not inductive: the       *)
(* invariant speaks of the records that are still queued, too.  A record   *)
(* that waited for the end of its window is in nobody's "within" that      *)
(* sorts before it (Waited), because it was on top when it left and too    *)
(* old for records that came later.  The latter needs that no two entries  *)
(* are the same record (Once), which rests on the numbers the producers    *)
(* have reached (Settled).                                                 *)
(***************************************************************************)
EXTENDS OrderingQueue, FiniteSetTheorems, SequenceTheorems, TLAPS

(* The provers, with their limits in seconds, for the leaves that name none.  *)
USE ZenonT(10), SMTT(30)

(* The predicate orders the keys, and the limits are numbers. *)
Configured == Keys \subseteq Int /\ OrderingWindow \in Nat /\ MaxQueueSize \in Nat

Ids == Producers \X Nat
Entries == [rec : Ids, key : Keys, age : 0 .. OrderingWindow, within : SUBSET Ids]
Releases == [rec : Ids, key : Keys, age : 0 .. OrderingWindow, within : SUBSET Ids, aged : BOOLEAN]

Typed ==
  /\ m_queue \subseteq Entries
  /\ released \in Seq(Releases)
  /\ calls \in [Producers -> Nat]
  /\ pc \in [Producers -> {"outside", "enqueue", "try_enqueue", "blocked"}]
  /\ m_thread_contexts \in Seq(Producers)
  /\ strategy \in {"unbounded", "block", "drop"}
  /\ consumer \in {"outside", "dequeue_ready", "asleep"}
  /\ remaining \in -1 .. OrderingWindow

(* The threads in the list are blocked, each is there once. *)
Listed ==
  /\ \A i \in 1 .. Len(m_thread_contexts) : pc[m_thread_contexts[i]] = "blocked"
  /\ \A i, j \in 1 .. Len(m_thread_contexts) : m_thread_contexts[i] = m_thread_contexts[j] => i = j
  /\ m_thread_contexts # <<>> => strategy = "block"

(* The last record of a producer that is not on its way to the queue. *)
Settled == [p \in Producers |-> IF pc[p] = "outside" THEN calls[p] ELSE calls[p] - 1]

(* Every record is queued or released, once. *)
Once ==
  /\ \A e \in m_queue : e.rec[2] <= Settled[e.rec[1]]
  /\ \A i \in 1 .. Len(released) : released[i].rec[2] <= Settled[released[i].rec[1]]
  /\ \A e, f \in m_queue : e.rec = f.rec => e = f
  /\ \A e \in m_queue : \A i \in 1 .. Len(released) : e.rec # released[i].rec
  /\ \A i, j \in 1 .. Len(released) : released[i].rec = released[j].rec => i = j

(* What was released after its window is too old for records to come, and     *)
(* out of the way of those that sort before it.                               *)
Waited ==
  /\ \A i \in 1 .. Len(released) : released[i].aged => released[i].age = OrderingWindow
  /\ \A e \in m_queue : \A i \in 1 .. Len(released) :
       released[i].aged /\ e.key < released[i].key => released[i].rec \notin e.within

-----------------------------------------------------------------------------
(* What a step does *)

(* Producers settle their records in the order of their numbers. *)
Progress == \A p \in Producers : Settled[p] <= Settled'[p]

Stays == m_queue' = m_queue /\ released' = released

Pushes(p) ==
  /\ \E k \in Keys : m_queue' = m_queue \cup {Entry(p, k)}
  /\ released' = released
  /\ pc[p] \in {"enqueue", "try_enqueue"}
  /\ ~is_full
  /\ pc' = [pc EXCEPT ![p] = "outside"]
  /\ calls' = calls

Release(e, aged) == [rec |-> e.rec, key |-> e.key, age |-> e.age, within |-> e.within, aged |-> aged]

Pops(e, aged) ==
  /\ e \in Tops
  /\ aged => Ready(e)
  /\ m_queue' = m_queue \ {e}
  /\ released' = Append(released, Release(e, aged))

Ages ==
  /\ m_queue' = {Older(e) : e \in m_queue}
  /\ released' = [i \in DOMAIN released |-> Older(released[i])]

(* Every step is one of these.                                                *)
LEMMA Effects ==
  ASSUME Next
  PROVE  \/ Stays
         \/ \E p \in Producers : Pushes(p)
         \/ \E e \in m_queue : \E aged \in BOOLEAN : Pops(e, aged)
         \/ Ages
<1>1. CASE \E p \in Producers : begin_enqueue(p) \/ push_blocks(p) \/ push_fails(p)
  BY <1>1 DEF begin_enqueue, push_blocks, push_fails, Stays
<1>2. CASE \E p \in Producers : push(p)
  BY <1>2 DEF push, Pushes
<1>3. CASE interrupt_dequeue \/ begin_dequeue \/ dequeue_waits \/ dequeue_interrupted \/ wait_for_ends
  BY <1>3 DEF interrupt_dequeue, begin_dequeue, dequeue_waits, dequeue_interrupted, wait_for_ends,
     Stays
<1>4. CASE try_dequeue
  BY <1>4 DEF try_dequeue, pop, Pops, Release, Tops
<1>5. CASE try_dequeue_ready \/ dequeue_top
  BY <1>5 DEF try_dequeue_ready, dequeue_top, pop, Pops, Release, Tops
<1>6. CASE Tick
  BY <1>6 DEF Tick, Ages
<1>7. QED
  BY <1>1, <1>2, <1>3, <1>4, <1>5, <1>6 DEF Next, Enqueue, ConsumerStep

(* The first of the blocked threads leaves the list.                          *)
LEMMA FirstUnblocked ==
  ASSUME Typed, Listed, m_thread_contexts # <<>>
  PROVE  /\ Head(m_thread_contexts) \in Producers
         /\ Head(m_thread_contexts) = m_thread_contexts[1]
         /\ pc[Head(m_thread_contexts)] = "blocked"
         /\ Tail(m_thread_contexts) \in Seq(Producers)
         /\ Len(Tail(m_thread_contexts)) = Len(m_thread_contexts) - 1
         /\ \A i \in 1 .. Len(m_thread_contexts) - 1 :
              Tail(m_thread_contexts)[i] = m_thread_contexts[i + 1]
<1>1. m_thread_contexts \in Seq(Producers)
  BY DEF Typed
<1>2. Len(m_thread_contexts) \in Nat /\ Len(m_thread_contexts) >= 1
  BY <1>1
<1>3. /\ Head(m_thread_contexts) \in Producers
      /\ Head(m_thread_contexts) = m_thread_contexts[1]
      /\ Tail(m_thread_contexts) \in Seq(Producers)
      /\ Len(Tail(m_thread_contexts)) = Len(m_thread_contexts) - 1
      /\ \A i \in 1 .. Len(m_thread_contexts) - 1 :
           Tail(m_thread_contexts)[i] = m_thread_contexts[i + 1]
  BY <1>1, <1>2
<1>4. 1 \in 1 .. Len(m_thread_contexts)
  BY <1>2
<1>5. QED
  BY <1>3, <1>4 DEF Listed

(* What an entry of the queue and a released one become in a unit of time.    *)
LEMMA Aged ==
  ASSUME Configured
  PROVE  /\ \A e \in Entries :
              /\ Older(e) \in Entries /\ Older(e).age >= e.age
              /\ Older(e).rec = e.rec /\ Older(e).key = e.key /\ Older(e).within = e.within
         /\ \A e \in Releases :
              /\ Older(e) \in Releases /\ Older(e).age >= e.age
              /\ Older(e).rec = e.rec /\ Older(e).key = e.key /\ Older(e).within = e.within
              /\ Older(e).aged = e.aged
BY DEF Configured, Older, Entries, Releases

(* The types are kept.                                                        *)
LEMMA NextTyped ==
  ASSUME Configured, Typed, Listed, Next
  PROVE  Typed'
<1>1. m_queue' \subseteq Entries /\ released' \in Seq(Releases)
  <2>1. CASE Stays
    BY <2>1 DEF Stays, Typed
  <2>2. CASE \E p \in Producers : Pushes(p)
    <3>1. Recent \subseteq Ids
      <4>1. \A i \in DOMAIN released : released[i] \in Releases
        BY SMTT(30) DEF Typed
      <4>2. \A e \in m_queue \cup Range(released) : e.rec \in Ids
        BY <4>1 DEF Typed, Range, Entries, Releases
      <4>3. QED
        BY <4>2 DEF Recent
    <3>2. \A p \in Producers : \A k \in Keys : Entry(p, k) \in Entries
      <4>1. \A p \in Producers : <<p, calls[p]>> \in Ids
        BY DEF Ids, Typed
      <4>2. 0 \in 0 .. OrderingWindow
        BY DEF Configured
      <4>3. QED
        BY <3>1, <4>1, <4>2 DEF Entry, Entries
    <3>3. QED
      BY <2>2, <3>2 DEF Pushes, Typed
  <2>3. CASE \E e \in m_queue : \E aged \in BOOLEAN : Pops(e, aged)
    <3>1. \A e \in m_queue : \A aged \in BOOLEAN : Release(e, aged) \in Releases
      BY DEF Release, Releases, Entries, Typed
    <3>2. QED
      BY <2>3, <3>1, SMTT(30) DEF Pops, Typed
  <2>4. CASE Ages
    <3>1. \A i \in DOMAIN released : Older(released[i]) \in Releases
      BY Aged, SMTT(30) DEF Typed
    <3>2. released' \in Seq(Releases)
      BY <2>4, <3>1, SMTT(30) DEF Ages, Typed
    <3>3. m_queue' \subseteq Entries
      BY <2>4, Aged DEF Ages, Typed
    <3>4. QED
      BY <3>2, <3>3
  <2>5. QED
    BY <2>1, <2>2, <2>3, <2>4, Effects
<1>2. /\ calls' \in [Producers -> Nat]
      /\ pc' \in [Producers -> {"outside", "enqueue", "try_enqueue", "blocked"}]
      /\ m_thread_contexts' \in Seq(Producers)
  <2>1. CASE \E p \in Producers : begin_enqueue(p) \/ Enqueue(p)
    <3>1. PICK p \in Producers : begin_enqueue(p) \/ push(p) \/ push_blocks(p) \/ push_fails(p)
      BY <2>1 DEF Enqueue
    <3>2. CASE begin_enqueue(p)
      BY <3>2, SMTT(30) DEF begin_enqueue, Typed
    <3>3. CASE push(p)
      BY <3>3 DEF push, Typed
    <3>4. CASE push_fails(p)
      BY <3>4 DEF push_fails, Typed
    <3>5. CASE push_blocks(p)
      BY <3>5, SMTT(30) DEF push_blocks, Typed
    <3>6. QED
      BY <3>1, <3>2, <3>3, <3>4, <3>5
  <2>2. CASE interrupt_dequeue
    BY <2>2, SMTT(30) DEF interrupt_dequeue, Typed
  <2>3. CASE on_queue_space_available /\ UNCHANGED calls
    <3>1. CASE m_thread_contexts = <<>>
      BY <2>3, <3>1 DEF on_queue_space_available, Typed
    <3>2. CASE m_thread_contexts # <<>>
      BY <2>3, <3>2, FirstUnblocked DEF on_queue_space_available, Typed
    <3>3. QED
      BY <3>1, <3>2
  <2>4. CASE UNCHANGED producerVars
    BY <2>4 DEF producerVars, Typed
  <2>5. QED
    BY <2>1, <2>2, <2>3, <2>4 DEF Next, ConsumerStep, Tick, begin_dequeue,
       dequeue_waits,
       dequeue_interrupted, wait_for_ends, try_dequeue, try_dequeue_ready, dequeue_top, pop
<1>3. strategy' \in {"unbounded", "block", "drop"} /\ consumer' \in {"outside", "dequeue_ready", "asleep"}
  BY DEF Typed, Next, Enqueue, ConsumerStep, Tick, begin_dequeue, dequeue_waits,
     dequeue_interrupted, wait_for_ends, try_dequeue, try_dequeue_ready, dequeue_top, pop,
     begin_enqueue, push, push_blocks, push_fails, interrupt_dequeue, notify_consumer, consumerVars
<1>4. remaining' \in -1 .. OrderingWindow
  <2>1. CASE dequeue_waits
    <3>1. \A e \in m_queue : e.age \in 0 .. OrderingWindow
      BY DEF Typed, Entries
    <3>2. QED
      BY <2>1, <3>1 DEF dequeue_waits, Tops, Forever, Configured
  <2>2. CASE Tick
    BY <2>2, SMTT(30) DEF Tick, Typed, Configured
  <2>3. CASE UNCHANGED remaining
    BY <2>3 DEF Typed
  <2>4. QED
    BY <2>1, <2>2, <2>3 DEF Next, Enqueue, ConsumerStep, begin_dequeue,
       dequeue_interrupted, wait_for_ends, try_dequeue, try_dequeue_ready, dequeue_top, pop,
       begin_enqueue, push, push_blocks, push_fails, interrupt_dequeue, consumerVars
<1>5. QED
  BY <1>1, <1>2, <1>3, <1>4 DEF Typed

(* What a step does to the producers: it begins a call, ends one, makes one   *)
(* wait, or lets the first that waits go on.                                  *)
LEMMA ProducerEffects ==
  ASSUME Next
  PROVE  \/ \E p \in Producers : begin_enqueue(p)
         \/ \E p \in Producers : push_blocks(p)
         \/ \E p \in Producers :
              /\ pc[p] \in {"enqueue", "try_enqueue"}
              /\ pc' = [pc EXCEPT ![p] = "outside"]
              /\ UNCHANGED <<strategy, calls, m_thread_contexts>>
         \/ interrupt_dequeue
         \/ on_queue_space_available /\ UNCHANGED <<strategy, calls>>
         \/ UNCHANGED <<strategy, producerVars>>
<1>1. CASE \E p \in Producers : begin_enqueue(p) \/ push_blocks(p)
  BY <1>1
<1>2. CASE \E p \in Producers : push(p) \/ push_fails(p)
  BY <1>2 DEF push, push_fails
<1>3. CASE interrupt_dequeue
  BY <1>3
<1>4. CASE try_dequeue \/ try_dequeue_ready \/ dequeue_top
  BY <1>4 DEF try_dequeue, try_dequeue_ready, dequeue_top, pop
<1>5. CASE begin_dequeue \/ dequeue_waits \/ dequeue_interrupted \/ wait_for_ends \/ Tick
  BY <1>5 DEF begin_dequeue, dequeue_waits, dequeue_interrupted, wait_for_ends, Tick
<1>6. QED
  BY <1>1, <1>2, <1>3, <1>4, <1>5 DEF Next, Enqueue, ConsumerStep

(* The list stays one of blocked threads, and producers only go forward.      *)
LEMMA NextListed ==
  ASSUME Configured, Typed, Listed, Next
  PROVE  Listed' /\ Progress
<1> DEFINE list == m_thread_contexts
<1>1. /\ list \in Seq(Producers) /\ Len(list) \in Nat
      /\ \A i \in 1 .. Len(list) : list[i] \in Producers
      /\ calls \in [Producers -> Nat]
      /\ pc \in [Producers -> {"outside", "enqueue", "try_enqueue", "blocked"}]
  BY SMTT(30) DEF Typed
<1>2. CASE \E p \in Producers : begin_enqueue(p)
  <2>1. PICK p \in Producers : begin_enqueue(p)
    BY <1>2
  <2>2. /\ pc[p] = "outside" /\ UNCHANGED <<strategy, m_thread_contexts>>
        /\ calls' = [calls EXCEPT ![p] = calls[p] + 1]
        /\ \A q \in Producers \ {p} : pc'[q] = pc[q]
        /\ pc'[p] \in {"enqueue", "try_enqueue"}
    BY <2>1, <1>1 DEF begin_enqueue
  <2>3. Listed'
    BY <2>2, <1>1 DEF Listed
  <2>4. Progress
    BY <2>2, <1>1, SMTT(30) DEF Progress, Settled
  <2>5. QED
    BY <2>3, <2>4
<1>3. CASE \E p \in Producers : push_blocks(p)
  <2>1. PICK p \in Producers : push_blocks(p)
    BY <1>3
  <2>2. /\ pc[p] = "enqueue" /\ strategy = "block" /\ UNCHANGED <<strategy, calls>>
        /\ pc' = [pc EXCEPT ![p] = "blocked"]
        /\ list' = Append(list, p)
    BY <2>1 DEF push_blocks
  <2>3. /\ Len(list') = Len(list) + 1 /\ list'[Len(list) + 1] = p
        /\ \A i \in 1 .. Len(list) : list'[i] = list[i]
    BY <2>2, <1>1
  <2>4. \A i \in 1 .. Len(list) : list[i] # p
    BY <2>2 DEF Listed
  <2>5. Listed'
    BY <2>2, <2>3, <2>4, <1>1, SMTT(30) DEF Listed
  <2>6. Progress
    BY <2>2, <1>1 DEF Progress, Settled
  <2>7. QED
    BY <2>5, <2>6
<1>4. CASE \E p \in Producers :
             /\ pc[p] \in {"enqueue", "try_enqueue"}
             /\ pc' = [pc EXCEPT ![p] = "outside"]
             /\ UNCHANGED <<strategy, calls, m_thread_contexts>>
  <2>1. Listed'
    BY <1>4, <1>1, SMTT(30) DEF Listed
  <2>2. Progress
    BY <1>4, <1>1, SMTT(30) DEF Progress, Settled
  <2>3. QED
    BY <2>1, <2>2
<1>5. CASE interrupt_dequeue
  <2>1. Listed'
    BY <1>5, SMTT(30) DEF interrupt_dequeue, Listed
  <2>2. Progress
    BY <1>5, <1>1, SMTT(30) DEF interrupt_dequeue, Progress, Settled
  <2>3. QED
    BY <2>1, <2>2
<1>6. CASE on_queue_space_available /\ UNCHANGED <<strategy, calls>>
  <2>1. CASE list = <<>>
    BY <1>6, <2>1, SMTT(30) DEF on_queue_space_available, Listed, Progress, Settled, Typed
  <2>2. CASE list # <<>>
    <3>1. pc' = [pc EXCEPT ![Head(list)] = "enqueue"] /\ list' = Tail(list)
      BY <1>6, <2>2 DEF on_queue_space_available
    <3>2. Listed'
      <4>1. \A i \in 1 .. Len(list) - 1 :
              /\ i + 1 \in 1 .. Len(list) /\ i \in 1 .. Len(list)
              /\ Tail(list)[i] = list[i + 1] /\ list[i + 1] # Head(list)
        BY <2>2, <1>1, FirstUnblocked, SMTT(30) DEF Listed
      <4>2. \A i \in 1 .. Len(list') : pc'[list'[i]] = "blocked"
        BY <2>2, <3>1, <4>1, <1>1, FirstUnblocked, SMTT(30) DEF Listed
      <4>3. \A i, j \in 1 .. Len(list') : list'[i] = list'[j] => i = j
        BY <2>2, <3>1, <4>1, <1>1, FirstUnblocked, SMTT(30) DEF Listed
      <4>4. QED
        BY <4>2, <4>3, <1>6, <2>2 DEF Listed
    <3>3. Progress
      BY <1>6, <2>2, <3>1, <1>1, FirstUnblocked, SMTT(30) DEF Progress, Settled
    <3>4. QED
      BY <3>2, <3>3
  <2>3. QED
    BY <2>1, <2>2
<1>7. CASE UNCHANGED <<strategy, producerVars>>
  BY <1>7, <1>1, SMTT(30) DEF producerVars, Listed, Progress, Settled
<1>8. QED
  BY <1>2, <1>3, <1>4, <1>5, <1>6, <1>7, ProducerEffects

-----------------------------------------------------------------------------
(* The order of the records *)

OrderInv == Typed /\ Listed /\ Once /\ Waited /\ OrderedWithinWindow

(* A record is pushed once.                                                   *)
LEMMA PushKeepsOrder ==
  ASSUME Configured, OrderInv, Typed', Progress, NEW p \in Producers, Pushes(p)
  PROVE  Once' /\ Waited' /\ OrderedWithinWindow'
<1>1. PICK k \in Keys : m_queue' = m_queue \cup {Entry(p, k)}
  BY DEF Pushes
<1> DEFINE new == Entry(p, k)
<1>2. /\ released' = released /\ released \in Seq(Releases) /\ Len(released) \in Nat
      /\ DOMAIN released = 1 .. Len(released)
      /\ \A i \in 1 .. Len(released) : released[i] \in Releases
  BY SMTT(30) DEF OrderInv, Typed, Pushes
<1>3. new \in Entries /\ m_queue \subseteq Entries
  BY <1>1 DEF OrderInv, Typed
<1>4. new.rec = <<p, calls[p]>> /\ new.key = k /\ new.within = Recent
  BY DEF Entry
<1>5. Settled[p] = calls[p] - 1 /\ Settled'[p] = calls[p] /\ calls[p] \in Nat
  BY DEF Pushes, OrderInv, Typed, Settled
<1>6. \A q \in Producers : Settled[q] \in Int /\ Settled'[q] \in Int /\ Settled[q] <= Settled'[q]
  BY SMTT(30) DEF OrderInv, Typed, Settled, Progress
<1>7. /\ \A e \in m_queue : e.rec[1] \in Producers /\ e.rec[2] \in Nat
      /\ \A i \in 1 .. Len(released) : released[i].rec[1] \in Producers /\ released[i].rec[2] \in Nat
  BY <1>2, <1>3 DEF Entries, Releases, Ids
<1>8. /\ \A e \in m_queue : e.rec # new.rec
      /\ \A i \in 1 .. Len(released) : released[i].rec # new.rec
  BY <1>4, <1>5, <1>7, SMTT(30) DEF OrderInv, Once
<1>9. Once'
  <2>1. \A e \in m_queue' : e.rec[2] <= Settled'[e.rec[1]]
    BY <1>1, <1>4, <1>5, <1>6, <1>7, SMTT(30) DEF OrderInv, Once
  <2>2. \A i \in 1 .. Len(released) : released[i].rec[2] <= Settled'[released[i].rec[1]]
    BY <1>6, <1>7, SMTT(30) DEF OrderInv, Once
  <2>3. \A e, f \in m_queue' : e.rec = f.rec => e = f
    BY <1>1, <1>8 DEF OrderInv, Once
  <2>4. \A e \in m_queue' : \A i \in 1 .. Len(released) : e.rec # released[i].rec
    BY <1>1, <1>8 DEF OrderInv, Once
  <2>5. QED
    BY <2>1, <2>2, <2>3, <2>4, <1>2 DEF OrderInv, Once
<1>10. Waited'
  <2>1. \A i \in 1 .. Len(released) : released[i].aged => released[i].rec \notin Recent
    <3> SUFFICES ASSUME NEW i \in 1 .. Len(released), released[i].aged,
                        NEW x \in m_queue \cup Range(released), x.age < OrderingWindow,
                        x.rec = released[i].rec
                 PROVE  FALSE
      BY DEF Recent
    <3>1. x \notin m_queue
      BY DEF OrderInv, Once
    <3>2. PICK j \in 1 .. Len(released) : x = released[j]
      BY <3>1, <1>2 DEF Range
    <3>3. j = i
      BY <3>2 DEF OrderInv, Once
    <3>4. released[i].age = OrderingWindow
      BY DEF OrderInv, Waited
    <3>5. QED
      BY <3>2, <3>3, <3>4 DEF Configured
  <2>2. \A e \in m_queue' : \A i \in 1 .. Len(released) :
          released[i].aged /\ e.key < released[i].key => released[i].rec \notin e.within
    BY <1>1, <1>4, <2>1 DEF OrderInv, Waited
  <2>3. QED
    BY <2>2, <1>2 DEF OrderInv, Waited
<1>11. OrderedWithinWindow'
  BY <1>2 DEF OrderInv, OrderedWithinWindow
<1>12. QED
  BY <1>9, <1>10, <1>11

(* The record that leaves was on top.                                         *)
LEMMA PopKeepsOrder ==
  ASSUME Configured, OrderInv, Typed', Progress, NEW e \in m_queue, NEW aged \in BOOLEAN, Pops(e, aged)
  PROVE  Once' /\ Waited' /\ OrderedWithinWindow'
<1> DEFINE n == Len(released)
           last == Release(e, aged)
<1>1. /\ released \in Seq(Releases) /\ n \in Nat
      /\ m_queue \subseteq Entries /\ m_queue' = m_queue \ {e}
      /\ \A i \in 1 .. n : released[i] \in Releases
  BY SMTT(30) DEF OrderInv, Typed, Pops
<1>2. /\ Len(released') = n + 1 /\ released'[n + 1] = last
      /\ \A i \in 1 .. n : released'[i] = released[i]
      /\ DOMAIN released = 1 .. n /\ DOMAIN released' = 1 .. n + 1
      /\ \A i \in 1 .. n + 1 : i \in 1 .. n \/ i = n + 1
  BY <1>1, SMTT(30) DEF Pops
<1>3. /\ last.rec = e.rec /\ last.key = e.key /\ last.age = e.age
      /\ last.within = e.within /\ last.aged = aged
  BY DEF Release
<1>4. \A q \in Producers : Settled[q] \in Int /\ Settled'[q] \in Int /\ Settled[q] <= Settled'[q]
  BY SMTT(30) DEF OrderInv, Typed, Settled, Progress
<1>5. /\ \A x \in m_queue : x.rec[1] \in Producers /\ x.rec[2] \in Nat /\ x.key \in Int
      /\ \A i \in 1 .. n : released[i].rec[1] \in Producers /\ released[i].rec[2] \in Nat
                           /\ released[i].key \in Int
  <2>1. \A x \in Entries : x.rec[1] \in Producers /\ x.rec[2] \in Nat /\ x.key \in Int
    BY DEF Entries, Ids, Configured
  <2>2. \A r \in Releases : r.rec[1] \in Producers /\ r.rec[2] \in Nat /\ r.key \in Int
    BY DEF Releases, Ids, Configured
  <2>3. QED
    BY <1>1, <2>1, <2>2
<1>6. Once'
  <2>1. \A x \in m_queue' : x.rec[2] <= Settled'[x.rec[1]]
    BY <1>1, <1>4, <1>5, SMTT(30) DEF OrderInv, Once
  <2>2. \A i \in 1 .. n + 1 : released'[i].rec[2] <= Settled'[released'[i].rec[1]]
    <3>1. e.rec[2] <= Settled'[e.rec[1]]
      BY <1>4, <1>5, SMTT(30) DEF OrderInv, Once
    <3>2. \A i \in 1 .. n : released[i].rec[2] <= Settled'[released[i].rec[1]]
      BY <1>4, <1>5, SMTT(30) DEF OrderInv, Once
    <3>3. QED
      BY <3>1, <3>2, <1>2, <1>3
  <2>3. \A x, y \in m_queue' : x.rec = y.rec => x = y
    BY <1>1 DEF OrderInv, Once
  <2>4. \A x \in m_queue' : \A i \in 1 .. n + 1 : x.rec # released'[i].rec
    BY <1>1, <1>2, <1>3, SMTT(30) DEF OrderInv, Once
  <2>5. \A i, j \in 1 .. n + 1 : released'[i].rec = released'[j].rec => i = j
    BY <1>1, <1>2, <1>3, SMTT(30) DEF OrderInv, Once
  <2>6. QED
    BY <2>1, <2>2, <2>3, <2>4, <2>5, <1>2 DEF Once
<1>7. Waited'
  <2>1. \A i \in 1 .. n + 1 : released'[i].aged => released'[i].age = OrderingWindow
    <3>1. aged => e.age = OrderingWindow
      BY <1>1, SMTT(30) DEF Pops, Ready, Entries, Configured
    <3>2. QED
      BY <3>1, <1>2, <1>3 DEF OrderInv, Waited
  <2>2. \A x \in m_queue' : ~(x.key < e.key)
    BY <1>1, <1>5 DEF Pops, Tops
  <2>3. \A x \in m_queue' : \A i \in 1 .. n + 1 :
          released'[i].aged /\ x.key < released'[i].key => released'[i].rec \notin x.within
    BY <2>2, <1>1, <1>2, <1>3 DEF OrderInv, Waited
  <2>4. QED
    BY <2>1, <2>3, <1>2 DEF Waited
<1>8. OrderedWithinWindow'
  <2> SUFFICES ASSUME NEW i \in 1 .. n + 1, NEW j \in 1 .. n + 1, i < j, released'[i].aged,
                      released'[j].key < released'[i].key
               PROVE  released'[i].rec \notin released'[j].within
    BY <1>2 DEF OrderedWithinWindow
  <2>1. i \in 1 .. n /\ released'[i] = released[i]
    BY <1>1, <1>2
  <2>2. CASE j \in 1 .. n
    BY <2>1, <2>2, <1>2 DEF OrderInv, OrderedWithinWindow
  <2>3. CASE j = n + 1
    BY <2>1, <2>3, <1>2, <1>3 DEF OrderInv, Waited
  <2>4. QED
    BY <2>2, <2>3, <1>2
<1>9. QED
  BY <1>6, <1>7, <1>8

(* Time changes the ages and nothing else.                                    *)
LEMMA TimeKeepsOrder ==
  ASSUME Configured, OrderInv, Typed', Progress, Ages
  PROVE  Once' /\ Waited' /\ OrderedWithinWindow'
<1> DEFINE n == Len(released)
<1>1. /\ released \in Seq(Releases) /\ n \in Nat /\ m_queue \subseteq Entries
      /\ DOMAIN released = 1 .. n
      /\ \A i \in 1 .. n : released[i] \in Releases
  BY SMTT(30) DEF OrderInv, Typed
<1>2. /\ Len(released') = n /\ DOMAIN released' = 1 .. n
      /\ \A i \in 1 .. n : released'[i] = Older(released[i])
  BY <1>1 DEF Ages
<1>3. \A i \in 1 .. n :
        /\ released'[i].rec = released[i].rec /\ released'[i].key = released[i].key
        /\ released'[i].within = released[i].within /\ released'[i].aged = released[i].aged
        /\ released'[i].age >= released[i].age /\ released'[i].age \in 0 .. OrderingWindow
        /\ released[i].age \in 0 .. OrderingWindow
  <2>1. \A i \in 1 .. n : Older(released[i]) \in Releases
    BY <1>1, Aged
  <2>2. QED
    BY <1>1, <1>2, <2>1, Aged DEF Releases
<1>4. \A x \in m_queue' : \E e \in m_queue :
        x = Older(e) /\ x.rec = e.rec /\ x.key = e.key /\ x.within = e.within
  BY <1>1, Aged, SMTT(30) DEF Ages
<1>5. \A q \in Producers : Settled[q] \in Int /\ Settled'[q] \in Int /\ Settled[q] <= Settled'[q]
  BY SMTT(30) DEF OrderInv, Typed, Settled, Progress
<1>6. /\ \A x \in m_queue : x.rec[1] \in Producers /\ x.rec[2] \in Nat
      /\ \A i \in 1 .. n : released[i].rec[1] \in Producers /\ released[i].rec[2] \in Nat
  BY <1>1 DEF Entries, Releases, Ids
<1>7. Once'
  <2>1. \A x \in m_queue' : x.rec[2] <= Settled'[x.rec[1]]
    <3>1. \A e \in m_queue : e.rec[2] <= Settled'[e.rec[1]]
      BY <1>5, <1>6, SMTT(30) DEF OrderInv, Once
    <3>2. QED
      BY <3>1, <1>4
  <2>2. \A i \in 1 .. n : released'[i].rec[2] <= Settled'[released'[i].rec[1]]
    <3>1. \A i \in 1 .. n : released[i].rec[2] <= Settled'[released[i].rec[1]]
      BY <1>5, <1>6, SMTT(30) DEF OrderInv, Once
    <3>2. QED
      BY <3>1, <1>3
  <2>3. \A x, y \in m_queue' : x.rec = y.rec => x = y
    BY <1>4, SMTT(30) DEF OrderInv, Once
  <2>4. \A x \in m_queue' : \A i \in 1 .. n : x.rec # released'[i].rec
    BY <1>3, <1>4, SMTT(30) DEF OrderInv, Once
  <2>5. \A i, j \in 1 .. n : released'[i].rec = released'[j].rec => i = j
    BY <1>3 DEF OrderInv, Once
  <2>6. QED
    BY <2>1, <2>2, <2>3, <2>4, <2>5, <1>2 DEF Once
<1>8. Waited'
  <2>1. \A i \in 1 .. n : released'[i].aged => released'[i].age = OrderingWindow
    BY <1>3, SMTT(30) DEF OrderInv, Waited, Configured
  <2>2. \A x \in m_queue' : \A i \in 1 .. n :
          released'[i].aged /\ x.key < released'[i].key => released'[i].rec \notin x.within
    BY <1>3, <1>4 DEF OrderInv, Waited
  <2>3. QED
    BY <2>1, <2>2, <1>2 DEF Waited
<1>9. OrderedWithinWindow'
  BY <1>1, <1>2, <1>3 DEF OrderInv, OrderedWithinWindow
<1>10. QED
  BY <1>7, <1>8, <1>9

(* Every step keeps the order.                                                *)
LEMMA NextOrder ==
  ASSUME Configured, OrderInv, [Next]_vars
  PROVE  OrderInv'
<1>1. CASE Next
  <2>1. Typed' /\ Listed' /\ Progress
    BY <1>1, NextTyped, NextListed DEF OrderInv
  <2>2. CASE Stays
    <3>1. \A q \in Producers : Settled[q] \in Int /\ Settled'[q] \in Int /\ Settled[q] <= Settled'[q]
      BY <2>1, SMTT(30) DEF OrderInv, Typed, Settled, Progress
    <3>2. /\ \A x \in m_queue : x.rec[1] \in Producers /\ x.rec[2] \in Nat
          /\ \A i \in 1 .. Len(released) : released[i].rec[1] \in Producers /\ released[i].rec[2] \in Nat
      <4>1. m_queue \subseteq Entries /\ \A i \in 1 .. Len(released) : released[i] \in Releases
        BY SMTT(30) DEF OrderInv, Typed
      <4>2. QED
        BY <4>1 DEF Entries, Releases, Ids
    <3>3. /\ \A e \in m_queue : e.rec[2] <= Settled'[e.rec[1]]
          /\ \A i \in 1 .. Len(released) : released[i].rec[2] <= Settled'[released[i].rec[1]]
      BY <3>1, <3>2, SMTT(30) DEF OrderInv, Once
    <3>4. Once'
      BY <2>2, <3>3 DEF OrderInv, Once, Stays
    <3>5. Waited' /\ OrderedWithinWindow'
      BY <2>2 DEF OrderInv, Waited, OrderedWithinWindow, Stays
    <3>6. QED
      BY <2>1, <3>4, <3>5 DEF OrderInv
  <2>3. CASE \E p \in Producers : Pushes(p)
    BY <2>1, <2>3, PushKeepsOrder DEF OrderInv
  <2>4. CASE \E e \in m_queue : \E aged \in BOOLEAN : Pops(e, aged)
    BY <2>1, <2>4, PopKeepsOrder DEF OrderInv
  <2>5. CASE Ages
    BY <2>1, <2>5, TimeKeepsOrder DEF OrderInv
  <2>6. QED
    BY <1>1, <2>2, <2>3, <2>4, <2>5, Effects
<1>2. CASE UNCHANGED vars
  <2>1. UNCHANGED <<m_queue, released, calls, pc, m_thread_contexts, strategy, consumer, remaining>>
    BY <1>2 DEF vars, producerVars, consumerVars
  <2>2. Typed' /\ Listed'
    BY <2>1 DEF OrderInv, Typed, Listed
  <2>3. Settled' = Settled
    BY <2>1 DEF Settled
  <2>4. Once' /\ Waited' /\ OrderedWithinWindow'
    BY <2>1, <2>3 DEF OrderInv, Once, Waited, OrderedWithinWindow
  <2>5. QED
    BY <2>2, <2>4 DEF OrderInv
<1>3. QED
  BY <1>1, <1>2

(* The queue is empty at the start.                                           *)
LEMMA InitOrder ==
  ASSUME Configured, Init
  PROVE  OrderInv
<1>1. Typed
  BY DEF Configured, Init, Typed, Forever
<1>2. Listed /\ Once /\ Waited /\ OrderedWithinWindow
  BY DEF Init, Listed, Once, Waited, OrderedWithinWindow
<1>3. QED
  BY <1>1, <1>2 DEF OrderInv

(* The inductive invariant of the order.                                      *)
LEMMA OrderHolds == ASSUME Configured PROVE Spec => []OrderInv
  BY InitOrder, NextOrder, PTL DEF Spec

(* unbounded_ordering_queue and bounded_ordering_queue: two records enqueued  *)
(* within one window of each other leave in the order of the predicate, for   *)
(* any producers, window and limit, unless a flush took out the first early.  *)
THEOREM RecordsOrdered == ASSUME Configured PROVE Spec => []OrderedWithinWindow
  BY OrderHolds, PTL DEF OrderInv

-----------------------------------------------------------------------------
(* The sleep of the consumer *)

(* A step leaves the consumer awake, puts it to sleep until the record on top *)
(* is ready, or lets it sleep while nothing, a push or time happens.          *)
LEMMA SleepEffects ==
  ASSUME Next, consumer' = "asleep"
  PROVE  \/ dequeue_waits
         \/ consumer = "asleep" /\ UNCHANGED <<m_queue, remaining>>
         \/ consumer = "asleep" /\ m_queue # {} /\ UNCHANGED remaining /\ \E p \in Producers : Pushes(p)
         \/ consumer = "asleep" /\ Tick
<1>1. CASE \E p \in Producers : begin_enqueue(p) \/ push_blocks(p) \/ push_fails(p)
  BY <1>1 DEF begin_enqueue, push_blocks, push_fails, consumerVars
<1>2. CASE \E p \in Producers : push(p)
  <2>1. PICK p \in Producers : push(p)
    BY <1>2
  <2>2. Pushes(p) /\ UNCHANGED remaining
    BY <2>1 DEF push, Pushes
  <2>3. m_queue # {} /\ consumer = "asleep"
    BY <2>1 DEF push, notify_consumer
  <2>4. QED
    BY <2>2, <2>3
<1>3. CASE interrupt_dequeue \/ begin_dequeue \/ dequeue_interrupted \/ wait_for_ends
  BY <1>3 DEF interrupt_dequeue, begin_dequeue, dequeue_interrupted, wait_for_ends, notify_consumer
<1>4. CASE try_dequeue \/ try_dequeue_ready \/ dequeue_top
  BY <1>4 DEF try_dequeue, try_dequeue_ready, dequeue_top
<1>5. CASE Tick
  BY <1>5 DEF Tick
<1>6. QED
  BY <1>1, <1>2, <1>3, <1>4, <1>5 DEF Next, Enqueue, ConsumerStep

(* A step keeps the end of the sleep before the moment a record is ready.     *)
LEMMA NextWakes ==
  ASSUME Configured, OrderInv, WakesInTime, [Next]_vars
  PROVE  WakesInTime'
<1> SUFFICES ASSUME Next, consumer' = "asleep", m_queue' # {}
             PROVE  remaining' # Forever /\ \E e \in Tops' : remaining' <= OrderingWindow - e.age
  BY DEF WakesInTime, Tops, vars, consumerVars
<1>1. /\ m_queue \subseteq Entries /\ remaining \in -1 .. OrderingWindow
      /\ \A e \in m_queue : e.key \in Int /\ e.age \in 0 .. OrderingWindow
  BY DEF OrderInv, Typed, Entries, Configured
<1>2. CASE dequeue_waits
  <2>1. m_queue' = m_queue
    BY <1>2 DEF dequeue_waits
  <2>2. PICK e \in Tops : remaining' = OrderingWindow - e.age
    BY <1>2, <2>1 DEF dequeue_waits
  <2>3. e \in Tops' /\ e \in m_queue
    BY <2>1, <2>2 DEF Tops
  <2>4. remaining' # Forever /\ remaining' <= OrderingWindow - e.age
    BY <2>2, <2>3, <1>1 DEF Forever, Configured
  <2>5. QED
    BY <2>3, <2>4
<1>3. CASE consumer = "asleep" /\ UNCHANGED <<m_queue, remaining>>
  BY <1>3 DEF WakesInTime, Tops
<1>4. CASE consumer = "asleep" /\ m_queue # {} /\ UNCHANGED remaining /\ \E p \in Producers : Pushes(p)
  <2>1. PICK p \in Producers : Pushes(p)
    BY <1>4
  <2>2. PICK k \in Keys : m_queue' = m_queue \cup {Entry(p, k)}
    BY <2>1 DEF Pushes
  <2>3. PICK e \in Tops : remaining <= OrderingWindow - e.age
    BY <1>4 DEF WakesInTime
  <2>4. remaining # Forever
    BY <1>4 DEF WakesInTime
  <2> DEFINE new == Entry(p, k)
  <2>5. new.key = k /\ new.age = 0 /\ k \in Int
    BY DEF Entry, Configured
  <2>6. e \in m_queue /\ \A other \in m_queue : e.key <= other.key
    BY <2>3 DEF Tops
  <2>7. CASE e.key <= k
    <3>1. e \in Tops'
      BY <2>2, <2>5, <2>6, <2>7 DEF Tops
    <3>2. QED
      BY <3>1, <2>3, <2>4, <1>4
  <2>8. CASE k < e.key
    <3>1. \A other \in m_queue' : new.key <= other.key
      BY <2>2, <2>5, <2>6, <2>8, <1>1
    <3>2. new \in Tops'
      BY <3>1, <2>2 DEF Tops
    <3>3. remaining' <= OrderingWindow - new.age
      BY <2>5, <1>1, <1>4 DEF Configured
    <3>4. QED
      BY <3>2, <3>3, <2>4, <1>4
  <2>9. QED
    BY <2>5, <2>6, <2>7, <2>8, <1>1
<1>5. CASE consumer = "asleep" /\ Tick
  <2>1. m_queue # {} /\ m_queue' = {Older(e) : e \in m_queue}
    BY <1>5 DEF Tick
  <2>2. PICK e \in Tops : remaining <= OrderingWindow - e.age
    BY <1>5, <2>1 DEF WakesInTime
  <2>3. remaining # Forever
    BY <1>5, <2>1 DEF WakesInTime
  <2>4. e \in m_queue /\ e \in Entries /\ \A other \in m_queue : e.key <= other.key
    BY <2>2, <1>1 DEF Tops
  <2>5. \A other \in m_queue : Older(other).key = other.key
    BY <1>1, Aged
  <2>6. Older(e) \in Tops'
    BY <2>1, <2>4, <2>5 DEF Tops
  <2>7. Older(e).age = IF e.age < OrderingWindow THEN e.age + 1 ELSE e.age
    BY <2>4 DEF Older, Entries
  <2>8. remaining' = IF remaining > 0 THEN remaining - 1 ELSE remaining
    BY <1>5 DEF Tick
  <2>9. remaining' # Forever /\ remaining' <= OrderingWindow - Older(e).age
    BY <2>2, <2>3, <2>4, <2>7, <2>8, <1>1 DEF Forever, Configured
  <2>10. QED
    BY <2>6, <2>9
<1>6. QED
  BY <1>2, <1>3, <1>4, <1>5, SleepEffects

(* dequeue_ready of the ordering queues never sleeps past the moment at which *)
(* a record is ready, although a push notifies only when it finds the queue   *)
(* empty: the record on top may change while the consumer sleeps, but a newer *)
(* one is ready later.                                                        *)
THEOREM ConsumerWakesInTime == ASSUME Configured PROVE Spec => []WakesInTime
<1>1. Init => WakesInTime
  BY DEF Init, WakesInTime
<1>2. OrderInv /\ WakesInTime /\ [Next]_vars => WakesInTime'
  BY NextWakes
<1>3. QED
  BY <1>1, <1>2, OrderHolds, PTL DEF Spec

-----------------------------------------------------------------------------
(* The limit of the bounded queue *)

(* The threads that come back from on_overflow, or have not been there yet. *)
Enqueuing == {p \in Producers : pc[p] = "enqueue"}

SlotInv ==
  /\ IsFiniteSet(m_queue)
  /\ strategy # "unbounded" => Cardinality(m_queue) <= MaxQueueSize
  /\ FreeSlotsOffered

(* A unit of time makes older records of the records.                         *)
LEMMA TimeKeepsSize ==
  ASSUME Configured, OrderInv, IsFiniteSet(m_queue), Ages
  PROVE  IsFiniteSet(m_queue') /\ Cardinality(m_queue') = Cardinality(m_queue)
<1> DEFINE f == [e \in m_queue |-> Older(e)]
<1>1. \A e \in m_queue : Older(e).rec = e.rec
  BY Aged DEF OrderInv, Typed
<1>2. f \in Bijection(m_queue, m_queue')
  <2>1. f \in [m_queue -> m_queue'] /\ \A y \in m_queue' : \E e \in m_queue : f[e] = y
    BY DEF Ages
  <2>2. \A x, y \in m_queue : f[x] = f[y] => x = y
    BY <1>1, SMTT(30) DEF OrderInv, Once
  <2>3. QED
    BY <2>1, <2>2 DEF Bijection, Injection, Surjection, IsInjective
<1>3. ExistsBijection(m_queue, m_queue')
  BY <1>2 DEF ExistsBijection
<1>4. QED
  BY <1>3, FS_Bijection

(* A push adds a record.                                                      *)
LEMMA PushedSize ==
  ASSUME OrderInv, IsFiniteSet(m_queue), NEW p \in Producers, push(p)
  PROVE  IsFiniteSet(m_queue') /\ Cardinality(m_queue') = Cardinality(m_queue) + 1
<1>1. PICK k \in Keys : m_queue' = m_queue \cup {Entry(p, k)}
  BY DEF push
<1>2. Entry(p, k) \notin m_queue
  <2>1. Settled[p] = calls[p] - 1 /\ calls[p] \in Nat
    BY DEF push, OrderInv, Typed, Settled
  <2>2. Entry(p, k).rec[1] = p /\ Entry(p, k).rec[2] = calls[p]
    BY DEF Entry
  <2>3. QED
    BY <2>1, <2>2, SMTT(30) DEF OrderInv, Once
<1>3. QED
  BY <1>1, <1>2, FS_AddElement

Dequeues == try_dequeue \/ try_dequeue_ready \/ dequeue_top

(* A record that is taken out leaves a slot for the first that waits.         *)
LEMMA PoppedSize ==
  ASSUME IsFiniteSet(m_queue), Dequeues
  PROVE  /\ on_queue_space_available /\ UNCHANGED strategy
         /\ IsFiniteSet(m_queue') /\ Cardinality(m_queue') = Cardinality(m_queue) - 1
<1>1. on_queue_space_available /\ UNCHANGED strategy /\ \E e \in m_queue : m_queue' = m_queue \ {e}
  BY DEF Dequeues, try_dequeue, try_dequeue_ready, dequeue_top, pop, Tops
<1>2. QED
  BY <1>1, FS_RemoveElement

(* A step that takes a producer into or out of enqueue counts by one.         *)
LEMMA EnqueuingCounted ==
  ASSUME IsFiniteSet(Producers), NEW p \in Producers,
         \A q \in Producers \ {p} : pc'[q] = "enqueue" <=> pc[q] = "enqueue"
  PROVE  /\ Cardinality(Enqueuing) \in Nat /\ Cardinality(Enqueuing') \in Nat
         /\ Cardinality(Enqueuing') >= Cardinality(Enqueuing) - 1
         /\ pc'[p] = "enqueue" => Cardinality(Enqueuing') >= Cardinality(Enqueuing)
         /\ pc[p] # "enqueue" => Cardinality(Enqueuing') >= Cardinality(Enqueuing)
         /\ pc[p] # "enqueue" /\ pc'[p] = "enqueue" =>
              Cardinality(Enqueuing') = Cardinality(Enqueuing) + 1
<1>1. IsFiniteSet(Enqueuing) /\ IsFiniteSet(Enqueuing')
  <2>1. Enqueuing \in SUBSET Producers /\ Enqueuing' \in SUBSET Producers
    BY DEF Enqueuing
  <2>2. QED
    BY <2>1, FS_Subset
<1>2. Cardinality(Enqueuing) \in Nat /\ Cardinality(Enqueuing') \in Nat
  BY <1>1, FS_CardinalityType
<1>3. CASE pc[p] = "enqueue" /\ pc'[p] # "enqueue"
  <2>1. Enqueuing' = Enqueuing \ {p} /\ p \in Enqueuing
    BY <1>3 DEF Enqueuing
  <2>2. Cardinality(Enqueuing') = Cardinality(Enqueuing) - 1
    BY <2>1, <1>1, FS_RemoveElement
  <2>3. QED
    BY <1>2, <1>3, <2>2
<1>4. CASE pc[p] # "enqueue" /\ pc'[p] = "enqueue"
  <2>1. Enqueuing' = Enqueuing \cup {p} /\ p \notin Enqueuing
    BY <1>4 DEF Enqueuing
  <2>2. Cardinality(Enqueuing') = Cardinality(Enqueuing) + 1
    BY <2>1, <1>1, FS_AddElement
  <2>3. QED
    BY <1>2, <1>4, <2>2
<1>5. CASE pc'[p] = "enqueue" <=> pc[p] = "enqueue"
  <2>1. Enqueuing' = Enqueuing
    BY <1>5 DEF Enqueuing
  <2>2. QED
    BY <1>2, <1>5, <2>1
<1>6. QED
  BY <1>3, <1>4, <1>5

(* Every step keeps the size within the limit and the free slots offered.     *)
LEMMA NextSlots ==
  ASSUME Configured, IsFiniteSet(Producers), OrderInv, SlotInv, [Next]_vars
  PROVE  SlotInv'
<1> DEFINE size == Cardinality(m_queue)
           list == m_thread_contexts
<1>1. IsFiniteSet(m_queue) /\ size \in Nat /\ MaxQueueSize \in Nat
  BY FS_CardinalityType DEF SlotInv, Configured
<1>2. /\ pc \in [Producers -> {"outside", "enqueue", "try_enqueue", "blocked"}]
      /\ list \in Seq(Producers)
  BY DEF OrderInv, Typed
<1>3. /\ strategy # "unbounded" => size <= MaxQueueSize
      /\ list # <<>> => strategy = "block" /\ MaxQueueSize - size <= Cardinality(Enqueuing)
  BY DEF SlotInv, FreeSlotsOffered, Enqueuing, OrderInv, Listed
<1> SUFFICES /\ IsFiniteSet(m_queue')
             /\ strategy' # "unbounded" => size' <= MaxQueueSize
             /\ list' # <<>> => MaxQueueSize - size' <= Cardinality(Enqueuing')
  BY DEF SlotInv, FreeSlotsOffered, Enqueuing
<1>4. CASE \E p \in Producers : begin_enqueue(p)
  <2>1. PICK p \in Producers : begin_enqueue(p)
    BY <1>4
  <2>2. /\ UNCHANGED <<m_queue, m_thread_contexts, strategy>> /\ pc[p] = "outside"
        /\ \A q \in Producers \ {p} : pc'[q] = pc[q]
    BY <2>1, <1>2 DEF begin_enqueue
  <2>3. /\ Cardinality(Enqueuing') >= Cardinality(Enqueuing)
        /\ Cardinality(Enqueuing) \in Nat /\ Cardinality(Enqueuing') \in Nat
    BY <2>2, EnqueuingCounted
  <2>4. QED
    BY <1>1, <1>3, <2>2, <2>3
<1>5. CASE \E p \in Producers : push(p)
  <2>1. PICK p \in Producers : push(p)
    BY <1>5
  <2>2. /\ UNCHANGED <<m_thread_contexts, strategy>> /\ ~is_full
        /\ \A q \in Producers \ {p} : pc'[q] = pc[q]
    BY <2>1, <1>2 DEF push
  <2>3. IsFiniteSet(m_queue') /\ size' = size + 1
    BY <2>1, <1>1, PushedSize
  <2>4. /\ Cardinality(Enqueuing') >= Cardinality(Enqueuing) - 1
        /\ Cardinality(Enqueuing) \in Nat /\ Cardinality(Enqueuing') \in Nat
    BY <2>2, EnqueuingCounted
  <2>5. QED
    BY <1>1, <1>3, <2>2, <2>3, <2>4 DEF is_full
<1>6. CASE \E p \in Producers : push_blocks(p)
  <2>1. PICK p \in Producers : push_blocks(p)
    BY <1>6
  <2>2. /\ UNCHANGED <<m_queue, strategy>> /\ is_full
        /\ \A q \in Producers \ {p} : pc'[q] = pc[q]
    BY <2>1, <1>2 DEF push_blocks
  <2>3. Cardinality(Enqueuing') \in Nat
    BY <2>2, EnqueuingCounted
  <2>4. QED
    BY <1>1, <1>3, <2>2, <2>3 DEF is_full
<1>7. CASE \E p \in Producers : push_fails(p)
  <2>1. PICK p \in Producers : push_fails(p)
    BY <1>7
  <2>2. /\ UNCHANGED <<m_queue, m_thread_contexts, strategy>>
        /\ strategy = "drop" \/ pc[p] = "try_enqueue"
        /\ \A q \in Producers \ {p} : pc'[q] = pc[q]
    BY <2>1, <1>2 DEF push_fails
  <2>3. CASE strategy = "drop"
    BY <1>1, <1>3, <2>2, <2>3
  <2>4. CASE pc[p] = "try_enqueue"
    <3>1. /\ Cardinality(Enqueuing') >= Cardinality(Enqueuing)
          /\ Cardinality(Enqueuing) \in Nat /\ Cardinality(Enqueuing') \in Nat
      BY <2>2, <2>4, EnqueuingCounted
    <3>2. QED
      BY <1>1, <1>3, <2>2, <3>1
  <2>5. QED
    BY <2>2, <2>3, <2>4
<1>8. CASE interrupt_dequeue
  BY <1>1, <1>3, <1>8 DEF interrupt_dequeue
<1>9. CASE Dequeues
  <2>1. IsFiniteSet(m_queue') /\ size' = size - 1 /\ UNCHANGED strategy /\ on_queue_space_available
    BY <1>1, <1>9, PoppedSize
  <2>2. CASE list = <<>>
    BY <1>1, <1>3, <2>1, <2>2 DEF on_queue_space_available
  <2>3. CASE list # <<>>
    <3> DEFINE first == Head(list)
    <3>1. first \in Producers /\ pc[first] = "blocked" /\ pc' = [pc EXCEPT ![first] = "enqueue"]
      BY <2>1, <2>3, FirstUnblocked DEF OrderInv, on_queue_space_available
    <3>2. pc'[first] = "enqueue" /\ \A q \in Producers \ {first} : pc'[q] = pc[q]
      BY <3>1, <1>2
    <3>3. /\ Cardinality(Enqueuing') = Cardinality(Enqueuing) + 1
          /\ Cardinality(Enqueuing) \in Nat
      BY <3>1, <3>2, EnqueuingCounted
    <3>4. QED
      BY <1>1, <1>3, <2>1, <2>3, <3>3
  <2>4. QED
    BY <2>2, <2>3
<1>10. CASE Tick
  <2>1. Ages /\ UNCHANGED <<strategy, producerVars>>
    BY <1>10 DEF Tick, Ages
  <2>2. IsFiniteSet(m_queue') /\ size' = size
    BY <1>1, <2>1, TimeKeepsSize
  <2>3. QED
    BY <1>3, <2>1, <2>2 DEF producerVars, Enqueuing
<1>11. CASE UNCHANGED <<m_queue, strategy, producerVars>>
  BY <1>1, <1>3, <1>11 DEF producerVars, Enqueuing
<1>12. QED
  BY <1>4, <1>5, <1>6, <1>7, <1>8, <1>9, <1>10, <1>11 DEF Next, Enqueue, ConsumerStep, Dequeues,
     begin_dequeue, dequeue_waits, dequeue_interrupted, wait_for_ends, vars

(* No records at the start.                                                   *)
LEMMA InitSlots ==
  ASSUME Configured, Init
  PROVE  SlotInv
  BY FS_EmptySet, SMTT(30) DEF Configured, Init, SlotInv, FreeSlotsOffered

(* The queue with both invariants.                                            *)
LEMMA SlotsHold == ASSUME Configured, IsFiniteSet(Producers) PROVE Spec => [](OrderInv /\ SlotInv)
  BY InitOrder, NextOrder, InitSlots, NextSlots, PTL DEF Spec

(* bounded_ordering_queue never has more than MaxQueueSizeV records, whatever *)
(* the producers that come back from on_overflow, and no record outgrows the  *)
(* window in it.                                                              *)
THEOREM LimitKept == ASSUME Configured, IsFiniteSet(Producers) PROVE Spec => []TypeOK
<1>1. OrderInv /\ SlotInv => TypeOK
  <2> SUFFICES ASSUME OrderInv, SlotInv PROVE TypeOK
    OBVIOUS
  <2>1. \A e \in m_queue : e.key \in Keys /\ e.age \in 0 .. OrderingWindow
    BY DEF OrderInv, Typed, Entries
  <2>2. QED
    BY <2>1 DEF OrderInv, Typed, SlotInv, TypeOK
<1>2. QED
  BY <1>1, SlotsHold, PTL

(* block_on_overflow over the ordering queue: while producers sleep, every    *)
(* free slot has been offered to one, so no producer sleeps next to a slot    *)
(* that nobody will fill.                                                     *)
THEOREM SlotsOffered ==
  ASSUME Configured, IsFiniteSet(Producers) PROVE Spec => []FreeSlotsOffered
  BY SlotsHold, PTL DEF SlotInv
=============================================================================
