---------------------------- MODULE OrderingQueue ------------------------------
(***************************************************************************)
(* sinks::unbounded_ordering_queue and sinks::bounded_ordering_queue: a    *)
(* priority queue whose records leave in the order of a user's predicate,  *)
(* and not before they have aged for the ordering window.                  *)
(*                                                                         *)
(* Each action is one critical section of m_mutex.  The clock is read only *)
(* to subtract m_timestamp from it, so a record carries its age, and Tick  *)
(* lets one unit of time pass at any moment; ages beyond the window are    *)
(* all alike.  A spurious wake-up repeats the loop of dequeue_ready, which *)
(* sleeps again for what remains of the window: it is left out.            *)
(***************************************************************************)
EXTENDS Integers, Sequences, FiniteSets, Functions

CONSTANTS Producers,         \* threads that enqueue records
          Keys,              \* what the predicate compares, a set of integers
          MaxQueueSize,      \* MaxQueueSizeV of the bounded queue
          OrderingWindow,    \* m_ordering_window, in units of time
          MaxRecords,        \* bound: records enqueued by one thread
          MaxInterrupts      \* bound: calls of interrupt_dequeue

VARIABLES strategy,          \* which queue this is, with its overflow strategy
          m_queue,           \* the set of enqueued_records
          m_interruption_requested,
          m_thread_contexts, \* threads blocked in on_overflow, oldest first
          pc,                \* where each producer is
          consumer,          \* where the consumer is
          remaining,         \* what is left of the consumer's wait_for; Forever in wait
          calls, interrupts,
          released           \* history: the records that left the queue, in order

producerVars == <<pc, calls, m_thread_contexts>>
consumerVars == <<consumer, remaining>>
vars == <<strategy, m_queue, m_interruption_requested, producerVars, consumerVars,
          interrupts, released>>

Forever == -1

Init ==
  /\ strategy \in {"unbounded", "block", "drop"}
  /\ m_queue = {}
  /\ m_interruption_requested = FALSE
  /\ m_thread_contexts = <<>>
  /\ pc = [p \in Producers |-> "outside"]
  /\ consumer = "outside" /\ remaining = Forever
  /\ calls = [p \in Producers |-> 0]
  /\ interrupts = 0
  /\ released = <<>>

is_full == strategy # "unbounded" /\ Cardinality(m_queue) >= MaxQueueSize

(* m_cond.notify_one(): the consumer is the only thread that sleeps on it. *)
notify_consumer == consumer' = IF consumer = "asleep" THEN "dequeue_ready" ELSE consumer

-----------------------------------------------------------------------------
(* enqueue and try_enqueue *)

begin_enqueue(p) ==
  /\ pc[p] = "outside"
  /\ calls[p] < MaxRecords
  /\ \E call \in {"enqueue", "try_enqueue"} : pc' = [pc EXCEPT ![p] = call]
  /\ calls' = [calls EXCEPT ![p] = @ + 1]
  /\ UNCHANGED <<strategy, m_queue, m_interruption_requested, m_thread_contexts,
                 consumerVars, interrupts, released>>

(* The records enqueued less than a window ago. *)
Recent == {e.rec : e \in {x \in m_queue \cup Range(released) : x.age < OrderingWindow}}

(* enqueued_record(rec); "within" is history. *)
Entry(p, k) == [rec |-> <<p, calls[p]>>, key |-> k, age |-> 0, within |-> Recent]

(* Faulty variant: the consumer is not told about the first record. *)
push_without_notify(p) ==
  /\ pc[p] \in {"enqueue", "try_enqueue"}
  /\ ~is_full
  /\ \E k \in Keys : m_queue' = m_queue \cup {Entry(p, k)}
  /\ pc' = [pc EXCEPT ![p] = "outside"]
  /\ UNCHANGED <<strategy, m_interruption_requested, calls, m_thread_contexts, consumerVars,
                 interrupts, released>>

push(p) ==
  /\ pc[p] \in {"enqueue", "try_enqueue"}
  /\ ~is_full
  /\ \E k \in Keys : m_queue' = m_queue \cup {Entry(p, k)}
  /\ pc' = [pc EXCEPT ![p] = "outside"]
  /\ IF m_queue = {} THEN notify_consumer ELSE UNCHANGED consumer
  /\ UNCHANGED <<strategy, m_interruption_requested, calls, m_thread_contexts, remaining,
                 interrupts, released>>

(* enqueue on a full queue: on_overflow, up to the sleep of block_on_overflow. *)
push_blocks(p) ==
  /\ pc[p] = "enqueue"
  /\ is_full
  /\ strategy = "block"
  /\ pc' = [pc EXCEPT ![p] = "blocked"]
  /\ m_thread_contexts' = Append(m_thread_contexts, p)
  /\ UNCHANGED <<strategy, m_queue, m_interruption_requested, calls, consumerVars,
                 interrupts, released>>

(* The record is discarded: by drop_on_overflow, or because try_enqueue      *)
(* finds the queue full or its mutex locked by another thread.               *)
push_fails(p) ==
  /\ \/ pc[p] = "enqueue" /\ is_full /\ strategy = "drop"
     \/ pc[p] = "try_enqueue"
  /\ pc' = [pc EXCEPT ![p] = "outside"]
  /\ UNCHANGED <<strategy, m_queue, m_interruption_requested, calls, m_thread_contexts,
                 consumerVars, interrupts, released>>

(* interrupt_dequeue: the blocked producers discard their records, and the   *)
(* consumer is woken.                                                        *)
interrupt_dequeue ==
  /\ interrupts < MaxInterrupts
  /\ interrupts' = interrupts + 1
  /\ m_interruption_requested' = TRUE
  /\ pc' = [p \in Producers |-> IF p \in Range(m_thread_contexts) THEN "outside" ELSE pc[p]]
  /\ m_thread_contexts' = <<>>
  /\ notify_consumer
  /\ UNCHANGED <<strategy, m_queue, calls, remaining, released>>

-----------------------------------------------------------------------------
(* The consumer *)

(* The elements std::priority_queue may have on top: it keeps no order       *)
(* among elements the predicate does not tell apart.                         *)
Tops == {e \in m_queue : \A other \in m_queue : e.key <= other.key}

Ready(e) == e.age >= OrderingWindow

(* The producer that blocked first is unlinked and tries again. *)
on_queue_space_available ==
  IF m_thread_contexts = <<>>
    THEN UNCHANGED <<pc, m_thread_contexts>>
    ELSE /\ pc' = [pc EXCEPT ![Head(m_thread_contexts)] = "enqueue"]
         /\ m_thread_contexts' = Tail(m_thread_contexts)

pop(e, aged) ==
  /\ m_queue' = m_queue \ {e}
  /\ released' = Append(released, [rec |-> e.rec, key |-> e.key, age |-> e.age,
                                   within |-> e.within, aged |-> aged])
  /\ on_queue_space_available
  /\ UNCHANGED <<strategy, m_interruption_requested, calls, remaining, interrupts>>

begin_dequeue ==
  /\ consumer = "outside"
  /\ consumer' = "dequeue_ready"
  /\ UNCHANGED <<strategy, m_queue, m_interruption_requested, producerVars, remaining,
                 interrupts, released>>

(* try_dequeue takes whatever is on top: a flush drains the queue with it. *)
try_dequeue ==
  /\ consumer = "outside"
  /\ \E e \in Tops : pop(e, FALSE)
  /\ UNCHANGED consumer

try_dequeue_ready ==
  /\ consumer = "outside"
  /\ \E e \in Tops : Ready(e) /\ pop(e, TRUE)
  /\ UNCHANGED consumer

(* Faulty variant: any record whose window has ended is taken. *)
dequeue_any_ready ==
  /\ consumer = "dequeue_ready"
  /\ ~m_interruption_requested
  /\ \E e \in m_queue : Ready(e) /\ pop(e, TRUE)
  /\ consumer' = "outside"

(* dequeue_ready, when it has a record to return. *)
dequeue_top ==
  /\ consumer = "dequeue_ready"
  /\ ~m_interruption_requested
  /\ \E e \in Tops : Ready(e) /\ pop(e, TRUE)
  /\ consumer' = "outside"

(* Faulty variant: the end of the window is not awaited. *)
dequeue_waits_for_push ==
  /\ consumer = "dequeue_ready"
  /\ ~m_interruption_requested
  /\ \A e \in Tops : ~Ready(e)
  /\ consumer' = "asleep"
  /\ remaining' = Forever
  /\ UNCHANGED <<strategy, m_queue, m_interruption_requested, producerVars, interrupts, released>>

(* dequeue_ready: wait_for the end of the window of the top, or wait. *)
dequeue_waits ==
  /\ consumer = "dequeue_ready"
  /\ ~m_interruption_requested
  /\ \/ m_queue = {} /\ remaining' = Forever
     \/ \E e \in Tops : ~Ready(e) /\ remaining' = OrderingWindow - e.age
  /\ consumer' = "asleep"
  /\ UNCHANGED <<strategy, m_queue, m_interruption_requested, producerVars, interrupts, released>>

dequeue_interrupted ==
  /\ consumer = "dequeue_ready"
  /\ m_interruption_requested
  /\ m_interruption_requested' = FALSE
  /\ consumer' = "outside"
  /\ UNCHANGED <<strategy, m_queue, producerVars, remaining, interrupts, released>>

wait_for_ends ==
  /\ consumer = "asleep"
  /\ remaining = 0
  /\ consumer' = "dequeue_ready"
  /\ UNCHANGED <<strategy, m_queue, m_interruption_requested, producerVars, remaining,
                 interrupts, released>>

Older(e) == [e EXCEPT !.age = IF @ < OrderingWindow THEN @ + 1 ELSE @]

Tick ==
  /\ remaining > 0 \/ \E e \in m_queue \cup Range(released) : e.age < OrderingWindow
  /\ m_queue' = {Older(e) : e \in m_queue}
  /\ released' = [i \in DOMAIN released |-> Older(released[i])]
  /\ remaining' = IF remaining > 0 THEN remaining - 1 ELSE remaining
  /\ UNCHANGED <<strategy, m_interruption_requested, producerVars, consumer, interrupts>>

Enqueue(p) == push(p) \/ push_blocks(p) \/ push_fails(p)

ConsumerStep ==
  begin_dequeue \/ dequeue_top \/ dequeue_waits \/ dequeue_interrupted \/ wait_for_ends

Next ==
  \/ \E p \in Producers : begin_enqueue(p) \/ Enqueue(p)
  \/ interrupt_dequeue
  \/ ConsumerStep
  \/ try_dequeue \/ try_dequeue_ready
  \/ Tick

Spec == Init /\ [][Next]_vars

(* Time passes, producers run, and the feeding loop keeps asking for records. *)
Fairness == WF_vars(Tick) /\ WF_vars(ConsumerStep) /\ \A p \in Producers : WF_vars(Enqueue(p))

FairSpec == Spec /\ Fairness

-----------------------------------------------------------------------------
(* What the queue promises *)

TypeOK ==
  /\ strategy \in {"unbounded", "block", "drop"}
  /\ \A e \in m_queue : e.key \in Keys /\ e.age \in 0 .. OrderingWindow
  /\ strategy # "unbounded" => Cardinality(m_queue) <= MaxQueueSize
  /\ consumer \in {"outside", "dequeue_ready", "asleep"}
  /\ remaining \in -1 .. OrderingWindow

(* Two records enqueued within one window of each other leave in the order   *)
(* of the predicate, whichever thread and whichever moment they come from,   *)
(* unless a flush took the first of them out early.  Nothing is said of      *)
(* records with equal keys: std::priority_queue hands them out in any order, *)
(* although the class promises "stable record ordering".                     *)
OrderedWithinWindow ==
  \A i, j \in DOMAIN released :
    i < j /\ released[i].aged /\ released[j].key < released[i].key
      => released[i].rec \notin released[j].within

(* While producers are blocked, every free slot has been offered to one of   *)
(* them, so no producer sleeps next to a slot that nobody will fill.         *)
FreeSlotsOffered ==
  m_thread_contexts # <<>> =>
    MaxQueueSize - Cardinality(m_queue) <= Cardinality({p \in Producers : pc[p] = "enqueue"})

(* The consumer never sleeps past the moment at which a record is ready: if  *)
(* it sleeps without a limit the queue is empty, and otherwise it wakes up   *)
(* before the record on top is ready, even if that record came after it      *)
(* went to sleep and nobody was notified.                                    *)
WakesInTime ==
  consumer = "asleep" /\ m_queue # {} =>
    remaining # Forever /\ \E e \in Tops : remaining <= OrderingWindow - e.age

(* Every record has left the queue, and no producer is kept back by the limit. *)
Drained == m_queue = {} /\ \A p \in Producers : pc[p] # "blocked"
=============================================================================
