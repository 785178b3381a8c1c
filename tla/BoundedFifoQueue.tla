--------------------------- MODULE BoundedFifoQueue ---------------------------
(***************************************************************************)
(* sinks::bounded_fifo_queue with its two overflow strategies,             *)
(* block_on_overflow and drop_on_overflow.                                 *)
(*                                                                         *)
(* Every member function of the queue is one critical section of m_mutex,  *)
(* or two when it sleeps on a condition variable in between, so each       *)
(* action below is one such section.  The module holds the queue's state   *)
(* and operations; the threads that call them, with their control points,  *)
(* belong to the frontend (module AsyncSink).                              *)
(***************************************************************************)
EXTENDS Naturals, Sequences, FiniteSets, Functions

CONSTANTS Threads,           \* every thread that may touch the sink
          MaxQueueSize,      \* the template parameter MaxQueueSizeV
          OverflowStrategy   \* the template parameter OverflowStrategyT

ASSUME QueueSizeAssumption == MaxQueueSize \in Nat \ {0}
ASSUME OverflowAssumption == OverflowStrategy \in {"block", "drop"}

VARIABLES m_queue,                   \* the records waiting to be fed, oldest first
          m_interruption_requested,  \* set by interrupt_dequeue
          m_cond,                    \* the threads asleep on m_cond
          m_thread_contexts,         \* threads blocked in on_overflow, oldest first
          result                     \* thread_context::result of each thread

queueVars == <<m_queue, m_interruption_requested, m_cond, m_thread_contexts, result>>

QueueInit ==
  /\ m_queue = <<>>
  /\ m_interruption_requested = FALSE
  /\ m_cond = {}
  /\ m_thread_contexts = <<>>
  /\ result = [t \in Threads |-> TRUE]

(* Faulty variant: the comparison is off by one. *)
is_full_off_by_one == Len(m_queue) > MaxQueueSize

is_full == Len(m_queue) >= MaxQueueSize

is_linked(t) == t \in Range(m_thread_contexts)

(* m_cond.notify_one(): some sleeping thread, if there is one, wakes up. *)
notify_one ==
  IF m_cond = {} THEN UNCHANGED m_cond
                 ELSE \E w \in m_cond : m_cond' = m_cond \ {w}

-----------------------------------------------------------------------------
(* The three calls into the overflow strategy. *)

(* on_overflow, up to the sleep: drop_on_overflow never gets this far. *)
on_overflow(t) ==
  /\ OverflowStrategy = "block"
  /\ m_thread_contexts' = Append(m_thread_contexts, t)
  /\ result' = [result EXCEPT ![t] = TRUE]

(* The thread that blocked first is unlinked, which ends its wait. *)
on_queue_space_available ==
  m_thread_contexts' =
    IF m_thread_contexts = <<>> THEN <<>> ELSE Tail(m_thread_contexts)

(* Every blocked thread is unlinked and told to discard its record. *)
interrupt ==
  /\ result' = [t \in Threads |-> IF is_linked(t) THEN FALSE ELSE result[t]]
  /\ m_thread_contexts' = <<>>

-----------------------------------------------------------------------------
(* Faulty variant: the consumer is not notified. *)
push_without_notify(r) ==
  /\ ~is_full
  /\ m_queue' = Append(m_queue, r)
  /\ UNCHANGED <<m_interruption_requested, m_cond, m_thread_contexts, result>>

(* enqueue and try_enqueue, when there is room. *)
push(r) ==
  /\ ~is_full
  /\ m_queue' = Append(m_queue, r)
  /\ IF m_queue = <<>> THEN notify_one ELSE UNCHANGED m_cond
  /\ UNCHANGED <<m_interruption_requested, m_thread_contexts, result>>

(* enqueue, when the queue is full and the strategy makes the caller wait. *)
enqueue_blocks(t) ==
  /\ is_full
  /\ on_overflow(t)
  /\ UNCHANGED <<m_queue, m_interruption_requested, m_cond>>

(* enqueue, when the queue is full and the strategy discards the record. *)
enqueue_discards ==
  /\ is_full
  /\ OverflowStrategy = "drop"
  /\ UNCHANGED queueVars

(* try_dequeue, try_dequeue_ready and dequeue_ready, on a non-empty queue. *)
pop ==
  /\ m_queue # <<>>
  /\ m_queue' = Tail(m_queue)
  /\ on_queue_space_available
  /\ UNCHANGED <<m_interruption_requested, m_cond, result>>

(* dequeue_ready: the caller goes to sleep until it is notified. *)
dequeue_sleeps(t) ==
  /\ ~m_interruption_requested
  /\ m_queue = <<>>
  /\ m_cond' = m_cond \cup {t}
  /\ UNCHANGED <<m_queue, m_interruption_requested, m_thread_contexts, result>>

(* dequeue_ready: the caller consumes the interruption and returns false. *)
dequeue_interrupted ==
  /\ m_interruption_requested
  /\ m_interruption_requested' = FALSE
  /\ UNCHANGED <<m_queue, m_cond, m_thread_contexts, result>>

interrupt_dequeue ==
  /\ m_interruption_requested' = TRUE
  /\ interrupt
  /\ notify_one
  /\ UNCHANGED m_queue
=============================================================================
