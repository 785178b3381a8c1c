---------------------------- MODULE AsyncSinkProofs ----------------------------
(***************************************************************************)
(* The safety properties of AsyncSink and its refinement of RecordChannel, *)
(* for any threads and any bounds: first the type invariant, action by     *)
(* action, then the others.  Each kind of state gets a lemma that says,    *)
(* action by action, what a step can do to it (FeedingPhases,              *)
(* RecordPhases, QueuePhases); the invariants are preserved by each of     *)
(* those alternatives.                                                     *)
(***************************************************************************)
EXTENDS AsyncSink, SequenceTheorems, TLAPS

(* The provers, with their limits in seconds, for the leaves that name none.  *)
USE ZenonT(10), SMTT(30)

-----------------------------------------------------------------------------
(* The type invariant is inductive *)

(* A newly constructed sink satisfies the type invariant.                     *)
LEMMA TypeInit == Init => TypeOK
  <1> SUFFICES ASSUME Init PROVE TypeOK
    OBVIOUS
  <1>1. QueueTypeOK
    <2>1. result \in [Threads -> BOOLEAN]
      BY DEF Init, QueueInit
    <2>2. m_queue \in Seq(Records) /\ Len(m_queue) <= MaxQueueSize
      BY QueueSizeAssumption, EmptySeq DEF Init, QueueInit
    <2>3. m_thread_contexts \in Seq(Threads)
      BY EmptySeq DEF Init, QueueInit
    <2> QED BY <2>1, <2>2, <2>3 DEF Init, QueueInit, QueueTypeOK
  <1>2. FrontendTypeOK
    BY DEF Init, FrontendTypeOK
  <1>3. pc \in [Threads -> ControlPoints]
    BY DEF Init, ControlPoints, Outside
  <1>4. op \in [Threads -> {"none", "run", "feed_records", "flush"}]
    BY DEF Init
  <1>5. rec \in [Threads -> Records]
    BY BoundsAssumption DEF Init, Records, NoRecord
  <1>6. /\ joins \in [Threads -> SUBSET Dedicated]
        /\ sent \in [Threads -> 0 .. MaxRecords]
        /\ calls \in [Threads -> 0 .. MaxCalls]
    BY BoundsAssumption DEF Init
  <1>7. HistoryTypeOK
    BY DEF Init, HistoryTypeOK
  <1> QED BY <1>1, <1>2, <1>3, <1>4, <1>5, <1>6, <1>7 DEF TypeOK, ThreadTypeOK

(* m_cond.notify_one() only takes threads out of the wait set.                *)
LEMMA NotifyType == ASSUME m_cond \subseteq Threads, notify_one PROVE m_cond' \subseteq Threads
  BY DEF notify_one

(* enqueue and try_enqueue keep the queue within MaxQueueSize.                *)
LEMMA PushType ==
  ASSUME QueueTypeOK, NEW r \in Records, push(r) PROVE QueueTypeOK'
  <1>1. m_queue' \in Seq(Records) /\ Len(m_queue') <= MaxQueueSize
    BY QueueSizeAssumption, AppendProperties, SMTT(30) DEF push, is_full, QueueTypeOK
  <1>2. m_cond' \subseteq Threads
    BY NotifyType DEF push, QueueTypeOK
  <1> QED BY <1>1, <1>2 DEF push, QueueTypeOK

(* try_dequeue and dequeue_ready keep the types of the queue's state, and what *)
(* they take is a record.                                                     *)
LEMMA PopType ==
  ASSUME QueueTypeOK, pop PROVE QueueTypeOK' /\ Head(m_queue) \in Records
  <1>1. m_queue' \in Seq(Records) /\ Len(m_queue') <= MaxQueueSize
    BY QueueSizeAssumption, HeadTailProperties, LenProperties, SMTT(30) DEF pop, QueueTypeOK
  <1>2. m_thread_contexts' \in Seq(Threads)
    BY HeadTailProperties, EmptySeq DEF pop, on_queue_space_available, QueueTypeOK
  <1> QED BY <1>1, <1>2, HeadTailProperties DEF pop, QueueTypeOK

(* block_on_overflow::on_overflow keeps the types of the queue's state.       *)
LEMMA BlockType ==
  ASSUME QueueTypeOK, NEW t \in Threads, enqueue_blocks(t) PROVE QueueTypeOK'
  <1>1. m_thread_contexts' \in Seq(Threads)
    BY AppendProperties DEF enqueue_blocks, on_overflow, QueueTypeOK
  <1>2. result' \in [Threads -> BOOLEAN]
    BY DEF enqueue_blocks, on_overflow, QueueTypeOK
  <1> QED BY <1>1, <1>2 DEF enqueue_blocks, on_overflow, QueueTypeOK

(* interrupt_dequeue keeps the types of the queue's state.                    *)
LEMMA InterruptType ==
  ASSUME QueueTypeOK, interrupt_dequeue PROVE QueueTypeOK'
  <1>1. m_cond' \subseteq Threads
    BY NotifyType DEF interrupt_dequeue, QueueTypeOK
  <1>2. result' \in [Threads -> BOOLEAN]
    BY DEF interrupt_dequeue, interrupt, QueueTypeOK
  <1>3. m_thread_contexts' \in Seq(Threads)
    BY EmptySeq DEF interrupt_dequeue, interrupt
  <1> QED BY <1>1, <1>2, <1>3 DEF interrupt_dequeue, QueueTypeOK

(* Queueing the record a thread holds preserves the type invariant.           *)
LEMMA AcceptType ==
  ASSUME TypeOK, NEW p \in Threads, NEW from, accept_record(p, from) PROVE TypeOK'
  <1>1. QueueTypeOK'
    BY PushType DEF accept_record, TypeOK, ThreadTypeOK
  <1>2. FrontendTypeOK'
    BY DEF accept_record, flagVars, syncVars, callVars, TypeOK, FrontendTypeOK
  <1>3. HistoryTypeOK'
    BY AppendProperties DEF accept_record, TypeOK, ThreadTypeOK, HistoryTypeOK
  <1>4. pc' \in [Threads -> ControlPoints]
    BY DEF accept_record, step, TypeOK, ThreadTypeOK, ControlPoints, Outside
  <1>5. rec' \in [Threads -> Records]
    BY BoundsAssumption, SMTT(30) DEF accept_record, forget_record, NoRecord, Records, TypeOK,
       ThreadTypeOK
  <1> QED BY <1>1, <1>2, <1>3, <1>4, <1>5
          DEF accept_record, callVars, TypeOK, ThreadTypeOK

(* Discarding the record a thread holds preserves the type invariant.         *)
LEMMA DiscardType ==
  ASSUME TypeOK, NEW p \in Threads, NEW from, discard_record(p, from), UNCHANGED queueVars
  PROVE  TypeOK'
  <1>1. NoRecord(p) \in Records
    BY BoundsAssumption DEF Records, NoRecord
  <1>2. ThreadTypeOK'
    BY <1>1 DEF discard_record, forget_record, step, callVars, TypeOK, ThreadTypeOK,
                ControlPoints, Outside
  <1> QED BY <1>2 DEF discard_record, queueVars, flagVars, syncVars, callVars,
                      TypeOK, QueueTypeOK, FrontendTypeOK, ThreadTypeOK, HistoryTypeOK

(* bounded_fifo_queue::enqueue preserves the type invariant, whether it       *)
(* queues the record, blocks or discards it.                                  *)
LEMMA EnqueueType ==
  ASSUME TypeOK, NEW p \in Threads, NEW from, enqueue(p, from) PROVE TypeOK'
  <1>1. CASE accept_record(p, from)
    BY <1>1, AcceptType
  <1>2. CASE enqueue_discards /\ discard_record(p, from)
    BY <1>2, DiscardType DEF enqueue_discards
  <1>3. CASE step(p, from, "blocked") /\ enqueue_blocks(p)
             /\ UNCHANGED <<flagVars, syncVars, callVars, op, rec, historyVars>>
    <2>1. QueueTypeOK'
      BY <1>3, BlockType DEF TypeOK
    <2> QED BY <1>3, <2>1 DEF step, flagVars, syncVars, callVars, historyVars, TypeOK,
              FrontendTypeOK, ThreadTypeOK, HistoryTypeOK, ControlPoints, Logging
  <1> QED BY <1>1, <1>2, <1>3 DEF enqueue

(* Taking a record out of the queue preserves the type invariant.             *)
LEMMA TakeType ==
  ASSUME TypeOK, NEW t \in Threads, NEW from, take_record(t, from) PROVE TypeOK'
  <1>1. QueueTypeOK' /\ Head(m_queue) \in Records
    BY PopType DEF take_record, TypeOK
  <1> QED BY <1>1 DEF take_record, step, flagVars, syncVars, callVars, historyVars, TypeOK,
            FrontendTypeOK, ThreadTypeOK, HistoryTypeOK, ControlPoints, Feeding

(* No operation of the frontend breaks the type invariant.                    *)
LEMMA TypeStep == TypeOK /\ [Next]_vars => TypeOK'
  <1> SUFFICES ASSUME TypeOK, [Next]_vars PROVE TypeOK'
    OBVIOUS
  <1> USE DEF TypeOK, QueueTypeOK, FrontendTypeOK, ThreadTypeOK, HistoryTypeOK
  <1> USE DEF queueVars, flagVars, syncVars, historyVars, callVars, step
  <1> USE DEF ControlPoints, Outside, Logging, Feeding, Flushing, Stopping
  <1>0. CASE UNCHANGED vars
    BY <1>0 DEF vars
  <1> SUFFICES ASSUME NEW t \in Threads, ThreadCall(t) \/ ThreadStep(t) \/ spurious_wakeup(t)
               PROVE  TypeOK'
    BY <1>0 DEF Next
  <1>R. NoRecord(t) \in Records
    BY BoundsAssumption, SMTT(30) DEF Records, NoRecord
  <1>1. CASE log_record(t)
    <2>1. <<t, sent[t] + 1>> \in Records /\ sent' \in [Threads -> 0 .. MaxRecords]
      BY <1>1, BoundsAssumption, SMTT(30) DEF log_record, Records
    <2> QED BY <1>1, <2>1 DEF log_record
  <1>2. CASE run(t) \/ feed_records(t)
    <2>1. PICK o \in {"run", "feed_records"} : begin_feeding(t, o)
      BY <1>2 DEF run, feed_records
    <2>2. calls' \in [Threads -> 0 .. MaxCalls]
      BY <2>1, BoundsAssumption, SMTT(30) DEF begin_feeding
    <2> QED BY <2>1, <2>2 DEF begin_feeding
  <1>3. CASE flush(t)
    <2>1. Range(enqueued) \subseteq Records
      BY LenProperties, SMTT(30) DEF Range
    <2>2. calls' \in [Threads -> 0 .. MaxCalls]
      BY <1>3, BoundsAssumption, SMTT(30) DEF flush
    <2> QED BY <1>3, <2>1, <2>2 DEF flush
  <1>4. CASE stop(t)
    BY <1>4, BoundsAssumption, SMTT(30) DEF stop
  <1>5. CASE try_consume(t)
    BY <1>5 DEF try_consume
  <1>6. CASE try_enqueue(t)
    <2>1. CASE accept_record(t, "try_enqueue")
      BY <2>1, AcceptType
    <2> QED BY <1>6, <2>1 DEF try_enqueue
  <1>7. CASE consume(t)
    BY <1>7 DEF consume
  <1>8. CASE consume_wait(t)
    BY <1>8 DEF consume_wait
  <1>9. CASE enqueue(t, "enqueue")
    BY <1>9, EnqueueType
  <1>10. CASE leave_overflow(t)
    <2>1. CASE enqueue(t, "blocked")
      BY <2>1, EnqueueType
    <2>2. CASE discard_record(t, "blocked") /\ UNCHANGED queueVars
      BY <2>2, DiscardType
    <2> QED BY <1>10, <2>1, <2>2 DEF leave_overflow
  <1>11. CASE start_feeding_operation(t)
    BY <1>11 DEF start_feeding_operation, return_from
  <1>12. CASE do_feed_records(t)
    BY <1>12 DEF do_feed_records
  <1>13. CASE try_dequeue(t)
    <2>1. CASE take_record(t, "try_dequeue")
      BY <2>1, TakeType
    <2> QED BY <1>13, <2>1 DEF try_dequeue
  <1>14. CASE feed_record(t)
    <2>1. delivered' \in Seq(Records)
      BY <1>14, AppendProperties DEF feed_record
    <2> QED BY <1>14, <2>1, <1>R DEF feed_record, forget_record
  <1>15. CASE feed_record_throws(t)
    <2>1. delivered' \in Seq(Records)
      BY <1>15, AppendProperties DEF feed_record_throws
    <2> QED BY <1>15, <2>1, <1>R DEF feed_record_throws, forget_record
  <1>16. CASE feed_end(t)
    BY <1>16 DEF feed_end, after_feeding
  <1>17. CASE flush_backend(t)
    BY <1>17 DEF flush_backend
  <1>18. CASE scoped_flag(t)
    BY <1>18 DEF scoped_flag, after_feeding
  <1>19. CASE run_loop(t)
    BY <1>19 DEF run_loop
  <1>20. CASE dequeue_ready(t)
    <2>1. CASE take_record(t, "dequeue_ready")
      BY <2>1, TakeType
    <2> QED BY <1>20, <2>1 DEF dequeue_ready, dequeue_sleeps, dequeue_interrupted
  <1>21. CASE complete_feeding_operation(t)
    BY <1>21 DEF complete_feeding_operation, return_from
  <1>22. CASE flush_begin(t)
    BY <1>22 DEF flush_begin, flush_here
  <1>23. CASE flush_interrupt(t)
    <2>1. QueueTypeOK'
      BY <1>23, InterruptType DEF flush_interrupt
    <2> QED BY <1>23, <2>1 DEF flush_interrupt, flush_wait_loop, flush_here, return_from
  <1>24. CASE flush_wait(t)
    BY <1>24 DEF flush_wait, flush_wait_loop, flush_here, return_from
  <1>25. CASE stop_begin(t)
    BY <1>25 DEF stop_begin
  <1>26. CASE stop_interrupt(t)
    <2>1. QueueTypeOK'
      BY <1>26, InterruptType DEF stop_interrupt
    <2> QED BY <1>26, <2>1 DEF stop_interrupt
  <1>27. CASE stop_join(t)
    BY <1>27 DEF stop_join
  <1>28. CASE spurious_wakeup(t)
    BY <1>28 DEF spurious_wakeup
  <1> HIDE DEF TypeOK, step
  <1> QED
    BY <1>1, <1>2, <1>3, <1>4, <1>5, <1>6, <1>7, <1>8, <1>9, <1>10, <1>11, <1>12, <1>13, <1>14,
       <1>15, <1>16, <1>17, <1>18, <1>19, <1>20, <1>21, <1>22, <1>23, <1>24, <1>25, <1>26, <1>27,
       <1>28
    DEF ThreadCall, ThreadStep

-----------------------------------------------------------------------------
(* How a step moves its thread with respect to the feeding code. *)

StaysOut(t) == pc[t] \notin Feeding /\ pc'[t] \notin Feeding /\ UNCHANGED m_ActiveOperation
StaysIn(t) == pc[t] \in Feeding /\ pc'[t] \in Feeding /\ UNCHANGED m_ActiveOperation
Enters(t) ==
  /\ m_ActiveOperation = "idle" /\ m_ActiveOperation' # "idle"
  /\ pc[t] \notin Feeding /\ pc'[t] \in Feeding
Leaves(t) == pc[t] \in Feeding /\ pc'[t] \notin Feeding /\ m_ActiveOperation' = "idle"

(* Every step moves one thread only, and it enters the feeding code only when *)
(* m_ActiveOperation was idle.                                                *)
LEMMA FeedingPhases ==
  ASSUME TypeOK, NEW t \in Threads, ThreadCall(t) \/ ThreadStep(t) \/ spurious_wakeup(t)
  PROVE  /\ \A u \in Threads \ {t} : pc'[u] = pc[u]
         /\ StaysOut(t) \/ StaysIn(t) \/ Enters(t) \/ Leaves(t)
  <1> USE DEF TypeOK, FrontendTypeOK, ThreadTypeOK, StaysOut, StaysIn, Enters, Leaves, Feeding,
              flagVars, step
  <1>1. CASE log_record(t)
    BY <1>1 DEF log_record
  <1>2. CASE run(t) \/ feed_records(t)
    BY <1>2 DEF run, feed_records, begin_feeding
  <1>3. CASE flush(t)
    BY <1>3 DEF flush
  <1>4. CASE stop(t)
    BY <1>4 DEF stop
  <1>5. CASE try_consume(t)
    BY <1>5 DEF try_consume
  <1>6. CASE try_enqueue(t)
    BY <1>6 DEF try_enqueue, accept_record
  <1>7. CASE consume(t)
    BY <1>7 DEF consume
  <1>8. CASE consume_wait(t)
    BY <1>8 DEF consume_wait
  <1>9. CASE enqueue(t, "enqueue")
    BY <1>9 DEF enqueue, accept_record, discard_record
  <1>10. CASE leave_overflow(t)
    BY <1>10 DEF leave_overflow, enqueue, accept_record, discard_record
  <1>11. CASE start_feeding_operation(t)
    BY <1>11 DEF start_feeding_operation, return_from
  <1>12. CASE do_feed_records(t)
    BY <1>12 DEF do_feed_records
  <1>13. CASE try_dequeue(t)
    BY <1>13 DEF try_dequeue, take_record
  <1>14. CASE feed_record(t)
    BY <1>14 DEF feed_record
  <1>15. CASE feed_record_throws(t)
    BY <1>15 DEF feed_record_throws
  <1>16. CASE feed_end(t)
    BY <1>16 DEF feed_end, after_feeding
  <1>17. CASE flush_backend(t)
    BY <1>17 DEF flush_backend
  <1>18. CASE scoped_flag(t)
    BY <1>18 DEF scoped_flag, after_feeding
  <1>19. CASE run_loop(t)
    BY <1>19 DEF run_loop
  <1>20. CASE dequeue_ready(t)
    BY <1>20 DEF dequeue_ready, take_record
  <1>21. CASE complete_feeding_operation(t)
    BY <1>21 DEF complete_feeding_operation, return_from
  <1>22. CASE flush_begin(t)
    BY <1>22 DEF flush_begin, flush_here
  <1>23. CASE flush_interrupt(t)
    BY <1>23 DEF flush_interrupt, flush_wait_loop, flush_here, return_from
  <1>24. CASE flush_wait(t)
    BY <1>24 DEF flush_wait, flush_wait_loop, flush_here, return_from
  <1>25. CASE stop_begin(t)
    BY <1>25 DEF stop_begin
  <1>26. CASE stop_interrupt(t)
    BY <1>26 DEF stop_interrupt
  <1>27. CASE stop_join(t)
    BY <1>27 DEF stop_join
  <1>28. CASE spurious_wakeup(t)
    BY <1>28 DEF spurious_wakeup
  <1> QED
    BY <1>1, <1>2, <1>3, <1>4, <1>5, <1>6, <1>7, <1>8, <1>9, <1>10, <1>11, <1>12, <1>13, <1>14,
       <1>15, <1>16, <1>17, <1>18, <1>19, <1>20, <1>21, <1>22, <1>23, <1>24, <1>25, <1>26, <1>27,
       <1>28
    DEF ThreadCall, ThreadStep

(* No operation lets a second thread into the feeding code.                   *)
LEMMA ExclusionStep ==
  TypeOK /\ FeedingExclusion /\ [Next]_vars => FeedingExclusion'
  <1> SUFFICES ASSUME TypeOK, FeedingExclusion, [Next]_vars PROVE FeedingExclusion'
    OBVIOUS
  <1>1. CASE UNCHANGED vars
    BY <1>1 DEF vars, flagVars, FeedingExclusion
  <1>2. ASSUME NEW t \in Threads, ThreadCall(t) \/ ThreadStep(t) \/ spurious_wakeup(t)
        PROVE  FeedingExclusion'
    BY <1>2, FeedingPhases DEF FeedingExclusion, StaysOut, StaysIn, Enters, Leaves
  <1> QED BY <1>1, <1>2 DEF Next

-----------------------------------------------------------------------------
(* What a step does to the record its thread holds and to the histories. *)

Keeps(t) ==
  /\ UNCHANGED <<m_queue, enqueued, delivered, sent>>
  /\ "feed_record" \in {pc[t], pc'[t]} => pc'[t] = pc[t] /\ rec'[t] = rec[t]
  /\ pc'[t] \in Logging => pc[t] \in Logging /\ rec'[t] = rec[t]
Logs(t) ==
  /\ UNCHANGED <<m_queue, enqueued, delivered>>
  /\ pc[t] = "outside" /\ pc'[t] \in Logging
  /\ sent' = [sent EXCEPT ![t] = @ + 1]
  /\ rec'[t] = <<t, sent[t] + 1>>
Accepts(t) ==
  /\ pc[t] \in Logging /\ pc'[t] = "outside"
  /\ m_queue' = Append(m_queue, rec[t])
  /\ enqueued' = Append(enqueued, rec[t])
  /\ UNCHANGED <<delivered, sent>>
Takes(t) ==
  /\ pc[t] \in {"try_dequeue", "dequeue_ready"} /\ pc'[t] = "feed_record"
  /\ m_queue # <<>>
  /\ m_queue' = Tail(m_queue)
  /\ rec'[t] = Head(m_queue)
  /\ UNCHANGED <<enqueued, delivered, sent>>
Delivers(t) ==
  /\ pc[t] = "feed_record" /\ pc'[t] \in {"feed", "complete"}
  /\ delivered' = Append(delivered, rec[t])
  /\ UNCHANGED <<m_queue, enqueued, sent>>

(* How the thread is rid of its record: when it returns from the sink, the    *)
(* record was accepted or discarded.                                          *)
Discards(t) ==
  /\ pc[t] \in Logging /\ pc'[t] = "outside"
  /\ dropped' = dropped \cup {rec[t]}
  /\ UNCHANGED <<enqueued, sent>>
Settles(t) ==
  \/ UNCHANGED dropped /\ (pc[t] \in Logging => pc'[t] \in Logging \/ Accepts(t))
  \/ Discards(t)

(* bounded_fifo_queue::enqueue queues the record of its caller or leaves      *)
(* the histories alone.                                                       *)
LEMMA EnqueuePhase ==
  ASSUME TypeOK, NEW t \in Threads, NEW from \in Logging, enqueue(t, from)
  PROVE  /\ \A u \in Threads \ {t} : pc'[u] = pc[u] /\ rec'[u] = rec[u]
         /\ Keeps(t) \/ Accepts(t)
         /\ Settles(t)
  <1> USE DEF TypeOK, ThreadTypeOK, Keeps, Accepts, Settles, Discards, Logging,
              queueVars, callVars, historyVars, forget_record, step
  <1>1. CASE accept_record(t, from)
    BY <1>1 DEF accept_record, push
  <1>2. CASE enqueue_discards /\ discard_record(t, from)
    BY <1>2 DEF enqueue_discards, discard_record
  <1>3. CASE step(t, from, "blocked") /\ enqueue_blocks(t)
             /\ UNCHANGED <<flagVars, syncVars, callVars, op, rec, historyVars>>
    BY <1>3 DEF enqueue_blocks
  <1> QED BY <1>1, <1>2, <1>3 DEF enqueue

(* Every step touches the record of one thread only, and does one of five     *)
(* things with it.                                                            *)
LEMMA RecordPhases ==
  ASSUME TypeOK, NEW t \in Threads, ThreadCall(t) \/ ThreadStep(t) \/ spurious_wakeup(t)
  PROVE  /\ \A u \in Threads \ {t} : pc'[u] = pc[u] /\ rec'[u] = rec[u]
         /\ Keeps(t) \/ Logs(t) \/ Accepts(t) \/ Takes(t) \/ Delivers(t)
         /\ Settles(t)
  <1> USE DEF TypeOK, ThreadTypeOK, Keeps, Logs, Accepts, Takes, Delivers, Settles, Discards,
              Logging, queueVars, callVars, historyVars, forget_record, step
  <1>1. CASE log_record(t)
    BY <1>1 DEF log_record
  <1>2. CASE run(t) \/ feed_records(t)
    BY <1>2 DEF run, feed_records, begin_feeding
  <1>3. CASE flush(t)
    BY <1>3 DEF flush
  <1>4. CASE stop(t)
    BY <1>4 DEF stop
  <1>5. CASE try_consume(t)
    BY <1>5 DEF try_consume
  <1>6. CASE try_enqueue(t)
    BY <1>6 DEF try_enqueue, accept_record, push
  <1>7. CASE consume(t)
    BY <1>7 DEF consume
  <1>8. CASE consume_wait(t)
    BY <1>8 DEF consume_wait
  <1>9. CASE enqueue(t, "enqueue")
    BY <1>9, EnqueuePhase DEF Logging
  <1>10. CASE leave_overflow(t)
    <2>1. CASE enqueue(t, "blocked")
      BY <2>1, EnqueuePhase DEF Logging
    <2>2. CASE discard_record(t, "blocked") /\ UNCHANGED queueVars
      BY <2>2 DEF discard_record
    <2> QED BY <1>10, <2>1, <2>2 DEF leave_overflow
  <1>11. CASE start_feeding_operation(t)
    BY <1>11 DEF start_feeding_operation, return_from
  <1>12. CASE do_feed_records(t)
    BY <1>12 DEF do_feed_records
  <1>13. CASE try_dequeue(t)
    BY <1>13 DEF try_dequeue, take_record, pop
  <1>14. CASE feed_record(t)
    BY <1>14 DEF feed_record
  <1>15. CASE feed_record_throws(t)
    BY <1>15 DEF feed_record_throws
  <1>16. CASE feed_end(t)
    BY <1>16 DEF feed_end, after_feeding
  <1>17. CASE flush_backend(t)
    BY <1>17 DEF flush_backend
  <1>18. CASE scoped_flag(t)
    BY <1>18 DEF scoped_flag, after_feeding
  <1>19. CASE run_loop(t)
    BY <1>19 DEF run_loop
  <1>20. CASE dequeue_ready(t)
    BY <1>20 DEF dequeue_ready, take_record, pop, dequeue_sleeps, dequeue_interrupted
  <1>21. CASE complete_feeding_operation(t)
    BY <1>21 DEF complete_feeding_operation, return_from
  <1>22. CASE flush_begin(t)
    BY <1>22 DEF flush_begin, flush_here
  <1>23. CASE flush_interrupt(t)
    BY <1>23 DEF flush_interrupt, flush_wait_loop, flush_here, return_from, interrupt_dequeue
  <1>24. CASE flush_wait(t)
    BY <1>24 DEF flush_wait, flush_wait_loop, flush_here, return_from
  <1>25. CASE stop_begin(t)
    BY <1>25 DEF stop_begin
  <1>26. CASE stop_interrupt(t)
    BY <1>26 DEF stop_interrupt, interrupt_dequeue
  <1>27. CASE stop_join(t)
    BY <1>27 DEF stop_join
  <1>28. CASE spurious_wakeup(t)
    BY <1>28 DEF spurious_wakeup
  <1> QED
    BY <1>1, <1>2, <1>3, <1>4, <1>5, <1>6, <1>7, <1>8, <1>9, <1>10, <1>11, <1>12, <1>13, <1>14,
       <1>15, <1>16, <1>17, <1>18, <1>19, <1>20, <1>21, <1>22, <1>23, <1>24, <1>25, <1>26, <1>27,
       <1>28
    DEF ThreadCall, ThreadStep

(* A record enters the history of the queue at its end.                       *)
LEMMA AcceptedHistory ==
  ASSUME TypeOK, HoldsLatest, NEW t \in Threads, Accepts(t)
  PROVE  /\ Len(enqueued') = Len(enqueued) + 1
         /\ \A i \in 1 .. Len(enqueued) : enqueued'[i] = enqueued[i]
         /\ enqueued'[Len(enqueued) + 1] = <<t, sent[t]>>
         /\ Len(enqueued) \in Nat
  <1>1. enqueued \in Seq(Records) /\ rec[t] \in Records /\ enqueued' = Append(enqueued, rec[t])
    BY DEF Accepts, TypeOK, HistoryTypeOK, ThreadTypeOK
  <1>2. rec[t] = <<t, sent[t]>>
    BY DEF Accepts, HoldsLatest
  <1> QED BY <1>1, <1>2, AppendProperties, LenProperties, SMTT(30)

(* consume and try_consume hold the record their thread logged last.          *)
LEMMA LatestStep ==
  TypeOK /\ HoldsLatest /\ [Next]_vars => HoldsLatest'
  <1> SUFFICES ASSUME TypeOK, HoldsLatest, [Next]_vars PROVE HoldsLatest'
    OBVIOUS
  <1> USE DEF HoldsLatest, Logging
  <1>1. CASE UNCHANGED vars
    BY <1>1 DEF vars, callVars, historyVars
  <1> SUFFICES ASSUME NEW t \in Threads, ThreadCall(t) \/ ThreadStep(t) \/ spurious_wakeup(t)
               PROVE  HoldsLatest'
    BY <1>1 DEF Next
  <1>T. /\ \A i \in 1 .. Len(enqueued) : enqueued[i][1] \in Threads /\ enqueued[i][2] \in Nat
        /\ \A u \in Threads : sent[u] \in Nat
    <2>1. \A i \in 1 .. Len(enqueued) : enqueued[i] \in Threads \X (0 .. MaxRecords)
      BY ElementOfSeq DEF TypeOK, HistoryTypeOK, Records
    <2>2. \A u \in Threads : sent[u] \in Nat
      BY BoundsAssumption, SMTT(30) DEF TypeOK, ThreadTypeOK
    <2> QED BY <2>1, <2>2, BoundsAssumption, SMTT(30)
  <1>O. \A u \in Threads \ {t} : pc'[u] = pc[u] /\ rec'[u] = rec[u]
    BY RecordPhases
  <1>2. CASE Keeps(t)
    <2>1. \A u \in Threads : pc'[u] \in Logging => pc[u] \in Logging /\ rec'[u] = rec[u]
      BY <1>2, <1>O DEF Keeps
    <2> QED BY <1>2, <1>T, <2>1 DEF Keeps
  <1>3. CASE Logs(t)
    <2>1. sent'[t] = sent[t] + 1 /\ \A u \in Threads \ {t} : sent'[u] = sent[u]
      BY <1>3 DEF Logs, TypeOK, ThreadTypeOK
    <2>2. \A u \in Threads : pc'[u] \in Logging => rec'[u] = <<u, sent'[u]>>
      BY <1>3, <2>1, <1>O DEF Logs
    <2>3. \A i \in 1 .. Len(enqueued) :
            /\ enqueued[i][2] <= sent'[enqueued[i][1]]
            /\ pc'[enqueued[i][1]] \in Logging => enqueued[i][2] < sent'[enqueued[i][1]]
      BY <1>3, <1>T, <2>1, <1>O, SMTT(30) DEF Logs
    <2> QED BY <1>3, <2>2, <2>3 DEF Logs
  <1>4. CASE Accepts(t)
    <2>1. /\ Len(enqueued') = Len(enqueued) + 1
          /\ \A i \in 1 .. Len(enqueued) : enqueued'[i] = enqueued[i]
          /\ enqueued'[Len(enqueued) + 1] = <<t, sent[t]>>
          /\ Len(enqueued) \in Nat
      BY <1>4, AcceptedHistory
    <2>2. \A i \in 1 .. Len(enqueued') :
            /\ enqueued'[i][2] <= sent[enqueued'[i][1]]
            /\ pc'[enqueued'[i][1]] \in Logging => enqueued'[i][2] < sent[enqueued'[i][1]]
      <3> TAKE i \in 1 .. Len(enqueued')
      <3>1. CASE i \in 1 .. Len(enqueued)
        <4>1. enqueued'[i] = enqueued[i] /\ enqueued[i][1] \in Threads
          BY <2>1, <3>1, <1>T
        <4> QED BY <1>4, <4>1, <3>1, <1>O DEF Accepts
      <3>2. CASE i = Len(enqueued) + 1
        BY <1>4, <1>T, <2>1, <3>2, SMTT(30) DEF Accepts
      <3> QED BY <2>1, <3>1, <3>2, SMTT(30)
    <2>3. \A u \in Threads : pc'[u] \in Logging => pc[u] \in Logging /\ rec'[u] = rec[u]
      BY <1>4, <1>O DEF Accepts
    <2> QED BY <1>4, <2>2, <2>3 DEF Accepts
  <1>5. CASE Takes(t)
    <2>1. \A u \in Threads : pc'[u] \in Logging => pc[u] \in Logging /\ rec'[u] = rec[u]
      BY <1>5, <1>O DEF Takes
    <2> QED BY <1>5, <1>T, <2>1 DEF Takes
  <1>6. CASE Delivers(t)
    <2>1. \A u \in Threads : pc'[u] \in Logging => pc[u] \in Logging /\ rec'[u] = rec[u]
      BY <1>6, <1>O DEF Delivers
    <2> QED BY <1>6, <1>T, <2>1 DEF Delivers
  <1> QED BY <1>2, <1>3, <1>4, <1>5, <1>6, RecordPhases

(* A record that enters the queue is newer than the records of its thread     *)
(* that entered before it.                                                    *)
LEMMA OrderStep ==
  TypeOK /\ HoldsLatest /\ EnqueuedInOrder /\ [Next]_vars => EnqueuedInOrder'
  <1> SUFFICES ASSUME TypeOK, HoldsLatest, EnqueuedInOrder, [Next]_vars PROVE EnqueuedInOrder'
    OBVIOUS
  <1>1. CASE UNCHANGED enqueued
    BY <1>1 DEF EnqueuedInOrder
  <1>2. ASSUME NEW t \in Threads, Accepts(t)
        PROVE  EnqueuedInOrder'
    <2>1. /\ Len(enqueued') = Len(enqueued) + 1
          /\ \A i \in 1 .. Len(enqueued) : enqueued'[i] = enqueued[i]
          /\ enqueued'[Len(enqueued) + 1] = <<t, sent[t]>>
          /\ Len(enqueued) \in Nat
      BY <1>2, AcceptedHistory
    <2>2. \A i \in 1 .. Len(enqueued) : enqueued[i][1] = t => enqueued[i][2] < sent[t]
      BY <1>2 DEF Accepts, HoldsLatest
    <2> QED BY <2>1, <2>2, SMTT(30) DEF EnqueuedInOrder
  <1> QED BY <1>1, <1>2, RecordPhases
          DEF Next, vars, historyVars, Keeps, Logs, Takes, Delivers

(* Putting a record at the end of a concatenation puts it at the end of its   *)
(* second part: the queue grows where the history grows.                      *)
LEMMA AppendToSecond ==
  ASSUME NEW a \in Seq(Records), NEW b \in Seq(Records), NEW r \in Records
  PROVE  Append(a \o b, r) = a \o Append(b, r)
  <1>1. a \o b \in Seq(Records) /\ <<r>> \in Seq(Records)
    BY ConcatProperties, SMTT(30)
  <1>2. Append(a \o b, r) = (a \o b) \o <<r>> /\ Append(b, r) = b \o <<r>>
    BY <1>1, AppendIsConcat
  <1> QED BY <1>1, <1>2, ConcatAssociative, SMTT(30)

(* Moving the head of the queue to the end of what was taken from it changes  *)
(* nothing in their concatenation.                                            *)
LEMMA MoveHead ==
  ASSUME NEW a \in Seq(Records), NEW b \in Seq(Records), b # <<>>
  PROVE  Append(a, Head(b)) \o Tail(b) = a \o b
  <1>1. Head(b) \in Records /\ Tail(b) \in Seq(Records) /\ <<Head(b)>> \in Seq(Records)
    BY HeadTailProperties, SMTT(30)
  <1>2. Append(a, Head(b)) = a \o <<Head(b)>>
    BY <1>1, AppendIsConcat
  <1>3. b = <<Head(b)>> \o Tail(b)
    BY <1>1
  <1> QED BY <1>1, <1>2, <1>3, ConcatAssociative, SMTT(30)

(* No operation loses, repeats or reorders a queued record.                   *)
LEMMA FifoStep ==
  TypeOK /\ FeedingExclusion /\ FifoDelivery /\ [Next]_vars => FifoDelivery'
  <1> SUFFICES ASSUME TypeOK, FeedingExclusion, FifoDelivery, [Next]_vars PROVE FifoDelivery'
    OBVIOUS
  <1> USE DEF FifoDelivery
  <1>1. CASE UNCHANGED vars
    BY <1>1 DEF vars, historyVars, queueVars
  <1> SUFFICES ASSUME NEW t \in Threads, ThreadCall(t) \/ ThreadStep(t) \/ spurious_wakeup(t)
               PROVE  FifoDelivery'
    BY <1>1 DEF Next
  <1>O. \A u \in Threads \ {t} : pc'[u] = pc[u] /\ rec'[u] = rec[u]
    BY RecordPhases
  <1>T. /\ m_queue \in Seq(Records) /\ delivered \in Seq(Records)
        /\ \A u \in Threads : rec[u] \in Records /\ Append(delivered, rec[u]) \in Seq(Records)
    BY AppendProperties DEF TypeOK, QueueTypeOK, HistoryTypeOK, ThreadTypeOK
  <1>2. CASE Keeps(t)
    BY <1>2, <1>O DEF Keeps
  <1>3. CASE Logs(t)
    BY <1>3, <1>O DEF Logs, Logging
  <1>4. CASE Accepts(t)
    <2>1. \A u \in Threads : pc'[u] = "feed_record" <=> pc[u] = "feed_record"
      BY <1>4, <1>O DEF Accepts, Logging
    <2>2. \A u \in Threads : pc'[u] = "feed_record" => rec'[u] = rec[u]
      BY <1>4, <1>O DEF Accepts
    <2>3. enqueued = delivered \o m_queue => enqueued' = delivered' \o m_queue'
      BY <1>4, <1>T, AppendToSecond DEF Accepts
    <2>4. \A u \in Threads : enqueued = Append(delivered, rec[u]) \o m_queue
                               => enqueued' = Append(delivered, rec[u]) \o m_queue'
      <3> TAKE u \in Threads
      <3>1. PICK fed \in Seq(Records) : fed = Append(delivered, rec[u])
        BY <1>T
      <3>2. Append(fed \o m_queue, rec[t]) = fed \o Append(m_queue, rec[t])
        BY <1>T, AppendToSecond
      <3> QED BY <1>4, <3>1, <3>2 DEF Accepts
    <2> QED BY <1>4, <2>1, <2>2, <2>3, <2>4 DEF Accepts
  <1>5. CASE Takes(t)
    <2>1. \A u \in Threads : pc[u] # "feed_record"
      BY <1>5 DEF Takes, FeedingExclusion, Feeding
    <2>2. enqueued = Append(delivered, Head(m_queue)) \o Tail(m_queue)
      <3>1. enqueued = delivered \o m_queue /\ m_queue # <<>>
        BY <1>5, <2>1 DEF Takes
      <3> QED BY <1>T, <3>1, MoveHead
    <2> QED BY <1>5, <1>O, <2>1, <2>2 DEF Takes
  <1>6. CASE Delivers(t)
    <2>1. \A u \in Threads \ {t} : pc[u] # "feed_record"
      BY <1>6 DEF Delivers, FeedingExclusion, Feeding
    <2> QED BY <1>6, <1>O, <2>1 DEF Delivers
  <1> QED BY <1>2, <1>3, <1>4, <1>5, <1>6, RecordPhases

(* Appending a record to the history adds it to the records queued.           *)
LEMMA AppendedRange ==
  ASSUME NEW q \in Seq(Records), NEW r \in Records
  PROVE  Range(Append(q, r)) = Range(q) \cup {r}
  <1>1. /\ Len(Append(q, r)) = Len(q) + 1 /\ Len(q) \in Nat
        /\ \A i \in 1 .. Len(q) : Append(q, r)[i] = q[i]
        /\ Append(q, r)[Len(q) + 1] = r
        /\ DOMAIN Append(q, r) = 1 .. Len(q) + 1 /\ DOMAIN q = 1 .. Len(q)
    BY AppendProperties, LenProperties, SMTT(30)
  <1> QED BY <1>1, SMTT(30) DEF Range

(* A thread leaves consume and try_consume only when its record is queued or  *)
(* discarded, and no record is both.                                          *)
LEMMA SettledStep ==
  TypeOK /\ HoldsLatest /\ Settled /\ [Next]_vars => Settled'
  <1> SUFFICES ASSUME TypeOK, HoldsLatest, Settled, [Next]_vars PROVE Settled'
    OBVIOUS
  <1>1. CASE UNCHANGED vars
    BY <1>1 DEF vars, callVars, historyVars, Settled
  <1> SUFFICES ASSUME NEW t \in Threads, ThreadCall(t) \/ ThreadStep(t) \/ spurious_wakeup(t)
               PROVE  Settled'
    BY <1>1 DEF Next
  <1> DEFINE held(p, n) == pc[p] \in Logging /\ n = sent[p]
             past(r) == r[2] <= sent[r[1]] /\ (pc[r[1]] \in Logging => r[2] < sent[r[1]])
  <1>T. /\ enqueued \in Seq(Records) /\ dropped \subseteq Records
        /\ \A u \in Threads : sent[u] \in Nat
        /\ \A r \in Records : r[1] \in Threads /\ r[2] \in Nat
    BY BoundsAssumption, SMTT(30) DEF TypeOK, HistoryTypeOK, ThreadTypeOK, Records
  <1>H. /\ \A p \in Threads : \A n \in 1 .. sent[p] :
             <<p, n>> \in Range(enqueued) \cup dropped \/ held(p, n)
        /\ Range(enqueued) \cap dropped = {}
        /\ \A r \in dropped : past(r)
    BY DEF Settled
  <1>E. \A r \in Range(enqueued) : r \in Records /\ past(r)
    <2> SUFFICES ASSUME NEW i \in 1 .. Len(enqueued)
                 PROVE  enqueued[i] \in Records /\ past(enqueued[i])
      BY <1>T, LenProperties DEF Range
    <2> QED BY <1>T, ElementOfSeq DEF HoldsLatest
  <1>O. \A u \in Threads \ {t} : pc'[u] = pc[u]
    BY RecordPhases
  <1>R. pc[t] \in Logging => rec[t] = <<t, sent[t]>> /\ rec[t] \in Records
    BY DEF HoldsLatest, TypeOK, ThreadTypeOK
  <1>2. CASE Logs(t)
    <2>1. sent'[t] = sent[t] + 1 /\ \A u \in Threads \ {t} : sent'[u] = sent[u]
      BY <1>2 DEF Logs, TypeOK, ThreadTypeOK
    <2>2. dropped' = dropped /\ enqueued' = enqueued /\ pc[t] \notin Logging /\ pc'[t] \in Logging
      <3>1. pc[t] \notin Logging
        BY <1>2 DEF Logs, Logging
      <3> QED BY <1>2, <3>1, RecordPhases DEF Logs, Settles, Discards
    <2>3. \A p \in Threads : \A n \in 1 .. sent'[p] :
            <<p, n>> \in Range(enqueued) \cup dropped \/ (pc'[p] \in Logging /\ n = sent'[p])
      <3> SUFFICES ASSUME NEW p \in Threads, NEW n \in 1 .. sent'[p]
                   PROVE  <<p, n>> \in Range(enqueued) \cup dropped \/ (pc'[p] \in Logging /\ n = sent'[p])
        OBVIOUS
      <3>0. n \in 1 .. sent[p] => <<p, n>> \in Range(enqueued) \cup dropped \/ held(p, n)
        BY <1>H
      <3>1. CASE p = t
        <4>1. n \in 1 .. sent[t] \/ n = sent'[t]
          BY <1>T, <2>1, <3>1
        <4> QED BY <3>0, <2>2, <3>1, <4>1
      <3>2. CASE p # t
        BY <3>0, <1>O, <2>1, <3>2
      <3> QED BY <3>1, <3>2
    <2>4. \A r \in dropped : r[2] <= sent'[r[1]] /\ (pc'[r[1]] \in Logging => r[2] < sent'[r[1]])
      BY <1>T, <1>H, <1>O, <2>1, <2>2, SMTT(30)
    <2> QED BY <1>H, <2>2, <2>3, <2>4 DEF Settled
  <1>3. CASE UNCHANGED <<enqueued, sent, dropped>> /\ (pc[t] \in Logging <=> pc'[t] \in Logging)
    <2>1. \A u \in Threads : pc[u] \in Logging <=> pc'[u] \in Logging
      BY <1>3, <1>O
    <2> QED BY <1>3, <1>T, <1>H, <2>1 DEF Settled
  <1>4. CASE Accepts(t)
    <2>1. Range(enqueued') = Range(enqueued) \cup {<<t, sent[t]>>}
      BY <1>4, <1>T, <1>R, AppendedRange DEF Accepts
    <2>2. sent' = sent /\ pc[t] \in Logging /\ pc'[t] = "outside" /\ pc'[t] \notin Logging
      BY <1>4 DEF Accepts, Logging
    <2>3. dropped' = dropped
      <3>1. ~Discards(t)
        <4>1. enqueued' # enqueued
          <5>1. enqueued' = Append(enqueued, rec[t]) /\ enqueued \in Seq(Records) /\ rec[t] \in Records
            BY <1>4, <1>T, <1>R DEF Accepts
          <5>2. Len(enqueued') = Len(enqueued) + 1 /\ Len(enqueued) \in Nat
            BY <5>1, AppendProperties, LenProperties
          <5> QED BY <5>2
        <4> QED BY <4>1 DEF Discards
      <3> QED BY <3>1, RecordPhases DEF Settles
    <2>4. <<t, sent[t]>> \notin dropped
      BY <1>H, <1>T, <2>2, SMTT(30)
    <2>5. \A p \in Threads : \A n \in 1 .. sent[p] :
            <<p, n>> \in Range(enqueued') \cup dropped \/ (pc'[p] \in Logging /\ n = sent[p])
      <3> SUFFICES ASSUME NEW p \in Threads, NEW n \in 1 .. sent[p]
                   PROVE  <<p, n>> \in Range(enqueued') \cup dropped \/ (pc'[p] \in Logging /\ n = sent[p])
        OBVIOUS
      <3>0. n \in 1 .. sent[p] => <<p, n>> \in Range(enqueued) \cup dropped \/ held(p, n)
        BY <1>H
      <3>1. CASE p = t
        BY <3>0, <2>1, <3>1
      <3>2. CASE p # t
        BY <3>0, <1>O, <2>1, <3>2
      <3> QED BY <3>1, <3>2
    <2>6. \A r \in dropped : r[2] <= sent[r[1]] /\ (pc'[r[1]] \in Logging => r[2] < sent[r[1]])
      BY <1>H, <1>T, <1>O, <2>2
    <2> QED BY <1>H, <2>1, <2>2, <2>3, <2>4, <2>5, <2>6 DEF Settled
  <1>5. CASE Discards(t)
    <2>1. dropped' = dropped \cup {<<t, sent[t]>>} /\ enqueued' = enqueued /\ sent' = sent
      BY <1>5, <1>R DEF Discards
    <2>2. pc[t] \in Logging /\ pc'[t] = "outside" /\ pc'[t] \notin Logging
      BY <1>5 DEF Discards, Logging
    <2>3. <<t, sent[t]>> \notin Range(enqueued)
      BY <1>E, <1>T, <2>2
    <2>4. \A p \in Threads : \A n \in 1 .. sent[p] :
            <<p, n>> \in Range(enqueued) \cup dropped' \/ (pc'[p] \in Logging /\ n = sent[p])
      <3> SUFFICES ASSUME NEW p \in Threads, NEW n \in 1 .. sent[p]
                   PROVE  <<p, n>> \in Range(enqueued) \cup dropped' \/ (pc'[p] \in Logging /\ n = sent[p])
        OBVIOUS
      <3>0. n \in 1 .. sent[p] => <<p, n>> \in Range(enqueued) \cup dropped \/ held(p, n)
        BY <1>H
      <3>1. CASE p = t
        BY <3>0, <2>1, <3>1
      <3>2. CASE p # t
        BY <3>0, <1>O, <2>1, <3>2
      <3> QED BY <3>1, <3>2
    <2>5. \A r \in dropped' : r[2] <= sent[r[1]] /\ (pc'[r[1]] \in Logging => r[2] < sent[r[1]])
      <3>1. \A r \in dropped : r[2] <= sent[r[1]] /\ (pc'[r[1]] \in Logging => r[2] < sent[r[1]])
        BY <1>H, <1>T, <1>O, <2>2
      <3>2. sent[t] <= sent[t]
        BY <1>T
      <3> QED BY <2>1, <2>2, <3>1, <3>2
    <2> QED BY <1>H, <2>1, <2>3, <2>4, <2>5 DEF Settled
  <1>6. CASE Settles(t) /\ ~Discards(t) /\ ~Accepts(t) /\ ~Logs(t)
    <2>1. UNCHANGED <<enqueued, sent, dropped>> /\ (pc[t] \in Logging => pc'[t] \in Logging)
      BY <1>6, RecordPhases DEF Settles, Keeps, Takes, Delivers
    <2>2. pc'[t] \in Logging => pc[t] \in Logging
      BY <1>6, RecordPhases DEF Keeps, Takes, Delivers, Logging
    <2> QED BY <1>3, <2>1, <2>2
  <1> QED BY <1>2, <1>4, <1>5, <1>6, RecordPhases

-----------------------------------------------------------------------------
(* The threads asleep on a condition variable. *)

(* What a step of t does to the state a thread asleep on m_cond depends on. *)
QueueKept(t) == UNCHANGED <<m_queue, m_interruption_requested, m_cond>> /\ t \notin m_cond
Pushed(t) ==
  /\ m_queue' # <<>> /\ UNCHANGED m_interruption_requested
  /\ IF m_queue = <<>> THEN notify_one ELSE UNCHANGED m_cond
  /\ pc[t] # "dequeue_ready"
Popped(t) ==
  /\ m_queue # <<>> /\ UNCHANGED <<m_interruption_requested, m_cond>>
Slept(t) ==
  /\ m_queue = <<>> /\ ~m_interruption_requested
  /\ UNCHANGED <<m_queue, m_interruption_requested>>
  /\ m_cond' = m_cond \cup {t} /\ pc'[t] = "dequeue_ready"
Interrupted(t) == m_interruption_requested /\ UNCHANGED <<m_queue, m_cond>>
Interrupts(t) == notify_one /\ UNCHANGED m_queue /\ pc[t] # "dequeue_ready"
Awoken(t) ==
  /\ m_cond' \subseteq m_cond
  /\ UNCHANGED <<m_queue, m_interruption_requested, pc>>

(* Every step does one of seven things to the queue and its sleepers.         *)
LEMMA QueuePhases ==
  ASSUME TypeOK, SleepersFeed, NEW t \in Threads,
         ThreadCall(t) \/ ThreadStep(t) \/ spurious_wakeup(t)
  PROVE  \/ QueueKept(t) \/ Pushed(t) \/ Popped(t) \/ Slept(t) \/ Interrupted(t)
         \/ Interrupts(t) \/ Awoken(t)
  <1> USE DEF SleepersFeed, TypeOK, ThreadTypeOK, queueVars, step
  <1>P. ASSUME push(rec[t]), pc[t] # "dequeue_ready" PROVE Pushed(t)
    BY <1>P, AppendProperties, SMTT(30) DEF push, Pushed, QueueTypeOK
  <1>1. CASE log_record(t)
    BY <1>1 DEF log_record, QueueKept
  <1>2. CASE run(t) \/ feed_records(t)
    BY <1>2 DEF run, feed_records, begin_feeding, QueueKept
  <1>3. CASE flush(t)
    BY <1>3 DEF flush, QueueKept
  <1>4. CASE stop(t)
    BY <1>4 DEF stop, QueueKept
  <1>5. CASE try_consume(t)
    BY <1>5 DEF try_consume, QueueKept
  <1>6. CASE try_enqueue(t)
    BY <1>6, <1>P DEF try_enqueue, accept_record, QueueKept
  <1>7. CASE consume(t)
    BY <1>7 DEF consume, QueueKept
  <1>8. CASE consume_wait(t)
    BY <1>8 DEF consume_wait, QueueKept
  <1>9. CASE enqueue(t, "enqueue")
    BY <1>9, <1>P DEF enqueue, accept_record, discard_record, enqueue_blocks, enqueue_discards,
                 QueueKept
  <1>10. CASE leave_overflow(t)
    BY <1>10, <1>P DEF leave_overflow, enqueue, accept_record, discard_record, enqueue_blocks,
                  enqueue_discards, QueueKept
  <1>11. CASE start_feeding_operation(t)
    BY <1>11 DEF start_feeding_operation, return_from, QueueKept
  <1>12. CASE do_feed_records(t)
    BY <1>12 DEF do_feed_records, QueueKept
  <1>13. CASE try_dequeue(t)
    BY <1>13 DEF try_dequeue, take_record, pop, QueueKept, Popped
  <1>14. CASE feed_record(t)
    BY <1>14 DEF feed_record, QueueKept
  <1>15. CASE feed_record_throws(t)
    BY <1>15 DEF feed_record_throws, QueueKept
  <1>16. CASE feed_end(t)
    BY <1>16 DEF feed_end, after_feeding, QueueKept
  <1>17. CASE flush_backend(t)
    BY <1>17 DEF flush_backend, QueueKept
  <1>18. CASE scoped_flag(t)
    BY <1>18 DEF scoped_flag, after_feeding, QueueKept
  <1>19. CASE run_loop(t)
    BY <1>19 DEF run_loop, QueueKept
  <1>20. CASE dequeue_ready(t)
    BY <1>20 DEF dequeue_ready, take_record, pop, dequeue_sleeps, dequeue_interrupted,
                  Popped, Slept, Interrupted
  <1>21. CASE complete_feeding_operation(t)
    BY <1>21 DEF complete_feeding_operation, return_from, QueueKept
  <1>22. CASE flush_begin(t)
    BY <1>22 DEF flush_begin, flush_here, QueueKept
  <1>23. CASE flush_interrupt(t)
    BY <1>23 DEF flush_interrupt, flush_wait_loop, flush_here, return_from, interrupt_dequeue,
                  Interrupts
  <1>24. CASE flush_wait(t)
    BY <1>24 DEF flush_wait, flush_wait_loop, flush_here, return_from, QueueKept
  <1>25. CASE stop_begin(t)
    BY <1>25 DEF stop_begin, QueueKept
  <1>26. CASE stop_interrupt(t)
    BY <1>26 DEF stop_interrupt, interrupt_dequeue, Interrupts
  <1>27. CASE stop_join(t)
    BY <1>27 DEF stop_join, QueueKept
  <1>28. CASE spurious_wakeup(t)
    BY <1>28 DEF spurious_wakeup, Awoken
  <1> QED
    BY <1>1, <1>2, <1>3, <1>4, <1>5, <1>6, <1>7, <1>8, <1>9, <1>10, <1>11, <1>12, <1>13, <1>14,
       <1>15, <1>16, <1>17, <1>18, <1>19, <1>20, <1>21, <1>22, <1>23, <1>24, <1>25, <1>26, <1>27,
       <1>28
    DEF ThreadCall, ThreadStep

(* enqueue and interrupt_dequeue wake the sleeping feeding thread, and it     *)
(* goes to sleep only on an empty queue.                                      *)
LEMMA SleepersStep ==
  TypeOK /\ FeedingExclusion /\ SleepersFeed /\ SleepingFeederIdle /\ [Next]_vars
    => SleepersFeed' /\ SleepingFeederIdle'
  <1> SUFFICES ASSUME TypeOK, FeedingExclusion, SleepersFeed, SleepingFeederIdle, [Next]_vars
               PROVE  SleepersFeed' /\ SleepingFeederIdle'
    OBVIOUS
  <1> USE DEF SleepersFeed, SleepingFeederIdle
  <1>0. CASE UNCHANGED vars
    BY <1>0 DEF vars, queueVars
  <1> SUFFICES ASSUME NEW t \in Threads, ThreadCall(t) \/ ThreadStep(t) \/ spurious_wakeup(t)
               PROVE  SleepersFeed' /\ SleepingFeederIdle'
    BY <1>0 DEF Next
  <1>O. m_cond \subseteq Threads /\ \A u \in Threads \ {t} : pc'[u] = pc[u]
    BY FeedingPhases DEF TypeOK, QueueTypeOK
  <1>N. notify_one => m_cond' = {}
    BY <1>O DEF notify_one, FeedingExclusion, Feeding
  <1>1. CASE QueueKept(t)
    BY <1>1, <1>O DEF QueueKept
  <1>2. CASE Pushed(t)
    BY <1>2, <1>N DEF Pushed
  <1>3. CASE Popped(t)
    BY <1>3 DEF Popped
  <1>4. CASE Slept(t)
    BY <1>4, <1>O DEF Slept
  <1>5. CASE Interrupted(t)
    BY <1>5 DEF Interrupted
  <1>6. CASE Interrupts(t)
    BY <1>6, <1>N DEF Interrupts
  <1>7. CASE Awoken(t)
    BY <1>7 DEF Awoken
  <1> QED BY <1>1, <1>2, <1>3, <1>4, <1>5, <1>6, <1>7, QueuePhases

(* Whatever ends the reason for a wait on m_BlockCond (scoped_flag,           *)
(* complete_feeding_operation) also wakes the threads that wait.              *)
LEMMA BlockedStep ==
  TypeOK /\ FeedingExclusion /\ BlockedForReason /\ [Next]_vars => BlockedForReason'
  <1> SUFFICES ASSUME TypeOK, FeedingExclusion, BlockedForReason, [Next]_vars
               PROVE  BlockedForReason'
    OBVIOUS
  <1> USE DEF BlockedForReason, TypeOK, FrontendTypeOK, ThreadTypeOK, flagVars, syncVars, step
  <1>0. CASE UNCHANGED vars
    BY <1>0 DEF vars
  <1> SUFFICES ASSUME NEW t \in Threads, ThreadCall(t) \/ ThreadStep(t) \/ spurious_wakeup(t)
               PROVE  BlockedForReason'
    BY <1>0 DEF Next
  <1>1. CASE log_record(t)
    BY <1>1 DEF log_record
  <1>2. CASE run(t) \/ feed_records(t)
    BY <1>2 DEF run, feed_records, begin_feeding
  <1>3. CASE flush(t)
    BY <1>3 DEF flush
  <1>4. CASE stop(t)
    BY <1>4 DEF stop
  <1>5. CASE try_consume(t)
    BY <1>5 DEF try_consume
  <1>6. CASE try_enqueue(t)
    BY <1>6 DEF try_enqueue, accept_record
  <1>7. CASE consume(t)
    BY <1>7 DEF consume
  <1>8. CASE consume_wait(t)
    BY <1>8, SMTT(30) DEF consume_wait
  <1>9. CASE enqueue(t, "enqueue")
    BY <1>9 DEF enqueue, accept_record, discard_record
  <1>10. CASE leave_overflow(t)
    <2>1. CASE enqueue(t, "blocked")
      BY <2>1 DEF enqueue, accept_record, discard_record
    <2>2. CASE discard_record(t, "blocked")
      BY <2>2 DEF discard_record
    <2> QED BY <1>10, <2>1, <2>2 DEF leave_overflow
  <1>11. CASE start_feeding_operation(t)
    BY <1>11, SMTT(30) DEF start_feeding_operation, return_from
  <1>12. CASE do_feed_records(t)
    BY <1>12 DEF do_feed_records
  <1>13. CASE try_dequeue(t)
    BY <1>13 DEF try_dequeue, take_record
  <1>14. CASE feed_record(t)
    BY <1>14 DEF feed_record
  <1>15. CASE feed_record_throws(t)
    BY <1>15 DEF feed_record_throws
  <1>16. CASE feed_end(t)
    BY <1>16 DEF feed_end, after_feeding
  <1>17. CASE flush_backend(t)
    BY <1>17 DEF flush_backend
  <1>18. CASE scoped_flag(t)
    BY <1>18 DEF scoped_flag, after_feeding
  <1>19. CASE run_loop(t)
    BY <1>19 DEF run_loop
  <1>20. CASE dequeue_ready(t)
    BY <1>20, SMTT(30) DEF dequeue_ready, take_record
  <1>21. CASE complete_feeding_operation(t)
    BY <1>21 DEF complete_feeding_operation, return_from
  <1>22. CASE flush_begin(t)
    BY <1>22 DEF flush_begin, flush_here
  <1>23. CASE flush_interrupt(t)
    <2>1. CASE ~m_StopRequested /\ m_FlushRequested /\ step(t, "flush_interrupt", "flush_wait")
               /\ m_BlockCond' = m_BlockCond \cup {t} /\ UNCHANGED <<flagVars, op>>
      BY <2>1
    <2>2. CASE m_ActiveOperation # "idle" /\ return_from(t, "flush_interrupt")
               /\ UNCHANGED <<flagVars, m_BlockCond>>
      BY <2>2 DEF return_from
    <2>3. CASE flush_here(t, "flush_interrupt")
      BY <2>3 DEF flush_here
    <2> QED BY <1>23, <2>1, <2>2, <2>3 DEF flush_interrupt, flush_wait_loop
  <1>24. CASE flush_wait(t)
    BY <1>24, SMTT(30) DEF flush_wait, flush_wait_loop, flush_here, return_from
  <1>25. CASE stop_begin(t)
    BY <1>25 DEF stop_begin
  <1>26. CASE stop_interrupt(t)
    BY <1>26 DEF stop_interrupt
  <1>27. CASE stop_join(t)
    BY <1>27 DEF stop_join
  <1>28. CASE spurious_wakeup(t)
    BY <1>28 DEF spurious_wakeup
  <1> QED
    BY <1>1, <1>2, <1>3, <1>4, <1>5, <1>6, <1>7, <1>8, <1>9, <1>10, <1>11, <1>12, <1>13, <1>14,
       <1>15, <1>16, <1>17, <1>18, <1>19, <1>20, <1>21, <1>22, <1>23, <1>24, <1>25, <1>26, <1>27,
       <1>28
    DEF ThreadCall, ThreadStep

-----------------------------------------------------------------------------
(* The dedicated thread, and the flush that another thread asks of it. *)

Holding == {"flush_interrupt", "stop_interrupt"}
Waiting == {"run", "dequeue_ready"}

(* The user may feed records only after the dedicated thread has ended. *)
NoneDedicated == \A d \in Dedicated : pc[d] = "ended"

(* What a step of t does to the mutex, the flags and the handle. *)
SharedStep(t) ==
  /\ m_DedicatedFeedingThread' \in {m_DedicatedFeedingThread, {}}
  /\ pc[t] = "stop_interrupt" => pc'[t] = "stop_interrupt" \/ m_DedicatedFeedingThread' = {}
  /\ \/ UNCHANGED m_StopRequested
     \/ m_StopRequested' /\ pc'[t] = "stop_interrupt"
     \/ ~m_StopRequested' /\ frontend_mutex = {}
  /\ pc'[t] \in Holding =>
       frontend_mutex' = {t} \/ (pc'[t] = pc[t] /\ UNCHANGED frontend_mutex)
  /\ UNCHANGED frontend_mutex \/ frontend_mutex = {} \/ pc[t] \in Holding
  /\ m_ActiveOperation' = "feeding_records" =>
       \/ m_ActiveOperation = "feeding_records" /\ (pc[t] \in Feeding => pc'[t] \in Feeding)
       \/ pc[t] = "start" /\ pc'[t] = "feed"

(* How a step moves t to, through and out of run. *)
RunStep(t) ==
  /\ \A u \in Threads \ {t} : pc'[u] = pc[u] /\ op'[u] = op[u]
  /\ pc'[t] = "start" => pc[t] = "start" \/ NoneDedicated
  /\ op'[t] \in {op[t], "none", "flush"} \/ NoneDedicated
  /\ pc[t] = "start" =>
       \/ pc'[t] \in {"start", "feed"} /\ op'[t] = op[t]
       \/ m_ActiveOperation = "feeding_records"
       \/ m_StopRequested /\ frontend_mutex = {}
  /\ t \in Dedicated /\ op[t] = "run" /\ pc[t] \in Feeding \ {"flush_threw", "complete"} =>
       /\ op'[t] = "run"
       /\ pc'[t] \in Feeding \ {"flush_threw"}
       /\ pc'[t] = "complete" => m_StopRequested /\ m_StopRequested'
  /\ pc[t] = "complete" => frontend_mutex = {} \/ (pc'[t] = "complete" /\ op'[t] = op[t])

(* A step that leaves a flush requested, and the mutex free, has interrupted   *)
(* the feeding thread, leads to the loop that feeds records, or changes        *)
(* nothing of that.                                                            *)
RequestStep(t) ==
  m_FlushRequested' /\ frontend_mutex' = {} =>
    \/ m_interruption_requested'
    \/ pc'[t] = "feed"
    \/ /\ m_FlushRequested /\ frontend_mutex = {}
       /\ UNCHANGED m_interruption_requested
       /\ pc'[t] \in Waiting => pc[t] \in Waiting

(* Every step has the three effects above.                                    *)
LEMMA RunPhases ==
  ASSUME TypeOK, NEW t \in Threads, ThreadCall(t) \/ ThreadStep(t) \/ spurious_wakeup(t)
  PROVE  SharedStep(t) /\ RunStep(t) /\ RequestStep(t)
  <1> DEFINE Effect == SharedStep(t) /\ RunStep(t) /\ RequestStep(t)
  <1> USE DEF TypeOK, FrontendTypeOK, ThreadTypeOK, SharedStep, RunStep, RequestStep, NoneDedicated,
              Holding, Waiting, Feeding, queueVars, flagVars, syncVars, callVars, step
  <1>A. ASSUME NEW from \in Logging, accept_record(t, from) PROVE Effect
    BY <1>A DEF accept_record, push, Logging
  <1>D. ASSUME NEW from \in Logging, discard_record(t, from), UNCHANGED m_interruption_requested
        PROVE  Effect
    BY <1>D DEF discard_record, Logging
  <1>E. ASSUME NEW from \in Logging, enqueue(t, from) PROVE Effect
    <2>1. CASE step(t, from, "blocked") /\ enqueue_blocks(t)
               /\ UNCHANGED <<flagVars, syncVars, callVars, op, rec, historyVars>>
      BY <1>E, <2>1 DEF enqueue_blocks, Logging
    <2> QED BY <1>A, <1>D, <1>E, <2>1 DEF enqueue, enqueue_discards
  <1>F. ASSUME NEW from \in {"flush", "flush_interrupt", "flush_wait"}, flush_here(t, from),
               UNCHANGED callVars,
               UNCHANGED frontend_mutex \/ pc[t] \in Holding
        PROVE  Effect
    BY <1>F DEF flush_here
  <1>L. ASSUME NEW from \in {"flush_interrupt", "flush_wait"}, flush_wait_loop(t, from),
               UNCHANGED callVars,
               \/ frontend_mutex = {} /\ UNCHANGED <<frontend_mutex, m_interruption_requested>>
               \/ pc[t] \in Holding /\ m_interruption_requested'
        PROVE  Effect
    <2>1. CASE flush_here(t, from)
      BY <1>F, <1>L, <2>1
    <2>2. CASE ~m_StopRequested /\ m_FlushRequested
               /\ step(t, from, "flush_wait")
               /\ UNCHANGED <<flagVars, op>>
      BY <1>L, <2>2
    <2>3. CASE m_ActiveOperation # "idle"
               /\ return_from(t, from)
               /\ UNCHANGED flagVars
      BY <1>L, <2>3 DEF return_from
    <2> QED BY <1>L, <2>1, <2>2, <2>3 DEF flush_wait_loop
  <1>1. CASE log_record(t)
    BY <1>1 DEF log_record
  <1>2. CASE run(t) \/ feed_records(t)
    BY <1>2 DEF run, feed_records, begin_feeding
  <1>3. CASE flush(t)
    BY <1>3 DEF flush
  <1>4. CASE stop(t)
    BY <1>4 DEF stop
  <1>5. CASE try_consume(t)
    BY <1>5 DEF try_consume
  <1>6. CASE try_enqueue(t)
    <2>1. CASE step(t, "try_enqueue", "consume")
               /\ UNCHANGED <<queueVars, flagVars, syncVars, callVars, op, rec, historyVars>>
      BY <2>1
    <2> QED BY <1>6, <1>A, <2>1 DEF try_enqueue, Logging
  <1>7. CASE consume(t)
    BY <1>7 DEF consume
  <1>8. CASE consume_wait(t)
    BY <1>8 DEF consume_wait
  <1>9. CASE enqueue(t, "enqueue")
    BY <1>9, <1>E DEF Logging
  <1>10. CASE leave_overflow(t)
    BY <1>10, <1>D, <1>E DEF leave_overflow, Logging
  <1>11. CASE start_feeding_operation(t)
    BY <1>11, SMTT(30) DEF start_feeding_operation, return_from
  <1>12. CASE do_feed_records(t)
    BY <1>12 DEF do_feed_records
  <1>13. CASE try_dequeue(t)
    BY <1>13, SMTT(30) DEF try_dequeue, take_record, pop
  <1>14. CASE feed_record(t)
    BY <1>14 DEF feed_record
  <1>15. CASE feed_record_throws(t)
    BY <1>15 DEF feed_record_throws
  <1>16. CASE feed_end(t)
    BY <1>16 DEF feed_end, after_feeding
  <1>17. CASE flush_backend(t)
    BY <1>17 DEF flush_backend
  <1>18. CASE scoped_flag(t)
    BY <1>18 DEF scoped_flag, after_feeding
  <1>19. CASE run_loop(t)
    BY <1>19 DEF run_loop
  <1>20. CASE dequeue_ready(t)
    BY <1>20, SMTT(30) DEF dequeue_ready, take_record, pop, dequeue_sleeps, dequeue_interrupted
  <1>21. CASE complete_feeding_operation(t)
    <2>1. SharedStep(t) /\ RequestStep(t)
      BY <1>21 DEF complete_feeding_operation, return_from
    <2>2. /\ pc[t] = "complete" /\ pc'[t] \in {"ended", "outside"} /\ op'[t] = "none"
          /\ frontend_mutex = {}
          /\ \A u \in Threads \ {t} : pc'[u] = pc[u] /\ op'[u] = op[u]
      BY <1>21 DEF complete_feeding_operation, return_from
    <2>3. RunStep(t)
      BY <2>2
    <2> QED BY <2>1, <2>3
  <1>22. CASE flush_begin(t)
    <2>1. CASE flush_here(t, "flush") /\ UNCHANGED <<frontend_mutex, queueVars, callVars>>
      BY <1>F, <2>1
    <2>2. CASE /\ frontend_mutex = {}
               /\ step(t, "flush", "flush_interrupt")
               /\ frontend_mutex' = {t}
               /\ UNCHANGED <<m_ActiveOperation, m_StopRequested, op, callVars>>
      <3>1. frontend_mutex' # {} /\ pc'[t] = "flush_interrupt" /\ pc[t] = "flush"
        BY <2>2
      <3>2. SharedStep(t)
        BY <2>2, <3>1, Zenon
      <3>3. RunStep(t) /\ RequestStep(t)
        BY <2>2, <3>1
      <3> QED BY <3>2, <3>3
    <2> QED BY <1>22, <2>1, <2>2 DEF flush_begin
  <1>23. CASE flush_interrupt(t)
    <2>1. pc[t] = "flush_interrupt"
      BY <1>23 DEF flush_interrupt, flush_wait_loop, flush_here, return_from
    <2> QED BY <1>23, <1>L, <2>1 DEF flush_interrupt, interrupt_dequeue
  <1>24. CASE flush_wait(t)
    BY <1>24, <1>L DEF flush_wait
  <1>25. CASE stop_begin(t)
    <2>1. frontend_mutex' # {} /\ pc'[t] = "stop_interrupt" /\ pc[t] = "stop"
      BY <1>25 DEF stop_begin
    <2>2. SharedStep(t)
      <3>1. /\ frontend_mutex = {} /\ frontend_mutex' = {t}
            /\ m_StopRequested' = TRUE
            /\ m_DedicatedFeedingThread' = m_DedicatedFeedingThread
            /\ m_ActiveOperation' = m_ActiveOperation
        BY <1>25 DEF stop_begin
      <3> QED BY <2>1, <3>1
    <2>3. RunStep(t) /\ RequestStep(t)
      BY <1>25, <2>1 DEF stop_begin
    <2> QED BY <2>2, <2>3
  <1>26. CASE stop_interrupt(t)
    BY <1>26 DEF stop_interrupt, interrupt_dequeue
  <1>27. CASE stop_join(t)
    BY <1>27 DEF stop_join
  <1>28. CASE spurious_wakeup(t)
    BY <1>28 DEF spurious_wakeup
  <1> QED
    BY <1>1, <1>2, <1>3, <1>4, <1>5, <1>6, <1>7, <1>8, <1>9, <1>10, <1>11, <1>12, <1>13, <1>14,
       <1>15, <1>16, <1>17, <1>18, <1>19, <1>20, <1>21, <1>22, <1>23, <1>24, <1>25, <1>26, <1>27,
       <1>28
    DEF ThreadCall, ThreadStep

(* flush and stop release the frontend mutex in the step after they took it.  *)
LEMMA MutexStep ==
  TypeOK /\ MutexHeld /\ [Next]_vars => MutexHeld'
  <1> SUFFICES ASSUME TypeOK, MutexHeld, [Next]_vars PROVE MutexHeld'
    OBVIOUS
  <1>1. CASE UNCHANGED vars
    BY <1>1 DEF vars, syncVars, MutexHeld
  <1>2. ASSUME NEW t \in Threads, ThreadCall(t) \/ ThreadStep(t) \/ spurious_wakeup(t)
        PROVE  MutexHeld'
    <2>1. SharedStep(t) /\ \A u \in Threads \ {t} : pc'[u] = pc[u]
      BY <1>2, RunPhases DEF RunStep
    <2> QED BY <2>1 DEF SharedStep, MutexHeld, Holding
  <1> QED BY <1>1, <1>2 DEF Next

(* The dedicated thread leaves run only for a stop, and a stop clears the     *)
(* handle before anyone can clear m_StopRequested.                            *)
LEMMA RunsStep ==
  TypeOK /\ FeedingExclusion /\ MutexHeld /\ DedicatedRuns /\ [Next]_vars => DedicatedRuns'
  <1> SUFFICES ASSUME TypeOK, FeedingExclusion, MutexHeld, DedicatedRuns, [Next]_vars,
                      NEW d \in m_DedicatedFeedingThread'
               PROVE  DedicatedRuns!(d)'
    BY DEF DedicatedRuns
  <1>1. CASE UNCHANGED vars
    BY <1>1 DEF vars, flagVars, callVars, DedicatedRuns
  <1> SUFFICES ASSUME NEW t \in Threads, ThreadCall(t) \/ ThreadStep(t) \/ spurious_wakeup(t)
               PROVE  DedicatedRuns!(d)'
    BY <1>1 DEF Next
  <1>2. SharedStep(t) /\ RunStep(t)
    BY RunPhases
  <1>3. d \in m_DedicatedFeedingThread /\ d \in Dedicated /\ d \in Threads
    BY <1>2, RolesAssumption DEF SharedStep, TypeOK, FrontendTypeOK
  <1>4. ~NoneDedicated
    BY <1>3 DEF NoneDedicated, DedicatedRuns, Feeding
  <1>5. m_StopRequested => frontend_mutex # {}
    BY <1>3 DEF DedicatedRuns, MutexHeld
  <1>6. /\ op'[d] = "run"
        /\ pc'[d] \in {"start"} \cup (Feeding \ {"flush_threw"})
        /\ pc'[d] = "complete" => m_StopRequested /\ m_StopRequested'
    <2>1. CASE t # d
      BY <1>2, <1>3, <1>5, <2>1 DEF RunStep, SharedStep, DedicatedRuns
    <2>2. CASE t = d /\ pc[d] = "start"
      <3>1. m_ActiveOperation # "feeding_records"
        BY <1>3, <2>2 DEF DedicatedRuns, Feeding
      <3> QED BY <1>2, <1>3, <1>5, <2>2, <3>1 DEF RunStep, DedicatedRuns, Feeding
    <2>3. CASE t = d /\ pc[d] = "complete"
      BY <1>2, <1>3, <1>5, <2>3 DEF RunStep, SharedStep, DedicatedRuns
    <2>4. CASE t = d /\ pc[d] \in Feeding \ {"complete"}
      BY <1>2, <1>3, <2>4 DEF RunStep, DedicatedRuns
    <2> QED BY <1>3, <2>1, <2>2, <2>3, <2>4 DEF DedicatedRuns
  <1>7. m_StopRequested' => \E s \in Threads : pc'[s] = "stop_interrupt"
    <2> SUFFICES ASSUME m_StopRequested' PROVE \E s \in Threads : pc'[s] = "stop_interrupt"
      OBVIOUS
    <2>1. CASE pc'[t] = "stop_interrupt"
      BY <2>1
    <2>2. CASE m_StopRequested /\ pc'[t] # "stop_interrupt"
      <3>1. PICK s \in Threads : pc[s] = "stop_interrupt"
        BY <1>3, <2>2 DEF DedicatedRuns
      <3>2. s # t
        BY <1>2, <2>2, <3>1 DEF SharedStep
      <3> QED BY <1>2, <3>1, <3>2 DEF RunStep
    <2> QED BY <1>2, <2>1, <2>2 DEF SharedStep
  <1>8. \A u \in Threads \ {d} : pc'[u] # "start" /\ op'[u] \in {"none", "flush"}
    BY <1>2, <1>3, <1>4 DEF RunStep, DedicatedRuns
  <1>9. m_ActiveOperation' = "feeding_records" => pc'[d] \in Feeding
    <2> SUFFICES ASSUME m_ActiveOperation' = "feeding_records" PROVE pc'[d] \in Feeding
      OBVIOUS
    <2>1. CASE pc[t] = "start" /\ pc'[t] = "feed"
      BY <1>3, <2>1 DEF DedicatedRuns, Feeding
    <2>2. CASE m_ActiveOperation = "feeding_records" /\ (pc[t] \in Feeding => pc'[t] \in Feeding)
      BY <1>2, <1>3, <2>2 DEF RunStep, DedicatedRuns
    <2> QED BY <1>2, <2>1, <2>2 DEF SharedStep
  <1> QED BY <1>6, <1>7, <1>8, <1>9

(* Whoever requests a flush of the dedicated thread interrupts its wait, and  *)
(* it consumes that interruption only on the way to the test of the flag.     *)
LEMMA AnswersStep ==
  ASSUME TypeOK, FeedingExclusion, FeedingExclusion', MutexHeld, DedicatedRuns, DedicatedRuns',
         DedicatedAnswers, [Next]_vars
  PROVE  DedicatedAnswers'
  <1> SUFFICES ASSUME NEW d \in m_DedicatedFeedingThread', ~m_StopRequested'
               PROVE  DedicatedAnswers!(d)!2'
    BY DEF DedicatedAnswers
  <1>1. CASE UNCHANGED vars
    BY <1>1 DEF vars, queueVars, flagVars, syncVars, callVars, DedicatedAnswers
  <1> SUFFICES ASSUME NEW t \in Threads, ThreadCall(t) \/ ThreadStep(t) \/ spurious_wakeup(t)
               PROVE  DedicatedAnswers!(d)!2'
    BY <1>1 DEF Next
  <1>2. SharedStep(t) /\ RunStep(t) /\ RequestStep(t)
    BY RunPhases
  <1>3. d \in m_DedicatedFeedingThread /\ d \in Threads
    BY <1>2, RolesAssumption DEF SharedStep, TypeOK, FrontendTypeOK
  <1>4. pc'[d] \in {"start"} \cup (Feeding \ {"complete"})
    BY DEF DedicatedRuns
  <1>5. ASSUME m_FlushRequested', frontend_mutex' = {}, pc'[d] \in Waiting
        PROVE  m_interruption_requested'
    <2>1. CASE pc'[t] = "feed"
      BY <1>3, <1>5, <2>1 DEF FeedingExclusion, Feeding, Waiting
    <2>2. CASE /\ m_FlushRequested /\ frontend_mutex = {}
               /\ UNCHANGED m_interruption_requested
               /\ pc'[t] \in Waiting => pc[t] \in Waiting
      <3>1. pc[d] \in Waiting
        BY <1>2, <1>3, <1>5, <2>2 DEF RunStep
      <3>2. ~m_StopRequested
        BY <1>3, <2>2 DEF DedicatedRuns, MutexHeld
      <3> QED BY <1>3, <2>2, <3>1, <3>2 DEF DedicatedAnswers, Waiting
    <2> QED BY <1>2, <1>5, <2>1, <2>2 DEF RequestStep
  <1> QED BY <1>4, <1>5 DEF Waiting

-----------------------------------------------------------------------------
(* A flush that its caller carries out itself. *)

(* The control points behind the loop that feeds the queued records. *)
Drained == {"feed_end", "flush_backend", "flushed", "flush_threw", "complete"}

(* What a step of t does to a flush that t carries out. *)
FlushStep(t) ==
  /\ \A u \in Threads \ {t} : UNCHANGED <<pc[u], op[u], goal[u]>>
  /\ \/ goal'[t] = goal[t]
     \/ goal'[t] = Range(enqueued) /\ op'[t] = op[t] /\ pc[t] = "outside"
  /\ m_StopRequested' => m_StopRequested \/ pc[t] = "stop"
  /\ pc'[t] = "stop" => t \in Stoppers \/ pc[t] = "stop"
  /\ op'[t] = "flush" => pc'[t] \in Feeding
  /\ op'[t] = "flush" /\ pc'[t] \in Drained =>
       \/ op[t] = "flush" /\ pc[t] \in Drained
       \/ pc[t] = "try_dequeue" /\ m_queue = <<>> /\ UNCHANGED delivered
       \/ m_StopRequested \/ BackendThrows
  /\ op[t] = "flush" /\ op'[t] = "none" => pc[t] \in Drained

OwnFlush == \A t \in Threads : op[t] = "flush" => pc[t] \in Feeding

(* A thread that flushes leaves the feeding loop only when the queue is empty, *)
(* unless a stop is requested or the backend throws.                           *)
LEMMA FlushPhases ==
  ASSUME TypeOK, OwnFlush, NEW t \in Threads,
         ThreadCall(t) \/ ThreadStep(t) \/ spurious_wakeup(t)
  PROVE  FlushStep(t)
  <1> USE DEF TypeOK, FrontendTypeOK, ThreadTypeOK, HistoryTypeOK, FlushStep, OwnFlush, Feeding,
              Drained, flagVars, historyVars, step
  <1>A. ASSUME NEW from \in Logging, accept_record(t, from) PROVE FlushStep(t)
    BY <1>A DEF accept_record, Logging
  <1>D. ASSUME NEW from \in Logging, discard_record(t, from) PROVE FlushStep(t)
    BY <1>D DEF discard_record, Logging
  <1>E. ASSUME NEW from \in Logging, enqueue(t, from) PROVE FlushStep(t)
    <2>1. CASE step(t, from, "blocked") /\ enqueue_blocks(t)
               /\ UNCHANGED <<flagVars, syncVars, callVars, op, rec, historyVars>>
      BY <1>E, <2>1 DEF Logging
    <2> QED BY <1>A, <1>D, <1>E, <2>1 DEF enqueue
  <1>F. ASSUME NEW from \in {"flush", "flush_interrupt", "flush_wait"}, flush_here(t, from),
               UNCHANGED historyVars
        PROVE  FlushStep(t)
    BY <1>F DEF flush_here
  <1>L. ASSUME NEW from \in {"flush_interrupt", "flush_wait"}, flush_wait_loop(t, from),
               UNCHANGED historyVars
        PROVE  FlushStep(t)
    <2>1. CASE flush_here(t, from)
      BY <1>F, <1>L, <2>1
    <2>2. CASE ~flush_here(t, from)
      BY <1>L, <2>2, SMTT(30) DEF flush_wait_loop, return_from
    <2> QED BY <2>1, <2>2
  <1>1. CASE log_record(t)
    BY <1>1 DEF log_record
  <1>2. CASE run(t) \/ feed_records(t)
    BY <1>2, SMTT(30) DEF run, feed_records, begin_feeding
  <1>3. CASE flush(t)
    BY <1>3 DEF flush
  <1>4. CASE stop(t)
    BY <1>4 DEF stop
  <1>5. CASE try_consume(t)
    BY <1>5 DEF try_consume
  <1>6. CASE try_enqueue(t)
    <2>1. CASE step(t, "try_enqueue", "consume")
               /\ UNCHANGED <<queueVars, flagVars, syncVars, callVars, op, rec, historyVars>>
      BY <2>1
    <2> QED BY <1>6, <1>A, <2>1 DEF try_enqueue, Logging
  <1>7. CASE consume(t)
    BY <1>7 DEF consume
  <1>8. CASE consume_wait(t)
    BY <1>8 DEF consume_wait
  <1>9. CASE enqueue(t, "enqueue")
    BY <1>9, <1>E DEF Logging
  <1>10. CASE leave_overflow(t)
    BY <1>10, <1>D, <1>E DEF leave_overflow, Logging
  <1>11. CASE start_feeding_operation(t)
    BY <1>11, SMTT(30) DEF start_feeding_operation, return_from
  <1>12. CASE do_feed_records(t)
    BY <1>12 DEF do_feed_records
  <1>13. CASE try_dequeue(t)
    BY <1>13, SMTT(30) DEF try_dequeue, take_record
  <1>14. CASE feed_record(t)
    BY <1>14 DEF feed_record
  <1>15. CASE feed_record_throws(t)
    BY <1>15 DEF feed_record_throws
  <1>16. CASE feed_end(t)
    BY <1>16 DEF feed_end, after_feeding
  <1>17. CASE flush_backend(t)
    BY <1>17 DEF flush_backend
  <1>18. CASE scoped_flag(t)
    BY <1>18 DEF scoped_flag, after_feeding
  <1>19. CASE run_loop(t)
    BY <1>19 DEF run_loop
  <1>20. CASE dequeue_ready(t)
    BY <1>20, SMTT(30) DEF dequeue_ready, take_record
  <1>21. CASE complete_feeding_operation(t)
    BY <1>21 DEF complete_feeding_operation, return_from
  <1>22. CASE flush_begin(t)
    <2>1. CASE flush_here(t, "flush")
      BY <1>22, <1>F, <2>1 DEF flush_begin
    <2>2. CASE /\ step(t, "flush", "flush_interrupt")
               /\ UNCHANGED <<m_ActiveOperation, m_StopRequested, op, historyVars>>
      BY <2>2
    <2> QED BY <1>22, <2>1, <2>2 DEF flush_begin
  <1>23. CASE flush_interrupt(t)
    BY <1>23, <1>L DEF flush_interrupt
  <1>24. CASE flush_wait(t)
    BY <1>24, <1>L DEF flush_wait
  <1>25. CASE stop_begin(t)
    BY <1>25 DEF stop_begin
  <1>26. CASE stop_interrupt(t)
    BY <1>26 DEF stop_interrupt
  <1>27. CASE stop_join(t)
    BY <1>27 DEF stop_join
  <1>28. CASE spurious_wakeup(t)
    BY <1>28 DEF spurious_wakeup
  <1> QED
    BY <1>1, <1>2, <1>3, <1>4, <1>5, <1>6, <1>7, <1>8, <1>9, <1>10, <1>11, <1>12, <1>13, <1>14,
       <1>15, <1>16, <1>17, <1>18, <1>19, <1>20, <1>21, <1>22, <1>23, <1>24, <1>25, <1>26, <1>27,
       <1>28
    DEF ThreadCall, ThreadStep

-----------------------------------------------------------------------------
(* The theorems. *)

(* The inductive invariant holds of a newly constructed sink.                 *)
LEMMA InvInit == Init => IInv
  <1> SUFFICES ASSUME Init PROVE IInv
    OBVIOUS
  <1>1. TypeOK
    BY TypeInit
  <1>2. FeedingExclusion /\ BlockedForReason /\ SleepersFeed /\ SleepingFeederIdle
    BY DEF Init, QueueInit, FeedingExclusion, Feeding, BlockedForReason, SleepersFeed,
           SleepingFeederIdle
  <1>D. MutexHeld /\ DedicatedRuns /\ DedicatedAnswers
    BY RolesAssumption DEF Init, MutexHeld, DedicatedRuns, DedicatedAnswers, Feeding
  <1>3. FifoDelivery
    BY DEF Init, QueueInit, FifoDelivery
  <1>4. HoldsLatest /\ EnqueuedInOrder
    BY SMTT(30) DEF Init, HoldsLatest, EnqueuedInOrder, Logging
  <1>5. Settled
    BY DEF Init, Settled, Range
  <1> QED BY <1>1, <1>2, <1>D, <1>3, <1>4, <1>5 DEF IInv

(* Every operation of the frontend preserves the inductive invariant.         *)
LEMMA InvStep == IInv /\ [Next]_vars => IInv'
  BY TypeStep, ExclusionStep, BlockedStep, SleepersStep, MutexStep, RunsStep, AnswersStep,
     FifoStep, LatestStep, OrderStep, SettledStep
  DEF IInv

(* The conjunction of the invariants below holds in every reachable state of  *)
(* the sink, for any threads, queue size, strategy and number of calls.       *)
THEOREM InductiveInvariant == Spec => []IInv
  BY InvInit, InvStep, PTL DEF Spec

(* Every variable has its type; in particular the queue never holds more than *)
(* MaxQueueSize records, whatever enqueue, try_enqueue and the overflow       *)
(* strategies do.                                                             *)
THEOREM TypeCorrect == Spec => []TypeOK
  BY InductiveInvariant, PTL DEF IInv

(* run, feed_records and flush never use the backend and the consumer side of *)
(* the queue at the same time, because of m_ActiveOperation.                  *)
THEOREM ExclusiveFeeding == Spec => []FeedingExclusion
  BY InductiveInvariant, PTL DEF IInv

(* Every queued record is fed exactly once and in queue order.                *)
THEOREM DeliveryInOrder == Spec => []FifoDelivery
  BY InductiveInvariant, PTL DEF IInv

(* dequeue_ready never sleeps through a record or an interruption, although   *)
(* enqueue notifies only when the queue was empty; a thread asleep on         *)
(* m_BlockCond has missed no notification; and as long as the sink has its    *)
(* dedicated thread and nobody stops it, that thread is going to test a flag  *)
(* m_FlushRequested that is set, so that no flush waits for a flag that       *)
(* nobody clears.  Without a dedicated thread that last part does not hold.   *)
THEOREM NoLostWakeup == Spec => []NoWakeupMissed
  BY InductiveInvariant, PTL DEF IInv, NoWakeupMissed

(* Every record the core passed to consume or try_consume is held by its      *)
(* thread, queued, or discarded by the overflow strategy, and in one of these *)
(* places only, through retries, stops and exceptions.                        *)
THEOREM RecordsAccounted == Spec => []EveryRecordAccounted
  <1>1. IInv => EveryRecordAccounted
    <2> SUFFICES ASSUME IInv, NEW p \in Producers, NEW n \in 1 .. sent[p]
                 PROVE  LET held == pc[p] \in Logging /\ rec[p] = <<p, n>>
                        IN  /\ held \/ <<p, n>> \in Range(enqueued) \/ <<p, n>> \in dropped
                            /\ held => <<p, n>> \notin Range(enqueued) \cup dropped
                            /\ <<p, n>> \in dropped => <<p, n>> \notin Range(enqueued)
      BY DEF EveryRecordAccounted
    <2>1. p \in Threads /\ sent[p] \in Nat
      BY RolesAssumption, BoundsAssumption, SMTT(30) DEF IInv, TypeOK, ThreadTypeOK
    <2>2. pc[p] \in Logging => rec[p] = <<p, sent[p]>>
      BY <2>1 DEF IInv, HoldsLatest
    <2>3. /\ <<p, n>> \in Range(enqueued) \cup dropped \/ (pc[p] \in Logging /\ n = sent[p])
          /\ <<p, n>> \in dropped => <<p, n>> \notin Range(enqueued)
      BY <2>1 DEF IInv, Settled
    <2>4. pc[p] \in Logging => <<p, sent[p]>> \notin dropped
      BY <2>1, SMTT(30) DEF IInv, Settled
    <2>5. pc[p] \in Logging => <<p, sent[p]>> \notin Range(enqueued)
      <3> SUFFICES ASSUME pc[p] \in Logging, NEW i \in 1 .. Len(enqueued),
                          enqueued[i] = <<p, sent[p]>>
                   PROVE  FALSE
        BY LenProperties DEF IInv, TypeOK, HistoryTypeOK, Range
      <3>1. enqueued[i][1] = p /\ enqueued[i][2] = sent[p]
        OBVIOUS
      <3> QED BY <2>1, <3>1 DEF IInv, HoldsLatest
    <2> QED BY <2>2, <2>3, <2>4, <2>5
  <1> QED BY <1>1, InductiveInvariant, PTL

(* What has been fed is a prefix of what was queued, and the record in the    *)
(* hands of the feeding thread comes next.                                    *)
LEMMA DeliveredIsPrefix ==
  ASSUME IInv
  PROVE  /\ Len(delivered) <= Len(enqueued)
         /\ \A i \in 1 .. Len(delivered) : delivered[i] = enqueued[i]
         /\ \A t \in Threads : pc[t] = "feed_record" =>
              Len(delivered) < Len(enqueued) /\ enqueued[Len(delivered) + 1] = rec[t]
  <1>T. delivered \in Seq(Records) /\ m_queue \in Seq(Records) /\ rec \in [Threads -> Records]
    BY DEF IInv, TypeOK, HistoryTypeOK, QueueTypeOK, ThreadTypeOK
  <1>1. CASE \A t \in Threads : pc[t] # "feed_record"
    <2>1. enqueued = delivered \o m_queue
      BY <1>1 DEF IInv, FifoDelivery
    <2>2. /\ Len(enqueued) = Len(delivered) + Len(m_queue)
          /\ \A i \in 1 .. Len(delivered) : enqueued[i] = delivered[i]
      BY <1>T, <2>1, ConcatProperties, LenProperties, SMTT(30)
    <2> QED BY <1>T, <1>1, <2>2, LenProperties
  <1>2. ASSUME NEW t \in Threads, pc[t] = "feed_record"
        PROVE  /\ Len(delivered) < Len(enqueued)
               /\ \A i \in 1 .. Len(delivered) : delivered[i] = enqueued[i]
               /\ enqueued[Len(delivered) + 1] = rec[t]
    <2>1. PICK fed \in Seq(Records) : fed = Append(delivered, rec[t])
      BY <1>T, AppendProperties
    <2>2. enqueued = fed \o m_queue
      BY <1>2, <2>1 DEF IInv, FifoDelivery
    <2>3. /\ Len(fed) = Len(delivered) + 1
          /\ \A i \in 1 .. Len(delivered) : fed[i] = delivered[i]
          /\ fed[Len(delivered) + 1] = rec[t]
      BY <1>T, <2>1, AppendProperties, SMTT(30)
    <2>4. /\ Len(enqueued) = Len(fed) + Len(m_queue)
          /\ \A i \in 1 .. Len(fed) : enqueued[i] = fed[i]
      BY <1>T, <2>2, ConcatProperties, LenProperties, SMTT(30)
    <2> QED BY <1>T, <2>3, <2>4, LenProperties, SMTT(30)
  <1>3. Len(delivered) \in Nat /\ Len(enqueued) \in Nat
    BY LenProperties DEF IInv, TypeOK, HistoryTypeOK
  <1> QED BY <1>1, <1>2, <1>3

(* The backend sees the records of one thread in the order that thread logged *)
(* them, through consume, try_consume and the retry of one by the other.      *)
THEOREM OrderPerThread == Spec => []PerThreadOrder
  <1>1. IInv => PerThreadOrder
    <2> SUFFICES ASSUME IInv PROVE PerThreadOrder
      OBVIOUS
    <2>1. Len(delivered) \in Nat /\ Len(enqueued) \in Nat
      BY LenProperties DEF IInv, TypeOK, HistoryTypeOK
    <2>2. ASSUME NEW i \in 1 .. Len(delivered), NEW j \in 1 .. Len(delivered),
                 i < j, delivered[i][1] = delivered[j][1]
          PROVE  delivered[i][2] < delivered[j][2]
      <3>1. i \in 1 .. Len(enqueued) /\ j \in 1 .. Len(enqueued)
        BY <2>1, DeliveredIsPrefix
      <3>2. delivered[i] = enqueued[i] /\ delivered[j] = enqueued[j]
        BY DeliveredIsPrefix
      <3> QED BY <2>2, <3>1, <3>2 DEF IInv, EnqueuedInOrder
    <2> QED BY <2>2 DEF PerThreadOrder
  <1> QED BY <1>1, InductiveInvariant, PTL

(* Every step of the sink is a step of the abstract channel, or invisible to it. *)
LEMMA ChannelStep == IInv /\ [Next]_vars => [Channel!Next]_(Channel!channelVars)
  <1> SUFFICES ASSUME IInv, [Next]_vars PROVE [Channel!Next]_(Channel!channelVars)
    OBVIOUS
  <1>0. CASE UNCHANGED vars
    BY <1>0 DEF vars, historyVars, Channel!channelVars
  <1> SUFFICES ASSUME NEW t \in Threads, ThreadCall(t) \/ ThreadStep(t) \/ spurious_wakeup(t)
               PROVE  [Channel!Next]_(Channel!channelVars)
    BY <1>0 DEF Next
  <1>1. CASE Accepts(t)
    <2>1. rec[t] = <<t, sent[t]>> /\ rec[t] \in Records
      BY <1>1 DEF IInv, Accepts, HoldsLatest, TypeOK, ThreadTypeOK
    <2>2. \A i \in 1 .. Len(enqueued) : enqueued[i][1] = t => enqueued[i][2] < sent[t]
      BY <1>1 DEF IInv, Accepts, HoldsLatest
    <2>3. Channel!Accept(rec[t])
      BY <1>1, <2>1, <2>2 DEF Accepts, Channel!Accept
    <2> QED BY <2>1, <2>3 DEF Channel!Next
  <1>2. CASE Delivers(t)
    <2>1. Channel!Deliver
      BY <1>2, DeliveredIsPrefix DEF Delivers, Channel!Deliver
    <2> QED BY <2>1 DEF Channel!Next
  <1>3. CASE Keeps(t) \/ Logs(t) \/ Takes(t)
    BY <1>3 DEF Keeps, Logs, Takes, Channel!channelVars
  <1> QED BY <1>1, <1>2, <1>3, RecordPhases DEF IInv

(* The sink implements the in-order, exactly-once channel of RecordChannel:   *)
(* every step of run, feed_records, flush, consume and try_consume is a step  *)
(* of the channel or leaves what it shows unchanged.                          *)
THEOREM Refinement == Spec => ImplementsChannel
  <1>1. Init => Channel!Init
    BY DEF Init, Channel!Init
  <1> QED BY <1>1, ChannelStep, InductiveInvariant, PTL DEF Spec, ImplementsChannel, Channel!Spec

-----------------------------------------------------------------------------
(* What a caller of flush finds when it feeds the records itself. *)

(* Without stops and exceptions: the thread that flushes has fed every record *)
(* of its goal once it is behind the feeding loop.                            *)
DrainInv ==
  /\ OwnFlush
  /\ ~m_StopRequested
  /\ \A t \in Threads : pc[t] # "stop"
  /\ \A t \in Threads : goal[t] \subseteq Range(enqueued)
  /\ \A t \in Threads : op[t] = "flush" /\ pc[t] \in Drained => goal[t] \subseteq Range(delivered)

(* No step takes a record out of the histories.                               *)
LEMMA HistoriesGrow ==
  ASSUME TypeOK, NEW t \in Threads, ThreadCall(t) \/ ThreadStep(t) \/ spurious_wakeup(t)
  PROVE  Range(enqueued) \subseteq Range(enqueued') /\ Range(delivered) \subseteq Range(delivered')
  <1>1. enqueued \in Seq(Records) /\ delivered \in Seq(Records) /\ rec[t] \in Records
    BY DEF TypeOK, HistoryTypeOK, ThreadTypeOK
  <1>2. /\ enqueued' = enqueued \/ Range(enqueued') = Range(enqueued) \cup {rec[t]}
        /\ delivered' = delivered \/ Range(delivered') = Range(delivered) \cup {rec[t]}
    BY <1>1, RecordPhases, AppendedRange DEF Keeps, Logs, Accepts, Takes, Delivers
  <1> QED BY <1>2

(* Behind the feeding loop the queue was empty, so that everything queued had *)
(* been fed.                                                                  *)
LEMMA DrainStep ==
  ASSUME Stoppers = {}, ~BackendThrows, IInv, DrainInv, [Next]_vars
  PROVE  DrainInv'
  <1>1. CASE UNCHANGED vars
    BY <1>1 DEF vars, flagVars, historyVars, DrainInv, OwnFlush
  <1> SUFFICES ASSUME NEW t \in Threads, ThreadCall(t) \/ ThreadStep(t) \/ spurious_wakeup(t)
               PROVE  DrainInv'
    BY <1>1 DEF Next
  <1>T. TypeOK /\ OwnFlush
    BY DEF IInv, DrainInv
  <1>F. FlushStep(t)
    BY <1>T, FlushPhases
  <1>G. Range(enqueued) \subseteq Range(enqueued') /\ Range(delivered) \subseteq Range(delivered')
    BY <1>T, HistoriesGrow
  <1>2. OwnFlush'
    BY <1>F, <1>T DEF FlushStep, OwnFlush
  <1>3. ~m_StopRequested' /\ \A u \in Threads : pc'[u] # "stop"
    BY <1>F DEF FlushStep, DrainInv
  <1>4. \A u \in Threads : goal'[u] \subseteq Range(enqueued')
    BY <1>F, <1>G DEF FlushStep, DrainInv
  <1>5. ASSUME NEW u \in Threads, op'[u] = "flush", pc'[u] \in Drained
        PROVE  goal'[u] \subseteq Range(delivered')
    <2>1. CASE op[u] = "flush" /\ pc[u] \in Drained
      <3>1. goal'[u] = goal[u]
        <4>1. pc[u] # "outside"
          BY <2>1 DEF Drained
        <4> QED BY <1>F, <4>1 DEF FlushStep
      <3> QED BY <2>1, <3>1, <1>G DEF DrainInv
    <2>2. CASE u = t /\ pc[t] = "try_dequeue" /\ m_queue = <<>> /\ UNCHANGED delivered
      <3>1. goal'[t] = goal[t]
        BY <1>F, <2>2 DEF FlushStep
      <3>2. \A v \in Threads : pc[v] # "feed_record"
        BY <2>2 DEF IInv, FeedingExclusion, Feeding
      <3>3. enqueued = delivered
        BY <2>2, <3>2 DEF IInv, FifoDelivery, TypeOK, HistoryTypeOK
      <3> QED BY <2>2, <3>1, <3>3 DEF DrainInv
    <2> QED BY <1>F, <1>5, <2>1, <2>2 DEF FlushStep, DrainInv
  <1> QED BY <1>2, <1>3, <1>4, <1>5 DEF DrainInv

(* A flush that the caller carries out itself, because no thread was feeding  *)
(* records, leaves no record behind that was queued when it was called, as    *)
(* long as nobody calls stop and the backend throws nothing.                  *)
THEOREM CallerDrainsQueue ==
  ASSUME Stoppers = {}, ~BackendThrows
  PROVE  Spec => [][CallerDrains]_vars
  <1>1. Init => DrainInv
    BY DEF Init, DrainInv, OwnFlush
  <1>2. IInv /\ DrainInv /\ [Next]_vars => DrainInv'
    BY DrainStep
  <1>3. IInv /\ DrainInv /\ [Next]_vars => [CallerDrains]_vars
    <2> SUFFICES ASSUME IInv, DrainInv, Next PROVE CallerDrains
      OBVIOUS
    <2>1. PICK t \in Threads : ThreadCall(t) \/ ThreadStep(t) \/ spurious_wakeup(t)
      BY DEF Next
    <2>2. FlushStep(t)
      BY <2>1, FlushPhases DEF IInv, DrainInv
    <2>3. Flushers \subseteq Threads
      BY RolesAssumption
    <2>4. \A f \in Threads : op[f] = "flush" /\ op'[f] = "none" => f = t /\ pc[t] \in Drained
      BY <2>2 DEF FlushStep
    <2> QED BY <2>3, <2>4 DEF CallerDrains, DrainInv
  <1> QED BY <1>1, <1>2, <1>3, InductiveInvariant, PTL DEF Spec
=============================================================================
