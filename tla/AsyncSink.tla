------------------------------- MODULE AsyncSink -------------------------------
(***************************************************************************)
(* sinks::asynchronous_sink over a bounded_fifo_queue.                     *)
(*                                                                         *)
(* Logging threads put records into the queue (consume, try_consume); one  *)
(* thread at a time feeds them to the backend (run, feed_records, or the   *)
(* caller of flush); others ask for a flush or a stop.                     *)
(*                                                                         *)
(* A step is what happens between two points where other threads can       *)
(* interfere: a critical section of the frontend mutex or of the queue     *)
(* mutex, one load of an atomic flag, or one call of the backend.  The     *)
(* frontend mutex is held across two steps only where the code stores a    *)
(* flag and then takes the queue mutex (flush, stop).                      *)
(***************************************************************************)
EXTENDS BoundedFifoQueue

CONSTANTS Producers,      \* threads that log records
          Flushers,       \* threads that call flush
          Stoppers,       \* threads that call stop
          Feeders,        \* user threads that call run or feed_records
          Dedicated,      \* the thread the constructor spawns, if any
          MaxRecords,     \* bound: records logged by one thread
          MaxCalls,       \* bound: flush, stop, run and feed_records calls of one thread
          BackendThrows   \* whether the backend may throw

ASSUME RolesAssumption ==
  /\ Producers \cup Flushers \cup Stoppers \cup Feeders \cup Dedicated \subseteq Threads
  /\ Dedicated \cap (Producers \cup Flushers \cup Stoppers \cup Feeders) = {}
  /\ \A d, e \in Dedicated : d = e
ASSUME BoundsAssumption == MaxRecords \in Nat /\ MaxCalls \in Nat
ASSUME ThrowsAssumption == BackendThrows \in BOOLEAN

VARIABLES m_ActiveOperation, m_StopRequested, m_FlushRequested,
          frontend_mutex,            \* the thread that holds it, as a set
          m_BlockCond,               \* the threads asleep on m_BlockCond
          m_DedicatedFeedingThread,  \* the thread the handle refers to, as a set
          pc,        \* control point of each thread
          op,        \* the feeding operation each thread is in
          rec,       \* the record each thread holds
          joins,     \* the thread each caller of stop has to join, as a set
          sent,      \* records each thread has begun to log
          calls,     \* flush, stop and feeding calls of each thread
          enqueued, delivered,  \* history: the records queued, and fed to the backend
          dropped,   \* history: the records discarded on overflow
          goal       \* history: the records queued when the thread called flush

flagVars == <<m_ActiveOperation, m_StopRequested, m_FlushRequested>>
syncVars == <<frontend_mutex, m_BlockCond>>
historyVars == <<enqueued, delivered, dropped, goal>>
callVars == <<sent, calls, joins, m_DedicatedFeedingThread>>
vars == <<queueVars, flagVars, syncVars, callVars, pc, op, rec, historyVars>>

Records == Threads \X (0 .. MaxRecords)
NoRecord(t) == <<t, 0>>

(* Every step of thread t leads from one control point to another. *)
step(t, from, to) ==
  /\ pc[t] = from
  /\ pc' = [pc EXCEPT ![t] = to]

Init ==
  /\ QueueInit
  /\ m_ActiveOperation = "idle"
  /\ m_StopRequested = FALSE
  /\ m_FlushRequested = FALSE
  /\ frontend_mutex = {}
  /\ m_BlockCond = {}
  /\ m_DedicatedFeedingThread = Dedicated
  /\ pc = [t \in Threads |-> IF t \in Dedicated THEN "start" ELSE "outside"]
  /\ op = [t \in Threads |-> IF t \in Dedicated THEN "run" ELSE "none"]
  /\ rec = [t \in Threads |-> NoRecord(t)]
  /\ joins = [t \in Threads |-> {}]
  /\ sent = [t \in Threads |-> 0]
  /\ calls = [t \in Threads |-> 0]
  /\ enqueued = <<>>
  /\ delivered = <<>>
  /\ dropped = {}
  /\ goal = [t \in Threads |-> {}]

-----------------------------------------------------------------------------
(* consume and try_consume *)

(* The core passes the next record of thread p to the sink, through         *)
(* try_consume or through consume.                                          *)
log_record(p) ==
  /\ p \in Producers
  /\ sent[p] < MaxRecords
  /\ sent' = [sent EXCEPT ![p] = @ + 1]
  /\ rec' = [rec EXCEPT ![p] = <<p, sent[p] + 1>>]
  /\ step(p, "outside", "consume") \/ step(p, "outside", "try_consume")
  /\ UNCHANGED <<queueVars, flagVars, syncVars, calls, joins, m_DedicatedFeedingThread,
                 op, historyVars>>

(* The sink is done with the record of p. *)
forget_record(p) == rec' = [rec EXCEPT ![p] = NoRecord(p)]

(* The record of p enters the queue, and p returns. *)
accept_record(p, from) ==
  /\ step(p, from, "outside")
  /\ push(rec[p])
  /\ enqueued' = Append(enqueued, rec[p])
  /\ forget_record(p)
  /\ UNCHANGED <<flagVars, syncVars, callVars, op, delivered, dropped, goal>>

(* The record of p is lost, and p returns. *)
discard_record(p, from) ==
  /\ step(p, from, "outside")
  /\ dropped' = dropped \cup {rec[p]}
  /\ forget_record(p)
  /\ UNCHANGED <<flagVars, syncVars, callVars, op, enqueued, delivered, goal>>

(* try_consume: refuses while a flush is under way.  A record refused by     *)
(* try_consume comes back through consume.                                   *)
try_consume(p) ==
  /\ IF m_FlushRequested THEN step(p, "try_consume", "consume")
                         ELSE step(p, "try_consume", "try_enqueue")
  /\ UNCHANGED <<queueVars, flagVars, syncVars, callVars, op, rec, historyVars>>

(* Faulty variant: the record is queued, yet the caller is told it was not. *)
try_enqueue_denies(p) ==
  /\ step(p, "try_enqueue", "consume")
  /\ push(rec[p])
  /\ enqueued' = Append(enqueued, rec[p])
  /\ UNCHANGED <<flagVars, syncVars, callVars, op, rec, delivered, dropped, goal>>

(* Faulty variant: reports success whether or not there was room. *)
try_enqueue_pretends(p) ==
  \/ accept_record(p, "try_enqueue")
  \/ /\ step(p, "try_enqueue", "outside")
     /\ forget_record(p)
     /\ UNCHANGED <<queueVars, flagVars, syncVars, callVars, op, historyVars>>

(* try_enqueue: refuses a full queue, and when m_mutex is busy. *)
try_enqueue(p) ==
  \/ accept_record(p, "try_enqueue")
  \/ /\ step(p, "try_enqueue", "consume")
     /\ UNCHANGED <<queueVars, flagVars, syncVars, callVars, op, rec, historyVars>>

consume(p) ==
  /\ IF m_FlushRequested THEN step(p, "consume", "consume_wait")
                         ELSE step(p, "consume", "enqueue")
  /\ UNCHANGED <<queueVars, flagVars, syncVars, callVars, op, rec, historyVars>>

(* consume, under the frontend mutex: sleeps until the flush is done. *)
consume_wait(p) ==
  /\ frontend_mutex = {}
  /\ p \notin m_BlockCond
  /\ \/ /\ m_FlushRequested
        /\ step(p, "consume_wait", "consume_wait")
        /\ m_BlockCond' = m_BlockCond \cup {p}
     \/ /\ ~m_FlushRequested
        /\ step(p, "consume_wait", "enqueue")
        /\ UNCHANGED m_BlockCond
  /\ UNCHANGED <<queueVars, flagVars, frontend_mutex, callVars, op, rec, historyVars>>

(* enqueue from its beginning, and again each time on_overflow asks for     *)
(* another attempt.                                                         *)
enqueue(p, from) ==
  \/ accept_record(p, from)
  \/ /\ step(p, from, "blocked")
     /\ enqueue_blocks(p)
     /\ UNCHANGED <<flagVars, syncVars, callVars, op, rec, historyVars>>
  \/ /\ enqueue_discards
     /\ discard_record(p, from)

(* The thread leaves on_overflow once its context is unlinked. *)
leave_overflow(p) ==
  /\ ~is_linked(p)
  /\ \/ /\ result[p]
        /\ enqueue(p, "blocked")
     \/ /\ ~result[p]
        /\ discard_record(p, "blocked")
        /\ UNCHANGED queueVars

-----------------------------------------------------------------------------
(* run and feed_records *)

(* Only once the dedicated thread, if there was one, has been stopped may     *)
(* the user feed records (a documented precondition).                         *)
begin_feeding(t, o) ==
  /\ t \in Feeders
  /\ \A d \in Dedicated : pc[d] = "ended"
  /\ calls[t] < MaxCalls
  /\ calls' = [calls EXCEPT ![t] = @ + 1]
  /\ step(t, "outside", "start")
  /\ op' = [op EXCEPT ![t] = o]
  /\ UNCHANGED <<queueVars, flagVars, syncVars, sent, joins, m_DedicatedFeedingThread,
                 rec, historyVars>>

run(t) == begin_feeding(t, "run")
feed_records(t) == begin_feeding(t, "feed_records")

(* The thread returns from run, feed_records or flush to its caller; the    *)
(* dedicated thread ends.                                                   *)
return_from(t, from) ==
  /\ step(t, from, IF t \in Dedicated THEN "ended" ELSE "outside")
  /\ op' = [op EXCEPT ![t] = "none"]

(* One pass through the loop of start_feeding_operation: it starts the      *)
(* operation, throws unexpected_call, returns because of a stop, or sleeps. *)
start_feeding_operation(t) ==
  /\ frontend_mutex = {}
  /\ t \notin m_BlockCond
  /\ \/ /\ m_ActiveOperation = "idle"
        /\ step(t, "start", "feed")
        /\ m_ActiveOperation' = "feeding_records"
        /\ UNCHANGED <<m_StopRequested, m_FlushRequested, m_BlockCond, op>>
     \/ /\ m_ActiveOperation = "feeding_records"
        /\ return_from(t, "start")
        /\ UNCHANGED <<flagVars, m_BlockCond>>
     \/ /\ m_ActiveOperation = "flushing"
        /\ m_StopRequested
        /\ return_from(t, "start")
        /\ m_StopRequested' = FALSE
        /\ UNCHANGED <<m_ActiveOperation, m_FlushRequested, m_BlockCond>>
     \/ /\ m_ActiveOperation = "flushing"
        /\ ~m_StopRequested
        /\ step(t, "start", "start")
        /\ m_BlockCond' = m_BlockCond \cup {t}
        /\ UNCHANGED <<flagVars, op>>
  /\ UNCHANGED <<queueVars, frontend_mutex, callVars, rec, historyVars>>

(* do_feed_records: the loop head reads m_StopRequested. *)
do_feed_records(t) ==
  /\ IF m_StopRequested THEN step(t, "feed", "feed_end")
                        ELSE step(t, "feed", "try_dequeue")
  /\ UNCHANGED <<queueVars, flagVars, syncVars, callVars, op, rec, historyVars>>

(* The record at the front of the queue is now in the hands of t. *)
take_record(t, from) ==
  /\ step(t, from, "feed_record")
  /\ pop
  /\ rec' = [rec EXCEPT ![t] = Head(m_queue)]
  /\ UNCHANGED <<flagVars, syncVars, callVars, op, historyVars>>

(* try_dequeue and try_dequeue_ready, which a FIFO queue does not tell apart. *)
try_dequeue(t) ==
  \/ take_record(t, "try_dequeue")
  \/ /\ m_queue = <<>>
     /\ step(t, "try_dequeue", "feed_end")
     /\ UNCHANGED <<queueVars, flagVars, syncVars, callVars, op, rec, historyVars>>

(* The backend consumes the record. *)
feed_record(t) ==
  /\ step(t, "feed_record", "feed")
  /\ delivered' = Append(delivered, rec[t])
  /\ forget_record(t)
  /\ UNCHANGED <<queueVars, flagVars, syncVars, callVars, op, enqueued, dropped, goal>>

(* Faulty variant: after an exception the same record is fed again. *)
feed_record_again(t) ==
  /\ BackendThrows
  /\ step(t, "feed_record", "feed_record")
  /\ delivered' = Append(delivered, rec[t])
  /\ UNCHANGED <<queueVars, flagVars, syncVars, callVars, op, rec, enqueued, dropped, goal>>

(* The backend throws while consuming the record.  Under a shared lock of   *)
(* the frontend mutex the exception handler, if there is one, absorbs the   *)
(* exception; otherwise it leaves the feeding operation.  An exception that *)
(* leaves the dedicated thread terminates the program.                      *)
feed_record_throws(t) ==
  /\ BackendThrows
  /\ frontend_mutex = {}
  /\ \/ step(t, "feed_record", "feed")
     \/ t \notin Dedicated /\ step(t, "feed_record", "complete")
  /\ delivered' = Append(delivered, rec[t])
  /\ forget_record(t)
  /\ UNCHANGED <<queueVars, flagVars, syncVars, callVars, op, enqueued, dropped, goal>>

(* The control point after do_feed_records returns. *)
after_feeding(t) == IF op[t] = "run" THEN "run" ELSE "complete"

(* do_feed_records: the end of the loop reads m_FlushRequested. *)
feed_end(t) ==
  /\ IF m_FlushRequested THEN step(t, "feed_end", "flush_backend")
                         ELSE step(t, "feed_end", after_feeding(t))
  /\ UNCHANGED <<queueVars, flagVars, syncVars, callVars, op, rec, historyVars>>

(* The backend is flushed; the destructor of scoped_flag comes next. *)
flush_backend(t) ==
  /\ \/ step(t, "flush_backend", "flushed")
     \/ /\ BackendThrows
        /\ t \notin Dedicated
        /\ frontend_mutex = {}
        /\ step(t, "flush_backend", "flush_threw")
  /\ UNCHANGED <<queueVars, flagVars, syncVars, callVars, op, rec, historyVars>>

scoped_flag(t) ==
  /\ frontend_mutex = {}
  /\ step(t, "flushed", after_feeding(t)) \/ step(t, "flush_threw", "complete")
  /\ m_FlushRequested' = FALSE
  /\ m_BlockCond' = {}
  /\ UNCHANGED <<queueVars, m_ActiveOperation, m_StopRequested, frontend_mutex, callVars,
                 op, rec, historyVars>>

(* run: after do_feed_records the loop reads m_StopRequested again. *)
run_loop(t) ==
  /\ IF m_StopRequested THEN step(t, "run", "complete")
                        ELSE step(t, "run", "dequeue_ready")
  /\ UNCHANGED <<queueVars, flagVars, syncVars, callVars, op, rec, historyVars>>

(* run blocks until a record arrives or the wait is interrupted. *)
dequeue_ready(t) ==
  /\ t \notin m_cond
  /\ \/ ~m_interruption_requested /\ take_record(t, "dequeue_ready")
     \/ /\ dequeue_sleeps(t)
        /\ step(t, "dequeue_ready", "dequeue_ready")
        /\ UNCHANGED <<flagVars, syncVars, callVars, op, rec, historyVars>>
     \/ /\ dequeue_interrupted
        /\ step(t, "dequeue_ready", "feed")
        /\ UNCHANGED <<flagVars, syncVars, callVars, op, rec, historyVars>>

complete_feeding_operation(t) ==
  /\ frontend_mutex = {}
  /\ return_from(t, "complete")
  /\ m_ActiveOperation' = "idle"
  /\ m_StopRequested' = FALSE
  /\ m_BlockCond' = {}
  /\ UNCHANGED <<queueVars, m_FlushRequested, frontend_mutex, callVars, rec, historyVars>>

-----------------------------------------------------------------------------
(* flush *)

flush(f) ==
  /\ f \in Flushers
  /\ calls[f] < MaxCalls
  /\ calls' = [calls EXCEPT ![f] = @ + 1]
  /\ goal' = [goal EXCEPT ![f] = Range(enqueued)]
  /\ step(f, "outside", "flush")
  /\ UNCHANGED <<queueVars, flagVars, syncVars, sent, joins, m_DedicatedFeedingThread,
                 op, rec, enqueued, delivered, dropped>>

(* Faulty variant: only the backend is flushed, not the queue. *)
flush_here_backend_only(f, from) ==
  /\ m_ActiveOperation = "idle"
  /\ step(f, from, "feed_end")
  /\ op' = [op EXCEPT ![f] = "flush"]
  /\ m_ActiveOperation' = "flushing"
  /\ m_FlushRequested' = TRUE
  /\ UNCHANGED <<m_StopRequested, m_BlockCond>>

(* The caller becomes the feeding thread itself. *)
flush_here(f, from) ==
  /\ m_ActiveOperation = "idle"
  /\ step(f, from, "feed")
  /\ op' = [op EXCEPT ![f] = "flush"]
  /\ m_ActiveOperation' = "flushing"
  /\ m_FlushRequested' = TRUE
  /\ UNCHANGED <<m_StopRequested, m_BlockCond>>

flush_begin(f) ==
  /\ frontend_mutex = {}
  /\ \/ /\ flush_here(f, "flush")
        /\ UNCHANGED frontend_mutex
     \/ /\ m_ActiveOperation # "idle"
        /\ step(f, "flush", "flush_interrupt")
        /\ m_FlushRequested' = TRUE
        /\ frontend_mutex' = {f}
        /\ UNCHANGED <<m_ActiveOperation, m_StopRequested, m_BlockCond, op>>
  /\ UNCHANGED <<queueVars, callVars, rec, historyVars>>

(* Faulty variant: the caller feeds records even if another thread does. *)
flush_wait_loop_unchecked(f, from) ==
  \/ /\ ~m_StopRequested /\ m_FlushRequested
     /\ step(f, from, "flush_wait")
     /\ m_BlockCond' = m_BlockCond \cup {f}
     /\ UNCHANGED <<flagVars, op>>
  \/ /\ m_StopRequested \/ ~m_FlushRequested
     /\ step(f, from, "feed")
     /\ op' = [op EXCEPT ![f] = "flush"]
     /\ m_ActiveOperation' = "flushing"
     /\ m_FlushRequested' = TRUE
     /\ UNCHANGED <<m_StopRequested, m_BlockCond>>

(* The loop condition of the wait in flush, and what follows the loop. *)
flush_wait_loop(f, from) ==
  \/ /\ ~m_StopRequested /\ m_FlushRequested
     /\ step(f, from, "flush_wait")
     /\ m_BlockCond' = m_BlockCond \cup {f}
     /\ UNCHANGED <<flagVars, op>>
  \/ /\ m_StopRequested \/ ~m_FlushRequested
     /\ \/ /\ m_ActiveOperation # "idle"
           /\ return_from(f, from)
           /\ UNCHANGED <<flagVars, m_BlockCond>>
        \/ flush_here(f, from)

(* Faulty variant: a feeding thread asleep in dequeue_ready is not woken. *)
flush_without_interrupt(f) ==
  /\ flush_wait_loop(f, "flush_interrupt")
  /\ frontend_mutex' = {}
  /\ UNCHANGED <<queueVars, callVars, rec, historyVars>>

flush_interrupt(f) ==
  /\ interrupt_dequeue
  /\ flush_wait_loop(f, "flush_interrupt")
  /\ frontend_mutex' = {}
  /\ UNCHANGED <<callVars, rec, historyVars>>

flush_wait(f) ==
  /\ frontend_mutex = {}
  /\ f \notin m_BlockCond
  /\ flush_wait_loop(f, "flush_wait")
  /\ UNCHANGED <<queueVars, frontend_mutex, callVars, rec, historyVars>>

-----------------------------------------------------------------------------
(* stop, which is also the body of the destructor *)

stop(s) ==
  /\ s \in Stoppers
  /\ calls[s] < MaxCalls
  /\ calls' = [calls EXCEPT ![s] = @ + 1]
  /\ step(s, "outside", "stop")
  /\ UNCHANGED <<queueVars, flagVars, syncVars, sent, joins, m_DedicatedFeedingThread,
                 op, rec, historyVars>>

stop_begin(s) ==
  /\ frontend_mutex = {}
  /\ step(s, "stop", "stop_interrupt")
  /\ m_StopRequested' = TRUE
  /\ frontend_mutex' = {s}
  /\ UNCHANGED <<queueVars, m_ActiveOperation, m_FlushRequested, m_BlockCond, callVars,
                 op, rec, historyVars>>

(* Faulty variant: a feeding thread asleep in dequeue_ready is not woken. *)
stop_without_interrupt(s) ==
  /\ step(s, "stop_interrupt", "stop_join")
  /\ joins' = [joins EXCEPT ![s] = m_DedicatedFeedingThread]
  /\ m_DedicatedFeedingThread' = {}
  /\ frontend_mutex' = {}
  /\ UNCHANGED <<queueVars, flagVars, m_BlockCond, sent, calls, op, rec, historyVars>>

stop_interrupt(s) ==
  /\ step(s, "stop_interrupt", "stop_join")
  /\ interrupt_dequeue
  /\ joins' = [joins EXCEPT ![s] = m_DedicatedFeedingThread]
  /\ m_DedicatedFeedingThread' = {}
  /\ frontend_mutex' = {}
  /\ UNCHANGED <<flagVars, m_BlockCond, sent, calls, op, rec, historyVars>>

stop_join(s) ==
  /\ step(s, "stop_join", "outside")
  /\ \A d \in joins[s] : pc[d] = "ended"
  /\ joins' = [joins EXCEPT ![s] = {}]
  /\ UNCHANGED <<queueVars, flagVars, syncVars, m_DedicatedFeedingThread, sent, calls,
                 op, rec, historyVars>>

-----------------------------------------------------------------------------
(* A condition variable may wake a thread without being notified. *)
spurious_wakeup(t) ==
  /\ \/ t \in m_BlockCond /\ m_BlockCond' = m_BlockCond \ {t} /\ UNCHANGED m_cond
     \/ t \in m_cond /\ m_cond' = m_cond \ {t} /\ UNCHANGED m_BlockCond
  /\ UNCHANGED <<m_queue, m_interruption_requested, m_thread_contexts, result, flagVars,
                 frontend_mutex, callVars, pc, op, rec, historyVars>>

(* What a thread does before it comes back from a call into the sink. *)
ThreadStep(t) ==
  \/ try_consume(t) \/ try_enqueue(t) \/ consume(t) \/ consume_wait(t)
  \/ enqueue(t, "enqueue") \/ leave_overflow(t)
  \/ start_feeding_operation(t) \/ do_feed_records(t) \/ try_dequeue(t)
  \/ feed_record(t) \/ feed_record_throws(t) \/ feed_end(t)
  \/ flush_backend(t) \/ scoped_flag(t) \/ run_loop(t) \/ dequeue_ready(t)
  \/ complete_feeding_operation(t)
  \/ flush_begin(t) \/ flush_interrupt(t) \/ flush_wait(t)
  \/ stop_begin(t) \/ stop_interrupt(t) \/ stop_join(t)

(* A thread enters the sink whenever the application pleases. *)
ThreadCall(t) == log_record(t) \/ run(t) \/ feed_records(t) \/ flush(t) \/ stop(t)

Next == \E t \in Threads : ThreadCall(t) \/ ThreadStep(t) \/ spurious_wakeup(t)

Spec == Init /\ [][Next]_vars

(* The operating system runs every thread that can run. *)
FairSpec == Spec /\ \A t \in Threads : WF_vars(ThreadStep(t))

-----------------------------------------------------------------------------
(* What the sink promises *)

Outside == {"outside", "ended"}
Logging == {"try_consume", "try_enqueue", "consume", "consume_wait", "enqueue", "blocked"}
Feeding == {"feed", "try_dequeue", "feed_record", "feed_end", "flush_backend", "flushed",
            "flush_threw", "run", "dequeue_ready", "complete"}
Flushing == {"flush", "flush_interrupt", "flush_wait"}
Stopping == {"stop", "stop_interrupt", "stop_join"}

ControlPoints == Outside \cup {"start"} \cup Logging \cup Feeding \cup Flushing \cup Stopping

QueueTypeOK ==
  /\ m_queue \in Seq(Records)
  /\ Len(m_queue) <= MaxQueueSize
  /\ m_interruption_requested \in BOOLEAN
  /\ m_cond \subseteq Threads
  /\ m_thread_contexts \in Seq(Threads)
  /\ result \in [Threads -> BOOLEAN]

FrontendTypeOK ==
  /\ m_ActiveOperation \in {"idle", "feeding_records", "flushing"}
  /\ m_StopRequested \in BOOLEAN
  /\ m_FlushRequested \in BOOLEAN
  /\ frontend_mutex \subseteq Threads
  /\ m_BlockCond \subseteq Threads
  /\ m_DedicatedFeedingThread \subseteq Dedicated

ThreadTypeOK ==
  /\ pc \in [Threads -> ControlPoints]
  /\ op \in [Threads -> {"none", "run", "feed_records", "flush"}]
  /\ rec \in [Threads -> Records]
  /\ joins \in [Threads -> SUBSET Dedicated]
  /\ sent \in [Threads -> 0 .. MaxRecords]
  /\ calls \in [Threads -> 0 .. MaxCalls]

HistoryTypeOK ==
  /\ enqueued \in Seq(Records)
  /\ delivered \in Seq(Records)
  /\ dropped \subseteq Records
  /\ goal \in [Threads -> SUBSET Records]

(* Every variable has its type, and the queue never exceeds its capacity. *)
TypeOK == QueueTypeOK /\ FrontendTypeOK /\ ThreadTypeOK /\ HistoryTypeOK

(* At most one thread is inside the feeding code, and m_ActiveOperation says  *)
(* whether there is one: the backend and the consumer side of the queue are   *)
(* never used by run, feed_records and flush at the same time.                *)
FeedingExclusion ==
  /\ \A t, u \in Threads : pc[t] \in Feeding /\ pc[u] \in Feeding => t = u
  /\ m_ActiveOperation = "idle" <=> \A t \in Threads : pc[t] \notin Feeding

(* Every queued record reaches the backend once and in queue order, whichever *)
(* threads take turns in feeding: what was queued is what was fed, then the    *)
(* record in the hands of the feeding thread, then what is still queued.       *)
FifoDelivery ==
  /\ (\A t \in Threads : pc[t] # "feed_record") => enqueued = delivered \o m_queue
  /\ \A t \in Threads : pc[t] = "feed_record" =>
       enqueued = Append(delivered, rec[t]) \o m_queue

(* Every record the core passed in is in exactly one place: still held by its  *)
(* thread, accepted into the queue, or discarded on overflow.  Discarded are   *)
(* also the records of threads that block_on_overflow made wait and that       *)
(* interrupt_dequeue, called by flush and stop, tells to give up.              *)
EveryRecordAccounted ==
  \A p \in Producers : \A n \in 1 .. sent[p] :
    LET r == <<p, n>>
        held == pc[p] \in Logging /\ rec[p] = r
    IN  /\ held \/ r \in Range(enqueued) \/ r \in dropped
        /\ held => r \notin Range(enqueued) \cup dropped
        /\ r \in dropped => r \notin Range(enqueued)

(* The backend sees the records of one thread in the order it logged them. *)
PerThreadOrder ==
  \A i, j \in 1 .. Len(delivered) :
    i < j /\ delivered[i][1] = delivered[j][1] => delivered[i][2] < delivered[j][2]

(* A thread asleep in dequeue_ready has nothing to do: although enqueue only  *)
(* notifies when the queue was empty, no record and no interruption is missed. *)
SleepingFeederIdle ==
  m_cond # {} => m_queue = <<>> /\ ~m_interruption_requested

(* What a thread asleep on m_BlockCond found when it went to sleep is still    *)
(* so: in consume or flush that a flush is requested, in                       *)
(* start_feeding_operation that another thread flushes.                        *)
BlockedForReason ==
  \A t \in m_BlockCond :
    \/ pc[t] \in {"consume_wait", "flush_wait"} /\ m_FlushRequested
    \/ pc[t] = "start" /\ m_ActiveOperation = "flushing"

(* Until somebody stops it the dedicated thread stays in run, and a flush      *)
(* requested of it either finds it before it tests m_FlushRequested or has     *)
(* interrupted its wait for records.                                           *)
DedicatedAnswers ==
  \A t \in m_DedicatedFeedingThread : ~m_StopRequested =>
    /\ pc[t] \in {"start"} \cup (Feeding \ {"complete"})
    /\ m_FlushRequested /\ frontend_mutex = {} /\ pc[t] \in {"run", "dequeue_ready"}
         => m_interruption_requested

(* No notification is missed, and with a dedicated feeding thread that nobody  *)
(* stops no thread sleeps in vain: the feeding thread sleeps only on an empty  *)
(* queue; a thread asleep on m_BlockCond waits for a flush, and that thread is *)
(* going to test m_FlushRequested and clear it.  Without such a thread a flush *)
(* may wait for ever (FlushTakesOver).                                         *)
NoWakeupMissed == SleepingFeederIdle /\ BlockedForReason /\ DedicatedAnswers

(* "The condition may have been signalled when the feeding operation was       *)
(* finishing.  In that case records may not have been flushed, and we do the   *)
(* flush ourselves": nobody waits in flush when no thread feeds records.       *)
FlushTakesOver ==
  \A f \in Flushers : f \in m_BlockCond => m_ActiveOperation # "idle"

(* A flush that the caller carries out itself leaves no record behind. *)
CallerDrains ==
  \A f \in Flushers : op[f] = "flush" /\ op'[f] = "none" => goal[f] \subseteq Range(delivered)

(* flush "feeds all log records that may have been buffered": when it returns, *)
(* every record queued when it was called has been fed (no stop, no exception). *)
FlushDrains ==
  [][\A f \in Flushers :
       pc[f] \in Flushing \cup Feeding /\ pc'[f] \in Outside
         => goal[f] \subseteq Range(delivered)]_vars

Channel == INSTANCE RecordChannel WITH accepted <- enqueued

(* The sink implements the in-order, exactly-once channel of RecordChannel,    *)
(* whichever threads feed it and however often feeding is stopped or throws.   *)
ImplementsChannel == Channel!Spec

(* Every record that was queued has been fed to the backend. *)
QueueDrained == Range(enqueued) \subseteq Range(delivered)

(* consume has returned, however full the queue, and so has flush. *)
LoggingReturned == \A t \in Producers \cup Flushers : pc[t] \in Outside

(* stop has returned, so that the dedicated thread has left its feeding loop. *)
StopsReturned == \A s \in Stoppers : pc[s] \notin Stopping

(* stop always returns: the dedicated thread leaves its feeding loop. *)
StopReturns == \A s \in Stoppers : pc[s] \in Stopping ~> pc[s] \in Outside

-----------------------------------------------------------------------------
(* The inductive invariant behind the safety properties *)

(* Only a thread in dequeue_ready sleeps on m_cond. *)
SleepersFeed == \A t \in m_cond : pc[t] = "dequeue_ready"

(* Only flush and stop hold the frontend mutex from one step to the next. *)
MutexHeld ==
  \A t \in Threads : pc[t] \in {"flush_interrupt", "stop_interrupt"} => frontend_mutex = {t}

(* As long as the handle refers to the dedicated thread, that thread is in run, *)
(* and it has finished its loop only if a caller of stop, still with the        *)
(* mutex in its hands, has asked for it; no other thread feeds records.         *)
DedicatedRuns ==
  \A d \in m_DedicatedFeedingThread :
    /\ op[d] = "run"
    /\ pc[d] \in {"start"} \cup (Feeding \ {"flush_threw"})
    /\ pc[d] = "complete" => m_StopRequested
    /\ m_StopRequested => \E s \in Threads : pc[s] = "stop_interrupt"
    /\ \A t \in Threads \ {d} : pc[t] # "start" /\ op[t] \in {"none", "flush"}
    /\ m_ActiveOperation = "feeding_records" => pc[d] \in Feeding

(* A logging thread holds the record it began last, and no other record of a  *)
(* thread is as recent as that.                                               *)
HoldsLatest ==
  /\ \A p \in Threads : pc[p] \in Logging => rec[p] = <<p, sent[p]>>
  /\ \A i \in 1 .. Len(enqueued) :
       /\ enqueued[i][2] <= sent[enqueued[i][1]]
       /\ pc[enqueued[i][1]] \in Logging => enqueued[i][2] < sent[enqueued[i][1]]

EnqueuedInOrder ==
  \A i, j \in 1 .. Len(enqueued) :
    i < j /\ enqueued[i][1] = enqueued[j][1] => enqueued[i][2] < enqueued[j][2]

(* A record that a thread no longer holds was queued or discarded, and not     *)
(* both; a discarded record is older than the one its thread holds.            *)
Settled ==
  /\ \A p \in Threads : \A n \in 1 .. sent[p] :
       <<p, n>> \in Range(enqueued) \cup dropped \/ (pc[p] \in Logging /\ n = sent[p])
  /\ Range(enqueued) \cap dropped = {}
  /\ \A r \in dropped :
       r[2] <= sent[r[1]] /\ (pc[r[1]] \in Logging => r[2] < sent[r[1]])

IInv ==
  /\ TypeOK
  /\ FeedingExclusion
  /\ BlockedForReason
  /\ MutexHeld /\ DedicatedRuns /\ DedicatedAnswers
  /\ SleepersFeed /\ SleepingFeederIdle
  /\ FifoDelivery
  /\ HoldsLatest /\ EnqueuedInOrder
  /\ Settled
=============================================================================
