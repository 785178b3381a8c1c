-------------------------- MODULE MCComponentsLiveness --------------------------
(***************************************************************************)
(* What the library eventually does: the parts of MCComponents that        *)
(* promise something for the future, under the fairness of their threads,  *)
(* and four more parts:                                                    *)
(*   ipc       the interprocess queue of POSIX while it is stopped and     *)
(*             cleared: p1 writes, p2 reads, and i1 and c stop and clear   *)
(*             through the object of each;                                 *)
(*   feed      asynchronous_sink: p1 and p2 log and i1 flushes, with c as  *)
(*             the dedicated feeding thread, which nobody stops;           *)
(*   shutdown  the same sink with one logging thread, where i1 stops the   *)
(*             sink and feeds it afterwards;                               *)
(*   core      LoggingCore with two logging threads, one administrator and *)
(*             two synchronous sinks, with an absorbing exception handler. *)
(***************************************************************************)
EXTENDS MCComponents

VARIABLES memory, m_size, m_put_pos, m_get_pos, m_mutex, mutex_state, nonempty_queue, nonfull_queue,
          stop, m_overflow_policy, ipc_pc, call, arg, buffer, result, ipc_calls, controls, wakeups,
          crashes, pending, received,
          async_queue, async_interruption, m_cond, async_contexts, async_result,
          m_ActiveOperation, m_StopRequested, m_FlushRequested, frontend_mutex, m_BlockCond,
          m_DedicatedFeedingThread, async_pc, op, rec, joins, async_sent, async_calls, enqueued,
          fed, dropped, goal,
          core_pc, core_mutex, m_enabled, m_sinks, m_filter, m_exception_handler, m_thread_data,
          m_Filter, m_ExceptionHandler, m_BackendMutex, app, frame, opened, core_changes, served,
          failed, threw

Ipc == INSTANCE IpcMessageQueue
  WITH Threads <- {p1, p2, i1, c}, Processes <- {"writer", "reader"},
       Writers <- {p1}, Readers <- {p2}, Controllers <- {i1, c},
       ProcessOf <- [t \in {p1, p2, i1, c} |-> IF t \in {p1, i1} THEN "writer" ELSE "reader"],
       PoliciesOf <- [p \in {"writer", "reader"} |-> {"block"}],
       Capacity <- 2, BlockSize <- 2, HeaderOverhead <- 1, WordModulus <- 4096,
       Lengths <- {3}, BufferSizes <- {8},
       MaxCalls <- 2, MaxControls <- 1, MaxWakeups <- 1, MaxCrashes <- 0,
       m_nonempty_queue <- nonempty_queue, m_nonfull_queue <- nonfull_queue, m_stop <- stop,
       pc <- ipc_pc, calls <- ipc_calls

Feed == INSTANCE AsyncSink
  WITH Threads <- {p1, p2, i1, c}, Producers <- {p1, p2}, Flushers <- {i1}, Stoppers <- {},
       Feeders <- {}, Dedicated <- {c}, MaxQueueSize <- 1, OverflowStrategy <- "block",
       MaxRecords <- 1, MaxCalls <- 1, BackendThrows <- FALSE,
       m_queue <- async_queue, m_interruption_requested <- async_interruption,
       m_thread_contexts <- async_contexts, result <- async_result, pc <- async_pc,
       sent <- async_sent, calls <- async_calls, delivered <- fed

Shutdown == INSTANCE AsyncSink
  WITH Threads <- {p1, p2, i1, c}, Producers <- {p1}, Flushers <- {}, Stoppers <- {i1},
       Feeders <- {i1}, Dedicated <- {c}, MaxQueueSize <- 1, OverflowStrategy <- "block",
       MaxRecords <- 2, MaxCalls <- 2, BackendThrows <- FALSE,
       m_queue <- async_queue, m_interruption_requested <- async_interruption,
       m_thread_contexts <- async_contexts, result <- async_result, pc <- async_pc,
       sent <- async_sent, calls <- async_calls, delivered <- fed

Core == INSTANCE LoggingCore
  WITH Loggers <- {p1, p2}, Admins <- {i1}, SyncSinks <- {"sink1", "sink2"}, UnlockedSinks <- {},
       DefaultSink <- "default_sink", Levels <- {"low"}, Throwing <- {"sink1"},
       FilterThrows <- TRUE, Handlers <- {"absorbs"}, MaxOpened <- 1, MaxChanges <- 1,
       m_mutex <- core_mutex, changes <- core_changes, consumed <- served

ipcVars == <<memory, m_size, m_put_pos, m_get_pos, m_mutex, mutex_state, nonempty_queue,
             nonfull_queue, stop, m_overflow_policy, ipc_pc, call, arg, buffer, result, ipc_calls,
             controls, wakeups, crashes, pending, received>>

asyncVars == <<async_queue, async_interruption, m_cond, async_contexts, async_result,
               m_ActiveOperation, m_StopRequested, m_FlushRequested, frontend_mutex, m_BlockCond,
               m_DedicatedFeedingThread, async_pc, op, rec, joins, async_sent, async_calls,
               enqueued, fed, dropped, goal>>
coreVars == <<core_pc, core_mutex, m_enabled, m_sinks, m_filter, m_exception_handler, m_thread_data,
              m_Filter, m_ExceptionHandler, m_BackendMutex, app, frame, opened, core_changes,
              served, failed, threw>>

liveVars == <<allVars, ipcVars, asyncVars, coreVars>>

(* A step of a part of MCComponents. *)
Alone(A) == A /\ UNCHANGED <<ipcVars, asyncVars, coreVars>>

InIpc(A) == part = "ipc" /\ A /\ UNCHANGED <<allVars, asyncVars, coreVars>>
InFeed(A) == part = "feed" /\ A /\ UNCHANGED <<allVars, ipcVars, coreVars>>
InShutdown(A) == part = "shutdown" /\ A /\ UNCHANGED <<allVars, ipcVars, coreVars>>
InCore(A) == part = "core" /\ A /\ UNCHANGED <<allVars, ipcVars, asyncVars>>

LiveInit ==
  /\ PartInit /\ Ipc!Init
  /\ IF part = "shutdown" THEN Shutdown!Init ELSE Feed!Init
  /\ Core!CoreInit /\ m_sinks = <<"sink1", "sink2">>

LiveNext ==
  \/ Alone(PartNext)
  \/ InIpc(Ipc!Next)
  \/ InFeed(Feed!Next)
  \/ InShutdown(Shutdown!Next)
  \/ InCore(Core!CoreNext)

LiveSpec == LiveInit /\ [][LiveNext]_liveVars

(* The step that an agent takes in the part that runs.  In Ordering i1 stands  *)
(* for the passing of time and c for the feeding thread; in Files p1 and p2    *)
(* for the users of the backends.                                              *)
AgentStep(t) ==
  \/ InIpc(Ipc!ThreadStep(t))
  \/ InFeed(Feed!ThreadStep(t))
  \/ InShutdown(Shutdown!ThreadStep(t))
  \/ t \in {p1, p2, i1} /\ InCore(Core!CoreStep(t))
  \/ Alone(\/ InFifo(Fifo!ThreadStep(t))
           \/ t \in {p1, p2} /\ InOrdering(Ordering!Enqueue(t))
           \/ t = i1 /\ InOrdering(Ordering!Tick)
           \/ t = c /\ InOrdering(Ordering!ConsumerStep)
           \/ t \in GetThreads /\ InGlobals(GetStep(t))
           \/ t \in QueueObjects /\ InRegion(Region!ObjectStep(t))
           \/ t = p1 /\ InFiles(Files!BackendStep("b1"))
           \/ t = p2 /\ InFiles(Files!BackendStep("b2"))
           \/ t \in Threads /\ InMutex(ThreadStep(t)))

(* Every part is fair to its threads: as one part runs, fairness to the agents *)
(* is fairness to the threads of that part.  In Fifo the feeding thread also   *)
(* comes back for more.                                                        *)
Fairness ==
  /\ \A t \in {p1, p2, i1, c} : WF_liveVars(AgentStep(t))
  /\ WF_liveVars(Alone(InFifo(Fifo!begin_dequeue)))

LiveFairSpec == LiveSpec /\ Fairness

-----------------------------------------------------------------------------
(* Properties *)

(* The queues: all the records are taken out in the end, whatever signals and  *)
(* interruptions are spent in between and although each new record that goes   *)
(* before another delays it by up to a window, and producers blocked by the    *)
(* limit return.  As long as nobody stops the dedicated thread of              *)
(* asynchronous_sink, it has fed every queued record to the backend in the end.*)
QueuesDrain ==
  <>[](/\ Only("fifo", Fifo!AllDequeued) /\ Only("ordering", Ordering!Drained)
       /\ Only("feed", Feed!QueueDrained))

(* An interruption ends the wait of the consumer of unbounded_fifo_queue.  In  *)
(* the interprocess queue receive returns when there is a message, and every   *)
(* send and receive on an object that has been stopped returns.                *)
WaitsEnd ==
  (part = "fifo" /\ Fifo!WaitsInterrupted) \/ (part = "ipc" /\ Ipc!Overdue # {})
    ~> (part = "fifo" /\ fifo_pc[c] = "outside") \/ (part = "ipc" /\ Ipc!Overdue = {})

(* Every request for a logger returns, also if the initializer it waits for    *)
(* throws, except where an initializer asks for another logger and so waits    *)
(* for the mutex of the repository that its own thread holds; every opening    *)
(* and closing of an interprocess queue, also if the creator of the segment    *)
(* dies; every call of a file sink, which skips over full files until the      *)
(* counter has gone round; and every lock of the mutex of Windows.  There are  *)
(* finitely many calls, so that they have all returned in the end.             *)
CallsEnd ==
  <>[](/\ Only("globals", GetsReturned) /\ Only("region", Region!AllReturned)
       /\ Only("files", Files!AllReturned) /\ Only("mutex", AllReturned))

(* consume of asynchronous_sink returns, however full the queue, and so does   *)
(* flush while the dedicated thread runs; stop returns, also while the caller  *)
(* of stop is the next to feed; open_record, push_record_move and flush of the *)
(* core return, as its mutex and those of the sinks do not deadlock.           *)
FrontendCallsEnd ==
  <>[](/\ Only("feed", Feed!LoggingReturned) /\ Only("shutdown", Shutdown!StopsReturned)
       /\ Only("core", Core!AllReturned))

(* An absorbing exception handler keeps every exception from the caller. *)
HandlerShields == Core!HandlerShields
=============================================================================
