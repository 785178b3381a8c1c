---------------------------- MODULE LoggingCore ----------------------------
(***************************************************************************)
(* The logging core (src/src/core.cpp) and the synchronous and unlocked    *)
(* sink frontends it feeds (basic_sink_frontend.hpp, sync_frontend.hpp,    *)
(* unlocked_frontend.hpp).  Threads open records, which fixes the sinks    *)
(* that accept them, and push them later; other threads meanwhile add and  *)
(* remove sinks, change filters and exception handlers, flush the core and *)
(* drop their pointers to sinks.                                           *)
(*                                                                         *)
(* A step is what a thread does between two acquisitions of a lock another *)
(* thread can hold: one critical section of the core's read-write mutex,   *)
(* one sink's filter, the locking of one weak pointer, taking a backend    *)
(* mutex, one call of a backend.  The frontend's own mutex guards single   *)
(* reads and writes and is folded into the steps that take it.             *)
(***************************************************************************)
EXTENDS Naturals, Sequences, FiniteSets, Functions

CONSTANTS
    Loggers,        \* threads that open and push records
    Admins,         \* threads that reconfigure and flush the core
    SyncSinks,      \* synchronous_sink objects
    UnlockedSinks,  \* unlocked_sink objects
    DefaultSink,    \* core::implementation::m_default_sink
    Levels,         \* what filters can tell records apart by
    Throwing,       \* sinks whose filter and backend may throw
    FilterThrows,   \* whether the global filter may throw
    Handlers,       \* exception handlers the application installs
    MaxOpened,      \* bound: records opened by each logger
    MaxChanges      \* bound: operations of each admin

ASSUME CoreAssumption ==
    /\ SyncSinks \cap UnlockedSinks = {}
    /\ DefaultSink \notin SyncSinks \cup UnlockedSinks
    /\ IsFiniteSet(SyncSinks \cup UnlockedSinks)
    /\ Levels # {}
    /\ Throwing \subseteq SyncSinks \cup UnlockedSinks \cup {DefaultSink}
    /\ FilterThrows \in BOOLEAN
    /\ Handlers \subseteq {"none", "absorbs", "throws"} /\ Handlers # {}
    /\ MaxOpened \in Nat /\ MaxChanges \in Nat

VARIABLES
    m_enabled, m_sinks, m_filter, m_exception_handler,
    m_mutex,            \* threads holding the core's mutex, by mode
    m_thread_data,      \* threads that have their thread_data
    m_Filter, m_ExceptionHandler, m_BackendMutex,   \* of each sink
    app,                \* sinks the application has a pointer to
    core_pc,            \* where each thread is
    frame,              \* the locals of its call
    opened, changes,    \* records and operations begun, per thread
    consumed,           \* history: the records each backend consumed
    failed,             \* history: the pairs where a backend threw
    threw               \* history: the records whose call threw

coreVars == <<m_enabled, m_sinks, m_filter, m_exception_handler>>
sinkVars == <<m_Filter, m_ExceptionHandler>>
counters == <<opened, changes>>
history == <<consumed, failed, threw>>
loggingVars == <<coreVars, m_mutex, m_thread_data, sinkVars, m_BackendMutex, app,
                 core_pc, frame, counters, history>>

CoreThreads == Loggers \cup Admins
OwnSinks == SyncSinks \cup UnlockedSinks
Sinks == OwnSinks \cup {DefaultSink}
CoreRecords == Loggers \X (1 .. MaxOpened)

\* The locals of open_record, of push_record_move and the accepting sinks of
\* the record between the two.  sinks is the range [begin, end) of pointers
\* still to be served, held every pointer that the vector keeps.
NoFrame ==
    [level |-> CHOOSE l \in Levels : TRUE, it |-> 1, accepting |-> <<>>,
     capacity |-> 0, sinks |-> <<>>, held |-> {}, all_locked |-> TRUE,
     shuffled |-> FALSE]

opened_rec(t) == <<t, opened[t]>>

\* The sinks open_record and flush go through: the default one stands in
\* when no sink is registered.
active_sinks == IF m_sinks = <<>> THEN <<DefaultSink>> ELSE m_sinks

\* A weak_ptr to the sink can still be locked.
alive(s) ==
    \/ s = DefaultSink
    \/ s \in app
    \/ s \in Range(m_sinks)
    \/ \E u \in CoreThreads : s \in frame[u].held

can_read == m_mutex.writer = {}
can_write == m_mutex.writer = {} /\ m_mutex.readers = {}

CoreInit ==
    /\ m_enabled = TRUE
    /\ m_sinks \in {q \in [1 .. Cardinality(OwnSinks) -> OwnSinks] : IsInjective(q)}
    /\ m_filter = Levels
    /\ m_exception_handler \in Handlers
    /\ m_mutex = [writer |-> {}, readers |-> {}]
    /\ m_thread_data = {}
    /\ m_Filter = [s \in Sinks |-> Levels]
    /\ m_ExceptionHandler = [s \in Sinks |-> "none"]
    /\ m_BackendMutex = [s \in Sinks |-> {}]
    /\ app = OwnSinks
    /\ core_pc = [t \in CoreThreads |-> "idle"]
    /\ frame = [t \in CoreThreads |-> NoFrame]
    /\ opened = [t \in CoreThreads |-> 0]
    /\ changes = [t \in CoreThreads |-> 0]
    /\ consumed = [s \in Sinks |-> <<>>]
    /\ failed = {}
    /\ threw = {}

goto(t, label) == core_pc' = [core_pc EXCEPT ![t] = label]

\* The call of t ends, by an exception when raised.
return(t, raised) ==
    /\ goto(t, "idle")
    /\ frame' = [frame EXCEPT ![t] = NoFrame]
    /\ threw' = IF raised THEN threw \cup {opened_rec(t)} ELSE threw
    /\ UNCHANGED <<consumed, failed>>

-----------------------------------------------------------------------------
(* core::open_record *)

\* The quick test of m_enabled without a lock; a disabled core returns an
\* empty record at once, which changes nothing.
open_record(t, level) ==
    /\ core_pc[t] = "idle"
    /\ opened[t] < MaxOpened
    /\ m_enabled
    /\ goto(t, IF t \in m_thread_data THEN "open" ELSE "init")
    /\ frame' = [frame EXCEPT ![t].level = level]
    /\ opened' = [opened EXCEPT ![t] = @ + 1]
    /\ UNCHANGED <<coreVars, m_mutex, m_thread_data, sinkVars, m_BackendMutex,
                   app, changes, history>>

init_thread_data(t) ==
    /\ core_pc[t] = "init"
    /\ can_write
    /\ m_thread_data' = m_thread_data \cup {t}
    /\ goto(t, "open")
    /\ UNCHANGED <<coreVars, m_mutex, sinkVars, m_BackendMutex, app, frame,
                   counters, history>>

\* Logging is on and the global filter passes: the sinks are asked next, the
\* read lock still held.
open_locked(t) ==
    /\ core_pc[t] = "open"
    /\ can_read
    /\ m_enabled
    /\ frame[t].level \in m_filter
    /\ m_mutex' = [m_mutex EXCEPT !.readers = @ \cup {t}]
    /\ goto(t, "filter")
    /\ UNCHANGED <<coreVars, m_thread_data, sinkVars, m_BackendMutex, app,
                   frame, counters, history>>

open_rejected(t) ==
    /\ core_pc[t] = "open"
    /\ can_read
    /\ ~m_enabled \/ frame[t].level \notin m_filter
    /\ return(t, FALSE)
    /\ UNCHANGED <<coreVars, m_mutex, m_thread_data, sinkVars, m_BackendMutex,
                   app, counters>>

global_filter_throws(t) ==
    /\ core_pc[t] = "open"
    /\ can_read
    /\ FilterThrows /\ m_enabled
    /\ goto(t, "catch_outer")
    /\ UNCHANGED <<coreVars, m_mutex, m_thread_data, sinkVars, m_BackendMutex,
                   app, frame, counters, history>>

\* Faulty variant: one slot too few is allocated.
accepts_short(f, s, remaining) ==
    [f EXCEPT !.accepting = Append(@, s),
              !.capacity = IF f.accepting = <<>> THEN remaining - 1 ELSE @,
              !.it = @ + 1]

\* private_data::create takes the capacity that is left when the first sink
\* accepts; push_back_accepting_sink relies on it.
accepts(f, s, remaining) ==
    [f EXCEPT !.accepting = Append(@, s),
              !.capacity = IF f.accepting = <<>> THEN remaining ELSE @,
              !.it = @ + 1]

absorbed(handler) == handler = "absorbs"

apply_sink_filter(t) ==
    LET f == frame[t]
        s == active_sinks[f.it]
        remaining == Len(active_sinks) - f.it + 1
    IN  /\ core_pc[t] = "filter"
        /\ f.it <= Len(active_sinks)
        /\ frame' = [frame EXCEPT ![t] =
               IF f.level \in m_Filter[s]
                 THEN accepts(f, s, remaining)
                 ELSE [f EXCEPT !.it = @ + 1]]
        /\ UNCHANGED <<coreVars, m_mutex, m_thread_data, sinkVars,
                       m_BackendMutex, app, core_pc, counters, history>>

release_read(t) == m_mutex' = [m_mutex EXCEPT !.readers = @ \ {t}]

\* The sink's filter throws: the sink's handler, then the core's, may absorb
\* it and the sink is passed over; otherwise the record is destroyed and the
\* exception leaves open_record without another call of the handler.
sink_filter_throws(t) ==
    LET s == active_sinks[frame[t].it]
    IN  /\ core_pc[t] = "filter"
        /\ frame[t].it <= Len(active_sinks)
        /\ s \in Throwing
        /\ IF absorbed(m_ExceptionHandler[s]) \/ absorbed(m_exception_handler)
             THEN /\ frame' = [frame EXCEPT ![t].it = @ + 1]
                  /\ UNCHANGED <<m_mutex, core_pc, history>>
             ELSE return(t, TRUE) /\ release_read(t)
        /\ UNCHANGED <<coreVars, m_thread_data, sinkVars, m_BackendMutex, app,
                       counters>>

open_done(t) ==
    /\ core_pc[t] = "filter"
    /\ frame[t].it > Len(active_sinks)
    /\ release_read(t)
    /\ IF frame[t].accepting = <<>>
         THEN return(t, FALSE)
         ELSE goto(t, "opened") /\ UNCHANGED <<frame, history>>
    /\ UNCHANGED <<coreVars, m_thread_data, sinkVars, m_BackendMutex, app,
                   counters>>

\* The record is destroyed without having been pushed.
drop_record(t) ==
    /\ core_pc[t] = "opened"
    /\ return(t, FALSE)
    /\ UNCHANGED <<coreVars, m_mutex, m_thread_data, sinkVars, m_BackendMutex,
                   app, counters>>

-----------------------------------------------------------------------------
(* core::push_record_move *)

push_record(t) ==
    /\ core_pc[t] = "opened"
    /\ goto(t, "lock")
    /\ frame' = [frame EXCEPT ![t].it = 1]
    /\ UNCHANGED <<coreVars, m_mutex, m_thread_data, sinkVars, m_BackendMutex,
                   app, counters, history>>

\* weak_ptr::lock of one accepting sink; the ones destroyed since are left out.
lock_sink(t) ==
    LET f == frame[t]
        s == f.accepting[f.it]
    IN  /\ core_pc[t] = "lock"
        /\ f.it <= Len(f.accepting)
        /\ frame' = [frame EXCEPT ![t] =
               IF alive(s)
                 THEN [f EXCEPT !.sinks = Append(@, s), !.held = @ \cup {s},
                                !.it = @ + 1]
                 ELSE [f EXCEPT !.it = @ + 1]]
        /\ UNCHANGED <<coreVars, m_mutex, m_thread_data, sinkVars,
                       m_BackendMutex, app, core_pc, counters, history>>

sinks_locked(t) ==
    /\ core_pc[t] = "lock"
    /\ frame[t].it > Len(frame[t].accepting)
    /\ goto(t, "try")
    /\ frame' = [frame EXCEPT ![t].it = 1,
                              ![t].shuffled = Len(frame[t].sinks) <= 1]
    /\ UNCHANGED <<coreVars, m_mutex, m_thread_data, sinkVars, m_BackendMutex,
                   app, counters, history>>

\* --end; end->swap(*it): the last pointer takes the place of the served one.
drop(q, i) == SubSeq([q EXCEPT ![i] = q[Len(q)]], 1, Len(q) - 1)

\* The backend mutex of s is taken for t; an unlocked_sink has none.
lock_backend(t, s) ==
    IF s \in UnlockedSinks
      THEN UNCHANGED m_BackendMutex
      ELSE /\ m_BackendMutex[s] = {}
           /\ m_BackendMutex' = [m_BackendMutex EXCEPT ![s] = {t}]

unlock_backend(t, s) ==
    m_BackendMutex' = [m_BackendMutex EXCEPT ![s] = @ \ {t}]

\* try_consume gets to the backend.  The default sink and unlocked_sink do not
\* override sink::try_consume, which is consume.
sink_try_consume(t) ==
    /\ core_pc[t] = "try"
    /\ frame[t].it <= Len(frame[t].sinks)
    /\ lock_backend(t, frame[t].sinks[frame[t].it])
    /\ goto(t, "try_feed")
    /\ UNCHANGED <<coreVars, m_mutex, m_thread_data, sinkVars, app, frame,
                   counters, history>>

\* backend_mutex.try_lock() fails: try_consume returns false.
sink_try_consume_busy(t) ==
    /\ core_pc[t] = "try"
    /\ frame[t].it <= Len(frame[t].sinks)
    /\ LET s == frame[t].sinks[frame[t].it]
       IN  s \in SyncSinks /\ m_BackendMutex[s] # {}
    /\ frame' = [frame EXCEPT ![t].it = @ + 1]
    /\ UNCHANGED <<coreVars, m_mutex, m_thread_data, sinkVars, m_BackendMutex,
                   app, core_pc, counters, history>>

\* Faulty variant: sinks that were busy are not tried again.
push_gives_up(t) ==
    /\ core_pc[t] = "try"
    /\ frame[t].it > Len(frame[t].sinks)
    /\ return(t, FALSE)
    /\ UNCHANGED <<coreVars, m_mutex, m_thread_data, sinkVars, m_BackendMutex,
                   app, counters>>

push_done(t) ==
    /\ core_pc[t] = "try"
    /\ frame[t].sinks = <<>>
    /\ return(t, FALSE)
    /\ UNCHANGED <<coreVars, m_mutex, m_thread_data, sinkVars, m_BackendMutex,
                   app, counters>>

\* A pass over the sinks served some and left some: try these again.  When it
\* served none, shuffle them once and wait for the first.
next_pass(t) ==
    LET q == frame[t].sinks
    IN  /\ core_pc[t] = "try"
        /\ q # <<>>
        /\ frame[t].it > Len(q)
        /\ IF frame[t].all_locked
             THEN /\ goto(t, "consume")
                  /\ \E p \in [DOMAIN q -> DOMAIN q] :
                        /\ IsInjective(p)
                        /\ frame[t].shuffled => \A i \in DOMAIN q : p[i] = i
                        /\ frame' = [frame EXCEPT
                               ![t].sinks = [i \in DOMAIN q |-> q[p[i]]],
                               ![t].it = 1, ![t].shuffled = TRUE]
             ELSE /\ frame' = [frame EXCEPT ![t].it = 1, ![t].all_locked = TRUE]
                  /\ UNCHANGED core_pc
        /\ UNCHANGED <<coreVars, m_mutex, m_thread_data, sinkVars,
                       m_BackendMutex, app, counters, history>>

sink_consume(t) ==
    /\ core_pc[t] = "consume"
    /\ lock_backend(t, frame[t].sinks[1])
    /\ goto(t, "feed")
    /\ UNCHANGED <<coreVars, m_mutex, m_thread_data, sinkVars, app, frame,
                   counters, history>>

\* The sink at it has been dealt with.  try_consume reports that it was not
\* locked; after consume the loop starts anew.
serve(t) ==
    /\ frame' = [frame EXCEPT ![t].sinks = drop(@, frame[t].it),
                              ![t].all_locked = (core_pc[t] = "feed")]
    /\ goto(t, "try")

sink_feed_record(t) ==
    LET s == frame[t].sinks[frame[t].it]
    IN  /\ core_pc[t] \in {"try_feed", "feed"}
        /\ consumed' = [consumed EXCEPT ![s] = Append(@, opened_rec(t))]
        /\ unlock_backend(t, s)
        /\ serve(t)
        /\ UNCHANGED <<coreVars, m_mutex, m_thread_data, sinkVars, app,
                       counters, failed, threw>>

\* backend.consume throws: the sink's handler absorbs it, or it goes on to
\* the core.
feed_throws(t) ==
    LET s == frame[t].sinks[frame[t].it]
    IN  /\ core_pc[t] \in {"try_feed", "feed"}
        /\ s \in Throwing
        /\ failed' = failed \cup {<<opened_rec(t), s>>}
        /\ unlock_backend(t, s)
        /\ IF absorbed(m_ExceptionHandler[s])
             THEN serve(t)
             ELSE goto(t, "catch") /\ UNCHANGED frame
        /\ UNCHANGED <<coreVars, m_mutex, m_thread_data, sinkVars, app,
                       counters, consumed, threw>>

\* The catch inside the loop: when the core's handler returns, the sink that
\* failed is skipped and the loop goes on with the rest.
catch(t) ==
    /\ core_pc[t] = "catch"
    /\ can_read
    /\ IF absorbed(m_exception_handler)
         THEN /\ frame' = [frame EXCEPT ![t].sinks = drop(@, frame[t].it),
                                        ![t].all_locked = TRUE]
              /\ goto(t, "try")
         ELSE goto(t, "catch_outer") /\ UNCHANGED frame
    /\ UNCHANGED <<coreVars, m_mutex, m_thread_data, sinkVars, m_BackendMutex,
                   app, counters, history>>

\* Faulty variant: the exception handler is not called.
catch_outer_rethrows(t) ==
    /\ core_pc[t] = "catch_outer"
    /\ can_read
    /\ return(t, TRUE)
    /\ UNCHANGED <<coreVars, m_mutex, m_thread_data, sinkVars, m_BackendMutex,
                   app, counters>>

\* The outermost catch of push_record_move, and of open_record for what the
\* global filter throws.
catch_outer(t) ==
    /\ core_pc[t] = "catch_outer"
    /\ can_read
    /\ return(t, ~absorbed(m_exception_handler))
    /\ UNCHANGED <<coreVars, m_mutex, m_thread_data, sinkVars, m_BackendMutex,
                   app, counters>>

-----------------------------------------------------------------------------
(* Configuration of the core and of the sinks *)

\* t begins one of its operations.
operate(t) ==
    /\ core_pc[t] = "idle"
    /\ changes[t] < MaxChanges
    /\ changes' = [changes EXCEPT ![t] = @ + 1]

\* The rest of the state in an operation on the core's settings.
core_only ==
    UNCHANGED <<m_mutex, m_thread_data, sinkVars, m_BackendMutex, app, core_pc,
                frame, opened, history>>

set_logging_enabled(t) ==
    /\ operate(t)
    /\ m_enabled' \in BOOLEAN
    /\ core_only /\ UNCHANGED <<m_sinks, m_filter, m_exception_handler>>

\* Faulty variant: a sink can be registered twice.
add_sink_unchecked(t, s) ==
    /\ operate(t)
    /\ can_write
    /\ s \in app
    /\ m_sinks' = Append(m_sinks, s)
    /\ core_only /\ UNCHANGED <<m_enabled, m_filter, m_exception_handler>>

add_sink(t, s) ==
    /\ operate(t)
    /\ can_write
    /\ s \in app
    /\ m_sinks' = IF s \in Range(m_sinks) THEN m_sinks ELSE Append(m_sinks, s)
    /\ core_only /\ UNCHANGED <<m_enabled, m_filter, m_exception_handler>>

\* std::find and vector::erase.
erase(q, s) ==
    LET i == CHOOSE j \in DOMAIN q : q[j] = s
    IN  SubSeq(q, 1, i - 1) \o SubSeq(q, i + 1, Len(q))

\* Faulty variant: the list is changed without the write lock.
remove_sink_unlocked(t, s) ==
    /\ operate(t)
    /\ s \in app
    /\ m_sinks' = IF s \in Range(m_sinks) THEN erase(m_sinks, s) ELSE m_sinks
    /\ core_only /\ UNCHANGED <<m_enabled, m_filter, m_exception_handler>>

remove_sink(t, s) ==
    /\ operate(t)
    /\ can_write
    /\ s \in app
    /\ m_sinks' = IF s \in Range(m_sinks) THEN erase(m_sinks, s) ELSE m_sinks
    /\ core_only /\ UNCHANGED <<m_enabled, m_filter, m_exception_handler>>

remove_all_sinks(t) ==
    /\ operate(t)
    /\ can_write
    /\ m_sinks' = <<>>
    /\ core_only /\ UNCHANGED <<m_enabled, m_filter, m_exception_handler>>

\* core::set_filter and reset_filter, which lets every record pass.
set_filter(t) ==
    /\ operate(t)
    /\ can_write
    /\ m_filter' \in SUBSET Levels
    /\ core_only /\ UNCHANGED <<m_enabled, m_sinks, m_exception_handler>>

set_exception_handler(t) ==
    /\ operate(t)
    /\ can_write
    /\ m_exception_handler' \in Handlers
    /\ core_only /\ UNCHANGED <<m_enabled, m_sinks, m_filter>>

\* basic_sink_frontend::set_filter and reset_filter.
set_sink_filter(t, s) ==
    /\ operate(t)
    /\ s \in app
    /\ \E f \in SUBSET Levels : m_Filter' = [m_Filter EXCEPT ![s] = f]
    /\ UNCHANGED <<coreVars, m_mutex, m_thread_data, m_ExceptionHandler,
                   m_BackendMutex, app, core_pc, frame, opened, history>>

\* basic_sink_frontend::set_exception_handler and reset_exception_handler.
set_sink_handler(t, s) ==
    /\ operate(t)
    /\ s \in app
    /\ \E h \in Handlers \cup {"none"} :
          m_ExceptionHandler' = [m_ExceptionHandler EXCEPT ![s] = h]
    /\ UNCHANGED <<coreVars, m_mutex, m_thread_data, m_Filter, m_BackendMutex,
                   app, core_pc, frame, opened, history>>

\* The application lets go of its pointer to the sink.
release_sink(t, s) ==
    /\ operate(t)
    /\ s \in app
    /\ app' = app \ {s}
    /\ UNCHANGED <<coreVars, m_mutex, m_thread_data, sinkVars, m_BackendMutex,
                   core_pc, frame, opened, history>>

-----------------------------------------------------------------------------
(* core::flush: the write lock is held while every sink is flushed *)

core_flush(t) ==
    /\ operate(t)
    /\ can_write
    /\ m_mutex' = [m_mutex EXCEPT !.writer = {t}]
    /\ goto(t, "flush")
    /\ UNCHANGED <<coreVars, m_thread_data, sinkVars, m_BackendMutex, app,
                   frame, opened, history>>

flush_sink(t) ==
    LET s == active_sinks[frame[t].it]
    IN  /\ core_pc[t] = "flush"
        /\ frame[t].it <= Len(active_sinks)
        /\ m_BackendMutex[s] = {}
        /\ frame' = [frame EXCEPT ![t].it = @ + 1]
        /\ UNCHANGED <<coreVars, m_mutex, m_thread_data, sinkVars,
                       m_BackendMutex, app, core_pc, counters, history>>

\* Faulty variant: the write lock is not released.
leaks_lock(t) == UNCHANGED m_mutex

release_write(t) == m_mutex' = [m_mutex EXCEPT !.writer = @ \ {t}]

\* The sink's flush throws and neither handler absorbs it: the remaining
\* sinks are not flushed.  (When one does, flush goes on as in flush_sink.)
flush_throws(t) ==
    LET s == active_sinks[frame[t].it]
    IN  /\ core_pc[t] = "flush"
        /\ frame[t].it <= Len(active_sinks)
        /\ m_BackendMutex[s] = {}
        /\ s \in Throwing
        /\ ~absorbed(m_ExceptionHandler[s]) /\ ~absorbed(m_exception_handler)
        /\ release_write(t)
        /\ return(t, FALSE)
        /\ UNCHANGED <<coreVars, m_thread_data, sinkVars, m_BackendMutex, app,
                       counters>>

flush_done(t) ==
    /\ core_pc[t] = "flush"
    /\ frame[t].it > Len(active_sinks)
    /\ release_write(t)
    /\ return(t, FALSE)
    /\ UNCHANGED <<coreVars, m_thread_data, sinkVars, m_BackendMutex, app,
                   counters>>

-----------------------------------------------------------------------------
\* What a thread does once it is inside a call of the library.
OpenStep(t) ==
    \/ init_thread_data(t) \/ open_locked(t) \/ open_rejected(t)
    \/ global_filter_throws(t) \/ apply_sink_filter(t)
    \/ sink_filter_throws(t) \/ open_done(t)

PushStep(t) ==
    \/ lock_sink(t) \/ sinks_locked(t) \/ sink_try_consume(t)
    \/ sink_try_consume_busy(t) \/ push_done(t) \/ next_pass(t) \/ sink_consume(t)
    \/ sink_feed_record(t) \/ feed_throws(t) \/ catch(t) \/ catch_outer(t)

FlushStep(t) == flush_sink(t) \/ flush_throws(t) \/ flush_done(t)

CoreStep(t) == OpenStep(t) \/ PushStep(t) \/ FlushStep(t)

\* What the application chooses to call.
LoggerCall(t) ==
    \/ \E level \in Levels : open_record(t, level)
    \/ push_record(t)
    \/ drop_record(t)

AdminCall(t) ==
    \/ set_logging_enabled(t) \/ remove_all_sinks(t) \/ set_filter(t)
    \/ set_exception_handler(t) \/ core_flush(t)
    \/ \E s \in OwnSinks :
          \/ add_sink(t, s) \/ remove_sink(t, s) \/ set_sink_filter(t, s)
          \/ set_sink_handler(t, s) \/ release_sink(t, s)

CoreNext ==
    \/ \E t \in CoreThreads : CoreStep(t)
    \/ \E t \in Loggers : LoggerCall(t)
    \/ \E t \in Admins : AdminCall(t)

CoreSpec == CoreInit /\ [][CoreNext]_loggingVars

\* A thread inside a call is scheduled again and again; what the application
\* calls, and when, is its own choice.
CoreFairSpec == CoreSpec /\ \A t \in CoreThreads : WF_loggingVars(CoreStep(t))

-----------------------------------------------------------------------------
(* Properties *)

Labels ==
    {"idle", "init", "open", "filter", "opened", "lock", "try", "try_feed",
     "consume", "feed", "catch", "catch_outer", "flush"}

Frames ==
    [level : Levels, it : Nat, accepting : Seq(Sinks), capacity : Nat,
     sinks : Seq(Sinks), held : SUBSET Sinks, all_locked : BOOLEAN,
     shuffled : BOOLEAN]

\* Every variable has its type, and the room a record takes at the first
\* accepting sink is enough for the sinks after it, whatever their filters say
\* and whichever of them throw: the assertion of push_back_accepting_sink
\* (core.cpp:154).
CoreTypeOK ==
    /\ m_enabled \in BOOLEAN
    /\ m_sinks \in Seq(OwnSinks)
    /\ m_filter \subseteq Levels
    /\ m_exception_handler \in Handlers
    /\ m_mutex \in [writer : SUBSET CoreThreads, readers : SUBSET CoreThreads]
    /\ m_thread_data \subseteq CoreThreads
    /\ m_Filter \in [Sinks -> SUBSET Levels]
    /\ m_ExceptionHandler \in [Sinks -> Handlers \cup {"none"}]
    /\ m_BackendMutex \in [Sinks -> SUBSET CoreThreads]
    /\ app \subseteq OwnSinks
    /\ core_pc \in [CoreThreads -> Labels]
    /\ frame \in [CoreThreads -> Frames]
    /\ \A t \in CoreThreads : Len(frame[t].accepting) <= frame[t].capacity
    /\ opened \in [CoreThreads -> 0 .. MaxOpened]
    /\ changes \in [CoreThreads -> 0 .. MaxChanges]
    /\ consumed \in [Sinks -> Seq(CoreRecords)]
    /\ failed \subseteq CoreRecords \X Sinks
    /\ threw \subseteq CoreRecords

\* When push_record_move returns normally from its loop, every accepting sink
\* that was still alive has consumed the record or failed on it: the swapping
\* of pointers in the loop, the retries and the skipping of failed sinks lose
\* none (core.cpp:702-751).
PushServesAll ==
    [][\A t \in CoreThreads :
          core_pc[t] = "try" /\ core_pc'[t] = "idle" =>
             \A s \in frame[t].held :
                \/ opened_rec(t) \in Range(consumed[s])
                \/ <<opened_rec(t), s>> \in failed]_loggingVars

\* No backend gets a record twice, nor again after it threw on it: a sink is
\* in the core's list at most once (core.cpp:514-521) and leaves the range of
\* pointers when it has been served.
AtMostOnce ==
    \A s \in Sinks :
       /\ IsInjective(consumed[s])
       /\ \A r \in Range(consumed[s]) : <<r, s>> \notin failed

\* The list of sinks does not change under a thread that goes through it in
\* open_record or in flush: its iterators stay valid (core.cpp:345-349, :626-640).
SinksStable ==
    [][(\E t \in CoreThreads : core_pc[t] \in {"filter", "flush"}) => m_sinks' = m_sinks]_loggingVars

\* With an exception handler that does not throw installed in the core, no
\* filter or backend makes open_record or push_record_move throw
\* (core.cpp:372-391, :458-463, :739-761).
HandlerShields == Handlers = {"absorbs"} => threw = {}

\* No open_record, push_record_move or flush is under way: no thread waits
\* for the core's mutex or for a backend, and none is in the loop of
\* push_record_move.
AllReturned == \A t \in CoreThreads : core_pc[t] \in {"idle", "opened"}
=============================================================================
