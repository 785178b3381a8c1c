# TLA+ specifications of Boost.Log

This directory holds TLA+ models of the parts of Boost.Log in which threads,
processes, failures or long sequences of calls meet, the TLC configurations that
check them on small instances, and TLAPS proofs of the properties that matter most
for every value of the constants. Sources are named relative to `src/` of the
repository (`src/core.cpp`, `include/boost/log/...`).

`PROJECT.json` lists the parts of the library and which module models them, the
runs, the source lines of every definition, the hazards the properties answer to,
and the theorems.

## 1. The system and its hard parts

| Part | State | What is hard |
|------|-------|--------------|
| Logging core (`core.cpp`) | sink list, global filter, exception handler, one read-write mutex | a record is opened under the read lock but pushed without it; the list of accepting sinks is older than the push; exceptions cross filter, sink and core handlers |
| Sink frontends (synchronous, unlocked, default) | filter, handler, backend mutex | `try_consume` backs off from a busy backend and the core retries in another order |
| Formatting frontend and formatting streams | formatter and locale with a version, a context per thread | a context is renewed by a version read without the lock; what a formatter that throws leaves behind |
| Asynchronous frontend (`async_frontend.hpp`) | queue, `m_ActiveOperation`, stop and flush flags, dedicated thread | flags read without the lock, three kinds of feeder, wake-ups across two condition variables |
| Queues and overflow strategies | bounded and unbounded FIFO, bounded and unbounded ordering queues, `event`, `threadsafe_queue` | notification only on the empty-to-nonempty step, one wake-up per slot, coalesced events, two locks that meet on one node, timed waits |
| Interprocess message queue (POSIX, Windows) | shared ring of blocks, mutex, condition variables, reference count of the segment | processes that die holding the lock, wrap-around, creation and removal races, mutex and condition variable built from events and semaphores |
| File backend and collector | open file, counter, list of stored files and their total size | limits with files that cannot be removed, counter wrap-around, full disks, several sinks sharing a collector |
| Attribute sets and names, named scopes | hash buckets over a list, name repository, linked stacks and their copies | double-checked lookup, pointers between lists that are copied and swapped |
| Loggers, global loggers, `once_block` | features of a logger, threading model, repository of loggers, three-state flags | opening under a lock and pushing without it, initializers that throw or nest, one broadcast for all blocks |
| Parsers, setup, code conversion, other backends | almost none | text and operating system calls, not interleaving: not modelled |

Data flows from a logger to `core::open_record`, which asks the filters and fixes
the accepting sinks; `core::push_record` offers the record to these sinks with
`try_consume`, then with `consume`. A synchronous sink calls its backend under a
mutex; an asynchronous one queues the record for a feeding thread.

## 2. Modules

| Module | Models |
|--------|--------|
| `BoundedFifoQueue` | `bounded_fifo_queue` with `block_on_overflow` and `drop_on_overflow` |
| `AsyncSink` | `asynchronous_sink` over that queue |
| `RecordChannel` | what a FIFO sink queue promises: an in-order, exactly-once channel |
| `UnboundedFifoQueue` | `unbounded_fifo_queue`, `threadsafe_queue` and the four builds of `event` |
| `OrderingQueue` | both ordering queues with their overflow strategies and a clock |
| `LoggingCore` | the core and the synchronous, unlocked and default sinks |
| `LoggerSources` | logging statements and loggers with the severity, channel and exception handler features |
| `NamedScopes` | the stack of scopes of a thread and the copies that records take |
| `FormattingStream`, `FormattingFrontend` | the stream buffer, decorators, and the per-thread formatting context |
| `FileCollector`, `TextFileBackend` | the storage of rotated files, and the file backend |
| `AttributeSets`, `AttributeNames` | attribute sets and views of values; the name repository |
| `OnceBlock`, `GlobalLoggerStorage` | once blocks; singletons and the repository of global loggers |
| `IpcMessageQueue`, `MessageChannel` | `ipc::reliable_message_queue` on POSIX with processes that die; what it promises its reader |
| `IpcRegion` | creation, adoption, reference count and removal of its shared memory |
| `InterprocessMutex`, `InterprocessConditionVariable`, `WindowsMessageQueue` | the same queue on Windows and the primitives it is built from |
| `AsyncSinkProofs`, `LoggingCoreProofs`, `LoggerSourcesProofs`, `UnboundedFifoQueueProofs`, `OrderingQueueProofs`, `IpcMessageQueueProofs`, `IpcRegionProofs` | proofs about the module of that name |
| `ComponentProofs` | proofs about `AttributeNames`, `GlobalLoggerStorage` and `InterprocessMutex` |
| `MCFrontends`, `MCAsyncSink` | instances for TLC: the path of a record; the asynchronous sink alone |
| `MCIpcMessageQueue` | instances for TLC: the interprocess queue of POSIX |
| `MCComponents`, `MCComponentsLiveness` | instances for TLC: the components that stand on their own; what they and the frontends eventually do |

Definitions carry the names of the functions and members they model. Definitions
marked *Faulty variant* are not part of any specification: each is a plausible
slip in the code, kept to show that a property would notice it.

A module whose properties are both checked and proved is extended by the module that
TLC runs, so that both speak of the same definition. Modules that are extended
together must not share a name, which is why `LoggingCore` says `CoreInit`,
`core_pc` or `sink_consume` beside the `Init`, `pc` and `consume` of `AsyncSink`, and
`GlobalLoggerStorage` says `GetInit` and `get_pc` beside `InterprocessMutex`.

**Steps.** A step of a thread is what it does between two points where another
thread can interfere: one critical section, one access to an atomic, one call of a
backend, a filter or the operating system. A lock is a variable only where the code
holds it across two such steps. Memory is sequentially consistent, with one
exception: `UnboundedFifoQueue` lets the construction of a value become visible
after the relaxed store that publishes its node, when `StoresInOrder` is FALSE.
Flags that the code reads without a lock are read in steps of their own, so every
order of these reads and of the critical sections is explored. Condition variables
are sets of sleeping threads and wake spuriously where that makes a difference.

### 2.1 `BoundedFifoQueue` and `AsyncSink`

Queue state: `m_queue`, `m_interruption_requested`, the sleepers on `m_cond`, the
list `m_thread_contexts` of threads blocked in `on_overflow` and the `result` of
their wait. Frontend state: `m_ActiveOperation`, `m_StopRequested`,
`m_FlushRequested`, the frontend mutex, the sleepers on `m_BlockCond` and the
handle of the dedicated thread. Each thread has a control point `pc`, the feeding
operation `op` it is in and the record `rec` it holds. `enqueued`, `delivered`,
`dropped` and `goal` are history variables that no action reads.

| Code | Actions |
|------|---------|
| `consume`, `try_consume` | `log_record`, `try_consume`, `try_enqueue`, `consume`, `consume_wait`, `enqueue`, `leave_overflow` |
| `run`, `feed_records` | `run`, `feed_records`, `start_feeding_operation`, `do_feed_records`, `try_dequeue`, `feed_record`, `feed_record_throws`, `feed_end`, `flush_backend`, `scoped_flag`, `run_loop`, `dequeue_ready`, `complete_feeding_operation` |
| `flush` | `flush`, `flush_begin`, `flush_interrupt`, `flush_wait`, then the feeding actions |
| `stop`, destructor | `stop`, `stop_begin`, `stop_interrupt`, `stop_join` |

Abstractions: a record is `<<thread, number>>`; the backend consumes it or throws,
and then the frontend's handler absorbs the exception or lets it leave the feeding
operation. An exception that leaves the dedicated thread ends the program, so it
is not a step. User threads call `run` and `feed_records` only after the dedicated
thread, if there is one, has ended, as the reference requires.

### 2.2 `UnboundedFifoQueue` and `OrderingQueue`

The unbounded queue is modelled access by access: a producer links its node
(`link`), moves the tail (`move_tail`) and signals the event (`set_signalled`,
`exchange_state`, `notify`, as the build has it); the consumer follows the links
(`try_pop`), frees the node before, moves the value out (`move_value`) and waits. The
four builds of the event are the atomic with a futex-like wait, Windows events,
a POSIX semaphore, and a mutex with a condition variable.

In `OrderingQueue` a record carries its age instead of a time stamp, because the
code only compares the clock with time stamps, and `Tick` lets time pass between any
two steps. Records that the predicate does not tell apart may leave in any order, as
`std::priority_queue` allows, although the headers speak of a "stable record ordering".

### 2.3 `LoggingCore`

State: the core's `m_enabled`, `m_sinks`, `m_filter`, `m_exception_handler`, its
mutex as the set of readers and the writer, the threads with `m_thread_data`; of
each sink the filter, the handler and the backend mutex; `app`, the sinks the
application has a pointer to. A `frame` holds the locals of a thread's call: the
position `it`, the weak pointers `accepting` with their `capacity`, the range
`sinks` of locked pointers still to be served, and `held`, all of them.

| Code | Actions |
|------|---------|
| `open_record` | `open_record`, `init_thread_data`, `open_locked`, `open_rejected`, `global_filter_throws`, `apply_sink_filter`, `sink_filter_throws`, `open_done` |
| `push_record_move` | `push_record`, `lock_sink`, `sinks_locked`, `sink_try_consume`, `sink_try_consume_busy`, `next_pass`, `sink_consume`, `sink_feed_record`, `feed_throws`, `catch`, `catch_outer`, `push_done` |
| a record destroyed without being pushed | `drop_record` |
| `flush` | `core_flush`, `flush_sink`, `flush_throws`, `flush_done` |
| configuration | `set_logging_enabled`, `add_sink`, `remove_sink`, `remove_all_sinks`, `set_filter`, `set_exception_handler`, `set_sink_filter`, `set_sink_handler` |
| the last pointer to a sink | `release_sink` |

Abstractions: a record carries a level in place of its attribute values, and a
filter is the set of levels it passes; a handler is absent, absorbs or throws; a
sink in `Throwing` may throw from its filter, its backend or its flush. A sink is
destroyed when neither the application, nor the core's list, nor a pushing thread
holds it. The frontend's own mutex guards single reads and writes and is folded into
them.

### 2.4 `LoggerSources` and `NamedScopes`

A logging statement is a frame of a thread's stack: it opens a record under the
logger's lock with the values its request names, evaluates the streaming expression
without the lock, and pushes the record when the pump is destroyed, unless an
exception passes. Expressions may throw, and functions they call, or destructors
during unwinding, may log themselves, through the same or another logger; the streams
come from a pool with one stack per thread. Setters, copies, swaps and assignments of
loggers run in between. The default severity of a logger stands for a level like any
other. A logger's mutex is the application's: it is modelled without preference for
writers.

`NamedScopes` keeps the nodes, links, sizes and ownership flags of the lists as the
code does: entries of the thread's list live in the scopes themselves, those of a
copy in one allocated block.

### 2.5 Formatting

A character is a unit with the call that printed it, so that a property can tell
whose text comes out. The encoding has characters of two units, which are only
written whole; the stream buffer's put area, its size limit and its overflow flag are
those of the code. A `write` that does not fit makes the stream bad and throws where the
code does. Decorators bound (`max_size_decor`) or rewrite (`char_decor`, with rules
that do not shorten) the text of other formatters, nested two deep in the runs.
`FormattingFrontend` adds the contexts of the threads and the versions of the sink,
counted modulo `VersionCount`, which is larger than the number of changes in a
run, as 2^32 is for the program.

### 2.6 Files

A file is a path with a sequence of characters, a path is a directory, a base name, a
counter of `CounterWidth` bits and a mangling number. Backends run in threads of their
own and share one collector; a step is the part of a call between two operations on
the file system that others can see. Writes fail when the disk is full; opening,
moving and erasing may fail at any time. Rotation by time may happen before any record.
The open and close handlers write one character, a header and a footer, or throw before
they write. The header counts for the size of the file; the position of a stream that has
failed is -1, as in the code. A file that is full when it is opened is closed without
the handlers, and so is the file of a backend that is destroyed without a final
rotation. The backends of an instance use different file names: the documentation leaves
open what happens otherwise (`sink_backends.qbk:173`).

### 2.7 Attributes and global loggers

`AttributeSets` keeps the buckets with their first and last nodes over one list and
checks them against a map. A view that is frozen has no pointers into the sets any
more, so sets change only between views. In `AttributeNames` a step is a critical
section of the shared or of the exclusive lock. `GlobalLoggerStorage` uses the
once blocks of `OnceBlock` for the singletons of two modules of a process that
disagree on the type of one tag; an initializer may throw, or ask for another logger,
in which case it waits for the repository's mutex, which its own thread holds
(`WaitsForItself`). Nothing in the documentation promises otherwise; that state is
the one exception that the liveness property `CallsEnd` makes.

### 2.8 The interprocess queue

`IpcMessageQueue`: the `memory` of the ring, `m_size`, `m_put_pos`, `m_get_pos`, the
mutex (its holder, and whether it is consistent, left by a dead owner, or not
recoverable) and the sleepers on the two condition variables. `m_stop` belongs to the
object of a process. A thread has the method it is in (`call`), its argument (`arg`: the
length of the message to send, the size of the buffer to receive into) and, when it
receives, the `buffer` filled by the handler. `pending` and `received` are history
variables.

| Code | Actions |
|------|---------|
| `send`, `try_send` | `call_send`, `call_try_send`, `lock_queue`, `send_aborted`, `send_overflows`, `send_waits`, `enqueue_copy`, `enqueue_advance`, `enqueue_count` |
| `receive`, `try_receive` | `call_receive`, `call_try_receive`, `lock_queue`, `receive_aborted`, `receive_refused`, `receive_waits`, `dequeue_throws`, `dequeue_copy`, `dequeue_advance`, `dequeue_count` |
| `stop_local`, `reset_local`, `clear` | `call_stop_local`, `stop_local`, `reset_local`, `call_clear`, `clear` |
| `lock_queue`, `wait`, `auto_unlock` | `lock_queue`, `lock_fails`, `recover`, `relock`, `relock_fails`, `unwind`, `wake_spuriously` |
| a process dies and starts again | `crash`, `restart` |

Memory is an array of cells, a coarser unit than the byte, of which a block has
`BlockSize` and its header `HeaderOverhead`. A cell holds the length stored in a block
header or one unit of a message; writing one loses what was there, so the splitting of
a message at the end of the ring is checked and not assumed. Sizes are computed modulo
`WordModulus`, which stands for 2^32. The critical sections are cut into stages only
because a process may die between them. `MessageChannel` hands over whole messages in
order; it discards them (`Discard`) only in `clear` or after a process has died, since
the repair of the queue clears it. That a notification is never spent on a dead
thread is an assumption about the operating system.

`IpcRegion` has one step per system call on the name or the segment and per access to
`m_ref_count`. On Windows, `InterprocessMutex` has one step per atomic operation on its
word, `InterprocessConditionVariable` searches its semaphores count by count, and
`WindowsMessageQueue` uses it for the writers and an auto-reset event for the reader;
a message is the number of its blocks there, as the ring is that of POSIX.


## 3. What TLC checks

Most components have few threads and small state spaces, so several share a run: a
behaviour picks one *part* at the start and runs it, while the variables of the others
keep their initial values. `Only("part", P)` restricts a property to the behaviours of
its part. The runs switch the deadlock check off: when every thread has made the calls
its bound allows, nothing is left to do. That nobody gets stuck inside a call is what
the liveness properties say.

| Run | Parts and instances | Properties | States |
|-----|---------------------|-----------|--------|
| `frontends_safety` | the 7 parts of `MCFrontends` | see below | 563,006 |
| `ipc_crash` | 2 writers that block x 2 messages of 1 or 2 blocks or too long, ring of 3, 1 reader with a large and a small buffer, 1 death; and 1 writer that blocks or throws, 1 reader, each with a thread that stops, resets or clears, with a spurious wake-up | `RingHoldsPending`, `SleepersBlocked`, `ImplementsChannel` | 1,105,908 |
| `components_safety` | the 11 parts of `MCComponents` | see below | 793,763 |
| `components_liveness` | 6 of those parts, the POSIX queue with stop and clear, the asynchronous sink with a dedicated thread, 2 logging threads and 1 flush, the same with a thread that stops and then feeds, and the core with 2 logging threads, an administrator and handlers that absorb; fair | `HandlerShields`, `QueuesDrain`, `WaitsEnd`, `CallsEnd`, `FrontendCallsEnd` | 121,650 |

`frontends_safety` by part; the properties of the asynchronous sink are stated for every
behaviour, and those of the core too, as the variables of a part that does not run
stay as they are:

| Part | Instance | Properties |
|------|----------|-----------|
| dedicated | dedicated thread, 2 logging threads x 2 records, 1 flush, queue of 1, blocking | `TypeOK`, `FeedingExclusion`, `EveryRecordAccounted`, `PerThreadOrder`, `NoWakeupMissed`, `ImplementsChannel`, `FlushByCallerDrains` |
| stopped | the same with 1 logging thread and 1 stop | the same but `FlushByCallerDrains` |
| user_fed | no dedicated thread, 2 feeding threads, 1 flush, 1 stop, 1 logging thread x 2 records, dropping, a backend that throws | the same as stopped |
| core | 2 logging threads, an administrator with 2 reconfigurations, a synchronous sink that throws and an unlocked one | `CoreTypeOK`, `AtMostOnce`, `SinksStable`, `PushServesAll` |
| handlers | 2 threads with 2 and 1 calls, statements 2 deep, 2 loggers with every feature, sinks that throw | `RecordsTrue`, `PushedUnlessThrown` |
| nested | 1 thread with 4 calls, statements 3 deep, no exception handlers, filters and sinks that throw | `RecordsTrue`, `PushedUnlessThrown` |
| scopes | a stack of scopes 2 deep with 3 copies | `ScopesMatch` |

`components_safety` by part:

| Part | Instance | Properties |
|------|----------|-----------|
| fifo | 2 producers x 1 record, 1 interrupter, the 4 builds of the event | `ListMemorySafe`, `NoLostWakeup`, `ImplementsFifo` |
| ordering | 2 producers, 2 keys, window of 2, the 3 strategies, limit 1 | `OrderedWithinWindow`, `NoLostWakeup` |
| globals | 3 threads, an executable and a library that disagree on one type, 1 exception, nesting or not | `OneLogger` |
| region | 3 objects, one of another ABI, 3 segments, 1 failure or crash, 1 removal by hand | `RegionInUse` |
| files | 2 backends in 3 configurations (truncating, one with handlers; appending, one inside the storage; a target pattern, and no collector with full files, both rotated by time), disk of 8, 2-bit counters, limits on size, number and free space, 1 failure | `TotalSizeExact`, `FileSizeBounded`, `FewEmptyFiles`, `HandlersPaired`, `StoreKeepsLimits`, `ScanFindsNewest`, `RecordsKept` |
| formatting, decorators | 2 threads x 2 records and 2 changes, a formatter that throws; 1 record with decorators nested two deep | `FormattedAsConfigured` |
| attributes | 4 keys of which 3 share a bucket, 3 nodes | `SetsMatchMaps` |
| names | 3 threads, 3 names, 2 ids | `NamesAgree` |
| mutex | 3 threads x 2 locks, 1 abort | `MutexHandedOver` |
| windows | 2 writers in one process, 1 in another, 1 reader, 1 death or stop, 1 timeout | `NoLostWakeup` |

`PartsTypeOK` holds the type invariants of all the parts.

**Why these bounds.** A queue of one slot makes every record overflow it and every
removal empty it. Two logging threads are needed for a slot to be taken from under
a woken one; two records of one thread for its order. Two feeding threads meet in
`start_feeding_operation`, and with a flush all three kinds of feeder compete. In
the core, two sinks are the least on which the swapping loop, the shuffle and a
partial failure differ from serving one; two reconfigurations let a sink be removed
and released between the opening and the pushing of a record. In the interprocess
queue the lengths give an empty message, one that may wrap with nothing but its header
and one unit before the end of the ring, and one that exceeds the capacity; two blocked
writers whose messages differ in length are the least for which waking one of them is
not enough; a buffer of two units makes the handler throw on the second part of a
message that wraps. Three segments let a region be closed, created again and removed
by hand while somebody still adopts the first one. Two-bit file counters wrap within a
run. Three keys in a bucket have a first, a middle and a last node. Two ids for three
names exhaust the ids.

**Symmetry.** `frontends_safety` permutes the two logging threads of the sink and the core,
and the two user threads that feed; `components_safety` the agents `p1` and `p2`. They are
interchangeable in every part: they have the same
roles, bounds and constants, and where a set of the model is ordered (file backends,
keys, loggers) it is not made of them. The liveness run uses no symmetry.

**Fairness.** Weak fairness of the step of every thread that is inside a call: what can
go on eventually does. The operating system's scheduler gives that. Nothing is assumed
about what the application calls, about which waiter a notification wakes, or about who
gets a mutex next (a thread waits for a mutex in a step that is disabled while the mutex
is taken). The exceptions are the feeding loop, which comes back for more records
because `run` does, and time, which passes. In `components_liveness` one part runs at a
time, so fairness to an agent is fairness to the thread that it stands for in that
part. Calls, reconfigurations and spurious wake-ups are bounded, so readers do not
starve a writer for ever; the results are about the protocols, not about the starvation
behaviour of mutexes. For the same reason "every call returns" is stated as `<>[]`: in
the end all calls have returned.

### Disagreements between the code and what is said about it

Eight runs are expected to end in a counterexample.

* `async_flush_drains`, `FlushDrains`: the feeding thread finds the queue empty; a
  record is queued and `flush` is called; the feeding thread now reads
  `m_FlushRequested`, flushes the backend and clears the flag; `flush` returns and
  the record is still queued. The comment of `flush` (`async_frontend.hpp:453`)
  says it feeds all log records that may have been buffered. A flush that its
  caller carries out itself does (`FlushByCallerDrains`, theorem `CallerDrainsQueue`).
* `async_stop_returns`, `StopReturns`: a flush carried out by its caller ends
  between the request of `stop` and the moment the dedicated thread looks; its
  `complete_feeding_operation` resets `m_StopRequested` (`:521`) and `stop` joins a
  thread that never ends. The comment of `stop` (`:412`) says it will eventually
  return. Without the flush it does (part shutdown of `FrontendCallsEnd`).
* `async_flush_stranded`, `FlushTakesOver`: a feeding operation makes its last test of
  `m_FlushRequested`; `flush` finds it still active, sets the flag and sleeps; the operation
  completes. The loop of `flush` (`:466`) looks at the two flags and not at
  `m_ActiveOperation`, so it sleeps on, and unless somebody feeds again it never returns.
  The comment behind the loop (`:469`) says that it then does the flush itself. With a
  dedicated thread that nobody stops, `flush` returns (part feed of `FrontendCallsEnd`, and
  `DedicatedAnswers` in the theorem `NoLostWakeup`).
* `logger_handler`, `HandlerNotLockedOut`: a filter throws while a logger with the
  channel and exception handler features opens a record; `handle_exception` takes a
  shared lock on the mutex its own thread holds exclusively. The comment at
  `exception_handler_feature.hpp:197` says no locking is done there.
* `ipc_crash_unusable`, `MutexRecovers`: a process dies with the mutex held while
  another one has been woken from a wait. `wait` throws (`ipc_sync_wrappers.hpp:201`),
  the unwinding unlocks the mutex without `recover()`, and from then on every lock
  fails in every process. `lock_queue` recovers from the same situation
  (`ipc_reliable_message_queue.cpp:698`).
* `ipc_drops`, `DropsNothing`: after a death with the mutex held, `lock_queue` clears the
  queue (`ipc_reliable_message_queue.cpp:701`), and with it the messages that others have
  sent successfully. `reliable_message_queue.hpp:82` says that the queue drops none,
  except when its last user destroys it.
* `fifo_publication`, `PoppedIsConstructed`: where stores may be reordered, the relaxed
  store of `next` publishes a node before its value is constructed
  (`threadsafe_queue.cpp:133`; `threadsafe_queue.hpp:214` says `push` may run
  concurrently with `pop`). With stores in order it cannot (theorem `ValuesConstructed`).
* `formatting_residue`, `FormattedAlone`: characters that a formatter had put into the
  put area when it threw come out in front of the next record of the thread
  (`basic_sink_frontend.hpp:271`; `extension.qbk:75`).

Smaller disagreements the models show, which no run is kept for:

* `flush` makes threads blocked on a full queue give up their records
  (`block_on_overflow.hpp:124`; `sink_frontends.qbk:129` says they wait for room).
* A record opened before `remove_sink` and pushed after it still reaches the sink if
  something keeps the sink alive (`core.cpp:695`; `core.hpp:133`).
* A statement that logs inside the expression of another one leaves its severity in the
  thread's storage, where a deferred read of the outer statement's severity finds it
  (`severity_feature.hpp:76`; `sources.qbk:31`).
* Without a final rotation the destructor of the file backend closes the file without the
  close handler (`text_file_backend.cpp:1345`), although `set_close_handler` says it is
  called every time a file is closed (`text_file_backend.hpp:497`). `HandlersPaired`
  therefore ends with the life of the backend.
* Records with equal keys leave an ordering queue in any order; `unbounded_ordering_queue.hpp`
  and `bounded_ordering_queue.hpp` call the ordering stable. `OrderedWithinWindow` compares
  keys that differ.
* On a stopped object `receive` returns `aborted` even with messages waiting (`:475`);
  the comment of `stop_local` (`reliable_message_queue.hpp:442`) speaks of calls that would block.
* In a ring of more than 2^32 bytes, which `estimate_region_size` provides for, the room
  before the end is computed in 32 bits (`:742`, `:780`) and messages arrive truncated:
  hence the hypothesis `NoOverflow` of the proofs below.


## 4. What is proved

The theorems hold for every value of the constants: any number of threads, records,
sinks, sizes and calls. Temporal steps are propositional (PTL). Where a hypothesis is
needed it is a definition that the theorem names.

All proofs of preservation have the same outline. Actions are many and invariants have
many conjuncts, so a lemma (`Effects`, or one per phase) first says which few *kinds* of
step there are and what each kind changes; then every conjunct is preserved by every
kind.

| Module | Theorems |
|--------|----------|
| `AsyncSinkProofs` | `InductiveInvariant`, `TypeCorrect`, `ExclusiveFeeding`, `DeliveryInOrder`, `NoLostWakeup`, `OrderPerThread`, `RecordsAccounted`, `CallerDrainsQueue`, `Refinement` |
| `LoggingCoreProofs` | `RoomForAcceptingSinks`, `ServedAtMostOnce`, `ListStableWhileRead`, `PushServesEverySink`, `HandlerShieldsCallers` |
| `LoggerSourcesProofs` | `NoSharedAttribute`, `StreamPoolSound`, `PumpKnowsItsException`, `RecordsTrueToStatements` |
| `IpcMessageQueueProofs` | `RingIsConsistent`, `QueueIsChannel`, `NoLostWakeup` |
| `IpcRegionProofs` | `ReferencesCounted`, `HoldersUseLiveQueue`, `OneQueuePerName` |
| `UnboundedFifoQueueProofs` | `TwoLocksSuffice`, `ValuesConstructed`, `QueueIsFifo`, `EventNeverLost` |
| `OrderingQueueProofs` | `RecordsOrdered`, `ConsumerWakesInTime`, `LimitKept`, `SlotsOffered` |
| `ComponentProofs` | `NamesKeepIds`, `OneLoggerEach`, `MutexHandsOver` |

The theorems about the unbounded and ordering queues, the shared memory and the loggers
are about definitions that the runs check through an `INSTANCE` of the same module;
`HandlerShieldsCallers` is `HandlerShields` of the run `components_liveness`.

**Asynchronous sink.** `IInv` is `TypeOK`, the shape of feeding, that everything queued
was delivered, is in hand or waits in the queue, in order, the wake-up facts, and the
phase of every thread. The shape of feeding counts the threads inside a feeding
operation: at most one, and none when `m_ActiveOperation` is idle. That nobody sleeps in
vain is not inductive alone: a thread sleeping on `m_cond` has to be known to feed
(`SleepersFeed`), or a notification could be spent on another. `NoWakeupMissed` says of
a sleeper on `m_BlockCond` that its reason lasts, and that a dedicated thread which nobody
stops is going to clear `m_FlushRequested`; for that the invariant has who holds the frontend
mutex (`MutexHeld`) and where the dedicated thread can be (`DedicatedRuns`). Without such a
thread nothing answers: `async_flush_stranded`. Order per thread
follows from "a thread holds its latest record" (`HoldsLatest`) and "what it has queued is
ascending" (`EnqueuedInOrder`). `RecordsAccounted` needs `Settled`: a record is queued or
discarded only after its thread let go of it. `CallerDrainsQueue` assumes neither stop
nor exceptions: `DrainInv` says that a flusher inside its own feeding operation has
still to look at the queue unless everything up to its `goal` has been delivered. The
run `async_flush_drains` shows why it is about the caller's own flush only. `Refinement`
maps `enqueued` and `delivered` to the variables of `RecordChannel`.

**Core.** `CoreInv` is `CoreTypeOK`, a list of sinks without duplicates, `AtMostOnce`, and for
each thread what its locals mean: what it holds of the mutex; that a record it opens has
not been served; that accepting sinks number at most the places of the list it has passed
(`Admits`), so `capacity` suffices; that it is the owner of the backend mutex it feeds under;
and that the sinks it pushes to are the ones still to be served and those done, disjoint
and together all that were locked (`Serves`). The swaps and the shuffle permute only the
part still to be served. A reader holds the mutex of the list, whence `ListStableWhileRead`.

**Interprocess queue.** Positions are counted in blocks, wrap at the capacity, and contents
in cells. The first part of `IpcMessageQueueProofs` proves that the blocks of distinct pending messages are disjoint,
that copying a message in two parts around the end stores it where reading in two parts
finds it, and that both ends move as the sums of lengths say. These sums are over
sequences; what is proved about them goes by induction over a *set* of numbers, which the
provers can do (`SetInduction`). The invariant says at each stage of a critical section how
far memory, counters and history agree, and that with nobody inside and a consistent
mutex they agree entirely; a death leaves the mutex inconsistent and the next owner
clears the ring. That is the only `Discard` of the channel besides `clear`: the refinement
shows that a queue in which nobody died and nobody cleared loses nothing. Hypotheses: `NoOverflow`, the region is at most `WordModulus`
bytes and so is every length computed from an argument; for `NoLostWakeup` also
`SingleReader`, which the class requires (`reliable_message_queue.hpp:66`,
`utilities.qbk:427`): with two readers the notification on the empty-to-nonempty step is
not enough.

**Shared memory.** Counting holders is a cardinality, so `Finite` assumes finitely many
objects. The steps are of five kinds: nothing changes (`Goes`), an object creates a segment
(`Creates`), attaches (`Joins`), detaches (`Leaves`) or dies attached (`Dies`). The
invariant adds that a segment under construction is its creator's alone (`Alone`), that
a positive count means a live header (`Live`), and whom the name leads to (`Named`).

**Unbounded queue.** `ListInv` describes the list as a chain in the order of
linking, where the consumer's node, the nodes ahead of it and the nodes of producers that
have not moved the tail yet are distinct and allocated; that the consumer never follows a
link before it is set makes one lock on each side sufficient. `EventInv` says of each build
where a signal is that is owed to the consumer. Hypotheses: `Roles`, producers,
interrupters and consumer are different threads and there is one consumer, which the
frontend guarantees; `KnownBuilds`, the event is one of the four. `ValuesConstructed`
also assumes that stores become visible in program order.

**Ordering queues.** The queue is a set of records with ages, and `released` the history of those
taken out. `Once` says that a record is queued or released, and once; `Waited` that a record
released after its window is too old to be within the window of records to come, and that no
record still queued should have gone before it. `WakesInTime` bounds the remaining sleep of the
consumer by that of the record on top. `SlotsOffered` counts slots against blocked producers
and so assumes finitely many of them.

**Loggers.** One half of the invariant is about a thread: only its innermost statement is outside
of a streaming expression (`Nesting`), each pump has counted the exceptions of the statements
around it (`Unwinding`), the level in the thread's storage is that of each of its statements that
has not logged inside (`Levelled`), and streams in use and streams in the pool are apart
(`Streamed`). The other half is about the loggers: who holds which lock (`Locking`), and that
loggers, and the temporary copies of assignments, have channel attributes of their own
(`Separate`). With the channel feature the attribute has the channel of the statement
while the core reads it (`Channelled`). Hypothesis: `Numbered`, there are finitely many threads
and loggers, and loggers are numbered in the order in which the code locks two of them.

**Global loggers.** `GetInv` adds to `OneLogger` what a thread knows at each point of its request:
which once block it executes, that it holds the repository's mutex, which `impl` it has read,
and that a thread that sleeps on the shared condition variable has a block to wait for.

**Windows mutex and attribute names.** `MutexHandedOver` becomes inductive when the count of
waiters in the word of the mutex is related to the threads that have registered and not
left, and the event to the wake-up that is owed. `NamesAgree` becomes inductive with what
a thread knows between its two lookups (`NamesInv`): its name was absent then, and the
second lookup under the exclusive lock is what makes that harmless.

### What is only model-checked

* Everything about the future (`QueuesDrain`, `WaitsEnd`, `CallsEnd`, `FrontendCallsEnd`): fairness
  and ENABLED are beyond the prover.
* Properties of data computed by folds or searches, where induction over the data would be
  needed: those of the file sinks and `SetsMatchMaps`. `FormattedAsConfigured` and `ScopesMatch`
  belong to modules with RECURSIVE operators, which the prover does not read.
* The wake-ups of the Windows queue (part windows of `NoLostWakeup`): the generation counter of the
  condition variable wraps, and semaphores are searched for by count.

## 5. What is not modelled

* Text: file name patterns, settings, filters, formatters and date-time formats, character code
  conversion, names of operating system objects. Parsers and generators have no state
  beyond one call.
* Backends other than the text file backend: sequential output under the frontend's lock,
  or calls of operating system services.
* Attributes that compute a value with one read or one atomic addition (clocks, timers,
  counters, process and thread ids); global and thread attributes of the core, which are
  attribute sets under its lock.
* The library's mutexes, read-write mutexes and thread-specific storage: a mutex excludes, a
  read-write mutex admits readers together or one writer.
* Weak memory, apart from the store that publishes a node of the unbounded queue. In
  particular the load of the version of the formatting frontend is sequentially consistent.
* On Windows: reuse of handle values, the death of a process inside a critical section, the
  emulated test of a semaphore for zero, the limits on the number of semaphores and waiters,
  several readers, the creation of the shared memory, and system calls that fail.
* Interprocess queue on POSIX: system calls that fail for other reasons than those above.
