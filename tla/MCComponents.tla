------------------------------ MODULE MCComponents -----------------------------
(***************************************************************************)
(* Instances for TLC of the components that stand on their own:            *)
(*   Fifo      unbounded_fifo_queue: two producers and an interrupter,     *)
(*             with any implementation of the event;                       *)
(*   Ordering  both ordering queues with every overflow strategy: two      *)
(*             producers and two keys;                                     *)
(*   Region    the shared memory of an interprocess queue;                 *)
(*   Files     two file sinks with one storage directory;                  *)
(*   Formatting  threads that format records while the formatter and the   *)
(*             locale change; the formatter throws for the first record;   *)
(*   Decorators  one record, with formatters nested two decorators deep;   *)
(*   Attributes  attribute sets and the values of a record;                *)
(*   Windows   the interprocess queue of Windows: two writers in one       *)
(*             process, one in another and a reader.                       *)
(* Global loggers (an executable and a shared library disagree on the type *)
(* of one tag), the mutex of Windows and the repository of attribute names *)
(* are parts too; their modules are extended, so that their properties are *)
(* the ones that ComponentProofs proves.                                   *)
(* A behaviour runs one of Parts, chosen at the start (part); the others   *)
(* stay in one of their initial states.                                    *)
(***************************************************************************)
EXTENDS InterprocessMutex, AttributeNames, GlobalLoggerStorage, TLC

CONSTANTS Parts,                         \* the parts to run
          p1, p2, i1, c,                 \* threads of Fifo and Ordering
          StoresInOrder, FifoRecords, FifoBuilds,
          QueueObjects, Incompatible,    \* queue objects of Region
          FileCalls,                     \* bound of Files
          FormatChanges,                 \* bound of Formatting
          SetData                        \* what the sets of Attributes hold

VARIABLES part,
          fifo_pc, fifo_calls, fifo_interruption, build, m_state, m_semaphore, fifo_event, asleep,
          m_Head, m_Tail, next, tail_mutex, node_to_free, constructed, freed, linked, popped,
          ord_pc, ord_calls, ord_interruption, strategy, m_queue, m_thread_contexts, consumer,
          remaining, interrupts, released,
          shm_pc, shm_calls, shm_faults, shm_name, segments, shm_size, m_ref_count, queue, mode,
          segment, ref_count, removes, leaked,
          file_pc, file_calls, file_faults, fs, written_at, m_Files, m_TotalSize, limits, holders,
          refused, config, backend, local, consumed, now, scanned,
          fmt_pc, m_Version, m_Formatter, m_Locale, backend_mutex, m_pContext, sent, changes, seen,
          delivered,
          sets, view, contents, values, acquired,
          win_pc, win_queue, win_calls, win_faults, timeouts, m_waiters, m_generation,
          m_semaphore_id, m_semaphore_info_list, m_current_semaphore, m_next_semaphore_id,
          semaphore, handle, generation, search, m_nonempty_queue, m_stop, blocks

Fifo == INSTANCE UnboundedFifoQueue
  WITH Producers <- {p1, p2}, Interrupters <- {i1}, Consumer <- c, MaxRecords <- FifoRecords,
       MaxInterrupts <- 1, Builds <- FifoBuilds,
       pc <- fifo_pc, calls <- fifo_calls, m_event <- fifo_event,
       m_interruption_requested <- fifo_interruption

Ordering == INSTANCE OrderingQueue
  WITH Producers <- {p1, p2}, Keys <- {1, 2}, MaxQueueSize <- 1, OrderingWindow <- 2,
       MaxRecords <- 1, MaxInterrupts <- 1,
       pc <- ord_pc, calls <- ord_calls, m_interruption_requested <- ord_interruption

(* Both modules use tag a, with different types; the initializer of the one  *)
(* in the executable may ask for the logger with tag b.                      *)
RequestedLoggers == {<<"exe", "a">>, <<"dso", "a">>}
AllLoggers == RequestedLoggers \cup {<<"exe", "b">>}
LoggerTypes == [l \in AllLoggers |-> IF l[1] = "dso" THEN "other" ELSE "logger"]

Region == INSTANCE IpcRegion
  WITH Objects <- QueueObjects, MaxSegments <- 3, MaxCalls <- 1, MaxFaults <- 1, MaxRemoves <- 1,
       pc <- shm_pc, calls <- shm_calls, faults <- shm_faults

Config(dir, base, app, rotation_size, final_rotation) ==
  [dir |-> dir, base |-> base, counter |-> TRUE, target |-> "", app |-> app,
   rotation_size |-> rotation_size, timed |-> FALSE, final_rotation |-> final_rotation,
   collector |-> TRUE, handlers |-> FALSE]

(* Backends that truncate their files and store them in the end, one of them *)
(* with handlers; one that writes in the storage and one that appends; one   *)
(* with a target pattern and one without a collector whose files are all     *)
(* full, both rotated by time.                                               *)
FileConfigs ==
  {[b1 |-> [Config("work", "b1", FALSE, 2, TRUE) EXCEPT !.handlers = TRUE],
    b2 |-> Config("work", "b2", FALSE, 2, TRUE)],
   [b1 |-> Config("storage", "b1", TRUE, 3, TRUE), b2 |-> Config("work", "b2", TRUE, 3, FALSE)],
   [b1 |-> [Config("work", "b1", FALSE, 3, FALSE) EXCEPT !.counter = FALSE, !.target = "target",
                                                         !.timed = TRUE],
    b2 |-> [Config("work", "b3", TRUE, 2, FALSE) EXCEPT !.timed = TRUE, !.collector = FALSE]]}

FileLimits(free, files) == [m_MaxSize |-> 3, m_MinFreeSpace |-> free, m_MaxFiles |-> files]

Files == INSTANCE TextFileBackend
  WITH Backends <- {"b1", "b2"}, StorageDir <- "storage", DiskSize <- 8, CounterWidth <- 2,
       AutoNewline <- FALSE, MaxRecords <- 2, MaxCalls <- FileCalls, MaxFaults <- 1,
       Configs <- FileConfigs, Limits <- [b1 |-> FileLimits(0, 3), b2 |-> FileLimits(1, 2)],
       InitialFiles <- [f \in {"storage"} \X {"b1"} \X {3, 0} \X {0} \cup {"work"} \X {"b3"} \X (0 .. 3) \X {0}
                          |-> << <<f[2], "old", f[3]>> >>],
       pc <- file_pc, calls <- file_calls, faults <- file_faults

Field(units, width, left) == [op |-> "field", units |-> units, width |-> width, left |-> left]
Put(unit) == [op |-> "put", unit |-> unit]
Write(units) == [op |-> "write", units |-> units]

(* The stream is bad when the formatter throws for the first record. *)
ThrowingFormatter ==
  <<Put("a"), [op |-> "require", absent |-> {1}, inserting |-> TRUE], Field(<<"b">>, 0, FALSE)>>

Formatting == INSTANCE FormattingFrontend
  WITH Threads <- {p1, p2}, Formatters <- {ThrowingFormatter}, Locales <- {"C", "de"},
       VersionCount <- 8, MaxRecords <- 2, MaxChanges <- FormatChanges, BufferSize <- 2,
       StorageMax <- 20, pc <- fmt_pc

Pair == <<"lead", "trail">>
PlainFormatters ==
  {<<Put("a"), Field(<<"a", "b">>, 0, FALSE)>>, <<Field(Pair, 3, FALSE), Put("a")>>,
   <<Put("a"), Field(Pair, 3, TRUE)>>, <<Put("a"), Put("a"), Write(<<"b">>)>>}

Decorated(S) ==
  {<<[op |-> "max_size", max |-> l[1], marker |-> l[2], sub |-> f]>> :
     l \in {<<1, <<>>>>, <<2, <<"m">>>>, <<3, <<>>>>, <<3, <<"m", "m">>>>}, f \in S}
  \cup
  {<<[op |-> "chars", sub |-> f, rules |-> <<[from |-> "a", to |-> <<"b", "b">>],
                                           [from |-> "b", to |-> Pair]>>]>> : f \in S}

Followed(S) == S \cup {Append(f, Put("a")) : f \in S}

Decorators == INSTANCE FormattingFrontend
  WITH Threads <- {i1}, Locales <- {"C"}, VersionCount <- 2, MaxRecords <- 1, MaxChanges <- 1,
       Formatters <- Followed({<<Put("a")>> \o f : f \in Decorated(Followed(Decorated(PlainFormatters)))}),
       BufferSize <- 2, StorageMax <- 20, pc <- fmt_pc

(* Three of the keys share a bucket. *)
Attributes == INSTANCE AttributeSets
  WITH Keys <- {0, 1, 2, 4}, BucketCount <- 2, Attributes <- SetData, MaxNodes <- 3, MaxInserts <- 1

(* The writer in a process of its own sends once and may be stopped. *)
Windows == INSTANCE WindowsMessageQueue
  WITH Threads <- {p1, p2, i1, c},
       ObjectOf <- [t \in {p1, p2, i1, c} |->
                      CASE t = i1 -> "other" [] t = c -> "reader" [] OTHER -> "writers"],
       WordModulus <- 4, Writers <- {p1, p2, i1}, Reader <- c, Controllers <- {c},
       Stoppable <- {"other"}, Capacity <- 1, BlockCounts <- {1},
       MaxCalls <- [t \in {p1, p2, i1, c} |-> IF t = i1 THEN 1 ELSE 2],
       MaxFaults <- 1, MaxTimeouts <- 1,
       queue <- win_queue, pc <- win_pc, calls <- win_calls, faults <- win_faults

fifoVars == <<fifo_pc, fifo_calls, fifo_interruption, build, m_state, m_semaphore, fifo_event, asleep,
              m_Head, m_Tail, next, tail_mutex, node_to_free, constructed, freed, linked, popped>>
orderingVars == <<ord_pc, ord_calls, ord_interruption, strategy, m_queue, m_thread_contexts,
                  consumer, remaining, interrupts, released>>
regionVars == <<shm_pc, shm_calls, shm_faults, shm_name, segments, shm_size, m_ref_count, queue,
                mode, segment, ref_count, removes, leaked>>
fileVars == <<file_pc, file_calls, file_faults, fs, written_at, m_Files, m_TotalSize, limits,
              holders, refused, config, backend, local, consumed, now, scanned>>
formatVars == <<fmt_pc, m_Version, m_Formatter, m_Locale, backend_mutex, m_pContext, sent, changes,
                seen, delivered>>
setVars == <<sets, view, contents, values, acquired>>
mutexVars == <<m_lock_state, m_event, aborted, pc, locks, aborts>>
windowsVars == <<win_pc, win_queue, win_calls, win_faults, timeouts, m_waiters, m_generation,
                 m_semaphore_id, m_semaphore_info_list, m_current_semaphore, m_next_semaphore_id,
                 semaphore, handle, generation, search, m_nonempty_queue, m_stop, blocks>>

(* Two of the threads, or of whatever stands for them in a part, are alike. *)
Alike == Permutations({p1, p2})

allVars == <<part, fifoVars, orderingVars, getVars, regionVars, fileVars, formatVars, setVars, nameVars,
          mutexVars, windowsVars>>

PartInit ==
  /\ part \in Parts
  /\ Fifo!Init /\ (part # "fifo" => build = "atomic")
  /\ Ordering!Init /\ (part # "ordering" => strategy = "block")
  /\ GetInit /\ (part # "globals" => nested)
  /\ Region!Init
  /\ Files!Init /\ (part # "files" => config = CHOOSE f \in FileConfigs : TRUE)
  /\ IF part = "formatting" THEN Formatting!Init /\ m_Locale = "C" ELSE Decorators!Init
  /\ Attributes!Init
  /\ NamesInit /\ (part # "names" => Range(wanted) = {"a"})
  /\ Init /\ Windows!Init

InFifo(A) ==
  /\ part = "fifo" /\ A
  /\ UNCHANGED <<part, orderingVars, getVars, regionVars, fileVars, formatVars, setVars, nameVars,
                 mutexVars, windowsVars>>
InOrdering(A) ==
  /\ part = "ordering" /\ A
  /\ UNCHANGED <<part, fifoVars, getVars, regionVars, fileVars, formatVars, setVars, nameVars,
                 mutexVars, windowsVars>>
InGlobals(A) ==
  /\ part = "globals" /\ A
  /\ UNCHANGED <<part, fifoVars, orderingVars, regionVars, fileVars, formatVars, setVars, nameVars,
                 mutexVars, windowsVars>>
InRegion(A) ==
  /\ part = "region" /\ A
  /\ UNCHANGED <<part, fifoVars, orderingVars, getVars, fileVars, formatVars, setVars, nameVars,
                 mutexVars, windowsVars>>
InFiles(A) ==
  /\ part = "files" /\ A
  /\ UNCHANGED <<part, fifoVars, orderingVars, getVars, regionVars, formatVars, setVars, nameVars,
                 mutexVars, windowsVars>>
InFormatting(A) ==
  /\ part = "formatting" /\ A
  /\ UNCHANGED <<part, fifoVars, orderingVars, getVars, regionVars, fileVars, setVars, nameVars,
                 mutexVars, windowsVars>>
InDecorators(A) ==
  /\ part = "decorators" /\ A
  /\ UNCHANGED <<part, fifoVars, orderingVars, getVars, regionVars, fileVars, setVars, nameVars,
                 mutexVars, windowsVars>>
InAttributes(A) ==
  /\ part = "attributes" /\ A
  /\ UNCHANGED <<part, fifoVars, orderingVars, getVars, regionVars, fileVars, formatVars, nameVars,
                 mutexVars, windowsVars>>
InNames(A) ==
  /\ part = "names" /\ A
  /\ UNCHANGED <<part, fifoVars, orderingVars, getVars, regionVars, fileVars, formatVars, setVars,
                 mutexVars, windowsVars>>
InMutex(A) ==
  /\ part = "mutex" /\ A
  /\ UNCHANGED <<part, fifoVars, orderingVars, getVars, regionVars, fileVars, formatVars, setVars,
                 nameVars, windowsVars>>
InWindows(A) ==
  /\ part = "windows" /\ A
  /\ UNCHANGED <<part, fifoVars, orderingVars, getVars, regionVars, fileVars, formatVars, setVars,
                 nameVars, mutexVars>>

PartNext ==
  \/ InFifo(Fifo!Next)
  \/ InOrdering(Ordering!Next)
  \/ InGlobals(GetNext)
  \/ InRegion(Region!Next)
  \/ InFiles(Files!Next)
  \/ InFormatting(Formatting!Next)
  \/ InDecorators(Decorators!Next)
  \/ InAttributes(Attributes!Next)
  \/ InNames(NamesNext)
  \/ InMutex(Next)
  \/ InWindows(Windows!Next)

PartSpec == PartInit /\ [][PartNext]_allVars

-----------------------------------------------------------------------------
(* The properties of the parts *)

(* What is said of a part holds for the behaviours that run it. *)
Only(p, P) == part = p => P

(* Every variable has its type. *)
PartsTypeOK ==
  /\ Only("fifo", Fifo!TypeOK) /\ Only("ordering", Ordering!TypeOK)
  /\ Only("globals", GetTypeOK) /\ Only("region", Region!TypeOK)
  /\ Only("files", Files!TypeOK) /\ Only("formatting", Formatting!TypeOK)
  /\ Only("decorators", Decorators!TypeOK) /\ Only("attributes", Attributes!TypeOK)
  /\ Only("names", NamesTypeOK)
  /\ Only("mutex", TypeOK) /\ Only("windows", Windows!TypeOK)

(* unbounded_fifo_queue: no thread reaches a deallocated node, and no value is *)
(* moved out before it has been constructed.                                   *)
ListMemorySafe == Only("fifo", Fifo!ListMemorySafe /\ Fifo!PoppedIsConstructed)

(* unbounded_fifo_queue: a value is constructed before it is moved out. *)
PoppedIsConstructed == Only("fifo", Fifo!PoppedIsConstructed)

(* unbounded_fifo_queue: each record leaves once, in the order of linking. *)
ImplementsFifo == Fifo!ImplementsFifo

(* The ordering queues: records of one window leave in order, but for those    *)
(* that have equal keys.                                                       *)
OrderedWithinWindow == Only("ordering", Ordering!OrderedWithinWindow)

(* The consumers do not sleep through a signal, an interruption or the moment  *)
(* a record is ready; a free slot has been offered to a blocked producer.  On  *)
(* Windows, each writer that has been notified finds a post of its own in its  *)
(* semaphore, one that has not finds no room, and the event of the reader is   *)
(* set while it waits beside messages.                                         *)
NoLostWakeup ==
  /\ Only("fifo", Fifo!NoLostWakeup)
  /\ Only("ordering", Ordering!WakesInTime /\ Ordering!FreeSlotsOffered)
  /\ Only("windows", Windows!NoLostWakeup)

(* The shared memory: the counter is the number of the attached objects, which *)
(* have a live queue that the name leads to.                                   *)
RegionInUse ==
  Only("region", Region!CountsHolders /\ Region!HoldersHaveQueue /\ Region!NameLeadsToQueue)

(* The file sinks: the collector knows the size of the storage. *)
TotalSizeExact == Only("files", Files!TotalSizeExact)

(* The file sinks: the rotation size bounds the files written in truncating    *)
(* mode, but for the first record, the newline and the handlers' text.         *)
FileSizeBounded == Only("files", Files!FileSizeBounded)

(* The file sinks: consume on a full disk leaves at most one empty file behind *)
(* per backend, and another one for every operation that failed.               *)
FewEmptyFiles == Only("files", Files!FewEmptyFiles)

(* The file sinks: until the destructor, which may close a file without its    *)
(* close handler, a file is open exactly between its open and close handlers.  *)
HandlersPaired == Only("files", Files!HandlersPaired)

(* The file sinks: a store restores the restrictions on size, number and free  *)
(* space, unless every older file could not be erased.                         *)
StoreKeepsLimits == [][Only("files", Files!KeepsLimits)]_allVars

(* The file sinks: a scan continues with the newest counter found, although    *)
(* counters wrap around.                                                       *)
ScanFindsNewest == [][Only("files", Files!FindsNewest)]_allVars

(* The file sinks: records disappear only as configured. *)
RecordsKept == [][Only("files", Files!KeepsRecords)]_allVars

(* The formatting frontend: the text of a record is composed with settings in  *)
(* force during the call.                                                      *)
FormattedAsConfigured == Formatting!FormattedAsConfigured

(* The formatting frontend: a record gets its own text and nothing else. *)
FormattedAlone == Only("formatting", Formatting!FormattedAlone)

(* Attribute sets are maps, and views of them their union by priority. *)
SetsMatchMaps == Only("attributes", Attributes!SetsMatchMaps)
=============================================================================
