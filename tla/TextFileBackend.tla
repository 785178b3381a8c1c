---------------------------- MODULE TextFileBackend ----------------------------
(***************************************************************************)
(* sinks::text_file_backend: records are appended to a file, which is      *)
(* rotated by size, by time and at the end, and handed to the collector.   *)
(* Backends run in different threads; within one backend the frontend      *)
(* serializes the calls.  A step is the part of a call between two         *)
(* operations on the file system that other backends can see.              *)
(*                                                                         *)
(* A record has one character and, with AutoNewline, a newline.  A write   *)
(* fails when the disk is full; opening and moving files may fail at any   *)
(* time, MaxFaults times.  Contents are what the streams were given:       *)
(* buffering is left out.                                                  *)
(*                                                                         *)
(* The open and the close handler of a backend, if it has them, write one  *)
(* character each, a header and a footer, or throw before they write.      *)
(***************************************************************************)
EXTENDS FileCollector

CONSTANTS Configs,        \* the configurations of the backends to consider
          AutoNewline,    \* m_AutoNewlineMode
          InitialFiles,   \* the file system at the start
          MaxRecords,     \* bound: records consumed by one backend
          MaxCalls,       \* bound: calls of rotate_file, scan_for_files and the destructor
          MaxFaults       \* bound: file operations that fail

VARIABLES config,         \* the configuration of each backend
          backend,        \* the implementation data of each backend
          pc, local,      \* the call each backend is in
          consumed, faults, calls, now,
          scanned         \* history: backends that have scanned the storage since their start

threadVars == <<pc, local, consumed, faults, calls, now, scanned>>
vars == <<diskVars, collectorVars, config, backend, threadVars>>

(* implementation::implementation.  is_open and good are the state of m_File; *)
(* announced is history: the place where consume calls the open handler has   *)
(* been passed for the file, and the close handler has not returned for it.   *)
NewBackend ==
  [is_open |-> FALSE, good |-> TRUE, m_FileName |-> NoPath, m_CharactersWritten |-> 0,
   m_FileCounter |-> 0, m_FileCounterIsLastUsed |-> FALSE, m_IsFirstFile |-> TRUE,
   announced |-> FALSE]

NoCall == [prev |-> NoPath, use_prev |-> FALSE, last |-> 0, src |-> NoPath, info |-> <<>>,
           then |-> "idle"]

Init ==
  /\ fs = InitialFiles
  /\ written_at = [p \in DOMAIN fs |-> 0]
  /\ m_Files = <<>> /\ m_TotalSize = 0 /\ holders = Backends /\ refused = {}
  /\ limits = FoldSet(Strictest, CHOOSE l \in Range(Limits) : TRUE, Range(Limits))
  /\ config \in Configs
  /\ backend = [b \in Backends |-> NewBackend]
  /\ pc = [b \in Backends |-> "idle"]
  /\ local = [b \in Backends |-> NoCall]
  /\ consumed = [b \in Backends |-> 0]
  /\ faults = 0 /\ calls = 0 /\ now = 0
  /\ scanned = {}

(* m_FileNameGenerator and m_TargetFileNameGenerator, with the directories. *)
FileName(b, n) == <<config[b].dir, config[b].base, IF config[b].counter THEN n ELSE 0, 0>>
TargetFileName(b, n) == <<config[b].target, config[b].base, n, 0>>

RecordOf(b) == <<b, consumed[b]>>
Message(b) == IF AutoNewline THEN <<RecordOf(b), "newline">> ELSE <<RecordOf(b)>>

Exists(path) == path \in DOMAIN fs

Header(b) == <<b, "header", 0>>
Footer(b) == <<b, "footer", 0>>

SetPc(b, to) == pc' = [pc EXCEPT ![b] = to]

-----------------------------------------------------------------------------
(* close_file *)

(* The file is closed without a close handler, and with one. *)
ClosedQuietly(be) == [be EXCEPT !.is_open = FALSE, !.good = TRUE, !.m_CharactersWritten = 0,
                                !.m_FileName = NoPath]
Closed(be) == [ClosedQuietly(be) EXCEPT !.announced = be.announced /\ ~be.is_open]

(* Before the file is closed the stream is cleared and the close handler     *)
(* called, whose footer is written if the disk has room for it by now.       *)
close_file(b) ==
  LET name == backend[b].m_FileName
      footed == /\ config[b].handlers /\ backend[b].is_open
                /\ Exists(name) /\ available({}) > 0
  IN  /\ backend' = [backend EXCEPT ![b] = Closed(@)]
      /\ IF footed THEN /\ fs' = [fs EXCEPT ![name] = Append(@, Footer(b))]
                        /\ written_at' = [written_at EXCEPT ![name] = now]
                   ELSE UNCHANGED diskVars

(* The close handler throws: the file stays open, and its stream is in order. *)
close_file_throws(b) ==
  /\ config[b].handlers /\ backend[b].is_open
  /\ faults < MaxFaults
  /\ faults' = faults + 1
  /\ UNCHANGED <<diskVars, collectorVars, config, now, scanned>>

-----------------------------------------------------------------------------
(* rotate_file, and store_file for it *)

(* rotate_file, the start: the file is closed. *)
StartRotation(b, call) ==
  /\ close_file(b)
  /\ local' = [local EXCEPT ![b] = [call EXCEPT !.src = backend[b].m_FileName]]
  /\ SetPc(b, "rotate")

(* The file gets its target name, if there is a target pattern, and goes to  *)
(* the collector.                                                            *)
rotate(b) ==
  /\ pc[b] = "rotate"
  /\ LET src == local[b].src
         new == TargetFileName(b, backend[b].m_FileCounter)
         renamed == config[b].target # "" /\ new # src
     IN  IF Exists(src)
           THEN /\ fs' = IF renamed THEN [p \in (DOMAIN fs \ {src}) \cup {new} |->
                                            IF p = new THEN fs[src] ELSE fs[p]]
                                    ELSE fs
                /\ written_at' = [p \in DOMAIN fs' |-> IF renamed /\ p = new THEN written_at[src]
                                                                              ELSE written_at[p]]
                /\ local' = [local EXCEPT ![b].src = IF renamed THEN new ELSE src]
                /\ SetPc(b, IF config[b].collector THEN "store_name" ELSE local[b].then)
           ELSE SetPc(b, local[b].then) /\ UNCHANGED <<diskVars, local>>
  /\ UNCHANGED <<collectorVars, config, backend, consumed, faults, calls, now, scanned>>

(* An exception leaves the call; the destructor swallows it. *)
Thrown(b) == IF local[b].then = "destroyed" THEN "destroyed" ELSE "idle"

(* The renaming throws: the file stays where it is and is not stored. *)
rotate_fails(b) ==
  /\ pc[b] = "rotate"
  /\ Exists(local[b].src)
  /\ config[b].target # "" /\ TargetFileName(b, backend[b].m_FileCounter) # local[b].src
  /\ faults < MaxFaults
  /\ faults' = faults + 1
  /\ SetPc(b, Thrown(b))
  /\ UNCHANGED <<diskVars, collectorVars, config, backend, local, consumed, calls, now, scanned>>

store_file_name(b) ==
  /\ pc[b] = "store_name"
  /\ IF Exists(local[b].src) /\ (InTarget(local[b].src) \/ FreeAlts(local[b].src) # {})
       THEN /\ local' = [local EXCEPT ![b].info = StoreInfo(local[b].src)]
            /\ SetPc(b, "store")
       ELSE SetPc(b, Thrown(b)) /\ UNCHANGED local
  /\ UNCHANGED <<diskVars, collectorVars, config, backend, consumed, faults, calls, now, scanned>>

store(b) ==
  /\ pc[b] = "store"
  /\ \E locked \in SUBSET {m_Files[i].m_Path : i \in DOMAIN m_Files}, moved \in BOOLEAN :
       /\ faults' = faults + Cardinality(locked) + (IF moved THEN 0 ELSE 1)
       /\ faults' <= MaxFaults
       /\ store_file(local[b].src, local[b].info, locked, moved)
       /\ SetPc(b, IF moved \/ InTarget(local[b].src) THEN local[b].then ELSE Thrown(b))
  /\ local' = [local EXCEPT ![b].src = NoPath, ![b].info = <<>>]
  /\ UNCHANGED <<config, backend, consumed, calls, now, scanned>>

-----------------------------------------------------------------------------
(* consume *)

(* Faulty variant: every file that failed is left behind. *)
RecoverStreamAnew(b, call) ==
  /\ close_file(b)
  /\ local' = [local EXCEPT ![b] = [call EXCEPT !.prev = NoPath]]
  /\ SetPc(b, "open")

(* The stream has failed: the file is closed, and its name used again if it  *)
(* is empty or missing; otherwise it goes to the collector as it is.         *)
RecoverStream(b, call) ==
  LET prev == backend[b].m_FileName
      empty == ~Exists(prev) \/ fs'[prev] = <<>>
  IN  /\ close_file(b)
      /\ local' = [local EXCEPT ![b] = [call EXCEPT !.prev = prev, !.use_prev = empty, !.src = prev]]
      /\ SetPc(b, IF ~empty /\ config[b].collector THEN "store_name" ELSE "open")

(* Faulty variant: the size may be reached. *)
RotatesLate(b, size) == size + 1 > config[b].rotation_size

(* The record would reach the rotation size. *)
Rotates(b, size) == size + 1 >= config[b].rotation_size

(* Rotation by time may happen whenever it is configured. *)
RotationDue(b) == Rotates(b, backend[b].m_CharactersWritten) \/ config[b].timed

(* consume, the start. *)
consume(b) ==
  /\ pc[b] = "idle"
  /\ consumed[b] < MaxRecords
  /\ consumed' = [consumed EXCEPT ![b] = @ + 1]
  /\ LET be == backend[b]
         call == [NoCall EXCEPT !.last = (be.m_FileCounter - 1) % 2 ^ CounterWidth, !.then = "open"]
     IN  \/ ~be.good /\ RecoverStream(b, call)
         \/ /\ be.good /\ be.is_open
            /\ RotationDue(b)
            /\ StartRotation(b, call)
         \/ /\ be.good
            /\ ~(be.is_open /\ Rotates(b, be.m_CharactersWritten))
            /\ SetPc(b, IF be.is_open THEN "write" ELSE "open")
            /\ local' = [local EXCEPT ![b] = call]
            /\ UNCHANGED <<backend, diskVars>>
  /\ UNCHANGED <<collectorVars, config, faults, calls, now, scanned>>

(* consume, when the file has to be closed and the close handler throws: the *)
(* record is lost.                                                           *)
consume_throws(b) ==
  /\ pc[b] = "idle"
  /\ consumed[b] < MaxRecords
  /\ consumed' = [consumed EXCEPT ![b] = @ + 1]
  /\ ~backend[b].good \/ RotationDue(b)
  /\ close_file_throws(b)
  /\ backend' = [backend EXCEPT ![b].good = TRUE]
  /\ UNCHANGED <<pc, local, calls>>

is_in_storage(path) == InTarget(path) /\ Exists(path)

(* The last file is opened again only by the first open in append mode, and  *)
(* only if it has not been moved away.                                       *)
ReopensLast(b) ==
  LET last == FileName(b, backend[b].m_FileCounter)
  IN  /\ backend[b].m_IsFirstFile /\ config[b].app
      /\ IF config[b].collector THEN is_in_storage(last) ELSE Exists(last)

(* Faulty variant: the counter does not wrap around. *)
NextCounterUnbounded(b) ==
  IF backend[b].m_FileCounterIsLastUsed /\ ~ReopensLast(b)
    THEN backend[b].m_FileCounter + 1
    ELSE backend[b].m_FileCounter

(* The counter of the next file. *)
NextCounter(b) ==
  IF backend[b].m_FileCounterIsLastUsed /\ ~ReopensLast(b)
    THEN (backend[b].m_FileCounter + 1) % 2 ^ CounterWidth
    ELSE backend[b].m_FileCounter

(* The backend after its choice of a file name, and that name. *)
Numbered(b) ==
  IF local[b].use_prev THEN backend[b]
                       ELSE [backend[b] EXCEPT !.m_FileCounter = NextCounter(b),
                                               !.m_FileCounterIsLastUsed = TRUE]
NewFileName(b) == IF local[b].use_prev THEN local[b].prev ELSE FileName(b, NextCounter(b))

(* A turn of the loop in consume that fails to open a file: create_directories *)
(* refuses an empty name, or the stream cannot be opened.                      *)
open_fails(b) ==
  /\ pc[b] = "open"
  /\ SetPc(b, "idle")
  /\ \/ NewFileName(b) = NoPath /\ UNCHANGED <<backend, faults>>
     \/ /\ NewFileName(b) # NoPath
        /\ faults < MaxFaults
        /\ faults' = faults + 1
        /\ backend' = [backend EXCEPT ![b] = [Numbered(b) EXCEPT !.good = FALSE]]
  /\ UNCHANGED <<diskVars, collectorVars, config, local, consumed, calls, now, scanned>>

(* The file that was opened is full already, and there are counters left. *)
Skips(b, be) ==
  /\ be.m_CharactersWritten > 0
  /\ Rotates(b, be.m_CharactersWritten)
  /\ be.m_FileCounter # local[b].last

(* The file under the new name: its content before the open handler runs. *)
OldContent(b) ==
  IF config[b].app /\ Exists(NewFileName(b)) THEN fs[NewFileName(b)] ELSE <<>>

(* The backend with the file open, before the open handler runs. *)
Opened(b) ==
  [Numbered(b) EXCEPT !.is_open = TRUE, !.m_FileName = NewFileName(b), !.m_IsFirstFile = FALSE,
                      !.m_CharactersWritten = Len(OldContent(b))]

(* The header is written if the disk has room for it; otherwise the stream    *)
(* fails.                                                                     *)
HeaderFits(b) ==
  TotalSize(DOMAIN fs \ {NewFileName(b)}) + Len(OldContent(b)) < DiskSize

(* Faulty variant: the open handler is called before the size is looked at. *)
AnnouncedFirst(b, be, skips) ==
  [(IF skips THEN ClosedQuietly(be) ELSE be) EXCEPT !.announced = TRUE]

(* A full file is closed without its handler; otherwise the open handler is  *)
(* called and the position in the file read again, -1 if the stream failed.  *)
Announced(b, be, skips) ==
  IF skips THEN ClosedQuietly(be)
  ELSE IF ~config[b].handlers THEN [be EXCEPT !.announced = TRUE]
  ELSE [be EXCEPT !.announced = TRUE, !.good = HeaderFits(b),
                  !.m_CharactersWritten = IF HeaderFits(b) THEN @ + 1 ELSE -1]

(* The file under the new name gets this content. *)
Creates(b, content) ==
  /\ fs' = [p \in DOMAIN fs \cup {NewFileName(b)} |->
              IF p = NewFileName(b) THEN content ELSE fs[p]]
  /\ written_at' = [p \in DOMAIN fs' |->
                      IF p = NewFileName(b) /\ (content # OldContent(b) \/ content = <<>>)
                        THEN now ELSE written_at[p]]

(* A turn of the loop that opens a file.  A full file is rotated at once.    *)
open_file(b) ==
  /\ pc[b] = "open"
  /\ NewFileName(b) # NoPath
  /\ LET skips == Skips(b, Opened(b))
         headed == ~skips /\ config[b].handlers /\ HeaderFits(b)
     IN  /\ Creates(b, IF headed THEN Append(OldContent(b), Header(b)) ELSE OldContent(b))
         /\ backend' = [backend EXCEPT ![b] = Announced(b, Opened(b), skips)]
         /\ local' = [local EXCEPT ![b].src = IF skips THEN NewFileName(b) ELSE NoPath,
                                   ![b].use_prev = FALSE, ![b].prev = NoPath]
         /\ SetPc(b, IF skips THEN "rotate" ELSE "write")
  /\ UNCHANGED <<collectorVars, config, consumed, faults, calls, now, scanned>>

(* The open handler throws: the file stays open, the record is lost. *)
open_handler_throws(b) ==
  /\ pc[b] = "open"
  /\ NewFileName(b) # NoPath
  /\ config[b].handlers /\ ~Skips(b, Opened(b))
  /\ faults < MaxFaults
  /\ faults' = faults + 1
  /\ Creates(b, OldContent(b))
  /\ backend' = [backend EXCEPT ![b] = [Opened(b) EXCEPT !.announced = TRUE]]
  /\ local' = [local EXCEPT ![b] = NoCall]
  /\ SetPc(b, "idle")
  /\ UNCHANGED <<collectorVars, config, consumed, calls, now, scanned>>

(* The record is written, unless the stream has failed already; on a full    *)
(* disk it fails now.                                                        *)
write(b) ==
  /\ pc[b] = "write"
  /\ SetPc(b, "idle")
  /\ local' = [local EXCEPT ![b] = NoCall]
  /\ LET name == backend[b].m_FileName
         fits == backend[b].good /\ TotalSize(DOMAIN fs) + Len(Message(b)) <= DiskSize
     IN  /\ IF fits /\ Exists(name)
               THEN /\ fs' = [fs EXCEPT ![name] = @ \o Message(b)]
                    /\ written_at' = [written_at EXCEPT ![name] = now + 1]
                    /\ now' = now + 1
               ELSE UNCHANGED <<diskVars, now>>
         /\ backend' = [backend EXCEPT ![b].good = fits,
                                       ![b].m_CharactersWritten = @ + Len(Message(b))]
  /\ UNCHANGED <<collectorVars, config, consumed, faults, calls, scanned>>

-----------------------------------------------------------------------------
(* The other calls *)

Call(b) ==
  /\ pc[b] = "idle"
  /\ calls < MaxCalls
  /\ calls' = calls + 1

rotate_file(b) ==
  /\ Call(b)
  /\ StartRotation(b, NoCall)
  /\ UNCHANGED <<collectorVars, config, consumed, faults, now, scanned>>

rotate_file_throws(b) ==
  /\ Call(b)
  /\ close_file_throws(b)
  /\ backend' = [backend EXCEPT ![b].good = TRUE]
  /\ UNCHANGED <<pc, local, consumed>>

(* text_file_backend::scan_for_files with scan_matching: names made from the *)
(* pattern match it (the target pattern, if there is one), and the counter   *)
(* follows what was found, in whatever order the directory lists the files,  *)
(* unless the pattern has no counter.                                        *)
ScansCounter(b) == config[b].target # "" \/ config[b].counter

Matching(b) == {p \in DOMAIN fs : p[2] = config[b].base /\ p[4] = 0}

scan_matching(b) ==
  /\ Call(b)
  /\ config[b].collector
  /\ \E order \in SetToSeqs(Unlisted(Matching(b))) :
       LET found == LastCounter(order)
           be == backend[b]
       IN  /\ scan_for_files(order)
           /\ backend' = IF found = -1 \/ ~ScansCounter(b)
                            \/ (be.m_FileCounterIsLastUsed /\ ~IsLater(found, be.m_FileCounter))
                           THEN backend
                           ELSE [backend EXCEPT ![b].m_FileCounter = found,
                                                ![b].m_FileCounterIsLastUsed = TRUE]
  /\ scanned' = scanned \cup {b}
  /\ UNCHANGED <<config, pc, local, consumed, faults, now>>

scan_all(b) ==
  /\ Call(b)
  /\ config[b].collector
  /\ \E order \in SetToSeqs(Unlisted(DOMAIN fs)) : scan_for_files(order)
  /\ UNCHANGED <<config, backend, pc, local, consumed, faults, now, scanned>>

(* The destructor of the stream closes it without the close handler. *)
CloseStream(b) ==
  /\ backend' = [backend EXCEPT ![b] = ClosedQuietly(@)]
  /\ local' = [local EXCEPT ![b] = NoCall]
  /\ SetPc(b, "destroyed")

RotatesAtEnd(b) ==
  config[b].final_rotation /\ backend[b].is_open /\ backend[b].m_CharactersWritten > 0

(* The destructor: a last rotation if it is enabled and something has been   *)
(* written; otherwise, or if the close handler throws, the stream goes with  *)
(* the backend.                                                              *)
destroy(b) ==
  /\ Call(b)
  /\ IF RotatesAtEnd(b) THEN StartRotation(b, [NoCall EXCEPT !.then = "destroyed"])
                        ELSE CloseStream(b) /\ UNCHANGED diskVars
  /\ UNCHANGED <<collectorVars, config, consumed, faults, now, scanned>>

destroy_throws(b) ==
  /\ Call(b)
  /\ RotatesAtEnd(b)
  /\ close_file_throws(b)
  /\ CloseStream(b)
  /\ UNCHANGED consumed

(* The collector is released, and a new run of the program makes the backend *)
(* anew.                                                                      *)
release(b) ==
  /\ pc[b] = "destroyed"
  /\ SetPc(b, "none")
  /\ release_collector(b)
  /\ UNCHANGED <<diskVars, config, backend, local, consumed, faults, calls, now, scanned>>

construct(b) ==
  /\ pc[b] = "none"
  /\ SetPc(b, "idle")
  /\ get_collector(b)
  /\ backend' = [backend EXCEPT ![b] = NewBackend]
  /\ local' = [local EXCEPT ![b] = NoCall]
  /\ scanned' = scanned \ {b}
  /\ UNCHANGED <<diskVars, config, consumed, faults, calls, now>>

BackendStep(b) ==
  \/ rotate(b) \/ rotate_fails(b) \/ store_file_name(b) \/ store(b)
  \/ open_fails(b) \/ open_file(b) \/ open_handler_throws(b) \/ write(b) \/ release(b)

Next ==
  \E b \in Backends :
    \/ consume(b) \/ rotate_file(b) \/ scan_matching(b) \/ scan_all(b) \/ destroy(b) \/ construct(b)
    \/ consume_throws(b) \/ rotate_file_throws(b) \/ destroy_throws(b)
    \/ BackendStep(b)

Spec == Init /\ [][Next]_vars

(* A call that has begun goes on. *)
Fairness == \A b \in Backends : WF_vars(BackendStep(b))

FairSpec == Spec /\ Fairness

-----------------------------------------------------------------------------
(* What the file sink promises *)

TypeOK ==
  /\ DOMAIN written_at = DOMAIN fs
  /\ m_TotalSize \in Nat
  /\ \A b \in Backends : /\ backend[b].m_FileCounter \in 0 .. UIntMax
                         /\ backend[b].is_open => backend[b].m_FileName # NoPath
  /\ faults \in 0 .. MaxFaults

(* What the collector believes about the storage is true: no file is listed  *)
(* twice, and the total size, which decides about deletions, is the sum of   *)
(* the sizes listed, however stores, failures and scans follow each other.   *)
TotalSizeExact ==
  /\ m_TotalSize = FoldSeq(LAMBDA info, sum : info.m_Size + sum, 0, m_Files)
  /\ \A i, j \in DOMAIN m_Files : m_Files[i].m_Path = m_Files[j].m_Path => i = j

(* When a file has been stored, the three restrictions hold (total size,     *)
(* number of files and free space on the disk), or every older file could    *)
(* not be erased.                                                            *)
KeepsLimits ==
  /\ \E b \in Backends : pc[b] = "store" /\ pc'[b] # "store"
  /\ m_Files' # <<>> /\ Last(m_Files') \notin ToSet(m_Files)
  => \/ /\ m_TotalSize' <= limits.m_MaxSize /\ Len(m_Files') <= limits.m_MaxFiles
        /\ limits.m_MinFreeSpace <= available({})'
     \/ \A i \in 1 .. Len(m_Files') - 1 : m_Files'[i].m_Path \in refused'

StoreKeepsLimits == [][KeepsLimits]_vars

RecordsIn(files) == UNION {Range(files[p]) : p \in DOMAIN files}

RecordsOf(path) == IF Exists(path) THEN Range(fs[path]) ELSE {}

(* A record that has been written stays in some file, through rotation,      *)
(* renaming, moving, failures and restarts: it disappears only with a file   *)
(* that the collector erases for its restrictions, when a file is opened in  *)
(* truncating mode, or when a target name is used again.  The names of two   *)
(* backends are never the same, as the documentation asks for.               *)
KeepsRecords ==
  \A r \in RecordsIn(fs) \ RecordsIn(fs') :
    \/ \E i \in DOMAIN m_Files : r \in RecordsOf(m_Files[i].m_Path) /\ m_Files[i].m_Path \notin DOMAIN fs'
    \/ \E b \in Backends :
         \/ pc[b] = "open" /\ ~config[b].app /\ r \in RecordsOf(NewFileName(b))
         \/ pc[b] = "rotate" /\ r \in RecordsOf(TargetFileName(b, backend[b].m_FileCounter))

RecordsKept == [][KeepsRecords]_vars

(* The handlers come in pairs: a file is open exactly if its open handler    *)
(* has been called and its close handler has not returned, also when full    *)
(* files are skipped, when streams fail and when a handler throws.  Left out *)
(* is the end of a backend: without a final rotation the destructor closes   *)
(* the file without its close handler, although set_close_handler says "The  *)
(* handler will be called every time the backend closes a temporary file".   *)
HandlersPaired ==
  \A b \in Backends :
    pc[b] \notin {"destroyed", "none"} => (backend[b].is_open <=> backend[b].announced)

(* A full disk does not litter the directory with empty files: as long as    *)
(* files are closed by consume alone, a backend leaves one, and another one  *)
(* for every operation that has failed.  A file with only a header is not    *)
(* empty, and is not used again.                                             *)
FewEmptyFiles ==
  calls = 0 => \A b \in Backends :
    Cardinality({p \in DOMAIN fs : p[2] = config[b].base /\ fs[p] = <<>>}) <= 1 + faults

(* m_FileRotationSize bounds the files that are written in truncating mode,  *)
(* whatever happens to the stream and the handlers: only the first record    *)
(* after the header, the newline after the last one and the footer, which    *)
(* are written without a look at the size, make a larger one.                *)
FileSizeBounded ==
  \A b \in Backends : ~config[b].app =>
    LET length(text) == IF text THEN 1 ELSE 0
        bound == Max({config[b].rotation_size - 1, length(config[b].handlers) + 1})
                   + length(AutoNewline) + length(config[b].handlers)
    IN  \A p \in DOMAIN fs \ DOMAIN InitialFiles : p[2] = config[b].base => Len(fs[p]) <= bound

(* After a scan the counter is not before that of any file found, although   *)
(* counters wrap around and a directory lists its files in any order, if the *)
(* counters found lie on one half of the circle.                             *)
Follows(a, b) == \E distance \in 0 .. 2 ^ (CounterWidth - 1) - 1 : a = (b + distance) % 2 ^ CounterWidth

FindsNewest ==
  \A b \in Backends :
    LET found == Unlisted(Matching(b))
        known == IF backend[b].m_FileCounterIsLastUsed THEN {backend[b].m_FileCounter} ELSE {}
        counters == {p[3] : p \in found} \cup known
    IN  /\ ScansCounter(b) /\ m_Files' # m_Files
        /\ b \in scanned' \ scanned
        /\ \E first \in counters : \A c \in counters : Follows(c, first)
        => \A c \in counters : Follows(backend'[b].m_FileCounter, c)

(* No backend is inside of a call. *)
AllReturned == \A b \in Backends : pc[b] \in {"idle", "none"}
=============================================================================
