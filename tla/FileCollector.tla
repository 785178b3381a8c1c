----------------------------- MODULE FileCollector -----------------------------
(***************************************************************************)
(* sinks::file::collector as implemented by file_collector and             *)
(* file_collector_repository, with the part of the file system that the    *)
(* file sinks see.  A file is a path with its content, a sequence of       *)
(* characters; a path is <<directory, base name, counter, mangling>>.  The *)
(* disk holds DiskSize characters.                                         *)
(*                                                                         *)
(* Each operation on the storage is a critical section of m_Mutex, except  *)
(* the choice of a file name in store_file, which comes before it.         *)
(***************************************************************************)
EXTENDS Integers, Sequences, FiniteSets, SequencesExt, FiniteSetsExt, Functions

CONSTANTS Backends,       \* the file sink backends, which share the storage
          StorageDir,     \* the target directory
          Limits,         \* the restrictions each backend asks for
          DiskSize,
          CounterWidth    \* the width of unsigned int, in bits

VARIABLES fs,             \* the files: a function from paths to contents
          written_at,     \* last_write_time of each file
          m_Files,        \* the files the collector knows, oldest first
          m_TotalSize,
          limits,         \* m_MaxSize, m_MinFreeSpace and m_MaxFiles
          holders,        \* the backends that hold the collector
          refused         \* history: the files that could not be erased lately

diskVars == <<fs, written_at>>
collectorVars == <<m_Files, m_TotalSize, limits, holders, refused>>

NoPath == <<>>
Dir(path) == path[1]

UIntMax == 2 ^ CounterWidth - 1

SizeOf(path) == Len(fs[path])

TotalSize(paths) == Cardinality(UNION {{p} \X DOMAIN fs[p] : p \in paths})

available(erased) == DiskSize - TotalSize(DOMAIN fs \ erased)

-----------------------------------------------------------------------------
(* file_collector_repository::get_collector and the end of a collector *)

Strictest(a, b) ==
  [m_MaxSize |-> Min({a.m_MaxSize, b.m_MaxSize}),
   m_MinFreeSpace |-> Max({a.m_MinFreeSpace, b.m_MinFreeSpace}),
   m_MaxFiles |-> Min({a.m_MaxFiles, b.m_MaxFiles})]

(* The backend gets the collector of the directory, with the strictest of    *)
(* the restrictions, or a new one that knows no files.                       *)
get_collector(b) ==
  /\ holders' = holders \cup {b}
  /\ IF holders = {}
       THEN m_Files' = <<>> /\ m_TotalSize' = 0 /\ limits' = Limits[b]
       ELSE limits' = Strictest(limits, Limits[b]) /\ UNCHANGED <<m_Files, m_TotalSize>>
  /\ UNCHANGED refused

release_collector(b) ==
  /\ holders' = holders \ {b}
  /\ UNCHANGED <<m_Files, m_TotalSize, limits, refused>>

-----------------------------------------------------------------------------
(* file_collector::store_file *)

InTarget(src) == Dir(src) = StorageDir

(* The paths a file may get in the storage: its own name, then its name      *)
(* mangled with 0, 1, ... up to the largest unsigned int.                    *)
Candidate(src, alt) == <<StorageDir, src[2], src[3], alt>>

FreeAlts(src) == {alt \in 0 .. UIntMax + 1 : Candidate(src, alt) \notin DOMAIN fs}

(* Faulty variant: the file replaces the one with its name. *)
StoreInfoUnmangled(src) ==
  [m_Path |-> Candidate(src, 0), m_Size |-> SizeOf(src), m_TimeStamp |-> written_at[src]]

(* The first part, without the mutex: the size and the time are read and a   *)
(* name is looked for; none is left when FreeAlts is empty.                  *)
StoreInfo(src) ==
  [m_Path |-> IF InTarget(src) THEN src ELSE Candidate(src, Min(FreeAlts(src))),
   m_Size |-> SizeOf(src), m_TimeStamp |-> written_at[src]]

(* The list and the total size on which the loop below works. *)
Storage(files, total) == [files |-> files, total |-> total, erased |-> {}]

(* Faulty variant: an entry left from a scan stays. *)
WithOldEntry(src, info) == Storage(m_Files, m_TotalSize)

(* If the file is in the storage directory, a scan may have listed it        *)
(* already: that entry is dropped without erasing the file.                  *)
WithoutOldEntry(src, info) ==
  LET same == {i \in DOMAIN m_Files : m_Files[i].m_Path = info.m_Path}
  IN  IF InTarget(src) /\ same # {}
        THEN Storage(RemoveAt(m_Files, Min(same)), m_TotalSize - m_Files[Min(same)].m_Size)
        ELSE Storage(m_Files, m_TotalSize)

(* Faulty variant: the new file is not counted. *)
OverLimitsWithoutNew(s, info) ==
  \/ s.total > limits.m_MaxSize
  \/ limits.m_MinFreeSpace > 0 /\ limits.m_MinFreeSpace > available(s.erased)
  \/ limits.m_MaxFiles < Len(s.files)

OverLimits(s, info) ==
  \/ s.total + info.m_Size > limits.m_MaxSize
  \/ limits.m_MinFreeSpace > 0 /\ limits.m_MinFreeSpace > available(s.erased)
  \/ limits.m_MaxFiles <= Len(s.files)

Drop(s, info) ==
  [files |-> RemoveFirst(s.files, info), total |-> s.total - info.m_Size,
   erased |-> s.erased \cup {info.m_Path}]

(* The loop that erases old files: from the oldest on, while a restriction   *)
(* is exceeded.  A file that is gone leaves the list too; a file that cannot *)
(* be erased, one of the locked ones, stays.                                 *)
EraseOld(storage, new, locked) ==
  FoldLeft(LAMBDA s, info : IF OverLimits(s, new) /\ info.m_Path \notin locked \cap DOMAIN fs
                              THEN Drop(s, info) ELSE s,
           storage, storage.files)

(* The second part, under the mutex.  move_file replaces a file that has the *)
(* name already; if it fails (moved is FALSE) the file is not listed.        *)
store_file(src, info, locked, moved) ==
  LET old == EraseOld(WithoutOldEntry(src, info), info, locked)
      left == DOMAIN fs \ old.erased
      arrives == moved /\ ~InTarget(src)
      stored == moved \/ InTarget(src)
  IN  /\ fs' = [p \in IF arrives THEN (left \ {src}) \cup {info.m_Path} ELSE left |->
                  IF arrives /\ p = info.m_Path THEN fs[src] ELSE fs[p]]
      /\ written_at' = [p \in DOMAIN fs' |->
                          IF arrives /\ p = info.m_Path THEN written_at[src] ELSE written_at[p]]
      /\ m_Files' = IF stored THEN Append(old.files, info) ELSE old.files
      /\ m_TotalSize' = IF stored THEN old.total + info.m_Size ELSE old.total
      /\ refused' = locked
      /\ UNCHANGED <<limits, holders>>

-----------------------------------------------------------------------------
(* file_collector::scan_for_files *)

(* The files in the storage that the list does not have, which match the     *)
(* pattern: a base name for scan_matching, or all of them.                   *)
Unlisted(matching) ==
  {p \in DOMAIN fs : Dir(p) = StorageDir /\ p \in matching
                     /\ \A i \in DOMAIN m_Files : m_Files[i].m_Path # p}

Info(p) == [m_Path |-> p, m_Size |-> SizeOf(p), m_TimeStamp |-> written_at[p]]

(* Faulty variant: the counters are compared as they are. *)
IsLarger(a, b) == a >= b

(* a comes after b, or is b, on the circle of unsigned ints. *)
IsLater(a, b) == (a - b) % 2 ^ CounterWidth < 2 ^ (CounterWidth - 1)

(* last_file_counter after the files of the directory come in this order;    *)
(* the counter of a mangled name is not recognized.  -1 if there is none.    *)
LastCounter(order) ==
  FoldLeft(LAMBDA last, p : IF p[4] = 0 /\ (last = -1 \/ IsLater(p[3], last)) THEN p[3] ELSE last,
           -1, order)

(* list::sort by time, which is stable. *)
ByTime(files) ==
  FoldLeft(LAMBDA sorted, info :
             InsertAt(sorted, 1 + Cardinality({i \in DOMAIN sorted : sorted[i].m_TimeStamp <= info.m_TimeStamp}),
                      info),
           <<>>, files)

(* The directory lists the matching files in this order. *)
scan_for_files(order) ==
  /\ m_Files' = ByTime(m_Files \o [i \in DOMAIN order |-> Info(order[i])])
  /\ m_TotalSize' = m_TotalSize + TotalSize(ToSet(order))
  /\ UNCHANGED <<diskVars, limits, holders, refused>>
=============================================================================
