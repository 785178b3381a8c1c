------------------------- MODULE LoggingCoreProofs -------------------------
(***************************************************************************)
(* The safety of the logging core for any number of threads, sinks,        *)
(* records and operations.  The properties of LoggingCore speak of what    *)
(* has come out (consumed, failed) and are not inductive: they need what   *)
(* the locals of each thread, its frame, mean at each point of a call.     *)
(***************************************************************************)
EXTENDS LoggingCore, FiniteSetTheorems, SequenceTheorems, TLAPS

(* The provers, with their limits in seconds, for the leaves that name none.  *)
USE ZenonT(10), SMTT(30)

(* The sinks whose backends have been called for the record. *)
Reached(r) == {s \in Sinks : r \in Range(consumed[s]) \/ <<r, s>> \in failed}

(* A thread goes through the sinks only with the core's mutex. *)
Holding(t) ==
  /\ core_pc[t] = "filter" => t \in m_mutex.readers
  /\ core_pc[t] = "flush" => t \in m_mutex.writer

(* A thread inside open_record or push_record has a record. *)
Logging(t) ==
  core_pc[t] \notin {"idle", "flush"} => t \in Loggers /\ opened[t] \in 1 .. MaxOpened

(* The locals that are not used yet. *)
Unused(t) ==
  /\ core_pc[t] \in {"idle", "init", "open"} => frame[t].it = 1 /\ frame[t].accepting = <<>>
  /\ core_pc[t] \in {"idle", "init", "open", "filter", "opened"} =>
       frame[t].sinks = <<>> /\ frame[t].held = {}

(* The accepting sinks come from the part of the list that was gone through,  *)
(* each once, and there is room for the others.                               *)
Admits(f, list) ==
  /\ f.it \in 1 .. Len(list) + 1
  /\ IsInjective(f.accepting)
  /\ \A i \in DOMAIN f.accepting : \E j \in 1 .. f.it - 1 : f.accepting[i] = list[j]
  /\ f.accepting = <<>> \/ Len(f.accepting) + Len(list) + 1 <= f.capacity + f.it

Filtering(t) == core_pc[t] = "filter" => Admits(frame[t], active_sinks)

(* The pointers locked so far are those of accepting sinks, each once. *)
Locks(f) ==
  /\ f.it # 0
  /\ IsInjective(f.sinks)
  /\ \A i \in DOMAIN f.sinks : \E j \in 1 .. f.it - 1 : f.sinks[i] = f.accepting[j]
  /\ f.held = Range(f.sinks)

Locking(t) ==
  /\ core_pc[t] \in {"opened", "lock"} => IsInjective(frame[t].accepting)
  /\ core_pc[t] = "lock" => Locks(frame[t])

(* The sinks still to be served are the ones that the record has not reached, *)
(* except that the one whose exception is being handled is among them.        *)
Serves(f, label, reached) ==
  /\ f.it # 0
  /\ label # "try" => f.it <= Len(f.sinks)
  /\ label = "consume" => f.it = 1
  /\ IsInjective(f.sinks)
  /\ \A i \in DOMAIN f.sinks : f.sinks[i] \in reached <=> label = "catch" /\ i = f.it
  /\ f.held \subseteq Range(f.sinks) \cup reached

Serving(t) ==
  core_pc[t] \in {"try", "try_feed", "consume", "feed", "catch"} =>
    Serves(frame[t], core_pc[t], Reached(opened_rec(t)))

(* No sink has seen a record that was not pushed. *)
Past(t) ==
  \A n \in 1 .. MaxOpened :
    Reached(<<t, n>>) # {} =>
      /\ n <= opened[t]
      /\ core_pc[t] \in {"init", "open", "filter", "opened", "lock"} => n # opened[t]

ThreadInv(t) ==
  Holding(t) /\ Logging(t) /\ Unused(t) /\ Filtering(t) /\ Locking(t) /\ Serving(t) /\ Past(t)

(* The inductive invariant. *)
CoreInv ==
  /\ CoreTypeOK
  /\ IsInjective(m_sinks)
  /\ AtMostOnce
  /\ \A t \in CoreThreads : ThreadInv(t)

-----------------------------------------------------------------------------
(* Sequences *)

(* Appending an element adds it to the range, and keeps an injective sequence *)
(* injective if the element is new.                                           *)
LEMMA AppendRange ==
  ASSUME NEW S, NEW q \in Seq(S), NEW x \in S
  PROVE  /\ Range(Append(q, x)) = Range(q) \cup {x}
         /\ IsInjective(q) /\ x \notin Range(q) => IsInjective(Append(q, x))
<1>1. /\ Append(q, x) \in Seq(S)
      /\ Len(Append(q, x)) = Len(q) + 1
      /\ DOMAIN Append(q, x) = 1 .. Len(q) + 1
      /\ DOMAIN q = 1 .. Len(q)
      /\ Len(q) \in Nat
      /\ \A i \in 1 .. Len(q) : Append(q, x)[i] = q[i]
      /\ Append(q, x)[Len(q) + 1] = x
  OBVIOUS
<1>2. Range(Append(q, x)) = Range(q) \cup {x}
  BY <1>1, SMTT(30) DEF Range
<1>3. ASSUME IsInjective(q), x \notin Range(q)
      PROVE  IsInjective(Append(q, x))
  BY <1>1, <1>3, SMTT(30) DEF Range, IsInjective
<1> QED
  BY <1>2, <1>3

(* drop takes one element out of an injective sequence. *)
LEMMA DropRange ==
  ASSUME NEW S, NEW q \in Seq(S), IsInjective(q), NEW i \in 1 .. Len(q)
  PROVE  /\ drop(q, i) \in Seq(S)
         /\ Len(drop(q, i)) = Len(q) - 1
         /\ IsInjective(drop(q, i))
         /\ Range(drop(q, i)) = Range(q) \ {q[i]}
<1> DEFINE p == [q EXCEPT ![i] = q[Len(q)]]
<1>1. /\ p \in Seq(S) /\ Len(p) = Len(q) /\ Len(q) \in Nat /\ DOMAIN q = 1 .. Len(q)
      /\ \A j \in 1 .. Len(q) : p[j] = IF j = i THEN q[Len(q)] ELSE q[j]
  OBVIOUS
<1> HIDE DEF p
<1>2. /\ SubSeq(p, 1, Len(q) - 1) \in Seq(S)
      /\ Len(SubSeq(p, 1, Len(q) - 1)) = Len(q) - 1
      /\ DOMAIN SubSeq(p, 1, Len(q) - 1) = 1 .. Len(q) - 1
      /\ \A j \in 1 .. Len(q) - 1 : SubSeq(p, 1, Len(q) - 1)[j] = p[j]
  BY <1>1
<1> DEFINE r == drop(q, i)
<1>3. /\ r \in Seq(S) /\ Len(r) = Len(q) - 1 /\ DOMAIN r = 1 .. Len(q) - 1
      /\ \A j \in 1 .. Len(q) - 1 : r[j] = IF j = i THEN q[Len(q)] ELSE q[j]
  BY <1>1, <1>2, SMTT(30) DEF drop, p
<1> HIDE DEF r
<1>4. IsInjective(r)
  BY <1>1, <1>3, SMTT(30) DEF IsInjective
<1>5. Range(r) \subseteq Range(q) \ {q[i]}
  BY <1>1, <1>3, SMTT(30) DEF IsInjective, Range
<1>6. ASSUME NEW k \in 1 .. Len(q), q[k] # q[i]
      PROVE  q[k] \in Range(r)
  <2>1. CASE k = Len(q)
    <3>1. i \in 1 .. Len(q) - 1 /\ r[i] = q[k]
      BY <1>1, <1>3, <1>6, <2>1
    <3> QED
      BY <1>3, <3>1 DEF Range
  <2>2. CASE k # Len(q)
    <3>1. k \in 1 .. Len(q) - 1 /\ r[k] = q[k]
      BY <1>1, <1>3, <1>6, <2>2
    <3> QED
      BY <1>3, <3>1 DEF Range
  <2> QED
    BY <2>1, <2>2
<1>7. Range(q) \ {q[i]} \subseteq Range(r)
  BY <1>1, <1>6 DEF Range
<1> QED
  BY <1>3, <1>4, <1>5, <1>7 DEF r

(* erase takes an element out of an injective sequence. *)
LEMMA EraseInjective ==
  ASSUME NEW S, NEW q \in Seq(S), IsInjective(q), NEW x, x \in Range(q)
  PROVE  erase(q, x) \in Seq(S) /\ IsInjective(erase(q, x))
<1>1. \E k \in 1 .. Len(q) : erase(q, x) = SubSeq(q, 1, k - 1) \o SubSeq(q, k + 1, Len(q))
  <2> DEFINE k == CHOOSE j \in DOMAIN q : q[j] = x
  <2>1. k \in 1 .. Len(q)
    BY DEF Range
  <2>2. erase(q, x) = SubSeq(q, 1, k - 1) \o SubSeq(q, k + 1, Len(q))
    BY DEF erase
  <2> QED
    BY <2>1, <2>2
<1>2. PICK k \in 1 .. Len(q) : erase(q, x) = SubSeq(q, 1, k - 1) \o SubSeq(q, k + 1, Len(q))
  BY <1>1
<1> QED
  <2> DEFINE a == SubSeq(q, 1, k - 1)
             b == SubSeq(q, k + 1, Len(q))
             r == a \o b
  <2>5. /\ a \in Seq(S) /\ Len(a) = k - 1 /\ \A i \in 1 .. k - 1 : a[i] = q[i]
        /\ b \in Seq(S) /\ Len(b) = Len(q) - k /\ \A i \in 1 .. Len(q) - k : b[i] = q[k + i]
        /\ Len(q) \in Nat /\ DOMAIN q = 1 .. Len(q)
    OBVIOUS
  <2> HIDE DEF a, b
  <2>6. /\ r \in Seq(S) /\ DOMAIN r = 1 .. Len(q) - 1
        /\ \A i \in 1 .. Len(q) - 1 : r[i] = IF i <= k - 1 THEN a[i] ELSE b[i - (k - 1)]
    BY <2>5, ConcatProperties, SMTT(30)
  <2> HIDE DEF r
  <2> DEFINE e(i) == IF i <= k - 1 THEN i ELSE i + 1
  <2>7. Len(q) \in Nat /\ \A i \in 1 .. Len(q) - 1 : e(i) \in 1 .. Len(q)
    BY <2>5, SMTT(30)
  <2>8. \A i \in 1 .. Len(q) - 1 : r[i] = q[e(i)]
    <3> SUFFICES ASSUME NEW i \in 1 .. Len(q) - 1
                 PROVE  r[i] = q[e(i)]
      OBVIOUS
    <3>1. CASE i <= k - 1
      BY <2>5, <2>6, <3>1, SMTT(30)
    <3>2. CASE ~ (i <= k - 1)
      <4> DEFINE j == i - (k - 1)
      <4>1. j \in 1 .. Len(q) - k /\ k + j = i + 1 /\ r[i] = b[j]
        BY <2>5, <2>6, <3>2, SMTT(30)
      <4> HIDE DEF j
      <4> QED
        BY <2>5, <3>2, <4>1
    <3> QED
      BY <3>1, <3>2
  <2>9. \A i, j \in 1 .. Len(q) - 1 : r[i] = r[j] => e(i) = e(j)
    <3> HIDE DEF e
    <3> QED
      BY <2>7, <2>8, SMTT(30) DEF IsInjective
  <2>10. \A i, j \in 1 .. Len(q) - 1 : e(i) = e(j) => i = j
    BY <2>7
  <2> HIDE DEF e
  <2>11. IsInjective(r)
    BY <2>6, <2>9, <2>10, SMTT(30) DEF IsInjective
  <2> QED
    BY <1>2, <2>6, <2>11 DEF r, a, b

(* A shuffle leaves the elements of an injective sequence as they are. *)
LEMMA ShuffleRange ==
  ASSUME NEW S, NEW q \in Seq(S), IsInjective(q),
         NEW p \in [DOMAIN q -> DOMAIN q], IsInjective(p)
  PROVE  LET r == [i \in DOMAIN q |-> q[p[i]]]
         IN  r \in Seq(S) /\ Len(r) = Len(q) /\ IsInjective(r) /\ Range(r) = Range(q)
<1> DEFINE n == Len(q)
           r == [i \in 1 .. n |-> q[p[i]]]
<1>1. n \in Nat /\ DOMAIN q = 1 .. n /\ \A i \in 1 .. n : q[i] \in S
  OBVIOUS
<1>2. p \in Injection(1 .. n, 1 .. n)
  BY <1>1 DEF Injection
<1>3. p \in Surjection(1 .. n, 1 .. n)
  BY <1>1, <1>2, FS_Injection, FS_Interval, SMTT(30)
<1>4. \A k \in 1 .. n : \E i \in 1 .. n : p[i] = k
  BY <1>1, <1>3 DEF Surjection
<1>5. r \in Seq(S) /\ Len(r) = n /\ DOMAIN r = 1 .. n
  BY <1>1
<1>6. IsInjective(r)
  BY <1>1 DEF IsInjective
<1>7. Range(r) = Range(q)
  BY <1>1, <1>4 DEF Range
<1> QED
  BY <1>1, <1>5, <1>6, <1>7

-----------------------------------------------------------------------------
(* The initial state *)

(* The locals of a call at its start have their types. *)
LEMMA NoFrameType ==
  /\ NoFrame \in Frames
  /\ NoFrame.it = 1 /\ NoFrame.accepting = <<>> /\ NoFrame.sinks = <<>> /\ NoFrame.held = {}
  /\ NoFrame.capacity = 0
<1>1. (CHOOSE l \in Levels : TRUE) \in Levels
  BY CoreAssumption
<1> QED
  BY <1>1 DEF NoFrame, Frames

(* No thread is inside of a call, and no record exists. *)
LEMMA CoreStart == CoreInit => CoreInv
<1> SUFFICES ASSUME CoreInit PROVE CoreInv
  OBVIOUS
<1>1. m_sinks \in Seq(OwnSinks) /\ IsInjective(m_sinks)
  <2>1. Cardinality(OwnSinks) \in Nat
    BY CoreAssumption, FS_CardinalityType DEF OwnSinks
  <2>2. PICK q \in [1 .. Cardinality(OwnSinks) -> OwnSinks] : m_sinks = q /\ IsInjective(q)
    BY DEF CoreInit
  <2> QED
    BY <2>1, <2>2
<1>2. CoreTypeOK
  <2>1. \A t \in CoreThreads : frame[t] = NoFrame
    BY DEF CoreInit
  <2>2. frame \in [CoreThreads -> Frames]
    BY NoFrameType DEF CoreInit
  <2>3. \A t \in CoreThreads : Len(frame[t].accepting) <= frame[t].capacity
    BY <2>1, NoFrameType, SMTT(30)
  <2>4. m_mutex \in [writer : SUBSET CoreThreads, readers : SUBSET CoreThreads]
    BY DEF CoreInit
  <2>5. /\ opened \in [CoreThreads -> 0 .. MaxOpened] /\ changes \in [CoreThreads -> 0 .. MaxChanges]
        /\ core_pc \in [CoreThreads -> Labels]
    BY CoreAssumption, SMTT(30) DEF CoreInit, Labels
  <2>6. consumed \in [Sinks -> Seq(CoreRecords)]
    BY DEF CoreInit
  <2> QED
    BY <1>1, <2>2, <2>3, <2>4, <2>5, <2>6 DEF CoreInit, CoreTypeOK
<1>3. \A r : Reached(r) = {}
  BY DEF CoreInit, Reached, Range
<1>4. AtMostOnce
  BY SMTT(30) DEF CoreInit, AtMostOnce, IsInjective, Range
<1>5. ASSUME NEW t \in CoreThreads PROVE ThreadInv(t)
  <2>1. core_pc[t] = "idle" /\ frame[t] = NoFrame
    BY DEF CoreInit
  <2> QED
    BY <1>3, <2>1, NoFrameType DEF ThreadInv, Holding, Logging, Unused, Filtering, Locking,
       Serving, Past
<1> QED
  BY <1>1, <1>2, <1>4, <1>5 DEF CoreInv

-----------------------------------------------------------------------------
(* What the steps have in common *)

(* A thread that takes no step keeps its part of the invariant, if its locks  *)
(* stay its own, the list it goes through stays, and nobody serves a sink in  *)
(* its place.                                                                 *)
LEMMA Unaffected ==
  ASSUME CoreInv, NEW u \in CoreThreads,
         core_pc'[u] = core_pc[u], frame'[u] = frame[u], opened'[u] = opened[u],
         Holding(u)',
         core_pc[u] = "filter" => m_sinks' = m_sinks,
         \A n \in 1 .. MaxOpened : Reached(<<u, n>>)' = Reached(<<u, n>>)
  PROVE  ThreadInv(u)'
<1>1. CoreTypeOK /\ ThreadInv(u)
  BY DEF CoreInv
<1>2. frame[u] \in Frames
  BY <1>1 DEF CoreTypeOK
<1>3. Logging(u)' /\ Unused(u)' /\ Locking(u)'
  BY <1>1 DEF ThreadInv, Logging, Unused, Locking
<1>4. Filtering(u)'
  <2>1. core_pc[u] = "filter" => active_sinks' = active_sinks
    BY DEF active_sinks
  <2> QED
    BY <1>1, <2>1 DEF ThreadInv, Filtering
<1>5. Past(u)'
  BY <1>1 DEF ThreadInv, Past
<1>6. Serving(u)'
  <2> SUFFICES ASSUME core_pc[u] \in {"try", "try_feed", "consume", "feed", "catch"}
               PROVE  Serving(u)'
    BY DEF Serving
  <2>1. opened[u] \in 1 .. MaxOpened
    BY <1>1 DEF ThreadInv, Logging
  <2>2. Reached(opened_rec(u))' = Reached(opened_rec(u))
    BY <2>1 DEF opened_rec
  <2> QED
    BY <1>1, <2>2 DEF ThreadInv, Serving
<1> QED
  BY <1>3, <1>4, <1>5, <1>6 DEF ThreadInv


(* A step of t: of the other threads' state it changes nothing, nor the lists. *)
OwnStep(t) ==
  /\ core_pc' = [core_pc EXCEPT ![t] = core_pc'[t]] /\ core_pc'[t] \in Labels
  /\ frame' = [frame EXCEPT ![t] = frame'[t]]
  /\ opened' = [opened EXCEPT ![t] = opened'[t]] /\ opened'[t] \in 0 .. MaxOpened
  /\ changes' = [changes EXCEPT ![t] = changes'[t]] /\ changes'[t] \in 0 .. MaxChanges
  /\ UNCHANGED <<m_enabled, m_sinks, m_filter, m_exception_handler, m_Filter, m_ExceptionHandler, app>>
  /\ m_thread_data' \subseteq CoreThreads
  /\ m_mutex' \in [writer : SUBSET CoreThreads, readers : SUBSET CoreThreads]
  /\ m_mutex.readers \subseteq m_mutex'.readers \cup {t}
  /\ m_mutex.writer \subseteq m_mutex'.writer \cup {t}
  /\ m_BackendMutex' \in [Sinks -> SUBSET CoreThreads]
  /\ threw' \subseteq CoreRecords

(* Such a step serves sinks with the record of t only. *)
LEMMA StepPreserves ==
  ASSUME CoreInv, NEW t \in CoreThreads, OwnStep(t),
         consumed' \in [Sinks -> Seq(CoreRecords)], failed' \subseteq CoreRecords \X Sinks,
         \A u \in CoreThreads \ {t} : \A n \in 1 .. MaxOpened :
           Reached(<<u, n>>)' = Reached(<<u, n>>),
         AtMostOnce',
         frame'[t] \in Frames, Len(frame'[t].accepting) <= frame'[t].capacity,
         ThreadInv(t)'
  PROVE  CoreInv'
<1>1. CoreTypeOK /\ IsInjective(m_sinks) /\ \A u \in CoreThreads : ThreadInv(u)
  BY DEF CoreInv
<1>2. \A u \in CoreThreads \ {t} :
        core_pc'[u] = core_pc[u] /\ frame'[u] = frame[u] /\ opened'[u] = opened[u]
  BY <1>1 DEF OwnStep, CoreTypeOK
<1>3. \A u \in CoreThreads \ {t} : Holding(u)'
  BY <1>1, <1>2 DEF OwnStep, ThreadInv, Holding
<1>4. \A u \in CoreThreads : ThreadInv(u)'
  BY <1>2, <1>3, Unaffected DEF OwnStep
<1>5. frame' \in [CoreThreads -> Frames] /\ \A u \in CoreThreads : Len(frame'[u].accepting) <= frame'[u].capacity
  BY <1>1, <1>2 DEF OwnStep, CoreTypeOK
<1>6. core_pc' \in [CoreThreads -> Labels] /\ opened' \in [CoreThreads -> 0 .. MaxOpened] /\ changes' \in [CoreThreads -> 0 .. MaxChanges]
  BY <1>1 DEF OwnStep, CoreTypeOK
<1>7. CoreTypeOK'
  BY <1>1, <1>5, <1>6 DEF OwnStep, CoreTypeOK
<1> QED
  BY <1>1, <1>4, <1>7 DEF CoreInv, OwnStep

(* A step that serves no sink. *)
QuietStep(t) == OwnStep(t) /\ UNCHANGED <<consumed, failed>>

(* Such a step leaves every thread's account of the sinks it serves right. *)
LEMMA QuietStepPreserves ==
  ASSUME CoreInv, NEW t \in CoreThreads, QuietStep(t),
         frame'[t] \in Frames, Len(frame'[t].accepting) <= frame'[t].capacity,
         ThreadInv(t)'
  PROVE  CoreInv'
<1>1. \A r : Reached(r)' = Reached(r)
  BY DEF QuietStep, Reached
<1>2. AtMostOnce' /\ consumed' \in [Sinks -> Seq(CoreRecords)] /\ failed' \subseteq CoreRecords \X Sinks
  BY DEF QuietStep, CoreInv, CoreTypeOK, AtMostOnce
<1> QED
  BY <1>1, <1>2, StepPreserves DEF QuietStep

(* The call of a thread ends. *)
LEMMA ReturnPreserves ==
  ASSUME CoreInv, NEW t \in CoreThreads, QuietStep(t),
         core_pc'[t] = "idle", frame'[t] = NoFrame, opened' = opened
  PROVE  CoreInv'
<1>1. \A r : Reached(r)' = Reached(r)
  BY DEF QuietStep, Reached
<1>2. Past(t)'
  BY <1>1 DEF CoreInv, ThreadInv, Past
<1>3. ThreadInv(t)'
  BY <1>2, NoFrameType DEF ThreadInv, Holding, Logging, Unused, Filtering, Locking, Serving
<1>4. frame'[t] \in Frames /\ Len(frame'[t].accepting) <= frame'[t].capacity
  BY NoFrameType
<1> QED
  BY <1>3, <1>4, QuietStepPreserves

(* The locals of a thread have their types. *)
LEMMA Locals ==
  ASSUME CoreInv, NEW t \in CoreThreads
  PROVE  CoreTypeOK /\ ThreadInv(t) /\ frame[t] \in Frames /\ Len(frame[t].accepting) <= frame[t].capacity
BY DEF CoreInv, CoreTypeOK

(* A record that is under way exists. *)
LEMMA RecordExists ==
  ASSUME CoreInv, NEW t \in CoreThreads, core_pc[t] \notin {"idle", "flush"}
  PROVE  opened_rec(t) \in CoreRecords /\ t \in Loggers /\ opened[t] \in 1 .. MaxOpened
BY DEF CoreInv, ThreadInv, Logging, opened_rec, CoreRecords

(* The numbers of the records are comparable. *)
LEMMA RecordNumbers == \A n \in 1 .. MaxOpened : n <= n
BY CoreAssumption

(* A record that is being opened stays unknown to the sinks. *)
LEMMA OpeningPreserves ==
  ASSUME CoreInv, NEW t \in CoreThreads, QuietStep(t), opened' = opened,
         core_pc[t] \in {"init", "open", "filter", "opened", "lock"},
         core_pc'[t] \notin {"idle", "flush", "try", "try_feed", "consume", "feed", "catch"},
         frame'[t] \in Frames, Len(frame'[t].accepting) <= frame'[t].capacity,
         Holding(t)', Unused(t)', Filtering(t)', Locking(t)'
  PROVE  CoreInv'
<1>1. \A r : Reached(r)' = Reached(r)
  BY DEF QuietStep, Reached
<1>2. Past(t)'
  BY <1>1 DEF CoreInv, ThreadInv, Past
<1>3. Logging(t)' /\ Serving(t)'
  BY RecordExists DEF Logging, Serving
<1> QED
  BY <1>2, <1>3, QuietStepPreserves DEF ThreadInv

(* The loop that serves the sinks. *)
LEMMA LoopPreserves ==
  ASSUME CoreInv, NEW t \in CoreThreads, QuietStep(t), opened' = opened,
         core_pc[t] \notin {"idle", "flush"},
         core_pc'[t] \in {"try", "try_feed", "consume", "feed", "catch"},
         frame'[t] \in Frames, Len(frame'[t].accepting) <= frame'[t].capacity,
         Serves(frame'[t], core_pc'[t], Reached(opened_rec(t)))
  PROVE  CoreInv'
<1>1. \A r : Reached(r)' = Reached(r)
  BY DEF QuietStep, Reached
<1>2. Past(t)'
  BY <1>1 DEF CoreInv, ThreadInv, Past
<1>3. Serving(t)'
  BY <1>1 DEF Serving, opened_rec
<1>4. Holding(t)' /\ Logging(t)' /\ Unused(t)' /\ Filtering(t)' /\ Locking(t)'
  BY RecordExists DEF Holding, Logging, Unused, Filtering, Locking
<1> QED
  BY <1>2, <1>3, <1>4, QuietStepPreserves DEF ThreadInv

(* The list that is gone through is never empty, and names no sink twice. *)
LEMMA ActiveSinks ==
  ASSUME CoreInv
  PROVE  active_sinks \in Seq(Sinks) /\ Len(active_sinks) \in Nat /\ IsInjective(active_sinks)
<1>1. m_sinks \in Seq(OwnSinks) /\ IsInjective(m_sinks)
  BY DEF CoreInv, CoreTypeOK
<1>2. CASE m_sinks = <<>>
  <2>1. active_sinks = <<DefaultSink>> /\ <<DefaultSink>> \in Seq(Sinks) /\ Len(<<DefaultSink>>) = 1
    BY <1>2 DEF active_sinks, Sinks
  <2>2. IsInjective(<<DefaultSink>>)
    BY DEF IsInjective
  <2> QED
    BY <2>1, <2>2
<1>3. CASE m_sinks # <<>>
  BY <1>1, <1>3 DEF active_sinks, Sinks
<1> QED
  BY <1>2, <1>3
(* The next sink of the list is passed over. *)
LEMMA PassedOver ==
  ASSUME NEW list \in Seq(Sinks), NEW f \in Frames, Admits(f, list), f.it <= Len(list)
  PROVE  LET g == [f EXCEPT !.it = @ + 1]
         IN  /\ g \in Frames /\ Admits(g, list)
             /\ g.accepting = f.accepting /\ g.capacity = f.capacity
             /\ g.sinks = f.sinks /\ g.held = f.held
<1> DEFINE g == [f EXCEPT !.it = @ + 1]
<1>1. /\ g \in Frames /\ g.it = f.it + 1 /\ g.accepting = f.accepting /\ g.capacity = f.capacity
      /\ g.sinks = f.sinks /\ g.held = f.held
  BY SMTT(30) DEF Frames
<1>2. f.it \in Nat /\ f.capacity \in Nat /\ Len(f.accepting) \in Nat /\ Len(list) \in Nat
  BY SMTT(30) DEF Frames
<1> HIDE DEF g
<1>3. \A i \in DOMAIN g.accepting : \E j \in 1 .. g.it - 1 : g.accepting[i] = list[j]
  BY <1>1, <1>2, SMTT(30) DEF Admits
<1>4. Admits(g, list)
  BY <1>1, <1>2, <1>3, SMTT(30) DEF Admits
<1> QED
  BY <1>1, <1>4 DEF g

(* The next sink of the list accepts the record: there is room for it. *)
LEMMA Accepted ==
  ASSUME NEW list \in Seq(Sinks), IsInjective(list),
         NEW f \in Frames, Admits(f, list), f.it <= Len(list)
  PROVE  LET g == accepts(f, list[f.it], Len(list) - f.it + 1)
         IN  /\ g \in Frames /\ Admits(g, list)
             /\ Len(g.accepting) <= g.capacity
             /\ g.sinks = f.sinks /\ g.held = f.held
<1> DEFINE s == list[f.it]
           g == accepts(f, s, Len(list) - f.it + 1)
<1>1. /\ f.it \in Nat /\ f.capacity \in Nat /\ f.accepting \in Seq(Sinks) /\ Len(f.accepting) \in Nat
      /\ DOMAIN f.accepting = 1 .. Len(f.accepting)
      /\ Len(list) \in Nat /\ DOMAIN list = 1 .. Len(list) /\ f.it \in 1 .. Len(list) /\ s \in Sinks
  BY SMTT(30) DEF Frames, Admits
<1>2. /\ g \in Frames /\ g.it = f.it + 1 /\ g.accepting = Append(f.accepting, s)
      /\ g.capacity = IF f.accepting = <<>> THEN Len(list) - f.it + 1 ELSE f.capacity
      /\ g.sinks = f.sinks /\ g.held = f.held
  <2> DEFINE c == IF f.accepting = <<>> THEN Len(list) - f.it + 1 ELSE f.capacity
  <2>1. c \in Nat
    BY <1>1
  <2> DEFINE a == Append(f.accepting, s)
  <2>2. a \in Seq(Sinks) /\ f.it + 1 \in Nat
    BY <1>1
  <2>3. g = [f EXCEPT !.accepting = a, !.capacity = c, !.it = f.it + 1]
    BY <1>1 DEF accepts, Frames
  <2> HIDE DEF a, c, g
  <2>4. /\ g \in Frames /\ g.it = f.it + 1 /\ g.accepting = a /\ g.capacity = c
        /\ g.sinks = f.sinks /\ g.held = f.held
    BY <2>1, <2>2, <2>3 DEF Frames
  <2> QED
    BY <2>4 DEF a, c
<1>3. /\ Len(Append(f.accepting, s)) = Len(f.accepting) + 1
      /\ DOMAIN Append(f.accepting, s) = 1 .. Len(f.accepting) + 1
      /\ \A i \in 1 .. Len(f.accepting) : Append(f.accepting, s)[i] = f.accepting[i]
      /\ Append(f.accepting, s)[Len(f.accepting) + 1] = s
  BY <1>1
<1> HIDE DEF g
<1>4. s \notin Range(f.accepting)
  <2> SUFFICES ASSUME NEW i \in DOMAIN f.accepting, f.accepting[i] = s
               PROVE  FALSE
    BY DEF Range
  <2>1. PICK j \in 1 .. f.it - 1 : f.accepting[i] = list[j]
    BY DEF Admits
  <2>2. j \in DOMAIN list /\ f.it \in DOMAIN list /\ j # f.it
    BY <1>1
  <2> QED
    BY <2>1, <2>2 DEF IsInjective
<1>5. IsInjective(Append(f.accepting, s))
  BY <1>1, <1>4, AppendRange DEF Admits
<1>6. ASSUME NEW i \in 1 .. Len(f.accepting) + 1
      PROVE  \E j \in 1 .. f.it : Append(f.accepting, s)[i] = list[j]
  <2>1. CASE i \in 1 .. Len(f.accepting)
    <3>1. PICK j \in 1 .. f.it - 1 : f.accepting[i] = list[j]
      BY <1>1, <2>1 DEF Admits
    <3> QED
      BY <1>1, <1>3, <2>1, <3>1, SMTT(30)
  <2>2. CASE i = Len(f.accepting) + 1
    BY <1>1, <1>3, <2>2, SMTT(30)
  <2> QED
    BY <1>1, <2>1, <2>2
<1>7. \A i \in DOMAIN g.accepting : \E j \in 1 .. g.it - 1 : g.accepting[i] = list[j]
  <2>1. g.it - 1 = f.it
    BY <1>1, <1>2
  <2> QED
    BY <1>2, <1>3, <1>6, <2>1, SMTT(30)
<1>8. /\ Len(g.accepting) + Len(list) + 1 <= g.capacity + g.it
      /\ Len(g.accepting) <= g.capacity
  <2>1. CASE f.accepting = <<>>
    BY <1>1, <1>2, <1>3, <2>1, SMTT(30)
  <2>2. CASE f.accepting # <<>>
    BY <1>1, <1>2, <1>3, <2>2, SMTT(30) DEF Admits
  <2> QED
    BY <2>1, <2>2
<1>9. Admits(g, list)
  BY <1>1, <1>2, <1>5, <1>7, <1>8, SMTT(30) DEF Admits
<1> QED
  BY <1>2, <1>8, <1>9 DEF g

(* open_record begins with unused locals, and with a new record. *)
LEMMA OpenRecordPreserves ==
  ASSUME CoreInv, NEW t \in CoreThreads, t \in Loggers, NEW level \in Levels, open_record(t, level)
  PROVE  CoreInv'
<1>1. CoreTypeOK /\ ThreadInv(t) /\ frame[t] \in Frames /\ Len(frame[t].accepting) <= frame[t].capacity
  BY Locals
<1>2. /\ core_pc[t] = "idle" /\ core_pc'[t] \in {"init", "open"} /\ frame'[t] = [frame[t] EXCEPT !.level = level]
      /\ opened'[t] = opened[t] + 1 /\ opened[t] < MaxOpened /\ opened[t] \in Nat
  BY <1>1, SMTT(30) DEF CoreTypeOK, open_record, goto
<1>3. QuietStep(t)
  BY <1>1, <1>2, CoreAssumption, SMTT(30) DEF CoreTypeOK, Labels, QuietStep, OwnStep, open_record,
     goto, coreVars, sinkVars, history
<1>4. /\ frame'[t] \in Frames /\ Len(frame'[t].accepting) <= frame'[t].capacity
      /\ frame'[t].it = frame[t].it /\ frame'[t].accepting = frame[t].accepting
      /\ frame'[t].sinks = frame[t].sinks /\ frame'[t].held = frame[t].held
  BY <1>1, <1>2 DEF Frames
<1>5. Holding(t)' /\ Logging(t)' /\ Unused(t)' /\ Filtering(t)' /\ Locking(t)' /\ Serving(t)'
  BY <1>1, <1>2, <1>4, CoreAssumption, SMTT(30) DEF ThreadInv, Holding, Logging, Unused, Filtering,
     Locking, Serving
<1>6. Past(t)'
  <2>1. \A r : Reached(r)' = Reached(r)
    BY <1>3 DEF QuietStep, Reached
  <2> QED
    BY <1>1, <1>2, <2>1, SMTT(30) DEF ThreadInv, Past
<1> QED
  BY <1>3, <1>4, <1>5, <1>6, QuietStepPreserves DEF ThreadInv

(* The data of the thread are made. *)
LEMMA InitThreadDataPreserves ==
  ASSUME CoreInv, NEW t \in CoreThreads, init_thread_data(t)
  PROVE  CoreInv'
<1>1. CoreTypeOK /\ ThreadInv(t) /\ frame[t] \in Frames /\ Len(frame[t].accepting) <= frame[t].capacity
  BY Locals
<1>2. core_pc[t] = "init" /\ core_pc'[t] = "open" /\ frame'[t] = frame[t] /\ opened' = opened
  BY <1>1 DEF CoreTypeOK, init_thread_data, goto, counters
<1>3. QuietStep(t)
  BY <1>1 DEF CoreTypeOK, Labels, QuietStep, OwnStep, init_thread_data, goto, coreVars, sinkVars,
     history, counters
<1> QED
  BY <1>1, <1>2, <1>3, OpeningPreserves DEF ThreadInv, Holding, Unused, Filtering, Locking

(* open_record takes the read lock, and starts at the first sink. *)
LEMMA OpenLockedPreserves ==
  ASSUME CoreInv, NEW t \in CoreThreads, open_locked(t)
  PROVE  CoreInv'
<1>1. CoreTypeOK /\ ThreadInv(t) /\ frame[t] \in Frames /\ Len(frame[t].accepting) <= frame[t].capacity
  BY Locals
<1>2. /\ core_pc[t] = "open" /\ core_pc'[t] = "filter" /\ frame'[t] = frame[t] /\ opened' = opened
      /\ t \in m_mutex'.readers /\ m_sinks' = m_sinks
  BY <1>1 DEF CoreTypeOK, open_locked, goto, counters, coreVars
<1>3. QuietStep(t)
  BY <1>1 DEF CoreTypeOK, Labels, QuietStep, OwnStep, open_locked, goto, coreVars, sinkVars, history,
     counters
<1>4. frame[t].it = 1 /\ frame[t].accepting = <<>> /\ frame[t].sinks = <<>> /\ frame[t].held = {}
  BY <1>1, <1>2 DEF ThreadInv, Unused
<1>5. Filtering(t)'
  <2>1. active_sinks' = active_sinks /\ Len(active_sinks) \in Nat
    BY <1>2, ActiveSinks DEF active_sinks
  <2> QED
    BY <1>2, <1>4, <2>1, SMTT(30) DEF Filtering, Admits, IsInjective
<1>6. Holding(t)' /\ Unused(t)' /\ Locking(t)'
  BY <1>2, <1>4 DEF Holding, Unused, Locking
<1> QED
  BY <1>1, <1>2, <1>3, <1>5, <1>6, OpeningPreserves

(* open_record returns an empty record. *)
LEMMA OpenRejectedPreserves ==
  ASSUME CoreInv, NEW t \in CoreThreads, open_rejected(t)
  PROVE  CoreInv'
<1>1. CoreTypeOK
  BY DEF CoreInv
<1>2. core_pc'[t] = "idle" /\ frame'[t] = NoFrame /\ opened' = opened
  BY <1>1 DEF CoreTypeOK, open_rejected, return, goto, counters
<1>3. QuietStep(t)
  BY <1>1 DEF CoreTypeOK, Labels, QuietStep, OwnStep, open_rejected, return, goto, coreVars, sinkVars,
     counters
<1> QED
  BY <1>2, <1>3, ReturnPreserves

(* The global filter throws: the locals are not used any more. *)
LEMMA GlobalFilterThrowsPreserves ==
  ASSUME CoreInv, NEW t \in CoreThreads, global_filter_throws(t)
  PROVE  CoreInv'
<1>1. CoreTypeOK /\ ThreadInv(t) /\ frame[t] \in Frames /\ Len(frame[t].accepting) <= frame[t].capacity
  BY Locals
<1>2. core_pc[t] = "open" /\ core_pc'[t] = "catch_outer" /\ frame'[t] = frame[t] /\ opened' = opened
  BY <1>1 DEF CoreTypeOK, global_filter_throws, goto, counters
<1>3. QuietStep(t)
  BY <1>1 DEF CoreTypeOK, Labels, QuietStep, OwnStep, global_filter_throws, goto, coreVars, sinkVars,
     history, counters
<1> QED
  BY <1>1, <1>2, <1>3, OpeningPreserves DEF ThreadInv, Holding, Unused, Filtering, Locking

(* A thread that goes through the sinks goes on to the next one. *)
LEMMA FilteringPreserves ==
  ASSUME CoreInv, NEW t \in CoreThreads, QuietStep(t), opened' = opened, m_mutex' = m_mutex,
         core_pc[t] = "filter", core_pc'[t] = "filter",
         frame[t].it <= Len(active_sinks),
         \/ frame'[t] = [frame[t] EXCEPT !.it = @ + 1]
         \/ frame'[t] = accepts(frame[t], active_sinks[frame[t].it], Len(active_sinks) - frame[t].it + 1)
  PROVE  CoreInv'
<1> DEFINE f == frame[t]
<1>1. CoreTypeOK /\ ThreadInv(t) /\ f \in Frames /\ Len(f.accepting) <= f.capacity
  BY Locals
<1>2. active_sinks \in Seq(Sinks) /\ IsInjective(active_sinks) /\ Admits(f, active_sinks)
  BY <1>1, ActiveSinks DEF ThreadInv, Filtering
<1>3. /\ frame'[t] \in Frames /\ Len(frame'[t].accepting) <= frame'[t].capacity
      /\ Admits(frame'[t], active_sinks) /\ frame'[t].sinks = f.sinks /\ frame'[t].held = f.held
  <2>1. CASE frame'[t] = [f EXCEPT !.it = @ + 1]
    BY <1>1, <1>2, <2>1, PassedOver
  <2>2. CASE frame'[t] = accepts(f, active_sinks[f.it], Len(active_sinks) - f.it + 1)
    BY <1>1, <1>2, <2>2, Accepted, SMTT(30)
  <2> QED
    BY <2>1, <2>2
<1>4. active_sinks' = active_sinks
  BY DEF active_sinks, QuietStep, OwnStep
<1>5. Holding(t)' /\ Unused(t)' /\ Filtering(t)' /\ Locking(t)'
  BY <1>1, <1>3, <1>4 DEF ThreadInv, Holding, Unused, Filtering, Locking
<1> QED
  BY <1>3, <1>5, OpeningPreserves

(* A sink is asked. *)
LEMMA ApplySinkFilterPreserves ==
  ASSUME CoreInv, NEW t \in CoreThreads, apply_sink_filter(t)
  PROVE  CoreInv'
<1> DEFINE f == frame[t]
<1>1. CoreTypeOK
  BY DEF CoreInv
<1>2. /\ core_pc[t] = "filter" /\ core_pc' = core_pc /\ opened' = opened /\ m_mutex' = m_mutex
      /\ f.it <= Len(active_sinks)
      /\ \/ frame'[t] = [f EXCEPT !.it = @ + 1]
         \/ frame'[t] = accepts(f, active_sinks[f.it], Len(active_sinks) - f.it + 1)
  BY <1>1 DEF CoreTypeOK, apply_sink_filter, counters
<1>3. QuietStep(t)
  BY <1>1, <1>2 DEF CoreTypeOK, QuietStep, OwnStep, apply_sink_filter, coreVars, sinkVars, history,
     counters
<1> QED
  BY <1>2, <1>3, FilteringPreserves

(* The filter of a sink throws: a handler absorbs the exception and the sink  *)
(* is passed over, or open_record throws as well.                             *)
LEMMA SinkFilterThrowsPreserves ==
  ASSUME CoreInv, NEW t \in CoreThreads, sink_filter_throws(t)
  PROVE  CoreInv'
<1>1. CoreTypeOK
  BY DEF CoreInv
<1>2. /\ core_pc[t] = "filter" /\ frame[t].it <= Len(active_sinks)
      /\ UNCHANGED <<m_enabled, m_sinks, m_filter, m_exception_handler, m_thread_data,
                     m_Filter, m_ExceptionHandler, m_BackendMutex, app, opened, changes>>
  BY DEF sink_filter_throws, coreVars, sinkVars, counters
<1>3. CASE frame' = [frame EXCEPT ![t].it = @ + 1] /\ UNCHANGED <<m_mutex, core_pc, history>>
  <2>1. frame'[t] = [frame[t] EXCEPT !.it = @ + 1] /\ core_pc'[t] = "filter"
    BY <1>1, <1>2, <1>3 DEF CoreTypeOK
  <2>2. QuietStep(t)
    BY <1>1, <1>2, <1>3, <2>1 DEF CoreTypeOK, Labels, QuietStep, OwnStep, history
  <2> QED
    BY <1>2, <1>3, <2>1, <2>2, FilteringPreserves
<1>4. CASE return(t, TRUE) /\ release_read(t)
  <2>1. core_pc'[t] = "idle" /\ frame'[t] = NoFrame
    BY <1>1, <1>4 DEF CoreTypeOK, return, goto
  <2>2. QuietStep(t)
    BY <1>1, <1>2, <1>4, RecordExists DEF CoreTypeOK, Labels, QuietStep, OwnStep, return, goto,
       release_read
  <2> QED
    BY <1>2, <2>1, <2>2, ReturnPreserves
<1> QED
  BY <1>3, <1>4 DEF sink_filter_throws

(* Every sink has been asked: the record is open, or was accepted by none. *)
LEMMA OpenDonePreserves ==
  ASSUME CoreInv, NEW t \in CoreThreads, open_done(t)
  PROVE  CoreInv'
<1>1. CoreTypeOK /\ ThreadInv(t) /\ frame[t] \in Frames /\ Len(frame[t].accepting) <= frame[t].capacity
  BY Locals
<1>2. /\ core_pc[t] = "filter" /\ release_read(t)
      /\ UNCHANGED <<m_enabled, m_sinks, m_filter, m_exception_handler, m_thread_data,
                     m_Filter, m_ExceptionHandler, m_BackendMutex, app, opened, changes>>
  BY DEF open_done, coreVars, sinkVars, counters
<1>3. CASE return(t, FALSE)
  <2>1. core_pc'[t] = "idle" /\ frame'[t] = NoFrame
    BY <1>1, <1>3 DEF CoreTypeOK, return, goto
  <2>2. QuietStep(t)
    BY <1>1, <1>2, <1>3 DEF CoreTypeOK, Labels, QuietStep, OwnStep, return, goto, release_read
  <2> QED
    BY <1>2, <2>1, <2>2, ReturnPreserves
<1>4. CASE goto(t, "opened") /\ UNCHANGED <<frame, history>>
  <2>1. core_pc'[t] = "opened" /\ frame'[t] = frame[t]
    BY <1>1, <1>4 DEF CoreTypeOK, goto
  <2>2. QuietStep(t)
    BY <1>1, <1>2, <1>4 DEF CoreTypeOK, Labels, QuietStep, OwnStep, goto, release_read, history
  <2>3. Holding(t)' /\ Unused(t)' /\ Filtering(t)' /\ Locking(t)'
    BY <1>1, <1>2, <2>1 DEF ThreadInv, Holding, Unused, Filtering, Admits, Locking
  <2> QED
    BY <1>1, <1>2, <2>1, <2>2, <2>3, OpeningPreserves
<1> QED
  BY <1>3, <1>4 DEF open_done

(* The record is destroyed. *)
LEMMA DropRecordPreserves ==
  ASSUME CoreInv, NEW t \in CoreThreads, drop_record(t)
  PROVE  CoreInv'
<1>1. CoreTypeOK
  BY DEF CoreInv
<1>2. core_pc'[t] = "idle" /\ frame'[t] = NoFrame /\ opened' = opened
  BY <1>1 DEF CoreTypeOK, drop_record, return, goto, counters
<1>3. QuietStep(t)
  BY <1>1 DEF CoreTypeOK, Labels, QuietStep, OwnStep, drop_record, return, goto, coreVars, sinkVars,
     counters
<1> QED
  BY <1>2, <1>3, ReturnPreserves

-----------------------------------------------------------------------------
(* push_record_move *)

(* The parts of the locals that the loop works with. *)
LEMMA FrameParts ==
  ASSUME NEW f \in Frames
  PROVE  /\ f.it \in Nat /\ f.held \subseteq Sinks
         /\ f.sinks \in Seq(Sinks) /\ DOMAIN f.sinks = 1 .. Len(f.sinks) /\ Len(f.sinks) \in Nat
         /\ f.accepting \in Seq(Sinks) /\ DOMAIN f.accepting = 1 .. Len(f.accepting)
         /\ Len(f.accepting) \in Nat
BY SMTT(30) DEF Frames

(* No pointer has been locked at the start. *)
LEMMA LocksNone ==
  ASSUME NEW f \in Frames, f.sinks = <<>>, f.held = {}
  PROVE  LET g == [f EXCEPT !.it = 1]
         IN  g \in Frames /\ Locks(g) /\ g.accepting = f.accepting /\ g.capacity = f.capacity
<1> DEFINE g == [f EXCEPT !.it = 1]
<1>1. /\ g \in Frames /\ g.it = 1 /\ g.accepting = f.accepting /\ g.capacity = f.capacity
      /\ g.sinks = f.sinks /\ g.held = f.held
  BY DEF Frames
<1>2. IsInjective(<<>>) /\ Range(<<>>) = {} /\ DOMAIN <<>> = {}
  BY DEF IsInjective, Range
<1> QED
  BY <1>1, <1>2 DEF Locks

(* The sink has been destroyed. *)
LEMMA LocksSkip ==
  ASSUME NEW f \in Frames, Locks(f)
  PROVE  LET g == [f EXCEPT !.it = @ + 1]
         IN  g \in Frames /\ Locks(g) /\ g.accepting = f.accepting /\ g.capacity = f.capacity
<1> DEFINE g == [f EXCEPT !.it = @ + 1]
<1>1. /\ g \in Frames /\ g.it = f.it + 1 /\ g.accepting = f.accepting /\ g.capacity = f.capacity
      /\ g.sinks = f.sinks /\ g.held = f.held
  BY SMTT(30) DEF Frames
<1>2. f.it \in Nat
  BY DEF Frames
<1> HIDE DEF g
<1>3. \A i \in DOMAIN g.sinks : \E j \in 1 .. g.it - 1 : g.sinks[i] = g.accepting[j]
  BY <1>1, <1>2, SMTT(30) DEF Locks
<1>4. Locks(g)
  BY <1>1, <1>2, <1>3, SMTT(30) DEF Locks
<1> QED
  BY <1>1, <1>4 DEF g

(* The pointer to the sink is locked. *)
LEMMA LocksOne ==
  ASSUME NEW f \in Frames, Locks(f), IsInjective(f.accepting), f.it <= Len(f.accepting)
  PROVE  LET s == f.accepting[f.it]
             g == [f EXCEPT !.sinks = Append(@, s), !.held = @ \cup {s}, !.it = @ + 1]
         IN  g \in Frames /\ Locks(g) /\ g.accepting = f.accepting /\ g.capacity = f.capacity
<1> DEFINE s == f.accepting[f.it]
           q == Append(f.sinks, s)
           h == f.held \cup {s}
           g == [f EXCEPT !.sinks = q, !.held = h, !.it = f.it + 1]
<1>1. /\ f.it \in Nat /\ f.held \subseteq Sinks
      /\ f.sinks \in Seq(Sinks) /\ DOMAIN f.sinks = 1 .. Len(f.sinks) /\ Len(f.sinks) \in Nat
      /\ f.accepting \in Seq(Sinks) /\ DOMAIN f.accepting = 1 .. Len(f.accepting)
      /\ Len(f.accepting) \in Nat
  BY FrameParts
<1>2. f.it \in 1 .. Len(f.accepting) /\ s \in Sinks
  BY <1>1, SMTT(30) DEF Locks
<1>3. /\ DOMAIN q = 1 .. Len(f.sinks) + 1 /\ q \in Seq(Sinks)
      /\ \A i \in 1 .. Len(f.sinks) : q[i] = f.sinks[i]
      /\ q[Len(f.sinks) + 1] = s
  BY <1>1, <1>2
<1>4. s \notin Range(f.sinks)
  <2> SUFFICES ASSUME NEW i \in DOMAIN f.sinks, f.sinks[i] = s
               PROVE  FALSE
    BY DEF Range
  <2>1. PICK j \in 1 .. f.it - 1 : f.sinks[i] = f.accepting[j]
    BY DEF Locks
  <2>2. j \in DOMAIN f.accepting /\ f.it \in DOMAIN f.accepting /\ j # f.it
    BY <1>1, <1>2
  <2> QED
    BY <2>1, <2>2 DEF IsInjective
<1>5. IsInjective(q) /\ Range(q) = h
  BY <1>1, <1>2, <1>4, AppendRange, SMTT(30) DEF Locks
<1>6. ASSUME NEW i \in 1 .. Len(f.sinks) + 1
      PROVE  \E j \in 1 .. f.it : q[i] = f.accepting[j]
  <2>1. CASE i \in 1 .. Len(f.sinks)
    <3>1. PICK j \in 1 .. f.it - 1 : f.sinks[i] = f.accepting[j]
      BY <1>1, <2>1 DEF Locks
    <3> QED
      BY <1>1, <1>3, <2>1, <3>1, SMTT(30)
  <2>2. CASE i = Len(f.sinks) + 1
    BY <1>1, <1>2, <1>3, <2>2, SMTT(30)
  <2> QED
    BY <1>1, <2>1, <2>2
<1>7. q \in Seq(Sinks) /\ h \in SUBSET Sinks /\ f.it + 1 \in Nat
  BY <1>1, <1>2, <1>3, SMTT(30)
<1> HIDE DEF s, q, h
<1>8. /\ g \in Frames /\ g.it = f.it + 1 /\ g.accepting = f.accepting /\ g.capacity = f.capacity
      /\ g.sinks = q /\ g.held = h
  BY <1>7 DEF Frames
<1> HIDE DEF g
<1>9. \A i \in DOMAIN g.sinks : \E j \in 1 .. g.it - 1 : g.sinks[i] = g.accepting[j]
  <2>1. g.it - 1 = f.it
    BY <1>1, <1>8
  <2> QED
    BY <1>3, <1>6, <1>8, <2>1, SMTT(30)
<1>10. Locks(g)
  BY <1>1, <1>5, <1>8, <1>9, SMTT(30) DEF Locks
<1> QED
  BY <1>8, <1>10 DEF g, s, q, h

(* The pointers are locked: none of the sinks has seen the record. *)
LEMMA ServesAll ==
  ASSUME NEW f \in Frames, Locks(f), NEW b \in BOOLEAN
  PROVE  LET g == [f EXCEPT !.it = 1, !.shuffled = b]
         IN  g \in Frames /\ Serves(g, "try", {}) /\ g.accepting = f.accepting /\ g.capacity = f.capacity
<1> DEFINE g == [f EXCEPT !.it = 1, !.shuffled = b]
<1>1. /\ g \in Frames /\ g.it = 1 /\ g.accepting = f.accepting /\ g.capacity = f.capacity
      /\ g.sinks = f.sinks /\ g.held = f.held
  BY DEF Frames
<1> HIDE DEF g
<1>2. Serves(g, "try", {})
  BY <1>1, SMTT(30) DEF Serves, Locks
<1> QED
  BY <1>1, <1>2 DEF g

(* A thread that only moves on among the sinks. *)
LEMMA ServesElsewhere ==
  ASSUME NEW f \in Frames, NEW reached, Serves(f, "try", reached),
         NEW g \in Frames, g.it # 0, g.sinks = f.sinks, g.held = f.held
  PROVE  Serves(g, "try", reached)
BY DEF Serves

(* The order of the sinks does not matter. *)
LEMMA ServesShuffled ==
  ASSUME NEW f \in Frames, NEW reached, Serves(f, "try", reached), f.sinks # <<>>,
         NEW g, g.it = 1, g.held = f.held, g.sinks \in Seq(Sinks), Len(g.sinks) = Len(f.sinks),
         IsInjective(g.sinks), Range(g.sinks) = Range(f.sinks)
  PROVE  Serves(g, "consume", reached)
<1>1. f.sinks \in Seq(Sinks) /\ Len(f.sinks) \in Nat
  BY FrameParts
<1>2. 1 <= Len(g.sinks)
  BY <1>1
<1>3. \A s \in Range(f.sinks) : s \notin reached
  BY DEF Serves, Range
<1>4. \A i \in DOMAIN g.sinks : g.sinks[i] \notin reached
  BY <1>3 DEF Range
<1> QED
  BY <1>2, <1>4 DEF Serves

(* The sink that the thread was at leaves the range when the record has       *)
(* reached it.                                                                *)
LEMMA ServesRest ==
  ASSUME NEW f \in Frames, NEW reached, NEW label, Serves(f, label, reached), label # "try",
         NEW g, g.it = f.it, g.held = f.held, g.sinks = drop(f.sinks, f.it)
  PROVE  g.sinks \in Seq(Sinks) /\ Serves(g, "try", reached \cup {f.sinks[f.it]})
<1> DEFINE s == f.sinks[f.it]
           q == drop(f.sinks, f.it)
<1>1. /\ f.it \in Nat /\ f.held \subseteq Sinks
      /\ f.sinks \in Seq(Sinks) /\ DOMAIN f.sinks = 1 .. Len(f.sinks) /\ Len(f.sinks) \in Nat
  BY FrameParts
<1>2. f.it \in 1 .. Len(f.sinks) /\ IsInjective(f.sinks)
  BY <1>1, SMTT(30) DEF Serves
<1>3. q \in Seq(Sinks) /\ IsInjective(q) /\ Range(q) = Range(f.sinks) \ {s}
  BY <1>1, <1>2, DropRange
<1>4. \A i \in DOMAIN q : q[i] \in Range(f.sinks) \ {s}
  BY <1>3 DEF Range
<1>5. \A x \in Range(f.sinks) \ {s} : x \notin reached
  BY <1>1, <1>2, SMTT(30) DEF Serves, Range
<1>6. g.sinks = q /\ g.it # 0 /\ f.held \subseteq Range(f.sinks) \cup reached
  BY DEF Serves
<1> HIDE DEF q, s
<1>7. Serves(g, "try", reached \cup {s})
  <2>1. g.held \subseteq Range(q) \cup (reached \cup {s})
    BY <1>3, <1>6
  <2>2. \A i \in DOMAIN q : q[i] \notin reached \cup {s}
    BY <1>4, <1>5
  <2> QED
    BY <1>3, <1>6, <2>1, <2>2 DEF Serves
<1> QED
  BY <1>3, <1>6, <1>7 DEF s

(* push_record_move begins. *)
LEMMA PushRecordPreserves ==
  ASSUME CoreInv, NEW t \in CoreThreads, push_record(t)
  PROVE  CoreInv'
<1> DEFINE f == frame[t]
<1>1. CoreTypeOK /\ ThreadInv(t) /\ f \in Frames /\ Len(f.accepting) <= f.capacity
  BY Locals
<1>2. core_pc[t] = "opened" /\ core_pc'[t] = "lock" /\ frame'[t] = [f EXCEPT !.it = 1] /\ opened' = opened
  BY <1>1 DEF CoreTypeOK, push_record, goto, counters
<1>3. QuietStep(t)
  BY <1>1, <1>2 DEF CoreTypeOK, Labels, QuietStep, OwnStep, push_record, goto, coreVars, sinkVars,
     history, counters
<1>4. f.sinks = <<>> /\ f.held = {} /\ IsInjective(f.accepting)
  BY <1>1, <1>2 DEF ThreadInv, Unused, Locking
<1>5. /\ frame'[t] \in Frames /\ Locks(frame'[t])
      /\ frame'[t].accepting = f.accepting /\ frame'[t].capacity = f.capacity
  BY <1>1, <1>2, <1>4, LocksNone
<1>6. Holding(t)' /\ Unused(t)' /\ Filtering(t)' /\ Locking(t)'
  BY <1>2, <1>4, <1>5 DEF Holding, Unused, Filtering, Locking
<1> QED
  BY <1>1, <1>2, <1>3, <1>5, <1>6, OpeningPreserves

(* A pointer is locked, unless the sink has been destroyed. *)
LEMMA LockSinkPreserves ==
  ASSUME CoreInv, NEW t \in CoreThreads, lock_sink(t)
  PROVE  CoreInv'
<1> DEFINE f == frame[t]
           s == f.accepting[f.it]
<1>1. CoreTypeOK /\ ThreadInv(t) /\ f \in Frames /\ Len(f.accepting) <= f.capacity
  BY Locals
<1>2. /\ core_pc[t] = "lock" /\ core_pc' = core_pc /\ opened' = opened /\ f.it <= Len(f.accepting)
      /\ \/ frame'[t] = [f EXCEPT !.it = @ + 1]
         \/ frame'[t] = [f EXCEPT !.sinks = Append(@, s), !.held = @ \cup {s}, !.it = @ + 1]
  BY <1>1 DEF CoreTypeOK, lock_sink, counters
<1>3. QuietStep(t)
  BY <1>1, <1>2 DEF CoreTypeOK, QuietStep, OwnStep, lock_sink, coreVars, sinkVars, history, counters
<1>4. Locks(f) /\ IsInjective(f.accepting)
  BY <1>1, <1>2 DEF ThreadInv, Locking
<1>5. /\ frame'[t] \in Frames /\ Locks(frame'[t])
      /\ frame'[t].accepting = f.accepting /\ frame'[t].capacity = f.capacity
  <2>1. CASE frame'[t] = [f EXCEPT !.it = @ + 1]
    BY <1>1, <1>4, <2>1, LocksSkip
  <2>2. CASE frame'[t] = [f EXCEPT !.sinks = Append(@, s), !.held = @ \cup {s}, !.it = @ + 1]
    BY <1>1, <1>2, <1>4, <2>2, LocksOne
  <2> QED
    BY <1>2, <2>1, <2>2
<1>6. Holding(t)' /\ Unused(t)' /\ Filtering(t)' /\ Locking(t)'
  BY <1>2, <1>4, <1>5 DEF Holding, Unused, Filtering, Locking
<1> QED
  BY <1>1, <1>2, <1>3, <1>5, <1>6, OpeningPreserves

(* The pointers are locked. *)
LEMMA SinksLockedPreserves ==
  ASSUME CoreInv, NEW t \in CoreThreads, sinks_locked(t)
  PROVE  CoreInv'
<1> DEFINE f == frame[t]
           b == Len(f.sinks) <= 1
<1>1. CoreTypeOK /\ ThreadInv(t) /\ f \in Frames /\ Len(f.accepting) <= f.capacity
  BY Locals
<1>2. /\ core_pc[t] = "lock" /\ core_pc'[t] = "try" /\ opened' = opened
      /\ frame'[t] = [f EXCEPT !.it = 1, !.shuffled = b]
  BY <1>1 DEF CoreTypeOK, sinks_locked, goto, counters
<1>3. QuietStep(t)
  BY <1>1, <1>2 DEF CoreTypeOK, Labels, QuietStep, OwnStep, sinks_locked, goto, coreVars, sinkVars,
     history, counters
<1>4. Locks(f)
  BY <1>1, <1>2 DEF ThreadInv, Locking
<1>5. Reached(opened_rec(t)) = {}
  <2>1. opened[t] \in 1 .. MaxOpened
    BY <1>2, RecordExists
  <2> QED
    BY <1>1, <1>2, <2>1 DEF ThreadInv, Past, opened_rec
<1>6. b \in BOOLEAN
  OBVIOUS
<1> HIDE DEF b, f
<1>7. /\ frame'[t] \in Frames /\ Serves(frame'[t], "try", {})
      /\ frame'[t].accepting = f.accepting /\ frame'[t].capacity = f.capacity
  BY <1>1, <1>2, <1>4, <1>6, ServesAll
<1> QED
  BY <1>1, <1>2, <1>3, <1>5, <1>7, LoopPreserves

(* What taking a backend mutex leaves. *)
LEMMA BackendLocked ==
  ASSUME CoreInv, NEW t \in CoreThreads, NEW s \in Sinks, lock_backend(t, s)
  PROVE  m_BackendMutex' \in [Sinks -> SUBSET CoreThreads]
<1>1. m_BackendMutex \in [Sinks -> SUBSET CoreThreads]
  BY DEF CoreInv, CoreTypeOK
<1>2. \/ m_BackendMutex' = m_BackendMutex
      \/ m_BackendMutex' = [m_BackendMutex EXCEPT ![s] = {t}]
  BY DEF lock_backend
<1> QED
  BY <1>1, <1>2

(* The sink a thread in the loop is at. *)
LEMMA SinkAt ==
  ASSUME CoreInv, NEW t \in CoreThreads, core_pc[t] \in {"try", "try_feed", "consume", "feed", "catch"},
         core_pc[t] = "try" => frame[t].it <= Len(frame[t].sinks)
  PROVE  /\ Serves(frame[t], core_pc[t], Reached(opened_rec(t)))
         /\ frame[t].it \in 1 .. Len(frame[t].sinks) /\ frame[t].sinks[frame[t].it] \in Sinks
<1>1. ThreadInv(t) /\ frame[t] \in Frames
  BY Locals
<1>2. Serves(frame[t], core_pc[t], Reached(opened_rec(t)))
  BY <1>1 DEF ThreadInv, Serving
<1>3. frame[t].it \in Nat /\ frame[t].sinks \in Seq(Sinks) /\ Len(frame[t].sinks) \in Nat
  BY <1>1, FrameParts
<1>4. frame[t].it \in 1 .. Len(frame[t].sinks)
  BY <1>2, <1>3, SMTT(30) DEF Serves
<1> QED
  BY <1>2, <1>3, <1>4

(* try_consume gets to the backend. *)
LEMMA TryConsumePreserves ==
  ASSUME CoreInv, NEW t \in CoreThreads, sink_try_consume(t)
  PROVE  CoreInv'
<1> DEFINE f == frame[t]
<1>1. CoreTypeOK /\ ThreadInv(t) /\ f \in Frames /\ Len(f.accepting) <= f.capacity
  BY Locals
<1>2. /\ core_pc[t] = "try" /\ core_pc'[t] = "try_feed" /\ opened' = opened /\ frame'[t] = f
      /\ f.it <= Len(f.sinks) /\ lock_backend(t, f.sinks[f.it])
  BY <1>1 DEF CoreTypeOK, sink_try_consume, goto, counters
<1>3. Serves(f, "try", Reached(opened_rec(t))) /\ f.sinks[f.it] \in Sinks
  BY <1>2, SinkAt
<1>4. m_BackendMutex' \in [Sinks -> SUBSET CoreThreads]
  BY <1>2, <1>3, BackendLocked
<1>5. QuietStep(t)
  BY <1>1, <1>2, <1>4 DEF CoreTypeOK, Labels, QuietStep, OwnStep, sink_try_consume, goto, coreVars,
     sinkVars, history, counters
<1>6. Serves(f, "try_feed", Reached(opened_rec(t)))
  BY <1>2, <1>3 DEF Serves
<1> QED
  BY <1>1, <1>2, <1>5, <1>6, LoopPreserves

(* try_consume finds the backend locked. *)
LEMMA TryConsumeBusyPreserves ==
  ASSUME CoreInv, NEW t \in CoreThreads, sink_try_consume_busy(t)
  PROVE  CoreInv'
<1> DEFINE f == frame[t]
<1>1. CoreTypeOK /\ ThreadInv(t) /\ f \in Frames /\ Len(f.accepting) <= f.capacity
  BY Locals
<1>2. /\ core_pc[t] = "try" /\ core_pc'[t] = "try" /\ opened' = opened /\ f.it <= Len(f.sinks)
      /\ frame'[t] = [f EXCEPT !.it = f.it + 1]
  BY <1>1 DEF CoreTypeOK, sink_try_consume_busy, counters
<1>3. QuietStep(t)
  BY <1>1, <1>2 DEF CoreTypeOK, QuietStep, OwnStep, sink_try_consume_busy, coreVars, sinkVars, history,
     counters
<1>4. Serves(f, "try", Reached(opened_rec(t))) /\ f.it + 1 \in Nat \ {0}
  BY <1>2, SinkAt, SMTT(30)
<1> HIDE DEF f
<1>5. /\ frame'[t] \in Frames /\ frame'[t].it = f.it + 1 /\ frame'[t].sinks = f.sinks /\ frame'[t].held = f.held
      /\ frame'[t].accepting = f.accepting /\ frame'[t].capacity = f.capacity
  BY <1>1, <1>2, <1>4 DEF Frames
<1>6. Serves(frame'[t], "try", Reached(opened_rec(t)))
  BY <1>1, <1>4, <1>5, ServesElsewhere
<1> QED
  BY <1>1, <1>2, <1>3, <1>5, <1>6, LoopPreserves

(* push_record_move returns. *)
LEMMA PushDonePreserves ==
  ASSUME CoreInv, NEW t \in CoreThreads, push_done(t)
  PROVE  CoreInv'
<1>1. CoreTypeOK
  BY DEF CoreInv
<1>2. core_pc'[t] = "idle" /\ frame'[t] = NoFrame /\ opened' = opened
  BY <1>1 DEF CoreTypeOK, push_done, return, goto, counters
<1>3. QuietStep(t)
  BY <1>1 DEF CoreTypeOK, Labels, QuietStep, OwnStep, push_done, return, goto, coreVars, sinkVars,
     counters
<1> QED
  BY <1>2, <1>3, ReturnPreserves

(* The sinks that are left are tried again, or shuffled and waited for. *)
LEMMA NextPassPreserves ==
  ASSUME CoreInv, NEW t \in CoreThreads, next_pass(t)
  PROVE  CoreInv'
<1> DEFINE f == frame[t]
<1>1. CoreTypeOK /\ ThreadInv(t) /\ f \in Frames /\ Len(f.accepting) <= f.capacity
  BY Locals
<1>2. /\ core_pc[t] = "try" /\ f.sinks # <<>>
      /\ UNCHANGED <<m_enabled, m_sinks, m_filter, m_exception_handler, m_mutex, m_thread_data,
                     m_Filter, m_ExceptionHandler, m_BackendMutex, app, opened, changes,
                     consumed, failed, threw>>
  BY DEF next_pass, coreVars, sinkVars, counters, history
<1>3. Serves(f, "try", Reached(opened_rec(t)))
  BY <1>1, <1>2 DEF ThreadInv, Serving
<1>4. CASE frame' = [frame EXCEPT ![t].it = 1, ![t].all_locked = TRUE] /\ UNCHANGED core_pc
  <2>1. frame'[t] = [f EXCEPT !.it = 1, !.all_locked = TRUE] /\ core_pc'[t] = "try"
    BY <1>1, <1>2, <1>4 DEF CoreTypeOK
  <2>2. QuietStep(t)
    BY <1>1, <1>2, <1>4, <2>1 DEF CoreTypeOK, Labels, QuietStep, OwnStep
  <2> DEFINE n == 1
             b == TRUE
  <2> n \in Nat /\ n # 0 /\ b \in BOOLEAN /\ frame'[t] = [f EXCEPT !.it = n, !.all_locked = b]
    BY <2>1, SMTT(30)
  <2> HIDE DEF f, n, b
  <2>3. /\ frame'[t] \in Frames /\ frame'[t].it = n /\ frame'[t].sinks = f.sinks /\ frame'[t].held = f.held
        /\ frame'[t].accepting = f.accepting /\ frame'[t].capacity = f.capacity
    BY <1>1 DEF Frames
  <2>4. Serves(frame'[t], "try", Reached(opened_rec(t)))
    BY <1>1, <1>3, <2>3, ServesElsewhere
  <2> QED
    BY <1>1, <1>2, <2>1, <2>2, <2>3, <2>4, LoopPreserves
<1>5. ASSUME goto(t, "consume"),
             NEW p \in [DOMAIN f.sinks -> DOMAIN f.sinks], IsInjective(p),
             frame' = [frame EXCEPT ![t].sinks = [i \in DOMAIN f.sinks |-> f.sinks[p[i]]],
                                    ![t].it = 1, ![t].shuffled = TRUE]
      PROVE  CoreInv'
  <2>1. /\ frame'[t] = [f EXCEPT !.sinks = [i \in DOMAIN f.sinks |-> f.sinks[p[i]]],
                                 !.it = 1, !.shuffled = TRUE]
        /\ core_pc'[t] = "consume"
    BY <1>1, <1>5 DEF CoreTypeOK, goto
  <2>2. QuietStep(t)
    BY <1>1, <1>2, <1>5, <2>1 DEF CoreTypeOK, Labels, QuietStep, OwnStep, goto
  <2> DEFINE q == [i \in DOMAIN f.sinks |-> f.sinks[p[i]]]
             n == 1
             b == TRUE
  <2>3. frame'[t] = [f EXCEPT !.sinks = q, !.it = n, !.shuffled = b] /\ n \in Nat /\ b \in BOOLEAN
    BY <2>1
  <2>0. q \in Seq(Sinks) /\ Len(q) = Len(f.sinks) /\ IsInjective(q) /\ Range(q) = Range(f.sinks)
    BY <1>1, <1>3, <1>5, FrameParts, ShuffleRange DEF Serves
  <2> HIDE DEF f, q, n, b
  <2>4. /\ frame'[t] \in Frames /\ frame'[t].it = n /\ frame'[t].sinks = q /\ frame'[t].held = f.held
        /\ frame'[t].accepting = f.accepting /\ frame'[t].capacity = f.capacity
    BY <1>1, <2>0, <2>3 DEF Frames
  <2>5. Serves(frame'[t], "consume", Reached(opened_rec(t)))
    BY <1>1, <1>2, <1>3, <2>0, <2>4, ServesShuffled DEF n
  <2> QED
    BY <1>1, <1>2, <2>1, <2>2, <2>4, <2>5, LoopPreserves
<1> QED
  BY <1>4, <1>5 DEF next_pass

(* consume gets to the backend of the first sink. *)
LEMMA ConsumePreserves ==
  ASSUME CoreInv, NEW t \in CoreThreads, sink_consume(t)
  PROVE  CoreInv'
<1> DEFINE f == frame[t]
<1>1. CoreTypeOK /\ ThreadInv(t) /\ f \in Frames /\ Len(f.accepting) <= f.capacity
  BY Locals
<1>2. /\ core_pc[t] = "consume" /\ core_pc'[t] = "feed" /\ opened' = opened /\ frame'[t] = f
      /\ lock_backend(t, f.sinks[1])
  BY <1>1 DEF CoreTypeOK, sink_consume, goto, counters
<1>3. Serves(f, "consume", Reached(opened_rec(t))) /\ f.sinks[f.it] \in Sinks
  BY <1>2, SinkAt
<1>4. m_BackendMutex' \in [Sinks -> SUBSET CoreThreads]
  BY <1>2, <1>3, BackendLocked DEF Serves
<1>5. QuietStep(t)
  BY <1>1, <1>2, <1>4 DEF CoreTypeOK, Labels, QuietStep, OwnStep, sink_consume, goto, coreVars, sinkVars,
     history, counters
<1>6. Serves(f, "feed", Reached(opened_rec(t)))
  BY <1>3 DEF Serves
<1> QED
  BY <1>1, <1>2, <1>5, <1>6, LoopPreserves

(* The sink that failed is skipped, or the exception leaves the loop. *)
LEMMA CatchPreserves ==
  ASSUME CoreInv, NEW t \in CoreThreads, catch(t)
  PROVE  CoreInv'
<1> DEFINE f == frame[t]
<1>1. CoreTypeOK /\ ThreadInv(t) /\ f \in Frames /\ Len(f.accepting) <= f.capacity
  BY Locals
<1>2. /\ core_pc[t] = "catch"
      /\ UNCHANGED <<m_enabled, m_sinks, m_filter, m_exception_handler, m_mutex, m_thread_data,
                     m_Filter, m_ExceptionHandler, m_BackendMutex, app, opened, changes,
                     consumed, failed, threw>>
  BY DEF catch, coreVars, sinkVars, counters, history
<1>3. CASE /\ frame' = [frame EXCEPT ![t].sinks = drop(@, f.it), ![t].all_locked = TRUE]
           /\ goto(t, "try")
  <2>1. frame'[t] = [f EXCEPT !.sinks = drop(f.sinks, f.it), !.all_locked = TRUE] /\ core_pc'[t] = "try"
    BY <1>1, <1>3 DEF CoreTypeOK, goto
  <2>2. QuietStep(t)
    BY <1>1, <1>2, <1>3, <2>1 DEF CoreTypeOK, Labels, QuietStep, OwnStep, goto
  <2>3. Serves(f, "catch", Reached(opened_rec(t))) /\ f.it \in 1 .. Len(f.sinks)
    BY <1>2, SinkAt
  <2>4. Reached(opened_rec(t)) \cup {f.sinks[f.it]} = Reached(opened_rec(t))
    <3>1. f.it \in DOMAIN f.sinks
      BY <1>1, <2>3, FrameParts
    <3> QED
      BY <2>3, <3>1, SMTT(30) DEF Serves
  <2> HIDE DEF f
  <2>5. /\ frame'[t].it = f.it /\ frame'[t].sinks = drop(f.sinks, f.it) /\ frame'[t].held = f.held
        /\ frame'[t].accepting = f.accepting /\ frame'[t].capacity = f.capacity
    BY <1>1, <2>1 DEF Frames
  <2>6. drop(f.sinks, f.it) \in Seq(Sinks) /\ Serves(frame'[t], "try", Reached(opened_rec(t)))
    BY <1>1, <2>3, <2>4, <2>5, ServesRest
  <2>7. frame'[t] \in Frames
    BY <1>1, <2>1, <2>6 DEF Frames
  <2> QED
    BY <1>1, <1>2, <2>1, <2>2, <2>5, <2>6, <2>7, LoopPreserves
<1>4. CASE goto(t, "catch_outer") /\ UNCHANGED frame
  <2>1. core_pc'[t] = "catch_outer" /\ frame'[t] = f
    BY <1>1, <1>4 DEF CoreTypeOK, goto
  <2>2. QuietStep(t)
    BY <1>1, <1>2, <1>4 DEF CoreTypeOK, Labels, QuietStep, OwnStep, goto
  <2>3. Past(t)'
    <3>1. \A r : Reached(r)' = Reached(r)
      BY <1>2 DEF Reached
    <3> QED
      BY <1>1, <1>2, <2>1, <3>1 DEF ThreadInv, Past
  <2>4. ThreadInv(t)'
    BY <1>2, <2>1, <2>3, RecordExists DEF ThreadInv, Holding, Logging, Unused, Filtering, Locking,
       Serving
  <2> QED
    BY <1>1, <2>1, <2>2, <2>4, QuietStepPreserves
<1> QED
  BY <1>3, <1>4 DEF catch

(* push_record_move, or open_record, throws or returns. *)
LEMMA CatchOuterPreserves ==
  ASSUME CoreInv, NEW t \in CoreThreads, catch_outer(t)
  PROVE  CoreInv'
<1>1. CoreTypeOK
  BY DEF CoreInv
<1>2. core_pc'[t] = "idle" /\ frame'[t] = NoFrame /\ opened' = opened
  BY <1>1 DEF CoreTypeOK, catch_outer, return, goto, counters
<1>3. QuietStep(t)
  BY <1>1, RecordExists DEF CoreTypeOK, Labels, QuietStep, OwnStep, catch_outer, return, goto,
     coreVars, sinkVars, counters
<1> QED
  BY <1>2, <1>3, ReturnPreserves

(* The backend of the sink consumes the record or throws. *)
Calls(s, r) ==
  \/ consumed' = [consumed EXCEPT ![s] = Append(@, r)] /\ failed' = failed
  \/ consumed' = consumed /\ failed' = failed \cup {<<r, s>>}

(* A backend consumes a record or throws on it: the record reaches the sink,  *)
(* and no other record does.                                                  *)
LEMMA Reaches ==
  ASSUME CoreInv, NEW s \in Sinks, NEW r \in CoreRecords, s \notin Reached(r), Calls(s, r)
  PROVE  /\ consumed' \in [Sinks -> Seq(CoreRecords)] /\ failed' \subseteq CoreRecords \X Sinks
         /\ Reached(r)' = Reached(r) \cup {s}
         /\ \A x : x # r => Reached(x)' = Reached(x)
         /\ AtMostOnce'
<1>1. consumed \in [Sinks -> Seq(CoreRecords)] /\ failed \subseteq CoreRecords \X Sinks /\ AtMostOnce
  BY DEF CoreInv, CoreTypeOK
<1>2. r \notin Range(consumed[s]) /\ <<r, s>> \notin failed
  BY DEF Reached
<1>3. CASE consumed' = [consumed EXCEPT ![s] = Append(@, r)] /\ failed' = failed
  <2>1. consumed[s] \in Seq(CoreRecords) /\ Append(consumed[s], r) \in Seq(CoreRecords)
    BY <1>1, SMTT(30)
  <2>2. /\ Range(Append(consumed[s], r)) = Range(consumed[s]) \cup {r}
        /\ IsInjective(Append(consumed[s], r))
    BY <1>1, <1>2, <2>1, AppendRange DEF AtMostOnce
  <2>3. /\ consumed' \in [Sinks -> Seq(CoreRecords)] /\ consumed'[s] = Append(consumed[s], r)
        /\ \A z \in Sinks \ {s} : consumed'[z] = consumed[z]
    BY <1>1, <1>3, <2>1
  <2>4. \A x : \A z \in Sinks : x \in Range(consumed'[z]) <=> x \in Range(consumed[z]) \/ (x = r /\ z = s)
    BY <2>2, <2>3
  <2>5. Reached(r)' = Reached(r) \cup {s} /\ \A x : x # r => Reached(x)' = Reached(x)
    BY <1>3, <2>4 DEF Reached
  <2>6. AtMostOnce'
    BY <1>1, <1>2, <1>3, <2>2, <2>3, <2>4 DEF AtMostOnce
  <2> QED
    BY <1>1, <1>3, <2>3, <2>5, <2>6
<1>4. CASE consumed' = consumed /\ failed' = failed \cup {<<r, s>>}
  <2>1. failed' \subseteq CoreRecords \X Sinks
    BY <1>1, <1>4, SMTT(30)
  <2>2. Reached(r)' = Reached(r) \cup {s} /\ \A x : x # r => Reached(x)' = Reached(x)
    BY <1>4 DEF Reached
  <2>3. AtMostOnce'
    BY <1>1, <1>2, <1>4 DEF AtMostOnce
  <2> QED
    BY <1>1, <1>4, <2>1, <2>2, <2>3
<1> QED
  BY <1>3, <1>4 DEF Calls

(* The sink that the thread is at leaves the range. *)
Leaves(f, g) ==
  \E b \in BOOLEAN : g = [f EXCEPT !.sinks = drop(f.sinks, f.it), !.all_locked = b]

(* The backend of the sink that the thread is at has been called. *)
LEMMA FedPreserves ==
  ASSUME CoreInv, NEW t \in CoreThreads, OwnStep(t), opened' = opened,
         core_pc[t] \in {"try_feed", "feed"}, NEW s, s = frame[t].sinks[frame[t].it], Calls(s, opened_rec(t)),
         core_pc'[t] \in {"try", "catch"},
         core_pc'[t] = "catch" => frame'[t] = frame[t],
         core_pc'[t] = "try" => Leaves(frame[t], frame'[t])
  PROVE  CoreInv'
<1> DEFINE f == frame[t]
           R == Reached(opened_rec(t))
<1>1. CoreTypeOK /\ ThreadInv(t) /\ f \in Frames /\ Len(f.accepting) <= f.capacity
  BY Locals
<1>2. Serves(f, core_pc[t], R) /\ f.it \in 1 .. Len(f.sinks) /\ s \in Sinks
  BY SinkAt
<1>3. opened_rec(t) \in CoreRecords /\ t \in Loggers /\ opened[t] \in 1 .. MaxOpened /\ opened_rec(t)' = opened_rec(t)
  BY RecordExists DEF opened_rec
<1>4. f.it \in DOMAIN f.sinks
  BY <1>1, <1>2, FrameParts
<1>5. s \notin R
  BY <1>2, <1>4 DEF Serves
<1>6. /\ consumed' \in [Sinks -> Seq(CoreRecords)] /\ failed' \subseteq CoreRecords \X Sinks
      /\ Reached(opened_rec(t))' = R \cup {s}
      /\ \A x : x # opened_rec(t) => Reached(x)' = Reached(x)
      /\ AtMostOnce'
  BY <1>2, <1>3, <1>5, Reaches
<1>7. \A u \in CoreThreads \ {t} : \A n \in 1 .. MaxOpened : Reached(<<u, n>>)' = Reached(<<u, n>>)
  BY <1>6 DEF opened_rec
<1>8. /\ frame'[t] \in Frames /\ Len(frame'[t].accepting) <= frame'[t].capacity
      /\ Serves(frame'[t], core_pc'[t], R \cup {s})
  <2>1. CASE core_pc'[t] = "catch"
    <3>1. \A i \in DOMAIN f.sinks : f.sinks[i] \in R \cup {s} <=> i = f.it
      BY <1>2, <1>4 DEF Serves, IsInjective
    <3>2. f.held \subseteq Range(f.sinks) \cup (R \cup {s})
      BY <1>2 DEF Serves
    <3>3. Serves(f, "catch", R \cup {s})
      BY <1>2, <3>1, <3>2 DEF Serves
    <3> QED
      BY <1>1, <2>1, <3>3
  <2>2. CASE core_pc'[t] = "try"
    <3>1. PICK b \in BOOLEAN : frame'[t] = [f EXCEPT !.sinks = drop(f.sinks, f.it), !.all_locked = b]
      BY <2>2 DEF Leaves
    <3> DEFINE q == drop(f.sinks, f.it)
    <3>0. core_pc[t] # "try" /\ Serves(f, core_pc[t], R)
      BY <1>2
    <3> HIDE DEF f, R
    <3>2. /\ frame'[t].it = f.it /\ frame'[t].sinks = q /\ frame'[t].held = f.held
          /\ frame'[t].accepting = f.accepting /\ frame'[t].capacity = f.capacity
      BY <1>1, <3>1 DEF Frames
    <3>3. q \in Seq(Sinks) /\ Serves(frame'[t], "try", R \cup {f.sinks[f.it]})
      BY <1>1, <3>0, <3>2, ServesRest
    <3>4. frame'[t] = [f EXCEPT !.sinks = q, !.all_locked = b]
      BY <3>1
    <3> HIDE DEF q
    <3>5. frame'[t] \in Frames
      BY <1>1, <3>3, <3>4 DEF Frames
    <3> QED
      BY <1>1, <2>2, <3>2, <3>3, <3>5 DEF f, R
  <2> QED
    BY <2>1, <2>2
<1>9. ThreadInv(t)'
  <2>1. Past(t)'
    <3> SUFFICES ASSUME NEW n \in 1 .. MaxOpened, Reached(<<t, n>>)' # {}
                 PROVE  n <= opened[t]
      BY DEF Past
    <3>1. CASE n = opened[t]
      BY <3>1, RecordNumbers
    <3>2. CASE n # opened[t]
      BY <1>1, <1>6, <3>2 DEF opened_rec, ThreadInv, Past
    <3> QED
      BY <3>1, <3>2
  <2>2. Serving(t)'
    BY <1>3, <1>6, <1>8 DEF Serving
  <2>3. Holding(t)' /\ Logging(t)' /\ Unused(t)' /\ Filtering(t)' /\ Locking(t)'
    BY <1>3 DEF Holding, Logging, Unused, Filtering, Locking
  <2> QED
    BY <2>1, <2>2, <2>3 DEF ThreadInv
<1> QED
  BY <1>6, <1>7, <1>8, <1>9, StepPreserves

(* What serve leaves in the locals. *)
LEMMA Served ==
  ASSUME CoreInv, NEW t \in CoreThreads, serve(t)
  PROVE  /\ frame' = [frame EXCEPT ![t] = frame'[t]] /\ core_pc' = [core_pc EXCEPT ![t] = "try"]
         /\ Leaves(frame[t], frame'[t])
<1>1. frame \in [CoreThreads -> Frames] /\ frame[t] \in Frames
  BY DEF CoreInv, CoreTypeOK
<1> DEFINE b == core_pc[t] = "feed"
<1>2. b \in BOOLEAN
  OBVIOUS
<1>3. frame' = [frame EXCEPT ![t].sinks = drop(@, frame[t].it), ![t].all_locked = b]
  BY DEF serve
<1> HIDE DEF b
<1>4. frame'[t] = [frame[t] EXCEPT !.sinks = drop(frame[t].sinks, frame[t].it), !.all_locked = b]
  BY <1>1, <1>3
<1>5. frame' = [frame EXCEPT ![t] = frame'[t]]
  BY <1>1, <1>3
<1> QED
  BY <1>2, <1>4, <1>5 DEF serve, goto, Leaves

(* The backend consumes the record. *)
LEMMA FeedRecordPreserves ==
  ASSUME CoreInv, NEW t \in CoreThreads, sink_feed_record(t)
  PROVE  CoreInv'
<1> DEFINE s == frame[t].sinks[frame[t].it]
<1>1. CoreTypeOK
  BY DEF CoreInv
<1>2. /\ core_pc[t] \in {"try_feed", "feed"} /\ serve(t) /\ unlock_backend(t, s)
      /\ Calls(s, opened_rec(t))
      /\ UNCHANGED <<m_enabled, m_sinks, m_filter, m_exception_handler, m_mutex, m_thread_data,
                     m_Filter, m_ExceptionHandler, app, opened, changes, threw>>
  BY DEF sink_feed_record, Calls, coreVars, sinkVars, counters
<1>3. /\ frame' = [frame EXCEPT ![t] = frame'[t]] /\ core_pc' = [core_pc EXCEPT ![t] = "try"]
      /\ Leaves(frame[t], frame'[t])
  BY <1>2, Served
<1>4. core_pc'[t] = "try"
  BY <1>1, <1>3 DEF CoreTypeOK
<1>5. m_BackendMutex' \in [Sinks -> SUBSET CoreThreads]
  BY <1>1, <1>2 DEF CoreTypeOK, unlock_backend
<1>6. OwnStep(t)
  BY <1>1, <1>2, <1>3, <1>4, <1>5 DEF CoreTypeOK, Labels, OwnStep
<1> QED
  BY <1>2, <1>3, <1>4, <1>6, FedPreserves

(* The backend throws, and the sink's handler may absorb the exception. *)
LEMMA FeedThrowsPreserves ==
  ASSUME CoreInv, NEW t \in CoreThreads, feed_throws(t)
  PROVE  CoreInv'
<1> DEFINE s == frame[t].sinks[frame[t].it]
<1>1. CoreTypeOK
  BY DEF CoreInv
<1>2. /\ core_pc[t] \in {"try_feed", "feed"} /\ unlock_backend(t, s)
      /\ Calls(s, opened_rec(t))
      /\ UNCHANGED <<m_enabled, m_sinks, m_filter, m_exception_handler, m_mutex, m_thread_data,
                     m_Filter, m_ExceptionHandler, app, opened, changes, threw>>
  BY DEF feed_throws, Calls, coreVars, sinkVars, counters
<1>3. m_BackendMutex' \in [Sinks -> SUBSET CoreThreads]
  BY <1>1, <1>2 DEF CoreTypeOK, unlock_backend
<1>4. CASE serve(t)
  <2>1. /\ frame' = [frame EXCEPT ![t] = frame'[t]] /\ core_pc' = [core_pc EXCEPT ![t] = "try"]
        /\ Leaves(frame[t], frame'[t])
    BY <1>4, Served
  <2>2. core_pc'[t] = "try"
    BY <1>1, <2>1 DEF CoreTypeOK
  <2>3. OwnStep(t)
    BY <1>1, <1>2, <1>3, <2>1, <2>2 DEF CoreTypeOK, Labels, OwnStep
  <2> QED
    BY <1>2, <2>1, <2>2, <2>3, FedPreserves
<1>5. CASE goto(t, "catch") /\ UNCHANGED frame
  <2>1. frame' = frame /\ core_pc'[t] = "catch" /\ core_pc' = [core_pc EXCEPT ![t] = "catch"]
    BY <1>1, <1>5 DEF CoreTypeOK, goto
  <2>2. OwnStep(t)
    BY <1>1, <1>2, <1>3, <2>1 DEF CoreTypeOK, Labels, OwnStep
  <2> QED
    BY <1>2, <2>1, <2>2, FedPreserves
<1> QED
  BY <1>4, <1>5 DEF feed_throws

-----------------------------------------------------------------------------
(* Configuration and flush *)

(* An operation that leaves every call as it is changes the list only while   *)
(* no thread goes through it.                                                 *)
LEMMA OperationPreserves ==
  ASSUME CoreInv, NEW t \in CoreThreads, operate(t), CoreTypeOK',
         UNCHANGED <<m_mutex, core_pc, frame, opened, consumed, failed>>,
         IsInjective(m_sinks'), m_sinks' = m_sinks \/ can_write
  PROVE  CoreInv'
<1>1. \A u \in CoreThreads : ThreadInv(u)
  BY DEF CoreInv
<1>2. \A r : Reached(r)' = Reached(r)
  BY DEF Reached
<1>3. ASSUME NEW u \in CoreThreads PROVE ThreadInv(u)'
  <2>1. Holding(u) /\ Holding(u)'
    BY <1>1 DEF ThreadInv, Holding
  <2>2. core_pc[u] = "filter" => m_sinks' = m_sinks
    BY <2>1 DEF Holding, can_write
  <2> QED
    BY <1>2, <2>1, <2>2, Unaffected
<1>4. AtMostOnce'
  BY DEF CoreInv, AtMostOnce
<1> QED
  BY <1>3, <1>4 DEF CoreInv

(* The settings of the core and of the sinks, except for the list. *)
LEMMA SettingsPreserve ==
  ASSUME CoreInv, NEW t \in CoreThreads,
         \/ set_logging_enabled(t) \/ set_filter(t) \/ set_exception_handler(t)
         \/ \E s \in OwnSinks : set_sink_filter(t, s) \/ set_sink_handler(t, s) \/ release_sink(t, s)
  PROVE  CoreInv'
<1>1. CoreTypeOK /\ IsInjective(m_sinks)
  BY DEF CoreInv
<1>2. ASSUME operate(t)
      PROVE  changes' \in [CoreThreads -> 0 .. MaxChanges]
  BY <1>1, <1>2, CoreAssumption, SMTT(30) DEF CoreTypeOK, operate
<1>3. CASE set_logging_enabled(t)
  <2>1. operate(t)
    BY <1>3 DEF set_logging_enabled
  <2>2. CoreTypeOK' /\ UNCHANGED <<m_mutex, core_pc, frame, opened, consumed, failed, m_sinks>>
    BY <1>1, <1>2, <1>3, <2>1 DEF CoreTypeOK, set_logging_enabled, core_only, sinkVars, history
  <2> QED
    BY <1>1, <2>1, <2>2, OperationPreserves
<1>4. CASE set_filter(t)
  <2>1. operate(t)
    BY <1>4 DEF set_filter
  <2>2. CoreTypeOK' /\ UNCHANGED <<m_mutex, core_pc, frame, opened, consumed, failed, m_sinks>>
    BY <1>1, <1>2, <1>4, <2>1 DEF CoreTypeOK, set_filter, core_only, sinkVars, history
  <2> QED
    BY <1>1, <2>1, <2>2, OperationPreserves
<1>5. CASE set_exception_handler(t)
  <2>1. operate(t)
    BY <1>5 DEF set_exception_handler
  <2>2. CoreTypeOK' /\ UNCHANGED <<m_mutex, core_pc, frame, opened, consumed, failed, m_sinks>>
    BY <1>1, <1>2, <1>5, <2>1 DEF CoreTypeOK, set_exception_handler, core_only, sinkVars, history
  <2> QED
    BY <1>1, <2>1, <2>2, OperationPreserves
<1>6. ASSUME NEW s \in OwnSinks, set_sink_filter(t, s)
      PROVE  CoreInv'
  <2>1. operate(t)
    BY <1>6 DEF set_sink_filter
  <2>2. CoreTypeOK' /\ UNCHANGED <<m_mutex, core_pc, frame, opened, consumed, failed, m_sinks>>
    BY <1>1, <1>2, <1>6, <2>1 DEF CoreTypeOK, set_sink_filter, coreVars, history
  <2> QED
    BY <1>1, <2>1, <2>2, OperationPreserves
<1>7. ASSUME NEW s \in OwnSinks, set_sink_handler(t, s)
      PROVE  CoreInv'
  <2>1. operate(t)
    BY <1>7 DEF set_sink_handler
  <2>2. CoreTypeOK' /\ UNCHANGED <<m_mutex, core_pc, frame, opened, consumed, failed, m_sinks>>
    BY <1>1, <1>2, <1>7, <2>1 DEF CoreTypeOK, set_sink_handler, coreVars, history
  <2> QED
    BY <1>1, <2>1, <2>2, OperationPreserves
<1>8. ASSUME NEW s \in OwnSinks, release_sink(t, s)
      PROVE  CoreInv'
  <2>1. operate(t)
    BY <1>8 DEF release_sink
  <2>2. CoreTypeOK' /\ UNCHANGED <<m_mutex, core_pc, frame, opened, consumed, failed, m_sinks>>
    BY <1>1, <1>2, <1>8, <2>1 DEF CoreTypeOK, release_sink, coreVars, sinkVars, history
  <2> QED
    BY <1>1, <2>1, <2>2, OperationPreserves
<1> QED
  BY <1>3, <1>4, <1>5, <1>6, <1>7, <1>8

(* The list of sinks changes: it has no sink twice. *)
LEMMA ListPreserves ==
  ASSUME CoreInv, NEW t \in CoreThreads,
         remove_all_sinks(t) \/ \E s \in OwnSinks : add_sink(t, s) \/ remove_sink(t, s)
  PROVE  CoreInv'
<1>1. CoreTypeOK /\ IsInjective(m_sinks) /\ m_sinks \in Seq(OwnSinks)
  BY DEF CoreInv, CoreTypeOK
<1>2. /\ operate(t) /\ can_write /\ core_only /\ UNCHANGED <<m_enabled, m_filter, m_exception_handler>>
      /\ \/ m_sinks' = <<>>
         \/ \E s \in OwnSinks : \/ m_sinks' = IF s \in Range(m_sinks) THEN erase(m_sinks, s) ELSE m_sinks
                                \/ m_sinks' = IF s \in Range(m_sinks) THEN m_sinks ELSE Append(m_sinks, s)
  BY DEF remove_all_sinks, add_sink, remove_sink
<1>3. m_sinks' \in Seq(OwnSinks) /\ IsInjective(m_sinks')
  <2>1. CASE m_sinks' = <<>>
    BY <2>1, SMTT(30) DEF IsInjective
  <2>2. ASSUME NEW s \in OwnSinks, s \in Range(m_sinks), m_sinks' = erase(m_sinks, s)
        PROVE  m_sinks' \in Seq(OwnSinks) /\ IsInjective(m_sinks')
    BY <1>1, <2>2, EraseInjective
  <2>3. CASE m_sinks' = m_sinks
    BY <1>1, <2>3
  <2>4. ASSUME NEW s \in OwnSinks, s \notin Range(m_sinks), m_sinks' = Append(m_sinks, s)
        PROVE  m_sinks' \in Seq(OwnSinks) /\ IsInjective(m_sinks')
    <3>1. Append(m_sinks, s) \in Seq(OwnSinks)
      BY <1>1
    <3>2. IsInjective(Append(m_sinks, s))
      BY <1>1, <2>4, AppendRange
    <3> QED
      BY <2>4, <3>1, <3>2
  <2> QED
    BY <1>2, <2>1, <2>2, <2>3, <2>4
<1>4. changes' \in [CoreThreads -> 0 .. MaxChanges]
  BY <1>1, <1>2, CoreAssumption, SMTT(30) DEF CoreTypeOK, operate
<1>5. CoreTypeOK' /\ UNCHANGED <<m_mutex, core_pc, frame, opened, consumed, failed>>
  BY <1>1, <1>2, <1>3, <1>4 DEF CoreTypeOK, core_only, sinkVars, history
<1> QED
  BY <1>2, <1>3, <1>5, OperationPreserves

(* flush takes the write lock, and goes through the sinks with it. *)
LEMMA FlushPreserves ==
  ASSUME CoreInv, NEW t \in CoreThreads, core_flush(t) \/ flush_sink(t)
  PROVE  CoreInv'
<1>1. CoreTypeOK /\ ThreadInv(t) /\ frame[t] \in Frames /\ Len(frame[t].accepting) <= frame[t].capacity
  BY Locals
<1>2. ASSUME QuietStep(t), core_pc'[t] = "flush", t \in m_mutex'.writer, opened' = opened,
             frame'[t] \in Frames, Len(frame'[t].accepting) <= frame'[t].capacity
      PROVE  CoreInv'
  <2>1. \A r : Reached(r)' = Reached(r)
    BY <1>2 DEF QuietStep, Reached
  <2>2. Past(t)'
    BY <1>1, <1>2, <2>1 DEF ThreadInv, Past
  <2>3. ThreadInv(t)'
    BY <1>2, <2>2 DEF ThreadInv, Holding, Logging, Unused, Filtering, Locking, Serving
  <2> QED
    BY <1>2, <2>3, QuietStepPreserves
<1>3. CASE core_flush(t)
  <2>1. core_pc'[t] = "flush" /\ t \in m_mutex'.writer /\ opened' = opened /\ frame' = frame
    BY <1>1, <1>3 DEF CoreTypeOK, core_flush, goto
  <2>2. changes' = [changes EXCEPT ![t] = changes'[t]] /\ changes'[t] \in 0 .. MaxChanges
    BY <1>1, <1>3, CoreAssumption, SMTT(30) DEF CoreTypeOK, core_flush, operate
  <2>3. /\ m_mutex' \in [writer : SUBSET CoreThreads, readers : SUBSET CoreThreads]
        /\ m_mutex.writer = {} /\ m_mutex'.readers = m_mutex.readers
    BY <1>1, <1>3 DEF CoreTypeOK, core_flush, can_write
  <2>4. QuietStep(t)
    BY <1>1, <1>3, <2>1, <2>2, <2>3 DEF CoreTypeOK, Labels, QuietStep, OwnStep, core_flush, goto, coreVars,
       sinkVars, history
  <2> QED
    BY <1>1, <1>2, <2>1, <2>4
<1>4. CASE flush_sink(t)
  <2>1. /\ core_pc'[t] = "flush" /\ core_pc' = core_pc /\ m_mutex' = m_mutex /\ core_pc[t] = "flush" /\ opened' = opened
        /\ frame'[t] = [frame[t] EXCEPT !.it = @ + 1]
    BY <1>1, <1>4 DEF CoreTypeOK, flush_sink, counters
  <2>2. QuietStep(t)
    BY <1>1, <1>4, <2>1 DEF CoreTypeOK, Labels, QuietStep, OwnStep, flush_sink, coreVars, sinkVars,
       history, counters
  <2>3. frame'[t] \in Frames /\ Len(frame'[t].accepting) <= frame'[t].capacity
    BY <1>1, <2>1, SMTT(30) DEF Frames
  <2>4. t \in m_mutex'.writer
    BY <1>1, <2>1 DEF ThreadInv, Holding
  <2> QED
    BY <1>2, <2>1, <2>2, <2>3, <2>4
<1> QED
  BY <1>3, <1>4

(* flush returns, or throws. *)
LEMMA FlushEndPreserves ==
  ASSUME CoreInv, NEW t \in CoreThreads, flush_throws(t) \/ flush_done(t)
  PROVE  CoreInv'
<1>1. CoreTypeOK
  BY DEF CoreInv
<1>2. /\ release_write(t) /\ return(t, FALSE)
      /\ UNCHANGED <<coreVars, m_thread_data, sinkVars, m_BackendMutex, app, counters>>
  BY DEF flush_throws, flush_done
<1>3. core_pc'[t] = "idle" /\ frame'[t] = NoFrame /\ opened' = opened
  BY <1>1, <1>2 DEF CoreTypeOK, return, goto, counters
<1>4. QuietStep(t)
  BY <1>1, <1>2 DEF CoreTypeOK, Labels, QuietStep, OwnStep, release_write, return, goto, coreVars,
     sinkVars, counters
<1> QED
  BY <1>3, <1>4, ReturnPreserves

-----------------------------------------------------------------------------
(* The theorems *)

(* Every step of every thread keeps the invariant. *)
LEMMA NextPreserves ==
  ASSUME CoreInv, [CoreNext]_loggingVars
  PROVE  CoreInv'
<1>1. CASE UNCHANGED loggingVars
  <2>1. UNCHANGED <<m_enabled, m_sinks, m_filter, m_exception_handler, m_mutex, m_thread_data, m_Filter,
                    m_ExceptionHandler, m_BackendMutex, app, core_pc, frame, opened, changes, consumed,
                    failed, threw>>
    BY <1>1 DEF loggingVars, coreVars, sinkVars, counters, history
  <2>2. CoreTypeOK' /\ AtMostOnce' /\ IsInjective(m_sinks')
    BY <2>1 DEF CoreInv, CoreTypeOK, AtMostOnce
  <2>3. ASSUME NEW u \in CoreThreads PROVE ThreadInv(u)'
    <3>1. \A r : Reached(r)' = Reached(r)
      BY <2>1 DEF Reached
    <3>2. Holding(u)'
      BY <2>1 DEF CoreInv, ThreadInv, Holding
    <3> QED
      BY <2>1, <3>1, <3>2, Unaffected
  <2> QED
    BY <2>2, <2>3 DEF CoreInv
<1>2. ASSUME NEW t \in CoreThreads, CoreStep(t)
      PROVE  CoreInv'
  BY <1>2, InitThreadDataPreserves, OpenLockedPreserves, OpenRejectedPreserves,
     GlobalFilterThrowsPreserves, ApplySinkFilterPreserves, SinkFilterThrowsPreserves,
     OpenDonePreserves, LockSinkPreserves, SinksLockedPreserves, TryConsumePreserves,
     TryConsumeBusyPreserves, PushDonePreserves, NextPassPreserves, ConsumePreserves,
     FeedRecordPreserves, FeedThrowsPreserves, CatchPreserves, CatchOuterPreserves,
     FlushPreserves, FlushEndPreserves
     DEF CoreStep, OpenStep, PushStep, FlushStep
<1>3. ASSUME NEW t \in Loggers, LoggerCall(t)
      PROVE  CoreInv'
  BY <1>3, OpenRecordPreserves, PushRecordPreserves, DropRecordPreserves
     DEF LoggerCall, CoreThreads
<1>4. ASSUME NEW t \in Admins, AdminCall(t)
      PROVE  CoreInv'
  BY <1>4, SettingsPreserve, ListPreserves, FlushPreserves DEF AdminCall, CoreThreads
<1> QED
  BY <1>1, <1>2, <1>3, <1>4 DEF CoreNext

(* CoreInv is an invariant of the core. *)
THEOREM CoreInvariant == CoreSpec => []CoreInv
<1>1. CoreInit => CoreInv
  BY CoreStart
<1>2. CoreInv /\ [CoreNext]_loggingVars => CoreInv'
  BY NextPreserves
<1> QED
  BY <1>1, <1>2, PTL DEF CoreSpec

(* The variables keep their types, and no record takes more sinks than it has *)
(* room for: the assertion of push_back_accepting_sink (core.cpp:154).        *)
THEOREM RoomForAcceptingSinks == CoreSpec => []CoreTypeOK
<1>1. CoreInv => CoreTypeOK
  BY DEF CoreInv
<1> QED
  BY <1>1, CoreInvariant, PTL

(* No backend gets a record twice, nor again after it threw on it, whatever   *)
(* is added and removed meanwhile.                                            *)
THEOREM ServedAtMostOnce == CoreSpec => []AtMostOnce
<1>1. CoreInv => AtMostOnce
  BY DEF CoreInv
<1> QED
  BY <1>1, CoreInvariant, PTL

(* Only add_sink, remove_sink and remove_all_sinks change the list, and they  *)
(* do it with the write lock.                                                 *)
LEMMA ListChange ==
  ASSUME CoreNext, m_sinks' # m_sinks
  PROVE  can_write
<1>1. ASSUME NEW t \in CoreThreads, CoreStep(t)
      PROVE  m_sinks' = m_sinks
  <2>1. CASE OpenStep(t)
    BY <2>1 DEF OpenStep, init_thread_data, open_locked, open_rejected, global_filter_throws,
       apply_sink_filter, sink_filter_throws, open_done, coreVars
  <2>2. CASE PushStep(t)
    BY <2>2 DEF PushStep, lock_sink, sinks_locked, sink_try_consume, sink_try_consume_busy, push_done,
       next_pass, sink_consume, sink_feed_record, feed_throws, catch, catch_outer, coreVars
  <2>3. CASE FlushStep(t)
    BY <2>3 DEF FlushStep, flush_sink, flush_throws, flush_done, coreVars
  <2> QED
    BY <1>1, <2>1, <2>2, <2>3 DEF CoreStep
<1>2. ASSUME NEW t \in Loggers, LoggerCall(t)
      PROVE  m_sinks' = m_sinks
  BY <1>2 DEF LoggerCall, open_record, push_record, drop_record, coreVars
<1>3. ASSUME NEW t \in Admins, AdminCall(t)
      PROVE  m_sinks' = m_sinks \/ can_write
  BY <1>3 DEF AdminCall, set_logging_enabled, remove_all_sinks, set_filter, set_exception_handler,
     core_flush, add_sink, remove_sink, set_sink_filter, set_sink_handler, release_sink, coreVars
<1> QED
  BY <1>1, <1>2, <1>3 DEF CoreNext

(* The list of sinks does not change under a thread that goes through it in   *)
(* open_record or in flush.                                                   *)
THEOREM ListStableWhileRead == CoreSpec => SinksStable
<1>1. ASSUME CoreInv, [CoreNext]_loggingVars, NEW t \in CoreThreads, core_pc[t] \in {"filter", "flush"}
      PROVE  m_sinks' = m_sinks
  <2>1. Holding(t)
    BY <1>1 DEF CoreInv, ThreadInv
  <2>2. ~ can_write
    BY <1>1, <2>1 DEF Holding, can_write
  <2>3. CASE CoreNext
    BY <2>2, <2>3, ListChange
  <2>4. CASE UNCHANGED loggingVars
    BY <2>4 DEF loggingVars, coreVars
  <2> QED
    BY <1>1, <2>3, <2>4
<1>2. CoreInv /\ [CoreNext]_loggingVars =>
        [(\E t \in CoreThreads : core_pc[t] \in {"filter", "flush"}) => m_sinks' = m_sinks]_loggingVars
  BY <1>1
<1> QED
  BY <1>2, CoreInvariant, PTL DEF CoreSpec, SinksStable

(* A thread in the loop of push_record_move returns only when no sink is left. *)
LEMMA LoopEnds ==
  ASSUME CoreTypeOK, CoreNext, NEW t \in CoreThreads, core_pc[t] = "try", core_pc'[t] = "idle"
  PROVE  frame[t].sinks = <<>> /\ UNCHANGED <<consumed, failed>>
<1>1. core_pc \in [CoreThreads -> Labels]
  BY DEF CoreTypeOK
<1>2. ASSUME NEW u \in CoreThreads, CoreStep(u)
      PROVE  push_done(u) /\ u = t
  <2>1. CASE OpenStep(u)
    BY <1>1, <2>1 DEF OpenStep, init_thread_data, open_locked, open_rejected, global_filter_throws,
       apply_sink_filter, sink_filter_throws, open_done, return, goto
  <2>2. CASE lock_sink(u) \/ sinks_locked(u) \/ sink_try_consume(u) \/ sink_try_consume_busy(u) \/ next_pass(u)
    BY <1>1, <2>2 DEF lock_sink, sinks_locked, sink_try_consume, sink_try_consume_busy, next_pass, goto
  <2>3. CASE sink_consume(u) \/ catch(u) \/ catch_outer(u)
    BY <1>1, <2>3 DEF sink_consume, catch, catch_outer, return, goto
  <2>4. CASE sink_feed_record(u) \/ feed_throws(u)
    BY <1>1, <2>4 DEF sink_feed_record, feed_throws, serve, goto
  <2>5. CASE FlushStep(u)
    BY <1>1, <2>5 DEF FlushStep, flush_sink, flush_throws, flush_done, return, goto
  <2>6. CASE push_done(u)
    BY <1>1, <2>6 DEF push_done, return, goto
  <2> QED
    BY <1>2, <2>1, <2>2, <2>3, <2>4, <2>5, <2>6 DEF CoreStep, PushStep
<1>3. ASSUME NEW u \in Loggers, LoggerCall(u)
      PROVE  FALSE
  BY <1>1, <1>3 DEF LoggerCall, open_record, push_record, drop_record, return, goto, CoreThreads
<1>4. ASSUME NEW u \in Admins, AdminCall(u)
      PROVE  FALSE
  <2>1. core_pc' = core_pc \/ goto(u, "flush")
    BY <1>4 DEF AdminCall, set_logging_enabled, remove_all_sinks, set_filter, set_exception_handler,
       core_flush, add_sink, remove_sink, set_sink_filter, set_sink_handler, release_sink, core_only
  <2> QED
    BY <1>1, <2>1 DEF goto, CoreThreads
<1> QED
  BY <1>2, <1>3, <1>4 DEF CoreNext, push_done, return

(* When push_record_move returns from its loop, every sink it had locked has  *)
(* consumed the record or thrown on it.                                       *)
THEOREM PushServesEverySink == CoreSpec => PushServesAll
<1>1. ASSUME CoreInv, [CoreNext]_loggingVars, NEW t \in CoreThreads, core_pc[t] = "try", core_pc'[t] = "idle",
             NEW s \in frame[t].held
      PROVE  opened_rec(t) \in Range(consumed[s]) \/ <<opened_rec(t), s>> \in failed
  <2>1. CoreNext
    BY <1>1 DEF loggingVars
  <2>2. frame[t].sinks = <<>>
    BY <1>1, <2>1, LoopEnds DEF CoreInv
  <2>3. Serves(frame[t], "try", Reached(opened_rec(t)))
    BY <1>1 DEF CoreInv, ThreadInv, Serving
  <2>4. Range(<<>>) = {}
    BY DEF Range
  <2>5. s \in Reached(opened_rec(t))
    BY <1>1, <2>2, <2>3, <2>4 DEF Serves
  <2> QED
    BY <2>5 DEF Reached
<1>2. CoreInv /\ [CoreNext]_loggingVars =>
        [\A t \in CoreThreads :
           core_pc[t] = "try" /\ core_pc'[t] = "idle" =>
             \A s \in frame[t].held :
                \/ opened_rec(t) \in Range(consumed[s])
                \/ <<opened_rec(t), s>> \in failed]_loggingVars
  BY <1>1
<1> QED
  BY <1>2, CoreInvariant, PTL DEF CoreSpec, PushServesAll

(* With an exception handler that does not throw, neither open_record nor     *)
(* push_record_move throws.                                                   *)
THEOREM HandlerShieldsCallers == CoreSpec => []HandlerShields
<1>1. CoreInit => HandlerShields
  BY DEF CoreInit, HandlerShields
<1>2. ASSUME HandlerShields, CoreTypeOK, [CoreNext]_loggingVars, Handlers = {"absorbs"}
      PROVE  threw' = {}
  <2>1. absorbed(m_exception_handler) /\ threw = {}
    BY <1>2 DEF CoreTypeOK, absorbed, HandlerShields
  <2>2. ASSUME NEW t \in CoreThreads, CoreStep(t)
        PROVE  threw' = threw
    <3>1. CASE OpenStep(t)
      BY <2>1, <3>1 DEF OpenStep, init_thread_data, open_locked, open_rejected,
         global_filter_throws,
         apply_sink_filter, sink_filter_throws, open_done, return, history
    <3>2. CASE PushStep(t)
      BY <2>1, <3>2 DEF PushStep, lock_sink, sinks_locked, sink_try_consume, sink_try_consume_busy, push_done,
         next_pass, sink_consume, sink_feed_record, feed_throws, catch, catch_outer, return, history
    <3>3. CASE FlushStep(t)
      BY <3>3 DEF FlushStep, flush_sink, flush_throws, flush_done, return, history
    <3> QED
      BY <2>2, <3>1, <3>2, <3>3 DEF CoreStep
  <2>3. ASSUME NEW t \in Loggers, LoggerCall(t)
        PROVE  threw' = threw
    BY <2>3 DEF LoggerCall, open_record, push_record, drop_record, return, history
  <2>4. ASSUME NEW t \in Admins, AdminCall(t)
        PROVE  threw' = threw
    BY <2>4 DEF AdminCall, set_logging_enabled, remove_all_sinks, set_filter, set_exception_handler,
       core_flush, add_sink, remove_sink, set_sink_filter, set_sink_handler, release_sink, core_only, history
  <2>5. CASE UNCHANGED loggingVars
    BY <2>5, <2>1 DEF loggingVars, history
  <2> QED
    BY <1>2, <2>1, <2>2, <2>3, <2>4, <2>5 DEF CoreNext
<1>3. HandlerShields /\ CoreTypeOK /\ [CoreNext]_loggingVars => HandlerShields'
  BY <1>2 DEF HandlerShields
<1> QED
  BY <1>1, <1>3, RoomForAcceptingSinks, PTL DEF CoreSpec
=============================================================================
