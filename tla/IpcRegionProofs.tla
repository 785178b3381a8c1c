---------------------------- MODULE IpcRegionProofs ----------------------------
(***************************************************************************)
(* The life of a shared memory segment, for any number of processes,       *)
(* segments, calls and crashes.                                            *)
(*                                                                         *)
(* A count of references does not say who has the segment when it is zero: *)
(* the invariant adds that such a segment has at most one owner, which     *)
(* either constructs or destroys it (Alone), that the header is live as    *)
(* long as the count is positive (Live), and that the name belongs to the  *)
(* segment that is counted or under construction (Named).  Every step of   *)
(* an object is one of five effects: it goes on, creates a segment, joins, *)
(* leaves, or dies.                                                        *)
(***************************************************************************)
EXTENDS IpcRegion, FiniteSetTheorems, TLAPS

(* The provers, with their limits in seconds, for the leaves that name none.  *)
USE ZenonT(10), SMTT(30)

(* Finitely many processes use the queue. *)
Finite == IsFiniteSet(Objects) /\ MaxSegments \in Nat

(* The control points of an object that creates a segment, of one that holds  *)
(* a reference to it, and of the last one, that destroys it.                  *)
Creating == {"truncate", "construct", "publish"}
Adopting == {"get_size", "load", "exchange"}
Holding == {"check", "attached", "close"}
Destroying == {"remove_name", "destroy"}
Away == {"closed", "create", "open"}

Typed ==
  /\ segments \in 0 .. MaxSegments /\ shm_name \in 0 .. segments
  /\ pc \in [Objects -> Away \cup Creating \cup Adopting \cup Holding \cup Destroying]
  /\ segment \in [Objects -> 0 .. MaxSegments]
  /\ \A o \in Objects : pc[o] \notin Away => segment[o] \in 1 .. segments
  /\ m_ref_count \in [Segments -> Int]
  /\ leaked \in [Segments -> Nat]
  /\ queue \in [Segments -> {"none", "live", "destroyed"}]
  /\ removes \in Nat

(* A segment is nobody's before it is created. *)
Fresh ==
  \A s \in Segments : s > segments => m_ref_count[s] = 0 /\ leaked[s] = 0 /\ queue[s] = "none"

(* Who creates or destroys a segment has it alone. *)
Alone ==
  /\ \A o \in Objects : pc[o] \in Creating \cup Destroying => m_ref_count[segment[o]] = 0
  /\ \A o, r \in Objects :
       /\ pc[o] \in Creating \cup Destroying /\ pc[r] \in Creating \cup Destroying
       /\ segment[o] = segment[r]
       => o = r

(* The header is there for everyone who may look at it. *)
Live ==
  /\ \A s \in Segments : m_ref_count[s] > 0 => queue[s] = "live"
  /\ \A o \in Objects : pc[o] = "publish" => queue[segment[o]] = "live"

(* The name leads to the segment that is in use, or about to be. *)
Named ==
  removes = 0 =>
    /\ \A s \in Segments : m_ref_count[s] > 0 => shm_name = s
    /\ \A o \in Objects : pc[o] \in Creating \cup {"remove_name"} => shm_name = segment[o]

RegionInv == Typed /\ Fresh /\ Alone /\ Live /\ Named /\ CountsHolders

-----------------------------------------------------------------------------
(* What a step of an object does *)

Only(o) == pc' = [pc EXCEPT ![o] = pc'[o]] /\ segment' = [segment EXCEPT ![o] = segment'[o]]
CountsKept == UNCHANGED <<m_ref_count, leaked>>

(* An object goes on without touching the count. *)
Goes(o) ==
  /\ CountsKept /\ UNCHANGED <<segments, removes>>
  /\ \/ /\ pc[o] \in Away /\ pc'[o] \in Away
        /\ UNCHANGED <<segment, shm_name, queue>>
     \/ /\ pc[o] = "open" /\ pc'[o] = "get_size"
        /\ shm_name # NoSegment /\ segment'[o] = shm_name /\ UNCHANGED <<shm_name, queue>>
     \/ /\ pc[o] = "truncate" /\ pc'[o] = "construct"
        /\ UNCHANGED <<segment, shm_name, queue>>
     \/ /\ pc[o] = "construct" /\ pc'[o] = "publish"
        /\ UNCHANGED <<segment, shm_name>> /\ queue' = [queue EXCEPT ![segment[o]] = "live"]
     \/ /\ pc[o] \in Adopting \cup {"truncate"} /\ pc'[o] = "closed"
        /\ segment'[o] = NoSegment /\ UNCHANGED <<shm_name, queue>>
     \/ /\ pc[o] \in Adopting /\ pc'[o] \in Adopting
        /\ UNCHANGED <<segment, shm_name, queue>>
     \/ /\ pc[o] \in Holding /\ pc'[o] \in Holding
        /\ UNCHANGED <<segment, shm_name, queue>>
     \/ /\ pc[o] = "remove_name" /\ pc'[o] = "destroy"
        /\ UNCHANGED <<segment, queue>> /\ shm_name' = NoSegment
     \/ /\ pc[o] = "destroy" /\ pc'[o] = "closed"
        /\ segment'[o] = NoSegment /\ UNCHANGED shm_name
        /\ queue' = [queue EXCEPT ![segment[o]] = "destroyed"]
Creates(o) ==
  /\ pc[o] = "create" /\ pc'[o] = "truncate"
  /\ shm_name = NoSegment /\ segments < MaxSegments
  /\ segments' = segments + 1 /\ shm_name' = segments + 1 /\ segment'[o] = segments + 1
  /\ CountsKept /\ UNCHANGED <<removes, queue>>
Joins(o) ==
  /\ pc[o] = "publish" \/ (pc[o] = "exchange" /\ m_ref_count[segment[o]] > 0)
  /\ pc'[o] \in Holding
  /\ m_ref_count' = [m_ref_count EXCEPT ![segment[o]] = @ + 1]
  /\ UNCHANGED <<segments, removes, leaked, segment, shm_name, queue>>
Leaves(o) ==
  /\ pc[o] = "close"
  /\ m_ref_count' = [m_ref_count EXCEPT ![segment[o]] = @ - 1]
  /\ IF m_ref_count[segment[o]] = 1 THEN pc'[o] = "remove_name" /\ UNCHANGED segment
                                    ELSE pc'[o] = "closed" /\ segment'[o] = NoSegment
  /\ UNCHANGED <<segments, removes, leaked, shm_name, queue>>
Dies(o) ==
  /\ pc[o] # "closed" /\ pc'[o] = "closed" /\ segment'[o] = NoSegment
  /\ leaked' = IF pc[o] \in Holding THEN [leaked EXCEPT ![segment[o]] = @ + 1] ELSE leaked
  /\ UNCHANGED <<segments, removes, m_ref_count, shm_name, queue>>
Effect(o) == Goes(o) \/ Creates(o) \/ Joins(o) \/ Leaves(o) \/ Dies(o)

(* Every step is one of these, or the removal of the name by hand.            *)
LEMMA Effects ==
  ASSUME Finite, Typed, NEW o \in Objects,
         \/ \E m \in {"create", "open", "open_or_create"} : begin(o, m)
         \/ begin_close(o) \/ ObjectStep(o) \/ crash(o)
  PROVE  Only(o) /\ Effect(o)
  <1> USE DEF step, regionVars, localVars, boundVars, Detach, CountsKept, Only, Away,
              Creating, Adopting, Holding, Destroying, Typed
  <1>1. ASSUME NEW m \in {"create", "open", "open_or_create"}, begin(o, m)
        PROVE  Only(o) /\ Goes(o)
    BY <1>1 DEF begin, Goes
  <1>2. CASE create(o)
    <2>1. CASE shm_name = NoSegment
      BY <1>2, <2>1 DEF create, Creates, Effect
    <2>2. CASE shm_name # NoSegment
      BY <1>2, <2>2 DEF create, Goes, Effect
    <2> QED BY <2>1, <2>2
  <1>3. CASE open(o)
    <2>1. CASE shm_name = NoSegment
      BY <1>3, <2>1 DEF open, Goes, Effect
    <2>2. CASE shm_name # NoSegment
      BY <1>3, <2>2 DEF open, Goes, Effect
    <2> QED BY <2>1, <2>2
  <1>4. CASE truncate(o)
    BY <1>4 DEF truncate, Goes, Effect
  <1>5. CASE construct(o)
    BY <1>5 DEF construct, Goes, Effect
  <1>6. CASE publish(o)
    BY <1>6 DEF publish, Joins, Effect
  <1>7. CASE give_up(o)
    BY <1>7 DEF give_up, Goes, Effect
  <1>8. CASE get_size(o) \/ load(o)
    BY <1>8 DEF get_size, load, Goes, Effect
  <1>9. CASE exchange(o)
    <2>1. CASE ref_count[o] > 0 /\ m_ref_count[segment[o]] = ref_count[o]
      BY <1>9, <2>1 DEF exchange, Joins, Effect
    <2>2. CASE ~ (ref_count[o] > 0 /\ m_ref_count[segment[o]] = ref_count[o])
      BY <1>9, <2>2 DEF exchange, Goes, Effect
    <2> QED BY <2>1, <2>2
  <1>10. CASE check(o) \/ begin_close(o)
    BY <1>10 DEF check, begin_close, Goes, Effect
  <1>11. CASE release(o)
    BY <1>11 DEF release, Leaves, Effect
  <1>12. CASE remove_name(o)
    BY <1>12 DEF remove_name, Goes, Effect
  <1>13. CASE destroy(o)
    BY <1>13 DEF destroy, Goes, Effect
  <1>14. CASE crash(o)
    BY <1>14 DEF crash, Dies, Effect
  <1> QED BY <1>1, <1>2, <1>3, <1>4, <1>5, <1>6, <1>7, <1>8, <1>9, <1>10, <1>11, <1>12, <1>13, <1>14
          DEF Effect, ObjectStep
(* The types are kept.                                                        *)
LEMMA EffectTyped ==
  ASSUME Finite, Typed, NEW o \in Objects, Only(o), Effect(o)
  PROVE  Typed'
  <1> USE DEF Away, Creating, Adopting, Holding, Destroying, Finite
  <1> DEFINE Points == Away \cup Creating \cup Adopting \cup Holding \cup Destroying
  <1>A. ASSUME pc'[o] \in Points, segment'[o] \in 0 .. MaxSegments,
               pc'[o] \notin Away => segment'[o] \in 1 .. segments',
               segments' \in 0 .. MaxSegments, segments <= segments', shm_name' \in 0 .. segments',
               m_ref_count' \in [Segments -> Int], leaked' \in [Segments -> Nat],
               queue' \in [Segments -> {"none", "live", "destroyed"}], removes' \in Nat
        PROVE  Typed'
    <2>1. pc' \in [Objects -> Points] /\ segment' \in [Objects -> 0 .. MaxSegments]
      BY <1>A DEF Only, Typed
    <2>2. \A r \in Objects : pc'[r] \notin Away => segment'[r] \in 1 .. segments'
      BY <1>A, SMTT(30) DEF Only, Typed
    <2> QED BY <1>A, <2>1, <2>2 DEF Typed
  <1>B. /\ segments \in 0 .. MaxSegments /\ segments <= segments /\ shm_name \in 0 .. segments
        /\ segment[o] \in 0 .. MaxSegments /\ 0 \in 0 .. segments /\ 0 \in 0 .. MaxSegments
        /\ pc[o] \notin Away => segment[o] \in 1 .. segments /\ segment[o] \in Segments
        /\ m_ref_count \in [Segments -> Int] /\ leaked \in [Segments -> Nat]
        /\ queue \in [Segments -> {"none", "live", "destroyed"}] /\ removes \in Nat
    BY DEF Typed, Segments
  <1>1. CASE Goes(o)
    <2>1. /\ UNCHANGED <<m_ref_count, leaked, segments, removes>> /\ pc'[o] \in Points
          /\ shm_name' \in {shm_name, 0}
      BY <1>1 DEF Goes, CountsKept, NoSegment
    <2>2. /\ segment'[o] \in 0 .. MaxSegments
          /\ pc'[o] \notin Away => segment'[o] \in 1 .. segments
      BY <1>1, <1>B, SMTT(30) DEF Goes, NoSegment
    <2>3. queue' \in [Segments -> {"none", "live", "destroyed"}]
      BY <1>1, <1>B DEF Goes
    <2> QED BY <1>A, <1>B, <2>1, <2>2, <2>3
  <1>2. CASE Creates(o)
    BY <1>2, <1>A, <1>B DEF Creates, CountsKept
  <1>3. CASE Joins(o)
    BY <1>3, <1>A, <1>B, SMTT(30) DEF Joins
  <1>4. CASE Leaves(o)
    <2>1. m_ref_count' \in [Segments -> Int]
      BY <1>4, <1>B, SMTT(30) DEF Leaves
    <2> QED BY <1>4, <1>A, <1>B, <2>1 DEF Leaves, NoSegment
  <1>5. CASE Dies(o)
    <2>1. leaked' \in [Segments -> Nat]
      BY <1>5, <1>B, SMTT(30) DEF Dies
    <2> QED BY <1>5, <1>A, <1>B, <2>1 DEF Dies, NoSegment
  <1> QED BY <1>1, <1>2, <1>3, <1>4, <1>5 DEF Effect

-----------------------------------------------------------------------------
(* The count *)

(* Finitely many objects hold a segment. *)
LEMMA HoldersCounted ==
  ASSUME Finite, NEW s
  PROVE  IsFiniteSet(Holders(s)) /\ Cardinality(Holders(s)) \in Nat
  <1>1. IsFiniteSet(Holders(s))
    <2>1. Holders(s) \subseteq Objects
      BY DEF Holders
    <2> QED BY <2>1, FS_Subset DEF Finite
  <1> QED BY <1>1, FS_CardinalityType

(* A reference goes with its holder: the count stays right. *)
LEMMA EffectCounts ==
  ASSUME Finite, Typed, CountsHolders, NEW o \in Objects, Only(o), Effect(o)
  PROVE  CountsHolders'
  <1> SUFFICES ASSUME NEW t, t = segment[o]
               PROVE  CountsHolders'
    OBVIOUS
  <1> DEFINE Was == pc[o] \in Holding
             Is == pc'[o] \in Holding
  <1> USE DEF Holding
  <1>0. /\ pc[o] \notin Away => t \in Segments
        /\ Was => t \in Segments
        /\ m_ref_count \in [Segments -> Int] /\ leaked \in [Segments -> Nat]
    <2>1. pc[o] \notin Away => t \in 1 .. segments /\ segments \in 0 .. MaxSegments
      BY DEF Typed
    <2>2. pc[o] \notin Away => t \in Segments
      BY <2>1 DEF Segments, Finite
    <2> QED BY <2>2 DEF Typed, Away
  <1>1. ASSUME ~ Was, ~ Is, CountsKept
        PROVE  CountsHolders'
    <2>1. \A s \in Segments : Holders(s)' = Holders(s)
      BY <1>1 DEF Only, Typed, Holders
    <2> QED BY <1>1, <2>1 DEF CountsHolders, CountsKept
  <1>2. ASSUME Was, Is, CountsKept, segment'[o] = t
        PROVE  CountsHolders'
    <2>1. \A s \in Segments : Holders(s)' = Holders(s)
      BY <1>2, SMTT(30) DEF Only, Typed, Holders
    <2> QED BY <1>2, <2>1 DEF CountsHolders, CountsKept
  <1>3. ASSUME ~ Was, Is, segment'[o] = t, t \in Segments, UNCHANGED leaked,
               m_ref_count' = [m_ref_count EXCEPT ![t] = @ + 1]
        PROVE  CountsHolders'
    <2>1. \A s \in Segments : s # t => Holders(s)' = Holders(s)
      BY <1>3 DEF Only, Typed, Holders
    <2>2. Holders(t)' = Holders(t) \cup {o} /\ o \notin Holders(t)
      BY <1>3 DEF Only, Typed, Holders
    <2>3. Cardinality(Holders(t)') = Cardinality(Holders(t)) + 1
      BY <2>2, HoldersCounted, FS_AddElement
    <2>4. m_ref_count'[t] = m_ref_count[t] + 1 /\ \A s \in Segments : s # t => m_ref_count'[s] = m_ref_count[s]
      BY <1>0, <1>3
    <2>5. Cardinality(Holders(t)) \in Nat /\ leaked[t] \in Nat
      BY <1>0, <1>3, HoldersCounted
    <2>6. m_ref_count'[t] = Cardinality(Holders(t)') + leaked'[t]
      BY <1>3, <2>3, <2>4, <2>5, SMTT(30) DEF CountsHolders
    <2>7. \A s \in Segments : s # t => m_ref_count'[s] = Cardinality(Holders(s)') + leaked'[s]
      BY <1>3, <2>1, <2>4 DEF CountsHolders
    <2> QED BY <2>6, <2>7 DEF CountsHolders
  <1>4. ASSUME Was, ~ Is
        PROVE  /\ \A s \in Segments : s # t => Holders(s)' = Holders(s)
               /\ Cardinality(Holders(t)') = Cardinality(Holders(t)) - 1
               /\ Cardinality(Holders(t)) \in Nat
    <2>1. \A s \in Segments : s # t => Holders(s)' = Holders(s)
      BY <1>4 DEF Only, Typed, Holders
    <2>2. Holders(t)' = Holders(t) \ {o} /\ o \in Holders(t)
      BY <1>4 DEF Only, Typed, Holders
    <2>3. IsFiniteSet(Holders(t)) /\ Cardinality(Holders(t)) \in Nat
      BY HoldersCounted
    <2>4. Cardinality(Holders(t) \ {o}) = Cardinality(Holders(t)) - 1
      BY <2>2, <2>3, FS_RemoveElement
    <2> QED BY <2>1, <2>2, <2>3, <2>4
  <1>5. CASE Goes(o)
    <2>1. (~ Was /\ ~ Is) \/ (Was /\ Is /\ segment'[o] = t)
      BY <1>5 DEF Goes, Away, Creating, Adopting, Destroying
    <2> QED BY <1>1, <1>2, <1>5, <2>1 DEF Goes
  <1>6. CASE Creates(o)
    BY <1>1, <1>6 DEF Creates
  <1>7. CASE Joins(o)
    <2>1. ~ Was /\ Is /\ segment'[o] = t /\ t \in Segments
      BY <1>0, <1>7 DEF Joins, Away
    <2> QED BY <1>3, <1>7, <2>1 DEF Joins
  <1>8. CASE Leaves(o)
    <2>1. Was /\ ~ Is
      BY <1>8 DEF Leaves
    <2>2. m_ref_count'[t] = m_ref_count[t] - 1 /\ \A s \in Segments : s # t => m_ref_count'[s] = m_ref_count[s]
      BY <1>0, <1>8, <2>1 DEF Leaves
    <2>3. m_ref_count[t] = Cardinality(Holders(t)) + leaked[t] /\ leaked[t] \in Nat
      BY <1>0, <2>1 DEF CountsHolders
    <2>4. leaked' = leaked
      BY <1>8 DEF Leaves
    <2>5. m_ref_count'[t] = Cardinality(Holders(t)') + leaked'[t]
      BY <1>4, <2>1, <2>2, <2>3, <2>4, SMTT(30)
    <2>6. \A s \in Segments : s # t => m_ref_count'[s] = Cardinality(Holders(s)') + leaked'[s]
      BY <1>4, <2>1, <2>2, <2>4 DEF CountsHolders
    <2> QED BY <2>5, <2>6 DEF CountsHolders
  <1>9. CASE Dies(o) /\ Was
    <2>1. ~ Is /\ leaked'[t] = leaked[t] + 1 /\ \A s \in Segments : s # t => leaked'[s] = leaked[s]
      BY <1>0, <1>9 DEF Dies
    <2>2. m_ref_count' = m_ref_count
      BY <1>9 DEF Dies
    <2>3. m_ref_count[t] = Cardinality(Holders(t)) + leaked[t] /\ leaked[t] \in Nat
      BY <1>0, <1>9 DEF CountsHolders
    <2>4. m_ref_count'[t] = Cardinality(Holders(t)') + leaked'[t]
      BY <1>4, <1>9, <2>1, <2>2, <2>3, SMTT(30)
    <2>5. \A s \in Segments : s # t => m_ref_count'[s] = Cardinality(Holders(s)') + leaked'[s]
      BY <1>4, <1>9, <2>1, <2>2 DEF CountsHolders
    <2> QED BY <2>4, <2>5 DEF CountsHolders
  <1>10. CASE Dies(o) /\ ~ Was
    BY <1>1, <1>10 DEF Dies, CountsKept
  <1> QED BY <1>5, <1>6, <1>7, <1>8, <1>9, <1>10 DEF Effect

-----------------------------------------------------------------------------
(* The owner, the header and the name *)

(* A count is not negative, and whoever has a reference is counted. *)
LEMMA Counted ==
  ASSUME Finite, Typed, CountsHolders
  PROVE  /\ \A s \in Segments : m_ref_count[s] \in Nat
         /\ \A s \in Segments : Holders(s) # {} => m_ref_count[s] > 0
         /\ \A o \in Objects : pc[o] \in Holding => m_ref_count[segment[o]] > 0
         /\ \A o \in Objects : pc[o] \notin Away => segment[o] \in Segments
  <1>1. \A o \in Objects : pc[o] \notin Away => segment[o] \in Segments
    BY SMTT(30) DEF Typed, Segments, Finite
  <1>2. ASSUME NEW s \in Segments
        PROVE  m_ref_count[s] \in Nat /\ (Holders(s) # {} => m_ref_count[s] > 0)
    <2>1. Cardinality(Holders(s)) \in Nat /\ leaked[s] \in Nat
      BY HoldersCounted DEF Typed
    <2>2. Holders(s) # {} => Cardinality(Holders(s)) # 0
      BY HoldersCounted, FS_EmptySet
    <2> QED BY <2>1, <2>2 DEF CountsHolders
  <1>3. ASSUME NEW o \in Objects, pc[o] \in Holding
        PROVE  m_ref_count[segment[o]] > 0
    <2>1. segment[o] \in Segments /\ o \in Holders(segment[o])
      BY <1>1, <1>3 DEF Holders, Holding, Away
    <2> QED BY <1>2, <2>1
  <1> QED BY <1>1, <1>2, <1>3

(* A step of an object keeps what the objects rely on. *)
LEMMA EffectKept ==
  ASSUME Finite, RegionInv, NEW o \in Objects, Only(o), Effect(o)
  PROVE  Fresh' /\ Alone' /\ Live' /\ Named'
  <1> SUFFICES ASSUME NEW t, t = segment[o]
               PROVE  Fresh' /\ Alone' /\ Live' /\ Named'
    OBVIOUS
  <1> DEFINE Owns(r) == pc[r] \in Creating \cup Destroying
             OwnsAfter(r) == pc'[r] \in Creating \cup Destroying
  <1>0. /\ \A r \in Objects : r # o => pc'[r] = pc[r] /\ segment'[r] = segment[r]
        /\ \A s \in Segments : m_ref_count[s] \in Nat
        /\ \A r \in Objects : pc[r] \in Holding => m_ref_count[segment[r]] > 0
        /\ \A r \in Objects : pc[r] \notin Away => segment[r] \in Segments /\ segment[r] \in 1 .. segments
        /\ m_ref_count \in [Segments -> Int] /\ leaked \in [Segments -> Nat]
        /\ queue \in [Segments -> {"none", "live", "destroyed"}]
        /\ segments \in Nat /\ segments <= MaxSegments /\ removes \in Nat
    <2>1. \A r \in Objects : r # o => pc'[r] = pc[r] /\ segment'[r] = segment[r]
      BY DEF Only, RegionInv, Typed
    <2> QED BY <2>1, Counted DEF RegionInv, Typed, Finite
  <1>1. CASE Goes(o)
    <2> USE DEF Creating, Adopting, Holding, Destroying, Away
    <2>1. /\ UNCHANGED <<m_ref_count, leaked, segments, removes>>
          /\ OwnsAfter(o) => Owns(o) /\ segment'[o] = t
      BY <1>1 DEF Goes, CountsKept
    <2>2. Alone'
      BY <1>0, <2>1, SMTT(30) DEF RegionInv, Alone
    <2>3. CASE pc[o] = "construct" /\ pc'[o] = "publish"
      <3>1. /\ UNCHANGED <<segment, shm_name>> /\ queue' = [queue EXCEPT ![t] = "live"]
            /\ t \in Segments /\ t \in 1 .. segments
        BY <1>0, <1>1, <2>3 DEF Goes
      <3>2. Fresh'
        BY <1>0, <2>1, <3>1, SMTT(30) DEF RegionInv, Fresh, Segments
      <3>3. Live'
        BY <1>0, <2>1, <2>3, <3>1 DEF RegionInv, Live
      <3>4. Named'
        BY <1>0, <2>1, <2>3, <3>1 DEF RegionInv, Named
      <3> QED BY <2>2, <3>2, <3>3, <3>4
    <2>4. CASE pc[o] = "destroy" /\ pc'[o] = "closed" /\ queue' # queue
      <3>1. /\ shm_name' = shm_name /\ queue' = [queue EXCEPT ![t] = "destroyed"]
            /\ t \in Segments /\ t \in 1 .. segments /\ m_ref_count[t] = 0
            /\ \A r \in Objects : r # o /\ pc[r] = "publish" => segment[r] # t
        BY <1>0, <1>1, <2>4 DEF Goes, RegionInv, Alone
      <3>2. Fresh'
        BY <1>0, <2>1, <3>1, SMTT(30) DEF RegionInv, Fresh, Segments
      <3>3. Live'
        BY <1>0, <2>1, <2>4, <3>1, SMTT(30) DEF RegionInv, Live
      <3>4. Named'
        BY <1>0, <2>1, <2>4, <3>1 DEF RegionInv, Named
      <3> QED BY <2>2, <3>2, <3>3, <3>4
    <2>5. CASE pc[o] = "remove_name" /\ pc'[o] = "destroy"
      <3>1. /\ queue' = queue /\ segment' = segment /\ m_ref_count[t] = 0
            /\ \A r \in Objects : r # o /\ Owns(r) => segment[r] # t
            /\ removes = 0 => shm_name = t
        BY <1>0, <1>1, <2>5 DEF Goes, RegionInv, Alone, Named
      <3>2. removes = 0 => /\ \A s \in Segments : ~ m_ref_count[s] > 0
                           /\ \A r \in Objects : r # o => pc[r] \notin Creating \cup {"remove_name"}
        BY <1>0, <3>1, SMTT(30) DEF RegionInv, Named
      <3>3. Fresh' /\ Live'
        BY <1>0, <2>1, <2>5, <3>1, SMTT(30) DEF RegionInv, Fresh, Live
      <3>4. Named'
        BY <1>0, <2>1, <2>5, <3>2 DEF Named
      <3> QED BY <2>2, <3>3, <3>4
    <2>6. CASE /\ UNCHANGED <<shm_name, queue>> /\ pc'[o] # "publish"
               /\ (pc'[o] \in Creating \cup {"remove_name"} => pc[o] \in Creating /\ segment'[o] = t)
      <3>1. Fresh' /\ Live'
        BY <1>0, <2>1, <2>6, SMTT(30) DEF RegionInv, Fresh, Live
      <3>2. Named'
        BY <1>0, <2>1, <2>6 DEF RegionInv, Named
      <3> QED BY <2>2, <3>1, <3>2
    <2> QED BY <1>1, <2>3, <2>4, <2>5, <2>6 DEF Goes
  <1>2. CASE Creates(o)
    <2>1. Fresh'
      BY <1>0, <1>2, SMTT(30) DEF Creates, CountsKept, RegionInv, Fresh, Segments
    <2>2. segments + 1 \in Segments /\ m_ref_count[segments + 1] = 0
      BY <1>0, <1>2, SMTT(30) DEF Creates, RegionInv, Fresh, Segments, Finite
    <2>3. \A r \in Objects : r # o /\ pc[r] \notin Away => segment[r] # segments + 1
      BY <1>0
    <2>4. Alone'
      BY <1>0, <1>2, <2>2, <2>3, SMTT(30) DEF Creates, CountsKept, RegionInv, Alone, Creating, Destroying,
         Away
    <2>5. Live'
      BY <1>0, <1>2, SMTT(30) DEF Creates, CountsKept, RegionInv, Live
    <2>6. Named'
      BY <1>0, <1>2, <2>2, SMTT(30) DEF Creates, CountsKept, RegionInv, Named, NoSegment, Segments, Creating,
         Away
    <2> QED BY <2>1, <2>4, <2>5, <2>6
  <1>3. CASE Joins(o)
    <2> USE DEF Creating, Adopting, Holding, Destroying, Away
    <2>1. /\ t \in Segments /\ t \in 1 .. segments
          /\ pc[o] = "publish" \/ m_ref_count[t] > 0
          /\ UNCHANGED <<segments, removes, leaked, segment, shm_name, queue>>
          /\ ~ OwnsAfter(o)
      BY <1>0, <1>3 DEF Joins
    <2>2. /\ m_ref_count'[t] > 0
          /\ \A s \in Segments : s # t => m_ref_count'[s] = m_ref_count[s]
      BY <1>0, <1>3, <2>1, SMTT(30) DEF Joins
    <2>3. /\ queue[t] = "live" /\ (removes = 0 => shm_name = t)
          /\ \A r \in Objects : r # o /\ Owns(r) => segment[r] # t
      BY <1>0, <2>1, SMTT(30) DEF RegionInv, Alone, Live, Named
    <2>4. Fresh'
      BY <1>0, <2>1, <2>2, SMTT(30) DEF RegionInv, Fresh, Segments
    <2>5. Alone'
      BY <1>0, <2>1, <2>2, <2>3 DEF RegionInv, Alone
    <2>6. Live'
      BY <1>0, <2>1, <2>2, <2>3, SMTT(30) DEF RegionInv, Live
    <2>7. Named'
      BY <1>0, <2>1, <2>2, <2>3 DEF RegionInv, Named
    <2> QED BY <2>4, <2>5, <2>6, <2>7
  <1>4. CASE Leaves(o)
    <2> USE DEF Creating, Adopting, Holding, Destroying, Away
    <2>1. /\ t \in Segments /\ t \in 1 .. segments /\ m_ref_count[t] > 0
          /\ UNCHANGED <<segments, removes, leaked, shm_name, queue>>
          /\ OwnsAfter(o) => pc'[o] = "remove_name" /\ segment'[o] = t /\ m_ref_count[t] = 1
      BY <1>0, <1>4 DEF Leaves
    <2>2. /\ m_ref_count'[t] = m_ref_count[t] - 1
          /\ \A s \in Segments : s # t => m_ref_count'[s] = m_ref_count[s]
      BY <1>0, <1>4, <2>1 DEF Leaves
    <2>3. /\ queue[t] = "live" /\ (removes = 0 => shm_name = t)
          /\ \A r \in Objects : r # o /\ Owns(r) => segment[r] # t
      BY <1>0, <2>1, SMTT(30) DEF RegionInv, Alone, Live, Named
    <2>4. Fresh'
      BY <1>0, <2>1, <2>2, SMTT(30) DEF RegionInv, Fresh, Segments
    <2>5. Alone'
      BY <1>0, <2>1, <2>2, <2>3, SMTT(30) DEF RegionInv, Alone
    <2>6. Live'
      BY <1>0, <2>1, <2>2, <2>3, SMTT(30) DEF RegionInv, Live
    <2>7. Named'
      BY <1>0, <2>1, <2>2, <2>3 DEF RegionInv, Named
    <2> QED BY <2>4, <2>5, <2>6, <2>7
  <1>5. CASE Dies(o)
    <2> USE DEF Creating, Adopting, Holding, Destroying, Away
    <2>1. /\ pc'[o] = "closed" /\ UNCHANGED <<segments, removes, m_ref_count, shm_name, queue>>
          /\ \A s \in Segments : s > segments => leaked'[s] = leaked[s]
      BY <1>0, <1>5, SMTT(30) DEF Dies, Segments
    <2>2. Fresh'
      BY <1>0, <2>1 DEF RegionInv, Fresh
    <2>3. Alone' /\ Live' /\ Named'
      BY <1>0, <2>1, SMTT(30) DEF RegionInv, Alone, Live, Named
    <2> QED BY <2>2, <2>3
  <1> QED BY <1>1, <1>2, <1>3, <1>4, <1>5 DEF Effect

-----------------------------------------------------------------------------

(* At first there is no segment. *)
LEMMA InitRegion == ASSUME Finite, Init PROVE RegionInv
  <1>1. Typed /\ Fresh /\ Alone /\ Live /\ Named
    BY DEF Init, Finite, Typed, Fresh, Alone, Live, Named, NoSegment, Segments,
           Away, Creating, Destroying
  <1>2. CountsHolders
    <2>1. \A s \in Segments : Holders(s) = {}
      BY DEF Init, Holders
    <2> QED BY <2>1, FS_EmptySet, SMTT(30) DEF Init, CountsHolders
  <1> QED BY <1>1, <1>2 DEF RegionInv

(* Every step keeps the invariant; removing the name by hand ends what is     *)
(* said of the name.                                                          *)
LEMMA NextRegion == ASSUME Finite, RegionInv, [Next]_vars PROVE RegionInv'
  <1>1. ASSUME NEW o \in Objects,
               \/ \E m \in {"create", "open", "open_or_create"} : begin(o, m)
               \/ begin_close(o) \/ ObjectStep(o) \/ crash(o)
        PROVE  RegionInv'
    <2>1. Only(o) /\ Effect(o)
      BY <1>1, Effects DEF RegionInv
    <2> QED BY <2>1, EffectTyped, EffectCounts, EffectKept DEF RegionInv
  <1>2. CASE remove
    <2>1. UNCHANGED <<segments, m_ref_count, queue, pc, segment, leaked>> /\ shm_name' = 0
          /\ removes' = removes + 1
      BY <1>2 DEF remove, localVars, NoSegment
    <2>2. Typed' /\ removes' # 0
      BY <2>1 DEF RegionInv, Typed, Finite
    <2>3. Fresh' /\ Alone' /\ Live' /\ Named'
      BY <2>1, <2>2 DEF RegionInv, Fresh, Alone, Live, Named
    <2>4. CountsHolders'
      BY <2>1 DEF RegionInv, CountsHolders, Holders
    <2> QED BY <2>2, <2>3, <2>4 DEF RegionInv
  <1>3. CASE UNCHANGED vars
    BY <1>3, SMTT(30) DEF vars, regionVars, localVars, boundVars, RegionInv, Typed, Fresh, Alone, Live,
                Named, CountsHolders, Holders
  <1> QED BY <1>1, <1>2, <1>3 DEF Next

(* The invariant always holds. *)
LEMMA RegionHolds == ASSUME Finite PROVE Spec => []RegionInv
  BY InitRegion, NextRegion, PTL DEF Spec

(* m_ref_count is the number of objects attached and of those that died       *)
(* attached, for any number of processes, segments, calls and crashes: the    *)
(* compare and exchange of adopt_region, that never revives a count of zero,  *)
(* and the decrement of close_region are all it takes.                        *)
THEOREM ReferencesCounted == ASSUME Finite PROVE Spec => []CountsHolders
  <1>1. RegionInv => CountsHolders
    BY DEF RegionInv
  <1> QED BY <1>1, RegionHolds, PTL

(* An object never uses a header that is not constructed or is destroyed.     *)
THEOREM HoldersUseLiveQueue == ASSUME Finite PROVE Spec => []HoldersHaveQueue
  <1>1. RegionInv => HoldersHaveQueue
    BY Counted DEF RegionInv, Live, HoldersHaveQueue
  <1> QED BY <1>1, RegionHolds, PTL

(* Without removals by hand all objects are attached to the queue that has    *)
(* the name: closing the last reference takes away its own name only.         *)
THEOREM OneQueuePerName == ASSUME Finite PROVE Spec => []NameLeadsToQueue
  <1>1. RegionInv => NameLeadsToQueue
    BY Counted DEF RegionInv, Named, NameLeadsToQueue
  <1> QED BY <1>1, RegionHolds, PTL

=============================================================================
