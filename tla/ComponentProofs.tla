---------------------------- MODULE ComponentProofs ----------------------------
(***************************************************************************)
(* The attribute-name repository for any threads and names, the mutex of   *)
(* Windows for any number of threads, calls and interruptions, and global  *)
(* loggers for any threads, modules of the process, tags and types.        *)
(*                                                                         *)
(* NamesInv says that the set has every node of the deque and that no two  *)
(* nodes have the same name: the second lookup of insert, under the        *)
(* exclusive lock, is what preserves it.  Of the mutex, Exclusive and      *)
(* HandedOver are not inductive by themselves: unlock sends a signal only  *)
(* if the word counts waiters, so that the count has to be that of the     *)
(* threads that wait (MutexInv).  Of the global loggers, that a block has  *)
(* one executor and a tag one logger rests on what the stacks of blocks    *)
(* look like: a thread enters no block twice, executes all those below the *)
(* top, and holds the mutex of the repository from the lookup of a tag to  *)
(* its registration, also while the initializer asks for another logger    *)
(* (GetInv).                                                               *)
(***************************************************************************)
EXTENDS InterprocessMutex, AttributeNames, GlobalLoggerStorage, FiniteSetTheorems, TLAPS

(* The provers, with their limits in seconds, for the leaves that name none.  *)
USE ZenonT(10), SMTT(30)

-----------------------------------------------------------------------------
(* The repository of attribute names *)

(* The nodes of the deque are all in the set, their names differ, and the ids *)
(* returned are those of the names.                                           *)
NamesInv ==
  /\ NamesTypeOK
  /\ m_NodeSet = 0 .. Len(m_NodeList) - 1
  /\ \A i, j \in 1 .. Len(m_NodeList) : m_NodeList[i] = m_NodeList[j] => i = j
  /\ \A i \in m_NodeSet : i < uninitialized
  /\ \A k \in known : k[2] \in m_NodeSet /\ m_NodeList[k[2] + 1] = k[1]

(* Appending a name to the deque leaves the names before it where they are. *)
LEMMA AppendedName ==
  ASSUME NEW s \in Seq(Names), NEW name \in Names
  PROVE  /\ Append(s, name) \in Seq(Names)
         /\ Len(Append(s, name)) = Len(s) + 1
         /\ \A i \in 1 .. Len(s) : Append(s, name)[i] = s[i]
         /\ Append(s, name)[Len(s) + 1] = name
  OBVIOUS

(* The repository starts empty. *)
LEMMA NamesStart == NamesInit => NamesInv
  BY DEF NamesInit, NamesInv, NamesTypeOK

(* A node found has the name, so that returning its id keeps the invariant. *)
LEMMA ReturnFound ==
  ASSUME NamesInv, NEW name \in Names, NEW id \in Found(name), Return(name, id),
         UNCHANGED <<m_NodeList, m_NodeSet>>
  PROVE  /\ known' \subseteq Names \X Nat
         /\ \A k \in known' : k[2] \in m_NodeSet' /\ m_NodeList'[k[2] + 1] = k[1]
  BY SMTT(30) DEF NamesInv, NamesTypeOK, Found, Return

(* A name that no node has becomes the name of the last node. *)
LEMMA PushBack ==
  ASSUME NamesInv, NEW name \in Names, Found(name) = {}, push_back(name)
  PROVE  /\ m_NodeList' \in Seq(Names) /\ m_NodeSet' \subseteq Nat
         /\ known' \subseteq Names \X Nat
         /\ m_NodeSet' = 0 .. Len(m_NodeList') - 1
         /\ \A i \in m_NodeSet' : i < uninitialized
         /\ \A i, j \in 1 .. Len(m_NodeList') : m_NodeList'[i] = m_NodeList'[j] => i = j
         /\ \A k \in known' : k[2] \in m_NodeSet' /\ m_NodeList'[k[2] + 1] = k[1]
<1> DEFINE n == Len(m_NodeList)
<1>1. /\ m_NodeList \in Seq(Names) /\ n \in Nat /\ known \subseteq Names \X Nat
      /\ m_NodeSet = 0 .. n - 1 /\ \A i \in m_NodeSet : i < uninitialized
      /\ \A k \in known : k[2] \in m_NodeSet /\ m_NodeList[k[2] + 1] = k[1]
  BY SMTT(30) DEF NamesInv, NamesTypeOK
<1>2. /\ m_NodeList' \in Seq(Names) /\ Len(m_NodeList') = n + 1
      /\ \A i \in 1 .. n : m_NodeList'[i] = m_NodeList[i]
      /\ m_NodeList'[n + 1] = name
  BY <1>1, AppendedName DEF push_back
<1>3. n < uninitialized /\ m_NodeSet' = m_NodeSet \cup {n} /\ known' = known \cup {<<name, n>>}
  BY DEF push_back, Return
<1>4. \A i \in 1 .. n : m_NodeList[i] # name
  <2> SUFFICES ASSUME NEW i \in 1 .. n, m_NodeList[i] = name PROVE FALSE
    OBVIOUS
  <2>1. i - 1 \in m_NodeSet /\ m_NodeList[(i - 1) + 1] = name
    BY <1>1
  <2> QED
    BY <2>1 DEF Found
<1>5. m_NodeSet' = 0 .. n
  BY <1>1, <1>3
<1>6. \A i, j \in 1 .. n + 1 : m_NodeList'[i] = m_NodeList'[j] => i = j
  <2>1. \A i, j \in 1 .. n : m_NodeList[i] = m_NodeList[j] => i = j
    BY DEF NamesInv
  <2> QED
    BY <1>1, <1>2, <1>4, <2>1, SMTT(30)
<1>7. \A k \in known' : k[2] \in m_NodeSet' /\ m_NodeList'[k[2] + 1] = k[1]
  <2> SUFFICES ASSUME NEW k \in known' PROVE k[2] \in m_NodeSet' /\ m_NodeList'[k[2] + 1] = k[1]
    OBVIOUS
  <2>1. CASE k = <<name, n>>
    BY <2>1, <1>1, <1>2, <1>5, SMTT(30)
  <2>2. CASE k \in known
    <3>1. k[2] \in 0 .. n - 1 /\ m_NodeList[k[2] + 1] = k[1]
      BY <2>2, <1>1
    <3> QED
      BY <3>1, <1>1, <1>2, <1>5, SMTT(30)
  <2> QED
    BY <1>3, <2>1, <2>2
<1> QED
  BY <1>1, <1>2, <1>3, <1>5, <1>6, <1>7, SMTT(30)

(* Every critical section preserves the invariant. *)
LEMMA NamesStep == NamesInv /\ [NamesNext]_nameVars => NamesInv'
<1> SUFFICES ASSUME NamesInv, [NamesNext]_nameVars PROVE NamesInv'
  OBVIOUS
<1>1. ASSUME NEW t \in NameThreads, insert(t) PROVE NamesInv'
  <2>1. /\ lookup' \in [NameThreads -> {"idle", "insert"}]
        /\ UNCHANGED <<wanted, lookups>> /\ wanted[t] \in Names
    BY <1>1 DEF insert, NamesInv, NamesTypeOK
  <2>2. CASE \E id \in Found(wanted[t]) : Return(wanted[t], id) /\ UNCHANGED <<m_NodeList, m_NodeSet>>
    <3>1. PICK id \in Found(wanted[t]) : Return(wanted[t], id) /\ UNCHANGED <<m_NodeList, m_NodeSet>>
      BY <2>2
    <3>2. /\ known' \subseteq Names \X Nat
          /\ \A k \in known' : k[2] \in m_NodeSet' /\ m_NodeList'[k[2] + 1] = k[1]
      BY <2>1, <3>1, ReturnFound
    <3> QED
      BY <2>1, <3>1, <3>2 DEF NamesInv, NamesTypeOK
  <2>3. CASE Found(wanted[t]) = {} /\ push_back(wanted[t])
    <3>1. /\ m_NodeList' \in Seq(Names) /\ m_NodeSet' \subseteq Nat
          /\ known' \subseteq Names \X Nat
           /\ m_NodeSet' = 0 .. Len(m_NodeList') - 1
          /\ \A i \in m_NodeSet' : i < uninitialized
          /\ \A i, j \in 1 .. Len(m_NodeList') : m_NodeList'[i] = m_NodeList'[j] => i = j
          /\ \A k \in known' : k[2] \in m_NodeSet' /\ m_NodeList'[k[2] + 1] = k[1]
      BY <2>1, <2>3, PushBack
    <3> QED
      BY <2>1, <3>1 DEF NamesInv, NamesTypeOK
  <2>4. CASE UNCHANGED <<m_NodeList, m_NodeSet, known>>
    BY <2>1, <2>4 DEF NamesInv, NamesTypeOK
  <2> QED
    BY <1>1, <2>2, <2>3, <2>4 DEF insert
<1>2. ASSUME NEW t \in NameThreads, NEW name \in Names, get_id_from_string(t, name) PROVE NamesInv'
  <2>1. /\ lookup' \in [NameThreads -> {"idle", "insert"}]
        /\ wanted' \in [NameThreads -> Names]
        /\ lookups' \in [NameThreads -> Nat]
        /\ UNCHANGED <<m_NodeList, m_NodeSet>>
    BY <1>2, SMTT(30) DEF get_id_from_string, NamesInv, NamesTypeOK
  <2>2. CASE \E id \in Found(name) : Return(name, id)
    <3>1. PICK id \in Found(name) : Return(name, id)
      BY <2>2
    <3>2. /\ known' \subseteq Names \X Nat
          /\ \A k \in known' : k[2] \in m_NodeSet' /\ m_NodeList'[k[2] + 1] = k[1]
      BY <2>1, <3>1, ReturnFound
    <3> QED
      BY <2>1, <3>2 DEF NamesInv, NamesTypeOK
  <2>3. CASE UNCHANGED known
    BY <2>1, <2>3 DEF NamesInv, NamesTypeOK
  <2> QED
    BY <1>2, <2>2, <2>3 DEF get_id_from_string
<1>3. CASE UNCHANGED nameVars
  BY <1>3 DEF nameVars, NamesInv, NamesTypeOK
<1> QED
  BY <1>1, <1>2, <1>3 DEF NamesNext

(* For any threads and names: get_id_from_string returns one valid id for each *)
(* name, and get_string_from_id leads back from it to the name.                *)
THEOREM NamesKeepIds == NamesSpec => []NamesAgree
<1>1. NamesInv => NamesAgree
  <2> SUFFICES ASSUME NamesInv PROVE NamesAgree
    OBVIOUS
  <2>1. \A k \in known : /\ k[2] \in Nat /\ k[2] < Len(m_NodeList) /\ k[2] < uninitialized
                         /\ m_NodeList[k[2] + 1] = k[1]
    BY SMTT(30) DEF NamesInv, NamesTypeOK
  <2>2. ASSUME NEW j \in known, NEW k \in known, j[1] = k[1] PROVE j[2] = k[2]
    <3>1. j[2] + 1 \in 1 .. Len(m_NodeList) /\ k[2] + 1 \in 1 .. Len(m_NodeList)
      BY <2>1, SMTT(30) DEF NamesInv, NamesTypeOK
    <3>2. j[2] + 1 = k[2] + 1
      BY <2>1, <2>2, <3>1 DEF NamesInv
    <3> QED
      BY <2>1, <3>2
  <2> QED
    BY <2>1, <2>2 DEF NamesAgree, get_string_from_id
<1> QED
  BY <1>1, NamesStart, NamesStep, PTL DEF NamesSpec

-----------------------------------------------------------------------------
(* The mutex *)

(* The threads counted as waiters. *)
Waiting == At("wait") \cup At("clear_waiting") \cup At("interrupted")

(* The word has the number of the threads that wait. *)
Counted == IsFiniteSet(Waiting) /\ m_lock_state.waiters = Cardinality(Waiting)

(* The inductive invariant. *)
MutexInv == TypeOK /\ Exclusive /\ HandedOver /\ Counted

(* Nobody has the lock, waits or sends a signal at the start. *)
LEMMA MutexInit == Init => MutexInv
<1> SUFFICES ASSUME Init PROVE MutexInv
  OBVIOUS
<1>1. Waiting = {} /\ Carriers = {} /\ At("locked") = {} /\ At("wait") = {}
  BY DEF Init, Waiting, Carriers, At
<1>2. TypeOK
  BY DEF Init, TypeOK
<1>3. Exclusive /\ HandedOver
  BY <1>1 DEF Init, Exclusive, HandedOver
<1>4. Counted
  BY <1>1, FS_EmptySet DEF Init, Counted
<1> QED
  BY <1>2, <1>3, <1>4 DEF MutexInv

(* What a thread that begins or ceases to wait does to the number of waiters. *)
LEMMA WaiterChange ==
  ASSUME Counted, NEW t
  PROVE  /\ IsFiniteSet(Waiting \cup {t}) /\ IsFiniteSet(Waiting \ {t})
         /\ t \notin Waiting => Cardinality(Waiting \cup {t}) = Cardinality(Waiting) + 1
         /\ t \in Waiting => Cardinality(Waiting \ {t}) = Cardinality(Waiting) - 1
         /\ Cardinality(Waiting) \in Nat
         /\ Cardinality(Waiting \ {t}) \in Nat
  BY FS_AddElement, FS_RemoveElement, FS_CardinalityType DEF Counted

(* try_lock preserves the invariant: it takes the lock only if the flag was clear. *)
LEMMA TryLockPreserves ==
  ASSUME MutexInv, NEW t \in Threads, try_lock(t)
  PROVE  MutexInv'
<1>1. TypeOK /\ Exclusive /\ HandedOver /\ Counted
  BY DEF MutexInv
<1>2. TypeOK'
  BY <1>1 DEF TypeOK, try_lock, step
<1>3. Exclusive'
  BY <1>1 DEF TypeOK, Exclusive, At, try_lock, step
<1>4. HandedOver'
  BY <1>1 DEF TypeOK, Exclusive, HandedOver, Carriers, At, try_lock, step
<1>5. Waiting' = Waiting
  BY <1>1 DEF TypeOK, Waiting, At, try_lock, step
<1>6. Counted'
  BY <1>1, <1>5 DEF TypeOK, Counted, try_lock, step
<1> QED
  BY <1>2, <1>3, <1>4, <1>6 DEF MutexInv

(* mark_waiting_and_try_lock counts the thread before it waits, or takes the lock. *)
LEMMA MarkWaitingAndTryLockPreserves ==
  ASSUME MutexInv, NEW t \in Threads, mark_waiting_and_try_lock(t)
  PROVE  MutexInv'
<1>1. TypeOK /\ Exclusive /\ HandedOver /\ Counted
  BY DEF MutexInv
<1>2. TypeOK'
  <2>1. CASE m_lock_state.locked
    BY <1>1, <2>1, SMTT(30) DEF TypeOK, mark_waiting_and_try_lock, step
  <2>2. CASE ~m_lock_state.locked
    BY <1>1, <2>2 DEF TypeOK, mark_waiting_and_try_lock, step
  <2> QED
    BY <2>1, <2>2
<1>3. Exclusive'
  BY <1>1 DEF TypeOK, Exclusive, At, mark_waiting_and_try_lock, step
<1>4. HandedOver'
  BY <1>1 DEF TypeOK, Exclusive, HandedOver, Carriers, At, mark_waiting_and_try_lock, step
<1>5. CASE m_lock_state.locked
  <2>1. t \notin Waiting /\ Waiting' = Waiting \cup {t}
    BY <1>1, <1>5 DEF TypeOK, Waiting, At, mark_waiting_and_try_lock, step
  <2>2. m_lock_state'.waiters = m_lock_state.waiters + 1
    BY <1>1, <1>5 DEF TypeOK, mark_waiting_and_try_lock, step
  <2> QED
    BY <1>1, <1>2, <1>3, <1>4, <2>1, <2>2, WaiterChange DEF Counted, MutexInv
<1>6. CASE ~m_lock_state.locked
  <2>1. Waiting' = Waiting /\ m_lock_state'.waiters = m_lock_state.waiters
    BY <1>1, <1>6 DEF TypeOK, Waiting, At, mark_waiting_and_try_lock, step
  <2> QED
    BY <1>1, <1>2, <1>3, <1>4, <2>1 DEF Counted, MutexInv
<1> QED
  BY <1>5, <1>6

(* wait turns the signal of the event into one that the thread carries. *)
LEMMA WaitPreserves ==
  ASSUME MutexInv, NEW t \in Threads, wait(t)
  PROVE  MutexInv'
<1>1. TypeOK /\ Exclusive /\ HandedOver /\ Counted
  BY DEF MutexInv
<1>2. TypeOK'
  BY <1>1 DEF TypeOK, wait, step
<1>3. Exclusive'
  BY <1>1 DEF TypeOK, Exclusive, At, wait, step
<1>4. HandedOver'
  BY <1>1 DEF TypeOK, Exclusive, HandedOver, Carriers, At, wait, step
<1>5. Waiting' = Waiting
  BY <1>1 DEF TypeOK, Waiting, At, wait, step
<1>6. Counted'
  BY <1>1, <1>5 DEF TypeOK, Counted, wait, step
<1> QED
  BY <1>2, <1>3, <1>4, <1>6 DEF MutexInv

(* A wait that the abort handle ends takes no signal. *)
LEMMA WaitAbortedPreserves ==
  ASSUME MutexInv, NEW t \in Threads, wait_aborted(t)
  PROVE  MutexInv'
<1>1. TypeOK /\ Exclusive /\ HandedOver /\ Counted
  BY DEF MutexInv
<1>2. TypeOK'
  BY <1>1 DEF TypeOK, wait_aborted, step
<1>3. Exclusive'
  BY <1>1 DEF TypeOK, Exclusive, At, wait_aborted, step
<1>4. HandedOver'
  BY <1>1 DEF TypeOK, Exclusive, HandedOver, Carriers, At, wait_aborted, step
<1>5. Waiting' = Waiting
  BY <1>1 DEF TypeOK, Waiting, At, wait_aborted, step
<1>6. Counted'
  BY <1>1, <1>5 DEF TypeOK, Counted, wait_aborted, step
<1> QED
  BY <1>2, <1>3, <1>4, <1>6 DEF MutexInv

(* clear_waiting_and_try_lock uses the signal up, with the lock or without it. *)
LEMMA ClearWaitingAndTryLockPreserves ==
  ASSUME MutexInv, NEW t \in Threads, clear_waiting_and_try_lock(t)
  PROVE  MutexInv'
<1>1. TypeOK /\ Exclusive /\ HandedOver /\ Counted
  BY DEF MutexInv
<1>2. TypeOK'
  <2>1. t \in Waiting
    BY DEF Waiting, At, clear_waiting_and_try_lock, step
  <2>2. m_lock_state.waiters - 1 \in Nat
    BY <1>1, <2>1, WaiterChange DEF Counted
  <2> QED
    BY <1>1, <2>2 DEF TypeOK, clear_waiting_and_try_lock, step
<1>3. Exclusive'
  BY <1>1 DEF TypeOK, Exclusive, At, clear_waiting_and_try_lock, step
<1>4. HandedOver'
  BY <1>1, SMTT(30) DEF TypeOK, Exclusive, HandedOver, Carriers, At, clear_waiting_and_try_lock, step
<1>5. CASE ~m_lock_state.locked
  <2>1. t \in Waiting /\ Waiting' = Waiting \ {t}
    BY <1>1, <1>5 DEF TypeOK, Waiting, At, clear_waiting_and_try_lock, step
  <2>2. m_lock_state'.waiters = m_lock_state.waiters - 1
    BY <1>1, <1>5 DEF TypeOK, clear_waiting_and_try_lock, step
  <2> QED
    BY <1>1, <1>2, <1>3, <1>4, <2>1, <2>2, WaiterChange DEF Counted, MutexInv
<1>6. CASE m_lock_state.locked
  <2>1. Waiting' = Waiting /\ m_lock_state'.waiters = m_lock_state.waiters
    BY <1>1, <1>6 DEF TypeOK, Waiting, At, clear_waiting_and_try_lock, step
  <2> QED
    BY <1>1, <1>2, <1>3, <1>4, <2>1 DEF Counted, MutexInv
<1> QED
  BY <1>5, <1>6

(* A thread that is interrupted counts itself out. *)
LEMMA InterruptedPreserves ==
  ASSUME MutexInv, NEW t \in Threads, interrupted(t)
  PROVE  MutexInv'
<1>1. TypeOK /\ Exclusive /\ HandedOver /\ Counted
  BY DEF MutexInv
<1>2. TypeOK'
  <2>1. t \in Waiting
    BY DEF Waiting, At, interrupted, step
  <2>2. m_lock_state.waiters - 1 \in Nat
    BY <1>1, <2>1, WaiterChange DEF Counted
  <2> QED
    BY <1>1, <2>2 DEF TypeOK, interrupted, step
<1>3. Exclusive'
  BY <1>1 DEF TypeOK, Exclusive, At, interrupted, step
<1>4. HandedOver'
  BY <1>1 DEF TypeOK, Exclusive, HandedOver, Carriers, At, interrupted, step
<1>5. t \in Waiting /\ Waiting' = Waiting \ {t}
  BY <1>1 DEF TypeOK, Waiting, At, interrupted, step
<1>6. Counted'
  BY <1>1, <1>5, WaiterChange DEF TypeOK, Counted, interrupted, step
<1> QED
  BY <1>2, <1>3, <1>4, <1>6 DEF MutexInv

(* unlock goes on to signal if a thread waits: then the count is not zero. *)
LEMMA UnlockPreserves ==
  ASSUME MutexInv, NEW t \in Threads, unlock(t)
  PROVE  MutexInv'
<1>1. TypeOK /\ Exclusive /\ HandedOver /\ Counted
  BY DEF MutexInv
<1>2. TypeOK'
  BY <1>1 DEF TypeOK, unlock, step
<1>3. Exclusive'
  BY <1>1 DEF TypeOK, Exclusive, At, unlock, step
<1>4. HandedOver'
  <2>1. At("wait") # {} => m_lock_state.waiters > 0
    BY <1>1, FS_EmptySet, FS_CardinalityType, SMTT(30) DEF Counted, Waiting
  <2> QED
    BY <1>1, <2>1, SMTT(30) DEF TypeOK, Exclusive, HandedOver, Carriers, At, unlock, step
<1>5. Waiting' = Waiting
  BY <1>1 DEF TypeOK, Waiting, At, unlock, step
<1>6. Counted'
  BY <1>1, <1>5 DEF TypeOK, Counted, unlock, step
<1> QED
  BY <1>2, <1>3, <1>4, <1>6 DEF MutexInv

(* Of the threads that unlock, one sets the flag and goes on to set the event. *)
LEMMA TestAndSetPreserves ==
  ASSUME MutexInv, NEW t \in Threads, test_and_set(t)
  PROVE  MutexInv'
<1>1. TypeOK /\ Exclusive /\ HandedOver /\ Counted
  BY DEF MutexInv
<1>2. TypeOK'
  BY <1>1 DEF TypeOK, test_and_set, step
<1>3. Exclusive'
  BY <1>1 DEF TypeOK, Exclusive, At, test_and_set, step
<1>4. HandedOver'
  <2>1. /\ Carriers' = Carriers \/ (Carriers' = Carriers \cup {t} /\ ~m_lock_state.event_set)
        /\ m_lock_state'.event_set /\ (Carriers' # {} \/ m_lock_state.event_set)
    BY <1>1 DEF TypeOK, Carriers, At, test_and_set, step
  <2> QED
    BY <1>1, <2>1 DEF HandedOver, test_and_set
<1>5. Waiting' = Waiting
  BY <1>1 DEF TypeOK, Waiting, At, test_and_set, step
<1>6. Counted'
  BY <1>1, <1>5 DEF TypeOK, Counted, test_and_set, step
<1> QED
  BY <1>2, <1>3, <1>4, <1>6 DEF MutexInv

(* set_noexcept moves the signal from the thread to the event. *)
LEMMA SetEventPreserves ==
  ASSUME MutexInv, NEW t \in Threads, set_event(t)
  PROVE  MutexInv'
<1>1. TypeOK /\ Exclusive /\ HandedOver /\ Counted
  BY DEF MutexInv
<1>2. TypeOK'
  BY <1>1 DEF TypeOK, set_event, step
<1>3. Exclusive'
  BY <1>1 DEF TypeOK, Exclusive, At, set_event, step
<1>4. HandedOver'
  <2>1. t \in Carriers /\ Carriers' = Carriers \ {t}
    BY <1>1 DEF TypeOK, Carriers, At, set_event, step
  <2>2. At("wait")' = At("wait") /\ At("test_and_set")' = At("test_and_set")
    BY <1>1 DEF TypeOK, At, set_event, step
  <2> QED
    BY <1>1, <2>1, <2>2 DEF HandedOver, set_event
<1>5. Waiting' = Waiting
  BY <1>1 DEF TypeOK, Waiting, At, set_event, step
<1>6. Counted'
  BY <1>1, <1>5 DEF TypeOK, Counted, set_event, step
<1> QED
  BY <1>2, <1>3, <1>4, <1>6 DEF MutexInv

(* stop_local and reset_local leave the mutex alone. *)
LEMMA AbortPreserves ==
  ASSUME MutexInv, NEW t \in Threads, abort(t)
  PROVE  MutexInv'
<1>1. TypeOK /\ Exclusive /\ HandedOver /\ Counted
  BY DEF MutexInv
<1>2. TypeOK'
  BY <1>1 DEF TypeOK, abort
<1>3. Exclusive'
  BY <1>1 DEF TypeOK, Exclusive, At, abort
<1>4. HandedOver'
  BY <1>1 DEF TypeOK, Exclusive, HandedOver, Carriers, At, abort
<1>5. Waiting' = Waiting
  BY <1>1 DEF TypeOK, Waiting, At, abort
<1>6. Counted'
  BY <1>1, <1>5 DEF TypeOK, Counted, abort
<1> QED
  BY <1>2, <1>3, <1>4, <1>6 DEF MutexInv

(* Every step preserves the invariant. *)
LEMMA MutexStep == MutexInv /\ [Next]_vars => MutexInv'
<1> SUFFICES ASSUME MutexInv, [Next]_vars PROVE MutexInv'
  OBVIOUS
<1>1. ASSUME NEW t \in Threads, try_lock(t) PROVE MutexInv'
  BY <1>1, TryLockPreserves
<1>2. ASSUME NEW t \in Threads, mark_waiting_and_try_lock(t) PROVE MutexInv'
  BY <1>2, MarkWaitingAndTryLockPreserves
<1>3. ASSUME NEW t \in Threads, wait(t) PROVE MutexInv'
  BY <1>3, WaitPreserves
<1>4. ASSUME NEW t \in Threads, wait_aborted(t) PROVE MutexInv'
  BY <1>4, WaitAbortedPreserves
<1>5. ASSUME NEW t \in Threads, clear_waiting_and_try_lock(t) PROVE MutexInv'
  BY <1>5, ClearWaitingAndTryLockPreserves
<1>6. ASSUME NEW t \in Threads, interrupted(t) PROVE MutexInv'
  BY <1>6, InterruptedPreserves
<1>7. ASSUME NEW t \in Threads, unlock(t) PROVE MutexInv'
  BY <1>7, UnlockPreserves
<1>8. ASSUME NEW t \in Threads, test_and_set(t) PROVE MutexInv'
  BY <1>8, TestAndSetPreserves
<1>9. ASSUME NEW t \in Threads, set_event(t) PROVE MutexInv'
  BY <1>9, SetEventPreserves
<1>10. ASSUME NEW t \in Threads, abort(t) PROVE MutexInv'
  BY <1>10, AbortPreserves
<1>11. CASE UNCHANGED vars
  <2>1. \A point : At(point)' = At(point)
    BY <1>11 DEF vars, At
  <2>2. Waiting' = Waiting /\ Carriers' = Carriers
    BY <2>1 DEF Waiting, Carriers
  <2> QED
    BY <1>11, <2>1, <2>2 DEF vars, MutexInv, TypeOK, Exclusive, HandedOver, Counted
<1> QED
  BY <1>1, <1>2, <1>3, <1>4, <1>5, <1>6, <1>7, <1>8, <1>9, <1>10, <1>11 DEF Next, ThreadStep

(* lock and unlock of the mutex on Windows, with any number of threads that    *)
(* lock it, with and without an abort handle: one thread has the lock at a     *)
(* time, and a thread that waits for a free mutex has a signal on its way.     *)
THEOREM MutexHandsOver == Spec => []MutexHandedOver
<1>1. MutexInv => MutexHandedOver
  BY DEF MutexInv, MutexHandedOver
<1> QED
  BY <1>1, MutexInit, MutexStep, PTL DEF Spec

-----------------------------------------------------------------------------
(* Global loggers *)

(* The control points of a thread in a block, and of one before or after it.  *)
InBlock ==
  {"body", "lock_repository", "construct", "construct_throws", "check_type", "commit", "rollback"}
AtBlock == {"executed", "load_impl", "install_impl", "enter", "commit_wakes", "rollback_wakes"}

(* The blocks on the stack of t that t executes: all those below the top, and *)
(* the one on top from taking it to commit or rollback.                       *)
Executing(t) ==
  {b \in Blocks : \E i \in 1 .. Len(stack[t]) :
                    stack[t][i] = b /\ (i = 1 => get_pc[t] \in InBlock)}

(* The i-th block on the stack of t is a logger whose initializer runs. *)
Constructs(t, i) ==
  IF i = 1 THEN get_pc[t] \in {"construct", "construct_throws"} ELSE stack[t][i - 1] \in Loggers

GetTyped ==
  /\ status \in [Blocks -> {"uninitialized", "being_initialized", "initialized"}]
  /\ stack \in [GetThreads -> Seq(Blocks)]
  /\ get_pc \in [GetThreads -> InBlock \cup AtBlock \cup {"outside"}]
  /\ impl \in [GetThreads -> SUBSET GetThreads] /\ g_pOnceBlockImpl \subseteq GetThreads
  /\ DOMAIN instance = Loggers

(* A thread enters no block twice, and only the block of the repository, at    *)
(* the top of the stack, is not that of a logger.                              *)
Stacked ==
  \A t \in GetThreads :
    /\ \A i, j \in 1 .. Len(stack[t]) : stack[t][i] = stack[t][j] => i = j
    /\ \A i \in 2 .. Len(stack[t]) : stack[t][i] \in Loggers
    /\ get_pc[t] = "outside" <=> Len(stack[t]) = 0
    /\ get_pc[t] \in {"lock_repository", "construct", "construct_throws", "check_type", "rollback",
                      "rollback_wakes"} => stack[t][1] \in Loggers

(* The blocks that are marked as being executed are those that a thread        *)
(* executes, and no block is executed by two.                                  *)
Executed ==
  /\ \A t \in GetThreads : \A b \in Executing(t) : status[b] = "being_initialized"
  /\ \A t, u \in GetThreads : \A b \in Executing(t) : b \in Executing(u) => t = u
  /\ \A b \in Blocks : status[b] = "being_initialized" => \E t \in GetThreads : b \in Executing(t)

(* The mutex of the repository is held while an initializer runs, for a tag    *)
(* that is not registered.                                                     *)
Locked ==
  /\ m_Mutex \subseteq GetThreads
  /\ \A t, u \in m_Mutex : t = u
  /\ \A t \in GetThreads : t \in m_Mutex <=> \E i \in 1 .. Len(stack[t]) : Constructs(t, i)
  /\ \A t \in GetThreads : \A i, j \in 1 .. Len(stack[t]) :
       Constructs(t, i) /\ Constructs(t, j) => i = j
  /\ \A t \in GetThreads : \A i \in 1 .. Len(stack[t]) :
       Constructs(t, i) => Registered(stack[t][i]) = {}

(* A logger has its holder before its block is committed. *)
Held ==
  \A t \in GetThreads :
    get_pc[t] = "commit" /\ stack[t][1] \in Loggers => instance[stack[t][1]] # {}

(* A thread that has entered a block holds the impl that is installed. *)
Installed ==
  \A t \in GetThreads :
    Executing(t) # {} \/ get_pc[t] \in {"enter", "commit_wakes", "rollback_wakes"} =>
      impl[t] = g_pOnceBlockImpl /\ g_pOnceBlockImpl # {}

(* A thread asleep is in enter_once_block, and has a broadcast to come.        *)
Sleeping ==
  \A t \in waiters :
    /\ t \in GetThreads /\ get_pc[t] = "enter"
    /\ \/ status[stack[t][1]] = "being_initialized"
       \/ \E u \in GetThreads : get_pc[u] \in {"commit_wakes", "rollback_wakes"}

GetInv ==
  GetTyped /\ Stacked /\ Executed /\ Locked /\ Held /\ Installed /\ Sleeping /\ OnePerTag

-----------------------------------------------------------------------------
(* What a step of a thread does *)

OthersStay(t) ==
  /\ get_pc' = [get_pc EXCEPT ![t] = get_pc'[t]]
  /\ stack' = [stack EXCEPT ![t] = stack'[t]]
  /\ impl' = [impl EXCEPT ![t] = impl'[t]]

Popped(t) ==
  /\ stack'[t] \in Seq(Blocks) /\ Len(stack'[t]) = Len(stack[t]) - 1
  /\ \A i \in 1 .. Len(stack'[t]) : stack'[t][i] = stack[t][i + 1]
Pushed(t, b) ==
  /\ stack'[t] \in Seq(Blocks) /\ Len(stack'[t]) = Len(stack[t]) + 1
  /\ stack'[t][1] = b
  /\ \A i \in 1 .. Len(stack[t]) : stack'[t][i + 1] = stack[t][i]

(* t goes on before or after the block on top of its stack, or in it. *)
Moves(t) ==
  /\ stack'[t] = stack[t] /\ UNCHANGED <<status, m_Mutex, m_Loggers>>
  /\ \/ /\ get_pc[t] \in AtBlock \ {"rollback_wakes"}
        /\ get_pc'[t] \in {"executed", "load_impl", "install_impl", "enter"}
        /\ UNCHANGED instance
     \/ /\ get_pc[t] = "body" /\ get_pc'[t] = "commit" /\ stack[t][1] = RepoBlock
        /\ UNCHANGED instance
     \/ get_pc[t] = "lock_repository" /\ get_pc'[t] = "check_type" /\ UNCHANGED instance
     \/ get_pc[t] = "check_type" /\ get_pc'[t] = "rollback" /\ UNCHANGED instance
     \/ /\ get_pc[t] = "check_type" /\ get_pc'[t] = "commit"
        /\ \E h : instance' = [instance EXCEPT ![stack[t][1]] = {h}]
(* t enters a block, from outside or from the block on top of its stack. *)
Pushes(t) ==
  /\ get_pc'[t] = "executed" /\ UNCHANGED <<status, repoVars>>
  /\ \/ get_pc[t] = "outside" /\ \E l \in Loggers : Pushed(t, l)
     \/ get_pc[t] = "body" /\ stack[t][1] \in Loggers /\ Pushed(t, RepoBlock)
     \/ /\ get_pc[t] = "construct" /\ Len(stack[t]) = 1
        /\ \E l \in Loggers : l # stack[t][1] /\ Pushed(t, l)
(* t is back in the block around the one on top of its stack. *)
Pops(t) ==
  /\ get_pc[t] \in {"executed", "enter", "rollback_wakes"}
  /\ Popped(t)
  /\ get_pc'[t] = IF Len(stack[t]) = 1 THEN "outside"
                  ELSE IF get_pc[t] = "rollback_wakes" THEN "construct_throws"
                  ELSE After(stack[t][1])
  /\ UNCHANGED <<status, repoVars>>
Takes(t) ==
  /\ get_pc[t] = "enter" /\ get_pc'[t] = "body" /\ stack'[t] = stack[t]
  /\ status[stack[t][1]] = "uninitialized"
  /\ status' = [status EXCEPT ![stack[t][1]] = "being_initialized"] /\ UNCHANGED repoVars
Ends(t) ==
  /\ \/ /\ get_pc[t] = "commit" /\ get_pc'[t] = "commit_wakes"
        /\ status' = [status EXCEPT ![stack[t][1]] = "initialized"]
     \/ /\ get_pc[t] = "rollback" /\ get_pc'[t] = "rollback_wakes"
        /\ status' = [status EXCEPT ![stack[t][1]] = "uninitialized"]
  /\ stack'[t] = stack[t] /\ UNCHANGED repoVars
Locks(t) ==
  /\ get_pc[t] = "lock_repository" /\ get_pc'[t] = "construct"
  /\ m_Mutex = {} /\ m_Mutex' = {t} /\ Registered(stack[t][1]) = {}
  /\ stack'[t] = stack[t] /\ UNCHANGED <<status, m_Loggers, instance>>
Unlocks(t) ==
  /\ m_Mutex' = m_Mutex \ {t}
  /\ \/ /\ get_pc[t] = "construct" /\ get_pc'[t] = "check_type"
        /\ m_Loggers' = m_Loggers \cup {Holder(stack[t][1])}
     \/ /\ get_pc[t] \in {"construct", "construct_throws"} /\ get_pc'[t] = "rollback"
        /\ UNCHANGED m_Loggers
  /\ stack'[t] = stack[t] /\ UNCHANGED <<status, instance>>

GetEffect(t) ==
  Moves(t) \/ Pushes(t) \/ Pops(t) \/ Takes(t) \/ Ends(t) \/ Locks(t) \/ Unlocks(t)

(* What a step does to the impl and to the threads asleep. *)
Gains(t) ==
  /\ get_pc[t] \in {"load_impl", "install_impl"} /\ get_pc'[t] = "enter" /\ UNCHANGED waiters
  /\ g_pOnceBlockImpl # {} => g_pOnceBlockImpl' = g_pOnceBlockImpl
  /\ g_pOnceBlockImpl' # {} /\ g_pOnceBlockImpl' \subseteq GetThreads
  /\ impl'[t] = g_pOnceBlockImpl'
Keeps(t) ==
  /\ UNCHANGED <<g_pOnceBlockImpl, impl>>
  /\ get_pc'[t] = "enter" => get_pc[t] = "enter"
  /\ \/ get_pc[t] \notin {"enter", "commit_wakes", "rollback_wakes"} /\ UNCHANGED waiters
     \/ get_pc[t] = "enter" /\ get_pc'[t] # "enter" /\ t \notin waiters /\ UNCHANGED waiters
     \/ /\ get_pc[t] = "enter" /\ get_pc'[t] = "enter" /\ waiters' = waiters \cup {t}
        /\ status[stack[t][1]] = "being_initialized"
     \/ get_pc[t] \in {"commit_wakes", "rollback_wakes"} /\ waiters' = {}

(* The top of a stack, and the stack without it. *)
LEMMA PoppedStack ==
  ASSUME NEW S, NEW s \in Seq(S), Len(s) # 0
  PROVE  /\ Head(s) = s[1] /\ s[1] \in S
         /\ Tail(s) \in Seq(S) /\ Len(Tail(s)) = Len(s) - 1
         /\ \A i \in 1 .. Len(Tail(s)) : Tail(s)[i] = s[i + 1]
  OBVIOUS

(* A stack with one more block. *)
LEMMA PushedStack ==
  ASSUME NEW S, NEW s \in Seq(S), NEW b \in S
  PROVE  /\ <<b>> \o s \in Seq(S) /\ Len(<<b>> \o s) = Len(s) + 1
         /\ (<<b>> \o s)[1] = b
         /\ \A i \in 1 .. Len(s) : (<<b>> \o s)[i + 1] = s[i]
  OBVIOUS

(* No thread has asked for a logger yet. *)
LEMMA GetStart == GetInit => GetInv
<1> SUFFICES ASSUME GetInit PROVE GetInv
  OBVIOUS
<1> USE DEF GetInit, Once!OnceInit
<1>1. GetTyped
  BY DEF GetTyped
<1>2. \A t \in GetThreads : Len(stack[t]) = 0 /\ get_pc[t] = "outside"
  OBVIOUS
<1>3. Stacked
  BY <1>2, SMTT(30) DEF Stacked
<1>4. \A t \in GetThreads : Executing(t) = {} /\ \A i \in 1 .. Len(stack[t]) : FALSE
  BY <1>2, SMTT(30) DEF Executing
<1>5. Executed /\ Locked
  BY <1>4 DEF Executed, Locked
<1>6. Held /\ Installed /\ Sleeping /\ OnePerTag
  BY <1>2, <1>4 DEF Held, Installed, Sleeping, OnePerTag, Blocks
<1> QED BY <1>1, <1>3, <1>5, <1>6 DEF GetInv

(* Every step has one of the effects on the stack and one on the impl. *)
LEMMA GetEffects ==
  ASSUME GetTyped, Stacked, NEW t \in GetThreads,
         GetStep(t) \/ \E l \in Requested : get(t, l)
  PROVE  OthersStay(t) /\ GetEffect(t) /\ (Gains(t) \/ Keeps(t))
<1> DEFINE s == stack[t]
<1> USE DEF goto, onceVars, repoVars
<1>1. /\ s \in Seq(Blocks) /\ t \in DOMAIN get_pc /\ t \in DOMAIN stack /\ t \in DOMAIN impl
      /\ Loggers \subseteq Blocks /\ RepoBlock \in Blocks
  BY DEF GetTyped, Blocks
<1>2. get_pc[t] # "outside" =>
        /\ Len(s) # 0 /\ Block(t) = s[1] /\ s[1] \in Blocks
        /\ Tail(s) \in Seq(Blocks) /\ Len(Tail(s)) = Len(s) - 1
        /\ \A i \in 1 .. Len(Tail(s)) : Tail(s)[i] = s[i + 1]
  <2> SUFFICES ASSUME get_pc[t] # "outside" PROVE <1>2!2
    OBVIOUS
  <2>1. Len(s) # 0
    BY DEF Stacked
  <2> QED BY <1>1, <2>1, PoppedStack DEF Block
<1>3. \A around : get_pc[t] # "outside" /\ leave(t, around) =>
        /\ Popped(t) /\ get_pc'[t] = IF Len(s) = 1 THEN "outside" ELSE around
        /\ get_pc' = [get_pc EXCEPT ![t] = get_pc'[t]]
        /\ stack' = [stack EXCEPT ![t] = stack'[t]]
  BY <1>1, <1>2 DEF leave, Popped, GetTyped
<1>4. \A b \in Blocks : stack' = [stack EXCEPT ![t] = <<b>> \o s] =>
        Pushed(t, b) /\ stack' = [stack EXCEPT ![t] = stack'[t]]
  <2> SUFFICES ASSUME NEW b \in Blocks, stack' = [stack EXCEPT ![t] = <<b>> \o s]
               PROVE  Pushed(t, b) /\ stack' = [stack EXCEPT ![t] = stack'[t]]
    OBVIOUS
  <2>1. stack'[t] = <<b>> \o s
    BY <1>1 DEF GetTyped
  <2>2. Pushed(t, b)
    BY <1>1, <2>1, PushedStack, SMTT(30) DEF Pushed
  <2> QED BY <2>1, <2>2
<1>5. \A to : goto(t, to) => get_pc'[t] = to /\ get_pc' = [get_pc EXCEPT ![t] = get_pc'[t]]
  BY <1>1 DEF GetTyped
<1>6. /\ UNCHANGED stack => stack' = [stack EXCEPT ![t] = stack'[t]] /\ stack'[t] = stack[t]
      /\ UNCHANGED impl => impl' = [impl EXCEPT ![t] = impl'[t]]
      /\ UNCHANGED get_pc => get_pc' = [get_pc EXCEPT ![t] = get_pc'[t]] /\ get_pc'[t] = get_pc[t]
  BY <1>1 DEF GetTyped
<1>7. ASSUME NEW l \in Requested, get(t, l)
      PROVE  OthersStay(t) /\ GetEffect(t) /\ Keeps(t)
  <2>1. Len(s) = 0 /\ l \in Blocks /\ l \in Loggers
    BY <1>1, <1>7, LoggersAssumption DEF get, Stacked
  <2>2. Pushed(t, l) /\ stack' = [stack EXCEPT ![t] = stack'[t]]
    <3>1. stack' = [stack EXCEPT ![t] = <<l>>] /\ stack'[t] = <<l>>
      BY <1>1, <1>7 DEF get
    <3>2. <<l>> \in Seq(Blocks) /\ Len(<<l>>) = 1 /\ <<l>>[1] = l
      BY <2>1
    <3>3. Len(stack'[t]) = Len(s) + 1 /\ \A i \in 1 .. Len(s) : FALSE
      BY <2>1, <3>1, <3>2, SMTT(30)
    <3>4. stack' = [stack EXCEPT ![t] = stack'[t]]
      BY <3>1
    <3> QED BY <3>1, <3>2, <3>3, <3>4 DEF Pushed
  <2> QED BY <1>5, <1>6, <1>7, <2>1, <2>2 DEF get, OthersStay, GetEffect, Pushes, Keeps
<1>8. CASE executed(t)
  <2>1. CASE status[Block(t)] = "initialized"
    BY <1>2, <1>3, <1>6, <1>8, <2>1, SMTT(30)
       DEF executed, OthersStay, GetEffect, Pops, Keeps, After
  <2>2. CASE status[Block(t)] # "initialized"
    BY <1>5, <1>6, <1>8, <2>2 DEF executed, OthersStay, GetEffect, Moves, Keeps, AtBlock
  <2> QED BY <2>1, <2>2
<1>9. CASE get_once_block_impl(t)
  <2>1. CASE get_pc[t] = "load_impl" /\ g_pOnceBlockImpl = {} /\ goto(t, "install_impl")
             /\ UNCHANGED onceVars
    BY <1>5, <1>6, <1>9, <2>1
       DEF get_once_block_impl, OthersStay, GetEffect, Moves, Keeps, AtBlock
  <2>2. CASE get_pc[t] = "load_impl" /\ Once!load_impl(t) /\ goto(t, "enter")
    <3>1. impl'[t] = g_pOnceBlockImpl /\ impl' = [impl EXCEPT ![t] = impl'[t]]
      BY <1>1, <2>2 DEF Once!load_impl, GetTyped
    <3>2. OthersStay(t) /\ GetEffect(t)
      BY <1>5, <1>6, <1>9, <2>2, <3>1
         DEF get_once_block_impl, OthersStay, GetEffect, Moves, AtBlock, Once!load_impl
    <3>3. Gains(t)
      BY <1>5, <2>2, <3>1 DEF Gains, Once!load_impl, GetTyped
    <3> QED BY <3>2, <3>3
  <2>3. CASE get_pc[t] = "install_impl" /\ Once!install_impl(t) /\ goto(t, "enter")
    <3>1. impl'[t] = g_pOnceBlockImpl' /\ impl' = [impl EXCEPT ![t] = impl'[t]]
      BY <1>1, <2>3 DEF Once!install_impl, GetTyped
    <3>2. OthersStay(t) /\ GetEffect(t)
      BY <1>5, <1>6, <1>9, <2>3, <3>1
         DEF get_once_block_impl, OthersStay, GetEffect, Moves, AtBlock, Once!install_impl
    <3>3. Gains(t)
      BY <1>5, <2>3, <3>1 DEF Gains, Once!install_impl, GetTyped
    <3> QED BY <3>2, <3>3
  <2> QED BY <1>9, <2>1, <2>2, <2>3 DEF get_once_block_impl
<1>10. CASE enter_once_block(t)
  <2> USE <1>10 DEF enter_once_block
  <2>1. CASE Once!enter_executed(t, Block(t)) /\ leave(t, After(Block(t)))
    BY <1>2, <1>3, <1>6, <2>1, SMTT(30)
       DEF OthersStay, GetEffect, Pops, Keeps, After, Once!enter_executed, Once!onceVars
  <2>2. CASE Once!enter_to_execute(t, Block(t)) /\ goto(t, "body") /\ UNCHANGED stack
    <3>1. Takes(t)
      BY <1>2, <1>5, <1>6, <2>2 DEF Takes, Once!enter_to_execute
    <3>2. OthersStay(t)
      BY <1>5, <1>6, <2>2 DEF OthersStay, Once!enter_to_execute
    <3>3. t \notin waiters /\ UNCHANGED <<waiters, g_pOnceBlockImpl, impl>>
      BY <2>2 DEF Once!enter_to_execute
    <3>4. Keeps(t)
      BY <3>1, <3>3 DEF Keeps, Takes
    <3> QED BY <3>1, <3>2, <3>4 DEF GetEffect
  <2>3. CASE Once!enter_sleeps(t, Block(t)) /\ UNCHANGED <<get_pc, stack>>
    BY <1>2, <1>6, <2>3 DEF OthersStay, GetEffect, Moves, Keeps, AtBlock, Once!enter_sleeps
  <2> QED BY <2>1, <2>2, <2>3
<1>11. CASE commit_block(t)
  BY <1>2, <1>5, <1>6, <1>11 DEF commit_block, OthersStay, GetEffect, Ends, Keeps, Once!commit
<1>12. CASE rollback_block(t)
  BY <1>2, <1>5, <1>6, <1>12 DEF rollback_block, OthersStay, GetEffect, Ends, Keeps, Once!rollback
<1>13. CASE wake(t)
  <2>1. CASE get_pc[t] = "commit_wakes" /\ goto(t, "executed") /\ UNCHANGED stack
    BY <1>5, <1>6, <1>13, <2>1
       DEF wake, OthersStay, GetEffect, Moves, Keeps, AtBlock, Once!wake_all
  <2>2. CASE get_pc[t] = "rollback_wakes" /\ leave(t, "construct_throws")
    BY <1>3, <1>6, <1>13, <2>2, SMTT(30) DEF wake, OthersStay, GetEffect, Pops, Keeps, Once!wake_all
  <2> QED BY <1>13, <2>1, <2>2 DEF wake
<1>14. CASE body(t)
  <2>1. CASE Block(t) = RepoBlock
    BY <1>2, <1>5, <1>6, <1>14, <2>1 DEF body, OthersStay, GetEffect, Moves, Keeps
  <2>2. CASE Block(t) # RepoBlock
    BY <1>1, <1>2, <1>4, <1>5, <1>6, <1>14, <2>2
       DEF body, OthersStay, GetEffect, Pushes, Keeps, Blocks
  <2> QED BY <2>1, <2>2
<1>15. CASE lock_repository(t)
  <2>1. CASE Registered(Block(t)) # {}
    BY <1>2, <1>5, <1>6, <1>15, <2>1 DEF lock_repository, OthersStay, GetEffect, Moves, Keeps
  <2>2. CASE Registered(Block(t)) = {}
    BY <1>2, <1>5, <1>6, <1>15, <2>2 DEF lock_repository, OthersStay, GetEffect, Locks, Keeps
  <2> QED BY <2>1, <2>2
<1>16. CASE construct_logger(t)
  BY <1>2, <1>5, <1>6, <1>16 DEF construct_logger, OthersStay, GetEffect, Unlocks, Keeps
<1>17. CASE construct_throws(t)
  BY <1>2, <1>5, <1>6, <1>17 DEF construct_throws, OthersStay, GetEffect, Unlocks, Keeps
<1>18. CASE check_type(t)
  BY <1>2, <1>5, <1>6, <1>18 DEF check_type, OthersStay, GetEffect, Moves, Keeps
<1>19. ASSUME NEW l \in Loggers, construct_gets_another(t, l)
       PROVE  OthersStay(t) /\ GetEffect(t) /\ Keeps(t)
  BY <1>1, <1>2, <1>4, <1>5, <1>6, <1>19
     DEF construct_gets_another, OthersStay, GetEffect, Pushes, Keeps
<1> QED BY <1>7, <1>8, <1>9, <1>10, <1>11, <1>12, <1>13, <1>14, <1>15, <1>16, <1>17, <1>18, <1>19
        DEF GetStep

(* The types of the variables are kept. *)
LEMMA TypedStep ==
  ASSUME GetTyped, Stacked, NEW t \in GetThreads, OthersStay(t), GetEffect(t), Gains(t) \/ Keeps(t)
  PROVE  GetTyped'
<1>1. stack[t] \in Seq(Blocks)
  BY DEF GetTyped
<1>2. stack'[t] \in Seq(Blocks)
  BY <1>1 DEF GetEffect, Moves, Pushes, Pops, Takes, Ends, Locks, Unlocks, Pushed, Popped
<1>3. get_pc'[t] \in InBlock \cup AtBlock \cup {"outside"}
  BY DEF GetEffect, Moves, Pushes, Pops, Takes, Ends, Locks, Unlocks, InBlock, AtBlock, After
<1>4. impl'[t] \in SUBSET GetThreads /\ g_pOnceBlockImpl' \subseteq GetThreads
  BY DEF Gains, Keeps, GetTyped
<1>5. status' \in [Blocks -> {"uninitialized", "being_initialized", "initialized"}]
  BY DEF GetEffect, Moves, Pushes, Pops, Takes, Ends, Locks, Unlocks, GetTyped
<1>6. DOMAIN instance' = Loggers
  BY DEF GetEffect, Moves, Pushes, Pops, Takes, Ends, Locks, Unlocks, GetTyped, repoVars
<1> QED BY <1>2, <1>3, <1>4, <1>5, <1>6 DEF GetTyped, OthersStay

(* What the stacks look like is kept. *)
LEMMA StackedStep ==
  ASSUME GetTyped, Stacked, Executed, NEW t \in GetThreads, OthersStay(t), GetEffect(t)
  PROVE  Stacked'
<1> DEFINE Fine(u) ==
      /\ \A i, j \in 1 .. Len(stack[u]) : stack[u][i] = stack[u][j] => i = j
      /\ \A i \in 2 .. Len(stack[u]) : stack[u][i] \in Loggers
      /\ get_pc[u] = "outside" <=> Len(stack[u]) = 0
      /\ get_pc[u] \in {"lock_repository", "construct", "construct_throws", "check_type", "rollback",
                        "rollback_wakes"} => stack[u][1] \in Loggers
<1>1. \A u \in GetThreads : Fine(u)
  BY DEF Stacked
<1>2. \A u \in GetThreads : u # t => Fine(u)'
  <2> SUFFICES ASSUME NEW u \in GetThreads, u # t PROVE Fine(u)'
    OBVIOUS
  <2>1. stack'[u] = stack[u] /\ get_pc'[u] = get_pc[u]
    BY DEF OthersStay, GetTyped
  <2> QED BY <1>1, <2>1
<1>3. Fine(t)'
  <2>1. CASE stack'[t] = stack[t]
    <3>1. /\ get_pc[t] # "outside" /\ get_pc'[t] # "outside"
          /\ get_pc'[t] \in {"lock_repository", "construct", "construct_throws", "check_type",
                             "rollback", "rollback_wakes"} => stack[t][1] \in Loggers
      BY <1>1, <2>1, SMTT(30)
         DEF GetEffect, Moves, Pushes, Pops, Takes, Ends, Locks, Unlocks, Popped, Pushed, AtBlock
    <3> QED BY <1>1, <2>1, <3>1
  <2>2. CASE Pushes(t)
    <3>1. PICK b \in Blocks :
            /\ Pushed(t, b)
            /\ \A i \in 1 .. Len(stack[t]) : stack[t][i] # b /\ stack[t][i] \in Loggers
      <4>1. \A i \in 1 .. Len(stack[t]) : i = 1 \/ i \in 2 .. Len(stack[t])
        BY SMTT(30) DEF GetTyped
      <4>2. CASE get_pc[t] = "outside" /\ \E l \in Loggers : Pushed(t, l)
        <5>1. \A i \in 1 .. Len(stack[t]) : FALSE
          BY <1>1, <4>2, SMTT(30)
        <5> QED BY <4>2, <5>1 DEF Blocks
      <4>3. CASE stack[t][1] \in Loggers /\ Pushed(t, RepoBlock)
        BY <1>1, <4>1, <4>3, LoggersAssumption, SMTT(30) DEF Blocks
      <4>4. CASE /\ get_pc[t] = "construct" /\ Len(stack[t]) = 1
                 /\ \E l \in Loggers : l # stack[t][1] /\ Pushed(t, l)
        <5>1. \A i \in 1 .. Len(stack[t]) : i = 1
          BY <4>4, SMTT(30)
        <5>2. stack[t][1] \in Loggers
          BY <1>1, <4>4
        <5> QED BY <4>4, <5>1, <5>2 DEF Blocks
      <4> QED BY <2>2, <4>2, <4>3, <4>4 DEF Pushes
    <3>2. /\ stack[t] \in Seq(Blocks) /\ stack'[t] \in Seq(Blocks)
          /\ Len(stack'[t]) = Len(stack[t]) + 1 /\ stack'[t][1] = b
          /\ \A i \in 2 .. Len(stack'[t]) :
               i - 1 \in 1 .. Len(stack[t]) /\ stack'[t][i] = stack[t][i - 1]
      BY <3>1, SMTT(30) DEF Pushed, GetTyped
    <3>3. \A i, j \in 1 .. Len(stack'[t]) : stack'[t][i] = stack'[t][j] => i = j
      <4> SUFFICES ASSUME NEW i \in 1 .. Len(stack'[t]), NEW j \in 1 .. Len(stack'[t]),
                          stack'[t][i] = stack'[t][j], i < j
                   PROVE  FALSE
        BY <3>2, SMTT(30)
      <4>1. j \in 2 .. Len(stack'[t]) /\ (i = 1 \/ i \in 2 .. Len(stack'[t]))
        BY <3>2, SMTT(30)
      <4>3. CASE i = 1
        BY <3>1, <3>2, <4>1, <4>3
      <4>4. CASE i \in 2 .. Len(stack'[t])
        <5>1. i - 1 \in 1 .. Len(stack[t]) /\ j - 1 \in 1 .. Len(stack[t])
              /\ stack[t][i - 1] = stack[t][j - 1]
          BY <3>2, <4>1, <4>4
        <5>2. \A k, l \in 1 .. Len(stack[t]) : stack[t][k] = stack[t][l] => k = l
          BY <1>1
        <5>3. i - 1 = j - 1
          BY <5>1, <5>2
        <5> QED BY <5>3, SMTT(30)
      <4> QED BY <4>1, <4>3, <4>4
    <3>4. \A i \in 2 .. Len(stack'[t]) : stack'[t][i] \in Loggers
      BY <3>1, <3>2
    <3>5. get_pc'[t] = "executed" /\ Len(stack'[t]) # 0
      BY <2>2, <3>2, SMTT(30) DEF Pushes
    <3> QED BY <3>3, <3>4, <3>5
  <2>3. CASE Pops(t)
    <3>1. /\ Len(stack'[t]) = Len(stack[t]) - 1 /\ Len(stack[t]) \in Nat \ {0}
          /\ \A i \in 1 .. Len(stack'[t]) :
               i + 1 \in 2 .. Len(stack[t]) /\ stack'[t][i] = stack[t][i + 1]
      BY <1>1, <2>3, SMTT(30) DEF Pops, Popped, GetTyped
    <3>2. \A i, j \in 1 .. Len(stack'[t]) : stack'[t][i] = stack'[t][j] => i = j
      <4> SUFFICES ASSUME NEW i \in 1 .. Len(stack'[t]), NEW j \in 1 .. Len(stack'[t]),
                          stack'[t][i] = stack'[t][j]
                   PROVE  i = j
        OBVIOUS
      <4>1. i + 1 \in 1 .. Len(stack[t]) /\ j + 1 \in 1 .. Len(stack[t])
        BY <3>1, SMTT(30)
      <4>2. stack[t][i + 1] = stack[t][j + 1]
        BY <3>1
      <4>3. \A k, l \in 1 .. Len(stack[t]) : stack[t][k] = stack[t][l] => k = l
        BY <1>1
      <4>4. i + 1 = j + 1
        BY <4>1, <4>2, <4>3
      <4> QED BY <4>4, SMTT(30)
    <3>3. \A i \in 1 .. Len(stack'[t]) : stack'[t][i] \in Loggers
      BY <1>1, <3>1
    <3>4. get_pc'[t] = "outside" <=> Len(stack'[t]) = 0
      BY <2>3, <3>1, SMTT(30) DEF Pops, After
    <3>5. Len(stack'[t]) # 0 => stack'[t][1] \in Loggers
      <4>1. Len(stack'[t]) # 0 => 1 \in 1 .. Len(stack'[t])
        <5>1. Len(stack'[t]) \in Nat
          BY <3>1, SMTT(30)
        <5> QED BY <5>1, SMTT(30)
      <4> QED BY <3>3, <4>1
    <3>6. get_pc'[t] \in {"lock_repository", "construct", "construct_throws", "check_type", "rollback",
                         "rollback_wakes"} => stack'[t][1] \in Loggers
      BY <3>4, <3>5
    <3>7. \A i \in 2 .. Len(stack'[t]) : stack'[t][i] \in Loggers
      BY <3>1, <3>3, SMTT(30)
    <3> QED BY <3>2, <3>4, <3>6, <3>7
  <2> QED BY <2>1, <2>2, <2>3 DEF GetEffect, Moves, Takes, Ends, Locks, Unlocks
<1> QED BY <1>2, <1>3 DEF Stacked

(* The blocks that a thread executes change when it takes one and when it ends  *)
(* one.                                                                         *)
LEMMA ExecutingStep ==
  ASSUME GetTyped, Stacked, NEW t \in GetThreads, OthersStay(t), GetEffect(t)
  PROVE  /\ \A u \in GetThreads : u # t => Executing(u)' = Executing(u)
         /\ Takes(t) => Executing(t)' = Executing(t) \cup {stack[t][1]}
         /\ Ends(t) => /\ Executing(t)' = Executing(t) \ {stack[t][1]}
                       /\ stack[t][1] \in Executing(t)
         /\ ~ Takes(t) /\ ~ Ends(t) => Executing(t)' = Executing(t)
<1>1. \A u \in GetThreads : u # t => Executing(u)' = Executing(u)
  <2> SUFFICES ASSUME NEW u \in GetThreads, u # t PROVE Executing(u)' = Executing(u)
    OBVIOUS
  <2>1. stack'[u] = stack[u] /\ get_pc'[u] = get_pc[u]
    BY DEF OthersStay, GetTyped
  <2> QED BY <2>1 DEF Executing, Blocks
<1>2. stack[t] \in Seq(Blocks) /\ Len(stack[t]) \in Nat
  BY SMTT(30) DEF GetTyped
<1>3. get_pc[t] # "outside" => /\ 1 \in 1 .. Len(stack[t]) /\ stack[t][1] \in Blocks
                               /\ \A i \in 1 .. Len(stack[t]) : stack[t][i] = stack[t][1] => i = 1
  <2> SUFFICES ASSUME get_pc[t] # "outside" PROVE <1>3!2
    OBVIOUS
  <2>1. 1 \in 1 .. Len(stack[t])
    BY <1>2, SMTT(30) DEF Stacked
  <2>2. stack[t][1] \in Blocks
    BY <1>2, <2>1, SMTT(30)
  <2> QED BY <2>1, <2>2 DEF Stacked
<1>4. ASSUME Takes(t) PROVE Executing(t)' = Executing(t) \cup {stack[t][1]}
  <2>1. /\ get_pc[t] = "enter" /\ get_pc[t] \notin InBlock /\ get_pc'[t] \in InBlock
        /\ stack'[t] = stack[t]
    BY <1>4 DEF Takes, InBlock
  <2> QED BY <1>3, <2>1 DEF Executing, Blocks
<1>5. ASSUME Ends(t)
      PROVE  Executing(t)' = Executing(t) \ {stack[t][1]} /\ stack[t][1] \in Executing(t)
  <2>1. /\ get_pc[t] # "outside" /\ get_pc[t] \in InBlock /\ get_pc'[t] \notin InBlock
        /\ stack'[t] = stack[t]
    BY <1>5 DEF Ends, InBlock
  <2> QED BY <1>3, <2>1 DEF Executing, Blocks
<1>6. ASSUME stack'[t] = stack[t], get_pc'[t] \in InBlock <=> get_pc[t] \in InBlock
      PROVE  Executing(t)' = Executing(t)
  BY <1>6 DEF Executing, Blocks
<1>7. ASSUME Moves(t) \/ Locks(t) \/ Unlocks(t) PROVE Executing(t)' = Executing(t)
  BY <1>6, <1>7 DEF Moves, Locks, Unlocks, InBlock, AtBlock
<1>8. ASSUME Pushes(t) PROVE Executing(t)' = Executing(t)
  <2>1. /\ Len(stack'[t]) = Len(stack[t]) + 1
        /\ \A i \in 1 .. Len(stack[t]) : stack'[t][i + 1] = stack[t][i]
    BY <1>8 DEF Pushes, Pushed
  <2>2. get_pc'[t] \notin InBlock
    BY <1>8 DEF Pushes, InBlock
  <2>3. \A i \in 1 .. Len(stack[t]) : get_pc[t] \in InBlock
    <3>1. CASE get_pc[t] = "outside"
      BY <1>2, <3>1, SMTT(30) DEF Stacked
    <3>2. CASE get_pc[t] # "outside"
      BY <1>8, <3>2 DEF Pushes, InBlock
    <3> QED BY <3>1, <3>2
  <2>4. \A b \in Blocks : (\E i \in 1 .. Len(stack'[t]) : stack'[t][i] = b /\ i # 1)
                         <=> (\E i \in 1 .. Len(stack[t]) : stack[t][i] = b)
    <3> SUFFICES ASSUME NEW b
                 PROVE  (\E i \in 1 .. Len(stack'[t]) : stack'[t][i] = b /\ i # 1)
                        <=> (\E i \in 1 .. Len(stack[t]) : stack[t][i] = b)
      OBVIOUS
    <3>1. ASSUME NEW i \in 1 .. Len(stack'[t]), i # 1
          PROVE  i - 1 \in 1 .. Len(stack[t]) /\ stack'[t][i] = stack[t][i - 1]
      BY <1>2, <2>1, <3>1, SMTT(30)
    <3>2. ASSUME NEW i \in 1 .. Len(stack[t])
          PROVE  i + 1 \in 1 .. Len(stack'[t]) /\ i + 1 # 1 /\ stack'[t][i + 1] = stack[t][i]
      BY <1>2, <2>1, SMTT(30)
    <3> QED BY <3>1, <3>2
  <2> QED BY <2>2, <2>3, <2>4 DEF Executing, Blocks
<1>9. ASSUME Pops(t) PROVE Executing(t)' = Executing(t)
  <2>1. /\ get_pc[t] # "outside" /\ get_pc[t] \notin InBlock
        /\ Len(stack'[t]) = Len(stack[t]) - 1
        /\ \A i \in 1 .. Len(stack'[t]) : stack'[t][i] = stack[t][i + 1]
    BY <1>9 DEF Pops, Popped, InBlock
  <2>2. \A i \in 1 .. Len(stack'[t]) : get_pc'[t] \in InBlock
    <3>1. CASE Len(stack[t]) = 1
      BY <2>1, <3>1, SMTT(30)
    <3>2. CASE Len(stack[t]) # 1
      BY <1>9, <3>2 DEF Pops, After, InBlock
    <3> QED BY <3>1, <3>2
  <2>3. \A b \in Blocks : (\E i \in 1 .. Len(stack[t]) : stack[t][i] = b /\ i # 1)
                         <=> (\E i \in 1 .. Len(stack'[t]) : stack'[t][i] = b)
    <3> SUFFICES ASSUME NEW b
                 PROVE  (\E i \in 1 .. Len(stack[t]) : stack[t][i] = b /\ i # 1)
                        <=> (\E i \in 1 .. Len(stack'[t]) : stack'[t][i] = b)
      OBVIOUS
    <3>1. ASSUME NEW i \in 1 .. Len(stack[t]), i # 1
          PROVE  i - 1 \in 1 .. Len(stack'[t]) /\ stack[t][i] = stack'[t][i - 1]
      BY <1>2, <2>1, <3>1, SMTT(30)
    <3>2. ASSUME NEW i \in 1 .. Len(stack'[t])
          PROVE  i + 1 \in 1 .. Len(stack[t]) /\ i + 1 # 1 /\ stack'[t][i] = stack[t][i + 1]
      BY <1>2, <2>1, SMTT(30)
    <3> QED BY <3>1, <3>2
  <2> QED BY <2>1, <2>2, <2>3 DEF Executing, Blocks
<1> QED BY <1>1, <1>4, <1>5, <1>7, <1>8, <1>9 DEF GetEffect

(* A block is taken only when nobody executes it, and left by the one who does. *)
LEMMA ExecutedStep ==
  ASSUME GetTyped, Stacked, Executed, NEW t \in GetThreads, OthersStay(t), GetEffect(t)
  PROVE  Executed'
<1> USE DEF Executed
<1>1. \A u \in GetThreads : Executing(u) \subseteq Blocks
  BY DEF Executing
<1>2. \A u \in GetThreads : u # t => Executing(u)' = Executing(u)
  BY ExecutingStep
<1>3. CASE Takes(t)
  <2>1. Executing(t)' = Executing(t) \cup {stack[t][1]}
    BY <1>3, ExecutingStep
  <2>2. /\ status' = [status EXCEPT ![stack[t][1]] = "being_initialized"]
        /\ status[stack[t][1]] = "uninitialized"
    BY <1>3 DEF Takes
  <2>3. \A u \in GetThreads : stack[t][1] \notin Executing(u)
    BY <2>2
  <2>4. \A b \in Blocks : status'[b] = IF b = stack[t][1] THEN "being_initialized" ELSE status[b]
    BY <2>2 DEF GetTyped
  <2>5. stack[t][1] \in Blocks
    BY <1>3, SMTT(30) DEF Takes, GetTyped, Stacked
  <2> QED BY <1>1, <1>2, <2>1, <2>3, <2>4, <2>5, SMTT(30)
<1>4. CASE Ends(t)
  <2>1. Executing(t)' = Executing(t) \ {stack[t][1]} /\ stack[t][1] \in Executing(t)
    BY <1>4, ExecutingStep
  <2>2. \A b \in Blocks : IF b = stack[t][1] THEN status'[b] # "being_initialized"
                         ELSE status'[b] = status[b]
    BY <1>4 DEF Ends, GetTyped
  <2> QED BY <1>1, <1>2, <2>1, <2>2, SMTT(30)
<1>5. CASE ~ Takes(t) /\ ~ Ends(t)
  <2>1. \A u \in GetThreads : Executing(u)' = Executing(u)
    BY <1>2, <1>5, ExecutingStep
  <2>2. UNCHANGED status
    BY <1>5 DEF GetEffect, Moves, Pushes, Pops, Locks, Unlocks
  <2> QED BY <2>1, <2>2, SMTT(30)
<1> QED BY <1>3, <1>4, <1>5

(* The initializers that run, and with them the holder of the mutex, move up   *)
(* and down the stack with the blocks entered and left; one starts under the   *)
(* mutex, and the last one to run ends with it.                                *)
LEMMA ConstructsStep ==
  ASSUME GetTyped, Stacked, NEW t \in GetThreads, OthersStay(t), GetEffect(t)
  PROVE  /\ Moves(t) \/ Takes(t) \/ Ends(t) => \A i : Constructs(t, i)' = Constructs(t, i)
         /\ Pushes(t) => /\ ~ Constructs(t, 1)'
                         /\ \A i \in 1 .. Len(stack[t]) : Constructs(t, i + 1)' = Constructs(t, i)
         /\ Pops(t) => /\ ~ Constructs(t, 1)
                       /\ \A i \in 1 .. Len(stack'[t]) : Constructs(t, i)' = Constructs(t, i + 1)
         /\ Locks(t) => Constructs(t, 1)' /\ \A i : i # 1 => Constructs(t, i)' = Constructs(t, i)
         /\ Unlocks(t) => /\ Constructs(t, 1) /\ ~ Constructs(t, 1)'
                          /\ \A i : i # 1 => Constructs(t, i)' = Constructs(t, i)
<1> USE DEF Constructs
<1>1. stack[t] \in Seq(Blocks) /\ Len(stack[t]) \in Nat
  BY SMTT(30) DEF GetTyped
<1>2. ASSUME Moves(t) \/ Takes(t) \/ Ends(t) PROVE \A i : Constructs(t, i)' = Constructs(t, i)
  BY <1>2, SMTT(30) DEF Moves, Takes, Ends, AtBlock
<1>3. ASSUME Pushes(t)
      PROVE  /\ ~ Constructs(t, 1)'
             /\ \A i \in 1 .. Len(stack[t]) : Constructs(t, i + 1)' = Constructs(t, i)
  <2>1. get_pc'[t] = "executed" /\ ~ Constructs(t, 1)'
    BY <1>3 DEF Pushes
  <2>2. \A i \in 1 .. Len(stack[t]) :
          Constructs(t, i + 1)' = (stack'[t][i] \in Loggers)
    BY SMTT(30)
  <2>3. \A i \in 1 .. Len(stack[t]) : i # 1 => stack'[t][i] = stack[t][i - 1]
    <3>1. \A i \in 1 .. Len(stack[t]) : stack'[t][i + 1] = stack[t][i]
      BY <1>3 DEF Pushes, Pushed
    <3>2. \A i \in 1 .. Len(stack[t]) : i # 1 => i - 1 \in 1 .. Len(stack[t]) /\ (i - 1) + 1 = i
      BY <1>1, SMTT(30)
    <3> QED BY <3>1, <3>2
  <2>4. 1 \in 1 .. Len(stack[t]) =>
          (stack'[t][1] \in Loggers <=> get_pc[t] \in {"construct", "construct_throws"})
    <3>1. CASE get_pc[t] = "outside"
      BY <1>1, <3>1, SMTT(30) DEF Stacked
    <3>2. CASE get_pc[t] # "outside"
      BY <1>3, <3>2, LoggersAssumption DEF Pushes, Pushed
    <3> QED BY <3>1, <3>2
  <2> QED BY <2>1, <2>2, <2>3, <2>4, SMTT(30)
<1>4. ASSUME Pops(t)
      PROVE  /\ ~ Constructs(t, 1)
             /\ \A i \in 1 .. Len(stack'[t]) : Constructs(t, i)' = Constructs(t, i + 1)
  <2>1. ~ Constructs(t, 1)
    BY <1>4 DEF Pops
  <2>2. /\ Len(stack'[t]) = Len(stack[t]) - 1 /\ get_pc[t] # "outside"
        /\ \A i \in 1 .. Len(stack'[t]) : stack'[t][i] = stack[t][i + 1]
    BY <1>4 DEF Pops, Popped
  <2>3. \A i \in 1 .. Len(stack'[t]) : Constructs(t, i + 1) = (stack[t][i] \in Loggers)
    BY SMTT(30)
  <2>4. \A i \in 1 .. Len(stack'[t]) : i # 1 => stack'[t][i - 1] = stack[t][i]
    BY <1>1, <2>2, SMTT(30)
  <2>5. \A i \in 1 .. Len(stack'[t]) : Len(stack[t]) # 1 /\ stack[t][1] \in Blocks
    BY <1>1, <2>2, SMTT(30)
  <2>6. \A i \in 1 .. Len(stack'[t]) :
          get_pc'[t] \in {"construct", "construct_throws"} <=> stack[t][1] \in Loggers
    BY <1>4, <2>5, LoggersAssumption DEF Pops, After, Stacked, Blocks
  <2> QED BY <2>1, <2>3, <2>4, <2>6, SMTT(30)
<1>5. ASSUME Locks(t)
      PROVE  Constructs(t, 1)' /\ \A i : i # 1 => Constructs(t, i)' = Constructs(t, i)
  BY <1>5 DEF Locks
<1>6. ASSUME Unlocks(t)
      PROVE  /\ Constructs(t, 1) /\ ~ Constructs(t, 1)'
             /\ \A i : i # 1 => Constructs(t, i)' = Constructs(t, i)
  BY <1>6 DEF Unlocks
<1> QED BY <1>2, <1>3, <1>4, <1>5, <1>6

(* The mutex of the repository is held by the thread whose initializer runs. *)
LEMMA LockedStep ==
  ASSUME GetTyped, Stacked, Locked, NEW t \in GetThreads, OthersStay(t), GetEffect(t)
  PROVE  Locked'
<1> DEFINE Depth(u) == 1 .. Len(stack[u])
           Holds(u) == \E i \in Depth(u) : Constructs(u, i)
           Single(u) == \A i, j \in Depth(u) : Constructs(u, i) /\ Constructs(u, j) => i = j
           Absent(u) == \A i \in Depth(u) : Constructs(u, i) => Registered(stack[u][i]) = {}
<1>1. /\ m_Mutex \subseteq GetThreads /\ \A u, v \in m_Mutex : u = v
      /\ \A u \in GetThreads : (u \in m_Mutex <=> Holds(u)) /\ Single(u) /\ Absent(u)
  BY DEF Locked
<1>2. \A u \in GetThreads : u # t => /\ Depth(u)' = Depth(u) /\ stack'[u] = stack[u]
                                     /\ \A i : Constructs(u, i)' = Constructs(u, i)
  <2> SUFFICES ASSUME NEW u \in GetThreads, u # t
               PROVE  /\ Depth(u)' = Depth(u) /\ stack'[u] = stack[u]
                      /\ \A i : Constructs(u, i)' = Constructs(u, i)
    OBVIOUS
  <2>1. stack'[u] = stack[u] /\ get_pc'[u] = get_pc[u]
    BY DEF OthersStay, GetTyped
  <2> QED BY <2>1 DEF Constructs
<1>3. stack[t] \in Seq(Blocks) /\ Len(stack[t]) \in Nat
      /\ (get_pc[t] # "outside" => 1 \in Depth(t))
  <2>1. stack[t] \in Seq(Blocks) /\ Len(stack[t]) \in Nat
    BY SMTT(30) DEF GetTyped
  <2> QED BY <2>1, SMTT(30) DEF Stacked
<1>4. CASE UNCHANGED m_Mutex /\ UNCHANGED m_Loggers
  <2> \A l : Registered(l)' = Registered(l)
    BY <1>4 DEF Registered
  <2>1. \A u \in GetThreads : u # t => (Holds(u)' <=> Holds(u)) /\ Single(u)' /\ Absent(u)'
    BY <1>1, <1>2
  <2>2. (Holds(t)' <=> Holds(t)) /\ Single(t)' /\ Absent(t)'
    <3>1. CASE Moves(t) \/ Takes(t) \/ Ends(t)
      <4>1. stack'[t] = stack[t] /\ Depth(t)' = Depth(t)
        BY <3>1 DEF Moves, Takes, Ends
      <4>2. \A i : Constructs(t, i)' = Constructs(t, i)
        BY <3>1, ConstructsStep
      <4> QED BY <1>1, <4>1, <4>2
    <3>2. CASE Pushes(t)
      <4>1. /\ Len(stack'[t]) = Len(stack[t]) + 1
            /\ \A i \in Depth(t) : stack'[t][i + 1] = stack[t][i]
        BY <3>2 DEF Pushes, Pushed
      <4>2. ~ Constructs(t, 1)' /\ \A i \in Depth(t) : Constructs(t, i + 1)' = Constructs(t, i)
        BY <3>2, ConstructsStep
      <4>3. \A i \in Depth(t) : i + 1 \in Depth(t)'
        BY <1>3, <4>1, SMTT(30)
      <4>4. \A i \in Depth(t)' : i # 1 => i - 1 \in Depth(t) /\ (i - 1) + 1 = i
        BY <1>3, <4>1, SMTT(30)
      <4>5. \A i \in Depth(t)' : Constructs(t, i)' =>
              i - 1 \in Depth(t) /\ Constructs(t, i - 1) /\ stack'[t][i] = stack[t][i - 1]
        BY <4>1, <4>2, <4>4
      <4>6. Holds(t)' <=> Holds(t)
        BY <4>2, <4>3, <4>5
      <4>7. Single(t)'
        <5>1. \A i, j \in Depth(t)' : Constructs(t, i)' /\ Constructs(t, j)' => i - 1 = j - 1
          BY <1>1, <4>5
        <5>2. \A i, j \in Depth(t)' : i - 1 = j - 1 => i = j
          BY SMTT(30)
        <5> QED BY <5>1, <5>2
      <4>8. Absent(t)'
        BY <1>1, <4>5
      <4> QED BY <4>6, <4>7, <4>8
    <3>3. CASE Pops(t)
      <4>1. /\ Len(stack'[t]) = Len(stack[t]) - 1
            /\ \A i \in Depth(t)' : stack'[t][i] = stack[t][i + 1]
        BY <3>3 DEF Pops, Popped
      <4>2. ~ Constructs(t, 1) /\ \A i \in Depth(t)' : Constructs(t, i)' = Constructs(t, i + 1)
        BY <3>3, ConstructsStep
      <4>3. \A i \in Depth(t)' : i + 1 \in Depth(t)
        BY <1>3, <4>1, SMTT(30)
      <4>4. \A i \in Depth(t) : i # 1 => i - 1 \in Depth(t)' /\ (i - 1) + 1 = i
        BY <1>3, <4>1, SMTT(30)
      <4>5. \A i \in Depth(t)' : Constructs(t, i)' =>
              i + 1 \in Depth(t) /\ Constructs(t, i + 1) /\ stack'[t][i] = stack[t][i + 1]
        BY <4>1, <4>2, <4>3
      <4>6. Holds(t)' <=> Holds(t)
        BY <4>2, <4>4, <4>5
      <4>7. Single(t)'
        <5>1. \A i, j \in Depth(t)' : Constructs(t, i)' /\ Constructs(t, j)' => i + 1 = j + 1
          BY <1>1, <4>5
        <5>2. \A i, j \in Depth(t)' : i + 1 = j + 1 => i = j
          BY SMTT(30)
        <5> QED BY <5>1, <5>2
      <4>8. Absent(t)'
        BY <1>1, <4>5
      <4> QED BY <4>6, <4>7, <4>8
    <3>4. CASE Locks(t) \/ Unlocks(t)
      <4>1. FALSE
        <5>1. CASE Locks(t)
          BY <1>4, <5>1 DEF Locks
        <5>2. CASE Unlocks(t)
          <6>1. t \in m_Mutex
            BY <1>1, <1>3, <5>2, ConstructsStep DEF Unlocks
          <6> QED BY <1>4, <5>2, <6>1 DEF Unlocks
        <5> QED BY <3>4, <5>1, <5>2
      <4> QED BY <4>1
    <3> QED BY <3>1, <3>2, <3>3, <3>4 DEF GetEffect
  <2>3. \A u \in GetThreads : (u \in m_Mutex' <=> Holds(u)') /\ Single(u)' /\ Absent(u)'
    <3> SUFFICES ASSUME NEW u \in GetThreads
                 PROVE  (u \in m_Mutex' <=> Holds(u)') /\ Single(u)' /\ Absent(u)'
      OBVIOUS
    <3>1. u \in m_Mutex <=> Holds(u)
      BY <1>1
    <3>2. (Holds(u)' <=> Holds(u)) /\ Single(u)' /\ Absent(u)'
      <4>1. CASE u = t
        BY <2>2, <4>1
      <4>2. CASE u # t
        BY <2>1, <4>2
      <4> QED BY <4>1, <4>2
    <3>3. u \in m_Mutex' <=> Holds(u)'
      BY <1>4, <3>1, <3>2
    <3> QED BY <3>2, <3>3
  <2>4. m_Mutex' \subseteq GetThreads /\ \A u, v \in m_Mutex' : u = v
    BY <1>1, <1>4
  <2> QED BY <2>3, <2>4 DEF Locked
<1>5. CASE Locks(t)
  <2>1. m_Mutex = {} /\ m_Mutex' = {t} /\ UNCHANGED m_Loggers /\ stack'[t] = stack[t]
        /\ Registered(stack[t][1]) = {} /\ get_pc[t] # "outside"
    BY <1>5 DEF Locks
  <2>2. \A u \in GetThreads : ~ Holds(u)
    BY <1>1, <2>1
  <2>3. Constructs(t, 1)' /\ \A i \in Depth(t)' : Constructs(t, i)' => i = 1
    BY <1>5, <2>1, <2>2, ConstructsStep
  <2>4. 1 \in Depth(t)'
    BY <1>3, <2>1
  <2>5. Holds(t)' /\ Single(t)' /\ Absent(t)'
    BY <2>1, <2>3, <2>4 DEF Registered
  <2>6. \A u \in GetThreads : u # t => ~ Holds(u)' /\ Single(u)' /\ Absent(u)'
    BY <1>2, <2>2
  <2> QED BY <2>1, <2>5, <2>6 DEF Locked
<1>6. CASE Unlocks(t)
  <2>1. m_Mutex' = m_Mutex \ {t} /\ stack'[t] = stack[t] /\ get_pc[t] # "outside"
    BY <1>6 DEF Unlocks
  <2>2. /\ Constructs(t, 1) /\ ~ Constructs(t, 1)'
        /\ \A i : i # 1 => Constructs(t, i)' = Constructs(t, i)
    BY <1>6, ConstructsStep
  <2>3. t \in m_Mutex /\ m_Mutex' = {}
    BY <1>1, <1>3, <2>1, <2>2, SMTT(30)
  <2>4. \A i \in Depth(t)' : ~ Constructs(t, i)'
    BY <1>1, <1>3, <2>1, <2>2
  <2>5. \A u \in GetThreads : u # t => \A i \in Depth(u)' : ~ Constructs(u, i)'
    BY <1>1, <1>2, <2>3
  <2> QED BY <2>3, <2>4, <2>5, SMTT(30) DEF Locked
<1> QED BY <1>4, <1>5, <1>6 DEF GetEffect, Moves, Pushes, Pops, Takes, Ends, repoVars

(* A block is committed only after the holder of its logger is stored. *)
LEMMA HeldStep ==
  ASSUME GetTyped, Stacked, Executed, Held, OnePerTag, NEW t \in GetThreads, OthersStay(t),
         GetEffect(t), GetTyped'
  PROVE  Held' /\ \A l \in Loggers : status'[l] = "initialized" => instance'[l] # {}
<1>1. \A l \in Loggers : instance[l] # {} => instance'[l] # {}
  <2>1. CASE UNCHANGED instance
    BY <2>1
  <2>2. CASE \E h : instance' = [instance EXCEPT ![stack[t][1]] = {h}]
    BY <2>2 DEF GetTyped
  <2> QED BY <2>1, <2>2 DEF GetEffect, Moves, Pushes, Pops, Takes, Ends, Locks, Unlocks, repoVars
<1>2. Held'
  <2> SUFFICES ASSUME NEW u \in GetThreads, get_pc'[u] = "commit", stack'[u][1] \in Loggers
               PROVE  instance'[stack'[u][1]] # {}
    BY DEF Held
  <2>1. CASE u # t
    <3>1. stack'[u] = stack[u] /\ get_pc'[u] = get_pc[u]
      BY <2>1 DEF OthersStay, GetTyped
    <3> QED BY <1>1, <3>1 DEF Held
  <2>2. CASE u = t
    <3>1. /\ stack'[t] = stack[t] /\ stack[t][1] \in Loggers
          /\ \E h : instance' = [instance EXCEPT ![stack[t][1]] = {h}]
      BY <2>2, LoggersAssumption
         DEF GetEffect, Moves, Pushes, Pops, Takes, Ends, Locks, Unlocks, AtBlock, After
    <3> QED BY <2>2, <3>1 DEF GetTyped
  <2> QED BY <2>1, <2>2
<1>3. ASSUME NEW l \in Loggers, status'[l] = "initialized" PROVE instance'[l] # {}
  <2>1. CASE status[l] = "initialized"
    BY <1>1, <2>1 DEF OnePerTag
  <2>2. CASE status[l] # "initialized"
    <3>1. get_pc[t] = "commit" /\ status' = [status EXCEPT ![stack[t][1]] = "initialized"]
      BY <1>3, <2>2
         DEF GetEffect, Moves, Pushes, Pops, Takes, Ends, Locks, Unlocks, GetTyped, Blocks
    <3>2. l = stack[t][1]
      BY <1>3, <2>2, <3>1 DEF GetTyped, Blocks
    <3> QED BY <1>1, <3>1, <3>2 DEF Held
  <2> QED BY <2>1, <2>2
<1> QED BY <1>2, <1>3

(* A tag is registered only while it is not in the repository. *)
LEMMA TagStep ==
  ASSUME GetTyped, Stacked, Locked, OnePerTag, NEW t \in GetThreads, OthersStay(t), GetEffect(t)
  PROVE  \A h, k \in m_Loggers' : h.tag = k.tag => h = k
<1>1. CASE UNCHANGED m_Loggers
  BY <1>1 DEF OnePerTag
<1>2. CASE /\ get_pc[t] = "construct" /\ m_Loggers' = m_Loggers \cup {Holder(stack[t][1])}
  <2>1. 1 \in 1 .. Len(stack[t])
    <3>1. stack[t] \in Seq(Blocks)
      BY DEF GetTyped
    <3> QED BY <1>2, <3>1, SMTT(30) DEF Stacked
  <2>2. Registered(stack[t][1]) = {}
    BY <1>2, <2>1 DEF Locked, Constructs
  <2>3. Holder(stack[t][1]).tag = stack[t][1][2]
    BY DEF Holder
  <2>4. \A h \in m_Loggers : h.tag # Holder(stack[t][1]).tag
    BY <2>2, <2>3 DEF Registered
  <2> QED BY <1>2, <2>4 DEF OnePerTag
<1> QED BY <1>1, <1>2 DEF GetEffect, Moves, Pushes, Pops, Takes, Ends, Locks, Unlocks, repoVars

(* An impl is replaced by none, so that all the threads that enter hold it. *)
LEMMA InstalledStep ==
  ASSUME GetTyped, Stacked, Installed, NEW t \in GetThreads, OthersStay(t), GetEffect(t),
         Gains(t) \/ Keeps(t)
  PROVE  Installed'
<1> SUFFICES ASSUME NEW u \in GetThreads,
                    \/ Executing(u)' # {}
                    \/ get_pc'[u] \in {"enter", "commit_wakes", "rollback_wakes"}
             PROVE  impl'[u] = g_pOnceBlockImpl' /\ g_pOnceBlockImpl' # {}
  BY DEF Installed
<1>1. CASE u # t
  <2>1. stack'[u] = stack[u] /\ get_pc'[u] = get_pc[u] /\ impl'[u] = impl[u]
    BY <1>1 DEF OthersStay, GetTyped
  <2>2. Executing(u)' = Executing(u)
    BY <1>1, ExecutingStep
  <2>3. impl[u] = g_pOnceBlockImpl /\ g_pOnceBlockImpl # {}
    BY <2>1, <2>2 DEF Installed
  <2> QED BY <2>1, <2>3 DEF Gains, Keeps
<1>2. CASE u = t /\ Gains(t)
  BY <1>2 DEF Gains
<1>3. CASE u = t /\ Keeps(t)
  <2>1. Executing(t) # {} \/ get_pc[t] \in {"enter", "commit_wakes", "rollback_wakes"}
    <3>1. CASE get_pc'[t] = "enter" \/ Takes(t)
      BY <1>3, <3>1 DEF Keeps, Takes
    <3>2. CASE Ends(t)
      BY <3>2, ExecutingStep
    <3>3. CASE ~ Takes(t) /\ ~ Ends(t) /\ get_pc'[t] # "enter"
      <4>1. CASE Executing(t)' # {}
        BY <3>3, <4>1, ExecutingStep
      <4>2. CASE get_pc'[t] \in {"commit_wakes", "rollback_wakes"}
        BY <3>3, <4>2 DEF GetEffect, Moves, Pushes, Pops, Locks, Unlocks, After
      <4> QED BY <1>3, <3>3, <4>1, <4>2
    <3> QED BY <3>1, <3>2, <3>3
  <2> QED BY <1>3, <2>1 DEF Keeps, Installed
<1> QED BY <1>1, <1>2, <1>3

(* Between the end of a block and the broadcast nobody goes to sleep for good. *)
LEMMA SleepingStep ==
  ASSUME GetTyped, Stacked, Sleeping, NEW t \in GetThreads, OthersStay(t), GetEffect(t),
         Gains(t) \/ Keeps(t)
  PROVE  Sleeping'
<1> DEFINE Wakers == {"commit_wakes", "rollback_wakes"}
<1> SUFFICES ASSUME NEW u \in waiters'
             PROVE  /\ u \in GetThreads /\ get_pc'[u] = "enter"
                    /\ \/ status'[stack'[u][1]] = "being_initialized"
                       \/ \E v \in GetThreads : get_pc'[v] \in Wakers
  BY DEF Sleeping
<1>1. CASE u \in waiters /\ u # t
  <2>1. u \in GetThreads /\ get_pc[u] = "enter"
    BY <1>1 DEF Sleeping
  <2>2. stack'[u] = stack[u] /\ get_pc'[u] = get_pc[u]
    BY <1>1, <2>1 DEF OthersStay, GetTyped
  <2>3. CASE status[stack[u][1]] = "being_initialized"
    <3>1. stack[u][1] \in Blocks
      <4>1. stack[u] \in Seq(Blocks) /\ Len(stack[u]) # 0
        BY <2>1 DEF GetTyped, Stacked
      <4> QED BY <4>1, PoppedStack
    <3>2. status'[stack[u][1]] = "being_initialized" \/ get_pc'[t] \in Wakers
      BY <2>3, <3>1 DEF GetEffect, Moves, Pushes, Pops, Takes, Ends, Locks, Unlocks, GetTyped
    <3> QED BY <2>1, <2>2, <3>2
  <2>4. CASE \E v \in GetThreads : get_pc[v] \in Wakers
    <3>1. PICK v \in GetThreads : get_pc[v] \in Wakers
      BY <2>4
    <3>2. v # t
      BY <3>1 DEF Gains, Keeps
    <3>3. get_pc'[v] = get_pc[v]
      BY <3>2 DEF OthersStay, GetTyped
    <3> QED BY <2>1, <2>2, <3>1, <3>3
  <2> QED BY <1>1, <2>3, <2>4 DEF Sleeping
<1>2. CASE ~ (u \in waiters /\ u # t)
  <2>1. u = t
    BY <1>2 DEF Gains, Keeps
  <2>2. t \in waiters => get_pc[t] = "enter"
    BY DEF Sleeping
  <2>3. /\ get_pc[t] = "enter" /\ get_pc'[t] = "enter"
        /\ status[stack[t][1]] = "being_initialized"
    BY <2>1, <2>2 DEF Gains, Keeps
  <2>4. UNCHANGED status /\ stack'[t] = stack[t]
    BY <2>3 DEF GetEffect, Moves, Pushes, Pops, Takes, Ends, Locks, Unlocks, After
  <2> QED BY <2>1, <2>3, <2>4
<1> QED BY <1>1, <1>2

(* Every step keeps the invariant of the global loggers. *)
LEMMA GetStepKeeps ==
  ASSUME GetInv, [GetNext]_getVars
  PROVE  GetInv'
<1>1. ASSUME NEW t \in GetThreads, GetStep(t) \/ \E l \in Requested : get(t, l)
      PROVE  GetInv'
  <2> USE DEF GetInv
  <2>1. OthersStay(t) /\ GetEffect(t) /\ (Gains(t) \/ Keeps(t))
    BY <1>1, GetEffects
  <2>2. GetTyped'
    BY <2>1, TypedStep
  <2>3. Stacked'
    BY <2>1, StackedStep
  <2>4. Executed'
    BY <2>1, ExecutedStep
  <2>5. Locked'
    BY <2>1, LockedStep
  <2>6. Held' /\ \A l \in Loggers : status'[l] = "initialized" => instance'[l] # {}
    BY <2>1, <2>2, HeldStep
  <2>7. Installed'
    BY <2>1, InstalledStep
  <2>8. Sleeping'
    BY <2>1, SleepingStep
  <2>9. OnePerTag'
    BY <2>1, <2>6, TagStep DEF OnePerTag
  <2> QED BY <2>2, <2>3, <2>4, <2>5, <2>6, <2>7, <2>8, <2>9
<1>2. CASE UNCHANGED getVars
  <2>1. /\ UNCHANGED <<status, waiters, g_pOnceBlockImpl, impl, m_Mutex, m_Loggers, instance>>
        /\ UNCHANGED <<get_pc, stack>>
    BY <1>2 DEF getVars, onceVars, repoVars, threadVars
  <2>2. GetTyped' /\ Stacked' /\ Held' /\ Sleeping' /\ OnePerTag'
    BY <2>1 DEF GetInv, GetTyped, Stacked, Held, Sleeping, OnePerTag, Blocks
  <2>3. \A t : Executing(t)' = Executing(t)
    BY <2>1 DEF Executing, Blocks
  <2>4. Executed' /\ Installed'
    BY <2>1, <2>3 DEF GetInv, Executed, Installed, Blocks
  <2>5. \A t, i : Constructs(t, i)' = Constructs(t, i)
    BY <2>1 DEF Constructs
  <2>6. \A l : Registered(l)' = Registered(l)
    BY <2>1 DEF Registered
  <2>7. Locked'
    BY <2>1, <2>5, <2>6 DEF GetInv, Locked
  <2> QED BY <2>2, <2>4, <2>7 DEF GetInv
<1> QED BY <1>1, <1>2 DEF GetNext

(* The blocks that a thread executes are those of the property. *)
LEMMA ExecutesBlocks ==
  ASSUME GetTyped, Stacked, NEW t \in GetThreads, NEW b \in Blocks
  PROVE  Executes(t, b) <=> b \in Executing(t)
<1> DEFINE s == stack[t]
<1>1. s \in Seq(Blocks) /\ DOMAIN s = 1 .. Len(s)
  BY SMTT(30) DEF GetTyped
<1>2. \A i \in 1 .. Len(s) : Len(s) # 0 /\ 1 \in 1 .. Len(s)
  BY <1>1, SMTT(30)
<1>3. \A i \in 1 .. Len(s) : Head(s) = s[1]
  BY <1>1, <1>2, PoppedStack
<1>4. b \in Range(s) <=> \E i \in 1 .. Len(s) : s[i] = b
  BY <1>1 DEF Range
<1>5. \A i \in 1 .. Len(s) : s[i] = b => (b = Head(s) <=> i = 1)
  BY <1>2, <1>3 DEF Stacked
<1> QED BY <1>4, <1>5 DEF Executes, Executing, Block, InBlock

(* The invariant of the global loggers says all that OneLogger does. *)
LEMMA GetInvGives == GetInv => OneLogger
<1> SUFFICES ASSUME GetInv PROVE OneLogger
  OBVIOUS
<1> USE DEF GetInv
<1>1. OneImpl
  <2> SUFFICES ASSUME NEW t \in GetThreads,
                      get_pc[t] \in {"enter", "body", "commit", "commit_wakes", "rollback",
                                     "rollback_wakes"}
               PROVE  impl[t] = g_pOnceBlockImpl
    BY DEF OneImpl
  <2>1. CASE get_pc[t] \in {"body", "commit", "rollback"}
    <3>1. stack[t] \in Seq(Blocks) /\ Len(stack[t]) # 0
      BY <2>1 DEF GetTyped, Stacked
    <3>2. stack[t][1] \in Blocks /\ 1 \in 1 .. Len(stack[t])
      BY <3>1, SMTT(30)
    <3>3. stack[t][1] \in Executing(t)
      BY <2>1, <3>2 DEF Executing, InBlock
    <3> QED BY <3>3 DEF Installed
  <2>2. CASE get_pc[t] \in {"enter", "commit_wakes", "rollback_wakes"}
    BY <2>2 DEF Installed
  <2> QED BY <2>1, <2>2
<1>2. BlockExclusive
  <2> SUFFICES ASSUME NEW b \in Blocks
               PROVE  Cardinality({t \in GetThreads : Executes(t, b)})
                        = IF status[b] = "being_initialized" THEN 1 ELSE 0
    BY DEF BlockExclusive
  <2> DEFINE X == {t \in GetThreads : Executes(t, b)}
  <2>1. \A t \in GetThreads : t \in X <=> b \in Executing(t)
    BY ExecutesBlocks
  <2>2. CASE status[b] = "being_initialized"
    <3>1. PICK t \in GetThreads : b \in Executing(t)
      BY <2>2 DEF Executed
    <3>2. X = {t}
      BY <2>1, <3>1 DEF Executed
    <3>3. Cardinality(X) = 1
      BY <3>2, FS_Singleton
    <3> QED BY <2>2, <3>3
  <2>3. CASE status[b] # "being_initialized"
    <3>1. X = {}
      BY <2>1, <2>3 DEF Executed
    <3>2. Cardinality(X) = 0
      BY <3>1, FS_EmptySet
    <3> QED BY <2>3, <3>2
  <2> QED BY <2>2, <2>3
<1>3. SleeperWoken
  <2> SUFFICES ASSUME NEW t \in waiters
               PROVE  \/ status[Block(t)] = "being_initialized"
                      \/ \E u \in GetThreads : get_pc[u] \in {"commit_wakes", "rollback_wakes"}
    BY DEF SleeperWoken
  <2>1. t \in GetThreads /\ stack[t] \in Seq(Blocks) /\ Len(stack[t]) # 0
    BY DEF Sleeping, Stacked, GetTyped
  <2>2. Block(t) = stack[t][1]
    BY <2>1, PoppedStack DEF Block
  <2> QED BY <2>2 DEF Sleeping
<1> QED BY <1>1, <1>2, <1>3 DEF OneLogger

(* logger_singleton::get, global_storage::get_or_init and once_block_sentry:   *)
(* for any threads, modules of the process, tags and types, with initializers  *)
(* that throw or ask for other loggers, one thread at a time executes a block, *)
(* no sleeper is left without a broadcast, and the threads agree on one logger *)
(* for each tag.                                                               *)
THEOREM OneLoggerEach == GetSpec => []OneLogger
<1>1. GetInit => GetInv
  BY GetStart
<1>2. GetInv /\ [GetNext]_getVars => GetInv'
  BY GetStepKeeps
<1>3. GetInv => OneLogger
  BY GetInvGives
<1> QED BY <1>1, <1>2, <1>3, PTL DEF GetSpec
=============================================================================
