--------------------- MODULE InterprocessConditionVariable ---------------------
(***************************************************************************)
(* The interprocess condition variable on Windows.  Threads block on a     *)
(* named semaphore; notify_all posts as often as there are waiters, and    *)
(* the next thread that waits selects a semaphore without posts, so that   *)
(* it takes none that is meant for another.  A semaphore that has posts    *)
(* for two seconds is closed: its waiter must have died.                   *)
(*                                                                         *)
(* All but the wait on the semaphore happens under the mutex (see          *)
(* InterprocessMutex), so that a critical section is one step; only the    *)
(* search for a semaphore takes one for each count it reads, because the   *)
(* threads that wake up change the counts meanwhile.  The system has a     *)
(* semaphore as long as some process has it open.                          *)
(***************************************************************************)
EXTENDS Integers, SequencesExt

CONSTANTS Threads,
          ObjectOf,         \* the queue object a thread uses, one in each process
          WordModulus       \* values of ids and generations: 2^32 in the code

VARIABLES m_waiters, m_generation, m_semaphore_id,    \* shared
          m_semaphore_info_list, m_current_semaphore, m_next_semaphore_id,  \* of each object
          semaphore,        \* the count of each semaphore
          handle,           \* the semaphore a thread blocks on, as a set: empty if closed
          generation,       \* the generation in which a thread began to wait
          search,           \* the ids that get_unused_semaphore has still to look at
          pc

sharedVars == <<m_waiters, m_generation, m_semaphore_id>>
objectVars == <<m_semaphore_info_list, m_current_semaphore, m_next_semaphore_id>>
condVars == <<sharedVars, objectVars, semaphore, handle, generation, search>>

Objects == {ObjectOf[t] : t \in Threads}
Ids == 0 .. WordModulus - 1
Successor(id) == (id + 1) % WordModulus

(* A semaphore_info.  checked is m_checked_for_zero with the age of           *)
(* m_last_check_for_zero: "no", "now", or "old" after two seconds.  The       *)
(* constructor sets the time to zero and does not initialize the flag.        *)
NewInfo(id) == [id |-> id, checked |-> "uninitialized"]

CondInit ==
  /\ m_waiters = 0
  /\ m_generation = 0
  /\ m_semaphore_id = 0
  /\ m_semaphore_info_list = [o \in Objects |-> <<NewInfo(0)>>]
  /\ m_current_semaphore = [o \in Objects |-> 0]
  /\ m_next_semaphore_id = [o \in Objects |-> 0]
  /\ semaphore = [id \in Ids |-> 0]
  /\ handle = [t \in Threads |-> {}]
  /\ generation = [t \in Threads |-> 0]
  /\ search = <<>>

Searching(t) == pc[t] \in {"check_current", "check_list", "create"}
Unlocked == \A t \in Threads : ~Searching(t)

IdsOf(list) == {i.id : i \in ToSet(list)}
Without(list, id) == SelectSeq(list, LAMBDA i : i.id # id)

InfoOf(list, id) ==
  IF id \in IdsOf(list) THEN list[SelectInSeq(list, LAMBDA i : i.id = id)] ELSE NewInfo(id)

(* The list of object o after get_semaphore, which is called if the current   *)
(* semaphore is another one.                                                  *)
get_semaphore(o, id) ==
  LET list == m_semaphore_info_list[o]
  IN  IF m_current_semaphore[o] = id THEN list ELSE Append(Without(list, id), InfoOf(list, id))

notify_all(o) ==
  /\ IF m_waiters > 0
     THEN /\ m_semaphore_info_list' =
               [m_semaphore_info_list EXCEPT ![o] = get_semaphore(o, m_semaphore_id)]
          /\ m_current_semaphore' = [m_current_semaphore EXCEPT ![o] = m_semaphore_id]
          /\ semaphore' = [semaphore EXCEPT ![m_semaphore_id] = @ + m_waiters]
          /\ m_waiters' = -m_waiters
     ELSE UNCHANGED <<m_semaphore_info_list, m_current_semaphore, semaphore, m_waiters>>
  /\ UNCHANGED <<m_generation, m_semaphore_id, m_next_semaphore_id, handle, generation, search>>

-----------------------------------------------------------------------------
(* wait *)

(* The end of the critical section: thread t is counted and lets go of the    *)
(* mutex.                                                                     *)
block(t, waiters, gen, id, list) ==
  /\ m_waiters' = waiters + 1
  /\ m_generation' = gen
  /\ m_semaphore_id' = id
  /\ m_semaphore_info_list' = [m_semaphore_info_list EXCEPT ![ObjectOf[t]] = list]
  /\ m_current_semaphore' = [m_current_semaphore EXCEPT ![ObjectOf[t]] = id]
  /\ generation' = [generation EXCEPT ![t] = gen]
  /\ handle' = [handle EXCEPT ![t] = {id}]
  /\ search' = <<>>
  /\ pc' = [pc EXCEPT ![t] = "blocked"]

(* The start of wait, when m_waiters has the value waiters. *)
begin_wait(t, waiters) ==
  \/ /\ waiters < 0
     /\ pc' = [pc EXCEPT ![t] = "check_current"]
     /\ m_waiters' = waiters
     /\ UNCHANGED <<m_generation, m_semaphore_id, objectVars, semaphore, handle, generation, search>>
  \/ /\ waiters >= 0
     /\ block(t, waiters, m_generation, m_semaphore_id, get_semaphore(ObjectOf[t], m_semaphore_id))
     /\ UNCHANGED <<m_next_semaphore_id, semaphore>>

is_zero(id) == semaphore[id] = 0

(* wait goes on with info, which is at the end of the list now (mark_unused). *)
use_unused(t, info) ==
  LET list == Without(m_semaphore_info_list[ObjectOf[t]], info.id)
  IN  block(t, 0, Successor(m_generation), info.id, Append(list, info))

Unused(id) == [id |-> id, checked |-> "no"]

check_current(t) ==
  LET o == ObjectOf[t]
      current == m_current_semaphore[o]
  IN  /\ pc[t] = "check_current"
      /\ IF is_zero(current) THEN use_unused(t, Unused(current))
         ELSE /\ pc' = [pc EXCEPT ![t] = "check_list"]
              /\ search' = [k \in DOMAIN m_semaphore_info_list[o] |-> m_semaphore_info_list[o][k].id]
              /\ UNCHANGED <<sharedVars, m_semaphore_info_list, m_current_semaphore, handle, generation>>
      /\ UNCHANGED <<m_next_semaphore_id, semaphore>>

is_overflow_less(left, right) == (left - right) % WordModulus >= WordModulus \div 2

(* erase_and_dispose: the semaphore goes with the last handle. *)
close(o, ids) ==
  /\ semaphore' = [id \in Ids |->
                     IF id \in ids /\ \A p \in Objects \ {o} : id \notin IdsOf(m_semaphore_info_list[p])
                     THEN 0 ELSE semaphore[id]]
  /\ handle' = [t \in Threads |-> IF ObjectOf[t] = o THEN handle[t] \ ids ELSE handle[t]]

(* check_non_zero_timeout, for a semaphore with posts: whether it may return  *)
(* this result, and what is known of the semaphore if it returns false.       *)
check_non_zero_timeout(info, result) ==
  info.checked = "uninitialized" \/ (info.checked = "old") = result

Checked(info) ==
  IF info.checked \in {"no", "uninitialized"} THEN [info EXCEPT !.checked = "now"] ELSE info

(* One round of the loop over the list. *)
check_list(t) ==
  LET o == ObjectOf[t]
      list == m_semaphore_info_list[o]
      id == Head(search)
      k == SelectInSeq(list, LAMBDA i : i.id = id)
      next == m_next_semaphore_id[o]
  IN  /\ pc[t] = "check_list" /\ search # <<>>
      /\ m_next_semaphore_id' =
           [m_next_semaphore_id EXCEPT ![o] = IF is_overflow_less(next, id) \/ next = id THEN Successor(id) ELSE @]
      /\ IF is_zero(id) THEN use_unused(t, Unused(id)) /\ UNCHANGED semaphore
         ELSE /\ search' = Tail(search)
              /\ \/ /\ check_non_zero_timeout(list[k], TRUE)
                    /\ m_semaphore_info_list' = [m_semaphore_info_list EXCEPT ![o] = RemoveAt(@, k)]
                    /\ close(o, {id})
                 \/ /\ check_non_zero_timeout(list[k], FALSE)
                    /\ m_semaphore_info_list' = [m_semaphore_info_list EXCEPT ![o][k] = Checked(@)]
                    /\ UNCHANGED <<semaphore, handle>>
              /\ UNCHANGED <<sharedVars, m_current_semaphore, generation, pc>>

no_unused(t) ==
  /\ pc[t] = "check_list" /\ search = <<>>
  /\ pc' = [pc EXCEPT ![t] = "create"]
  /\ search' = <<m_next_semaphore_id[ObjectOf[t]]>>
  /\ UNCHANGED <<sharedVars, objectVars, semaphore, handle, generation>>

(* One round of the second loop, which opens the semaphores from              *)
(* m_next_semaphore_id on until one has no posts.                             *)
create(t) ==
  LET o == ObjectOf[t]
      id == Head(search)
  IN  /\ pc[t] = "create"
      /\ \/ /\ is_zero(id)
            /\ use_unused(t, IF id \in IdsOf(m_semaphore_info_list[o]) THEN Unused(id) ELSE NewInfo(id))
            /\ m_next_semaphore_id' = [m_next_semaphore_id EXCEPT ![o] = Successor(id)]
         \/ /\ ~is_zero(id)
            /\ search' = <<Successor(id)>>
            /\ UNCHANGED <<sharedVars, objectVars, handle, generation, pc>>
      /\ UNCHANGED semaphore

(* WaitForMultipleObjects returns: the semaphore is the first of the handles, *)
(* and one that has been closed counts as a wake-up.                          *)
wake(t) ==
  /\ pc[t] = "blocked"
  /\ \/ \E id \in handle[t] : ~is_zero(id) /\ semaphore' = [semaphore EXCEPT ![id] = @ - 1]
     \/ handle[t] = {} /\ UNCHANGED semaphore
  /\ handle' = [handle EXCEPT ![t] = {}]
  /\ pc' = [pc EXCEPT ![t] = "woken"]
  /\ UNCHANGED <<sharedVars, objectVars, generation, search>>

wake_by_stop(t) ==
  /\ pc[t] = "blocked" /\ handle[t] # {} /\ \A id \in handle[t] : is_zero(id)
  /\ handle' = [handle EXCEPT ![t] = {}]
  /\ pc' = [pc EXCEPT ![t] = "woken_by_stop"]
  /\ UNCHANGED <<sharedVars, objectVars, semaphore, generation, search>>

(* m_waiters at the end of wait, under the mutex again. *)
WaitersLeft(t) ==
  IF generation[t] = m_generation /\ m_waiters > 0 THEN m_waiters - 1 ELSE m_waiters

(* Two seconds pass. *)
Aged(list) ==
  [k \in DOMAIN list |->
     IF list[k].checked = "now" THEN [list[k] EXCEPT !.checked = "old"] ELSE list[k]]

-----------------------------------------------------------------------------
(* Properties *)

CondTypeOK ==
  /\ m_waiters \in Int
  /\ {m_generation, m_semaphore_id} \subseteq Ids
  /\ \A o \in Objects :
       /\ m_current_semaphore[o] \in Ids /\ m_next_semaphore_id[o] \in Ids
       /\ \A i \in ToSet(m_semaphore_info_list[o]) :
            i.id \in Ids /\ i.checked \in {"no", "now", "old", "uninitialized"}
  /\ semaphore \in [Ids -> Nat]
  /\ handle \in [Threads -> SUBSET Ids]
  /\ ToSet(search) \subseteq Ids

(* The threads that wait and have not been notified. *)
Unnotified ==
  {t \in Threads : handle[t] # {} /\ generation[t] = m_generation /\ m_waiters > 0}

(* Every thread that has been notified finds a post of its own: none has been *)
(* taken by a thread that began to wait later, or lost.                       *)
PostsSuffice ==
  \A id \in Ids :
    Cardinality({t \in Threads \ Unnotified : id \in handle[t]}) <= semaphore[id]
=============================================================================
