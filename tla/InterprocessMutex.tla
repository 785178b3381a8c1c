--------------------------- MODULE InterprocessMutex ---------------------------
(***************************************************************************)
(* The interprocess mutex on Windows: a word in shared memory with a lock  *)
(* flag, a flag that says that the event is set and a count of waiters,    *)
(* and an auto-reset event that wakes one of them.                         *)
(*                                                                         *)
(* A step is one atomic operation on the word or one call on the event.    *)
(* The loops around compare_exchange_weak end with one exchange of the     *)
(* value they read last, which is the step.  No thread dies in here.       *)
(***************************************************************************)
EXTENDS Integers

CONSTANTS Threads,
          MaxLocks,         \* bound: calls of lock of one thread
          MaxAborts         \* bound: times that an abort handle is signalled

VARIABLES m_lock_state,     \* the word: locked, event_set and the count of waiters
          m_event,          \* the event is signalled
          aborted,          \* the threads whose abort handle is signalled
          pc, locks, aborts

vars == <<m_lock_state, m_event, aborted, pc, locks, aborts>>

Init ==
  /\ m_lock_state = [locked |-> FALSE, event_set |-> FALSE, waiters |-> 0]
  /\ m_event = FALSE
  /\ aborted = {}
  /\ pc = [t \in Threads |-> "idle"]
  /\ locks = [t \in Threads |-> 0]
  /\ aborts = 0

step(t, from, to) ==
  /\ pc[t] = from
  /\ pc' = [pc EXCEPT ![t] = to]

(* The start of lock and of lock(abort_handle). *)
try_lock(t) ==
  /\ locks[t] < MaxLocks
  /\ locks' = [locks EXCEPT ![t] = @ + 1]
  /\ step(t, "idle", IF m_lock_state.locked THEN "mark_waiting" ELSE "locked")
  /\ m_lock_state' = [m_lock_state EXCEPT !.locked = TRUE]
  /\ UNCHANGED <<m_event, aborted, aborts>>

mark_waiting_and_try_lock(t) ==
  /\ step(t, "mark_waiting", IF m_lock_state.locked THEN "wait" ELSE "locked")
  /\ m_lock_state' = IF m_lock_state.locked THEN [m_lock_state EXCEPT !.waiters = @ + 1]
                     ELSE [m_lock_state EXCEPT !.locked = TRUE]
  /\ UNCHANGED <<m_event, aborted, locks, aborts>>

wait(t) ==
  /\ m_event
  /\ step(t, "wait", "clear_waiting")
  /\ m_event' = FALSE
  /\ UNCHANGED <<m_lock_state, aborted, locks, aborts>>

(* Of the two handles the event is the first. *)
wait_aborted(t) ==
  /\ ~m_event /\ t \in aborted
  /\ step(t, "wait", "interrupted")
  /\ UNCHANGED <<m_lock_state, m_event, aborted, locks, aborts>>

(* Faulty variant: the flag of the event is cleared only with the lock. *)
clear_waiting_with_lock(t) ==
  /\ step(t, "clear_waiting", IF m_lock_state.locked THEN "wait" ELSE "locked")
  /\ m_lock_state' = IF m_lock_state.locked THEN m_lock_state
                     ELSE [locked |-> TRUE, event_set |-> FALSE, waiters |-> m_lock_state.waiters - 1]
  /\ UNCHANGED <<m_event, aborted, locks, aborts>>

clear_waiting_and_try_lock(t) ==
  /\ step(t, "clear_waiting", IF m_lock_state.locked THEN "wait" ELSE "locked")
  /\ m_lock_state' = IF m_lock_state.locked THEN [m_lock_state EXCEPT !.event_set = FALSE]
                     ELSE [locked |-> TRUE, event_set |-> FALSE, waiters |-> m_lock_state.waiters - 1]
  /\ UNCHANGED <<m_event, aborted, locks, aborts>>

(* lock_slow returns false. *)
interrupted(t) ==
  /\ step(t, "interrupted", "idle")
  /\ m_lock_state' = [m_lock_state EXCEPT !.waiters = @ - 1]
  /\ UNCHANGED <<m_event, aborted, locks, aborts>>

(* unlock: the addition clears the lock flag. *)
unlock(t) ==
  /\ step(t, "locked", IF ~m_lock_state.event_set /\ m_lock_state.waiters > 0 THEN "test_and_set" ELSE "idle")
  /\ m_lock_state' = [m_lock_state EXCEPT !.locked = FALSE]
  /\ UNCHANGED <<m_event, aborted, locks, aborts>>

test_and_set(t) ==
  /\ step(t, "test_and_set", IF m_lock_state.event_set THEN "idle" ELSE "set_event")
  /\ m_lock_state' = [m_lock_state EXCEPT !.event_set = TRUE]
  /\ UNCHANGED <<m_event, aborted, locks, aborts>>

set_event(t) ==
  /\ step(t, "set_event", "idle")
  /\ m_event' = TRUE
  /\ UNCHANGED <<m_lock_state, aborted, locks, aborts>>

(* stop_local and reset_local of the queue signal the handle, or clear it. *)
abort(t) ==
  /\ aborts < MaxAborts
  /\ aborts' = aborts + 1
  /\ aborted' = (aborted \cup {t}) \ (aborted \cap {t})
  /\ UNCHANGED <<m_lock_state, m_event, pc, locks>>

ThreadStep(t) ==
  \/ mark_waiting_and_try_lock(t) \/ wait(t) \/ wait_aborted(t) \/ clear_waiting_and_try_lock(t)
  \/ interrupted(t) \/ unlock(t) \/ test_and_set(t) \/ set_event(t)

Next == \E t \in Threads : try_lock(t) \/ ThreadStep(t) \/ abort(t)

Spec == Init /\ [][Next]_vars

FairSpec == Spec /\ \A t \in Threads : WF_vars(ThreadStep(t))

-----------------------------------------------------------------------------
(* Properties *)

TypeOK ==
  /\ m_lock_state \in [locked : BOOLEAN, event_set : BOOLEAN, waiters : Nat]
  /\ m_event \in BOOLEAN
  /\ aborted \subseteq Threads
  /\ pc \in [Threads -> {"idle", "locked", "mark_waiting", "wait", "clear_waiting", "interrupted",
                         "test_and_set", "set_event"}]

At(point) == {t \in Threads : pc[t] = point}

(* One thread at a time has the lock, and the word says whether one has. *)
Exclusive ==
  /\ \A s, t \in At("locked") : s = t
  /\ m_lock_state.locked <=> At("locked") # {}

(* The threads that have taken a signal from the event or are about to set it. *)
Carriers == At("set_event") \cup At("clear_waiting")

(* The event flag stands for one signal on its way to a waiter.  While a      *)
(* thread waits for a mutex that is free, there is one, or an unlock is about *)
(* to send it.                                                                *)
HandedOver ==
  /\ \A s, t \in Carriers : s = t
  /\ m_event => Carriers = {}
  /\ m_lock_state.event_set <=> m_event \/ Carriers # {}
  /\ At("wait") # {} /\ ~m_lock_state.locked => m_lock_state.event_set \/ At("test_and_set") # {}

(* The mutex keeps other threads out and is handed over: one thread has the   *)
(* lock, and a waiter does not sleep beside a free mutex without a signal on  *)
(* its way.                                                                   *)
MutexHandedOver == Exclusive /\ HandedOver

(* Nobody is inside of lock or unlock, and nobody has the lock. *)
AllReturned == \A t \in Threads : pc[t] = "idle"
=============================================================================
