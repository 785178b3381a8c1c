------------------------------- MODULE OnceBlock -------------------------------
(***************************************************************************)
(* once_block_sentry: a block of code that is executed once, by one of the *)
(* threads that reach it, while the others wait; a block left by an        *)
(* exception counts as not executed.  All the blocks of a process share    *)
(* one mutex and one condition variable.                                   *)
(*                                                                         *)
(* The module holds the flags and the operations of the sentry; the code   *)
(* in the blocks and the control points of the threads belong to the users *)
(* of the blocks.  The Windows build for old systems first finds the mutex *)
(* and the condition variable through g_pOnceBlockImpl, which the threads  *)
(* race to install.  A spurious wake-up repeats a loop that sleeps again.  *)
(***************************************************************************)
EXTENDS Naturals, FiniteSets

CONSTANTS Flags,    \* the blocks of the process
          OnceThreads

VARIABLES status,            \* once_block_flag::status
          waiters,           \* threads asleep on the condition variable
          g_pOnceBlockImpl,  \* the thread that created the installed impl, as a set
          impl               \* the impl each thread holds, named likewise

onceVars == <<status, waiters, g_pOnceBlockImpl, impl>>

OnceInit ==
  /\ status = [f \in Flags |-> "uninitialized"]
  /\ waiters = {}
  /\ g_pOnceBlockImpl = {}
  /\ impl = [t \in OnceThreads |-> {}]

(* get_once_block_impl, the compare-and-exchange: the loser deletes its impl *)
(* and takes the one that is installed.                                      *)
install_impl(t) ==
  /\ g_pOnceBlockImpl' = IF g_pOnceBlockImpl = {} THEN {t} ELSE g_pOnceBlockImpl
  /\ impl' = [impl EXCEPT ![t] = g_pOnceBlockImpl']
  /\ UNCHANGED <<status, waiters>>

(* get_once_block_impl, the load, when an impl is installed. *)
load_impl(t) ==
  /\ g_pOnceBlockImpl # {}
  /\ impl' = [impl EXCEPT ![t] = g_pOnceBlockImpl]
  /\ UNCHANGED <<status, waiters, g_pOnceBlockImpl>>

-----------------------------------------------------------------------------
(* enter_once_block, the critical section up to a return or a sleep: the     *)
(* block has been executed, is for this thread to execute, or is executed by *)
(* another thread.                                                           *)
enter_executed(t, f) ==
  /\ t \notin waiters
  /\ status[f] = "initialized"
  /\ UNCHANGED onceVars

enter_to_execute(t, f) ==
  /\ t \notin waiters
  /\ status[f] = "uninitialized"
  /\ status' = [status EXCEPT ![f] = "being_initialized"]
  /\ UNCHANGED <<waiters, g_pOnceBlockImpl, impl>>

enter_sleeps(t, f) ==
  /\ t \notin waiters
  /\ status[f] = "being_initialized"
  /\ waiters' = waiters \cup {t}
  /\ UNCHANGED <<status, g_pOnceBlockImpl, impl>>

(* commit and rollback: the critical section ... *)
commit(f) ==
  /\ status' = [status EXCEPT ![f] = "initialized"]
  /\ UNCHANGED <<waiters, g_pOnceBlockImpl, impl>>

rollback(f) ==
  /\ status' = [status EXCEPT ![f] = "uninitialized"]
  /\ UNCHANGED <<waiters, g_pOnceBlockImpl, impl>>

(* Faulty variant: one thread is woken, which may wait for another block. *)
wake_one ==
  /\ IF waiters = {} THEN UNCHANGED waiters ELSE \E w \in waiters : waiters' = waiters \ {w}
  /\ UNCHANGED <<status, g_pOnceBlockImpl, impl>>

(* ... and the broadcast after it, outside the mutex. *)
wake_all ==
  /\ waiters' = {}
  /\ UNCHANGED <<status, g_pOnceBlockImpl, impl>>
=============================================================================
