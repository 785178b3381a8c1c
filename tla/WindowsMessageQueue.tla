-------------------------- MODULE WindowsMessageQueue --------------------------
(***************************************************************************)
(* ipc::reliable_message_queue on Windows, over a condition variable for   *)
(* the writers and an auto-reset event for the reader.  The ring of blocks *)
(* is that of IpcMessageQueue; here a message is the number of its blocks. *)
(*                                                                         *)
(* A process may die where the code provides for it: while its threads are *)
(* outside of the queue or asleep.                                         *)
(***************************************************************************)
EXTENDS InterprocessConditionVariable

CONSTANTS Writers, Reader, Controllers,
          Stoppable,        \* the objects whose users call stop_local
          Capacity,
          BlockCounts,      \* blocks of a message
          MaxCalls,         \* bound: calls of each thread
          MaxFaults,        \* bound: processes that die, and calls of stop_local
          MaxTimeouts       \* bound: times that two seconds pass

VARIABLES queue,            \* the blocks of each message
          m_nonempty_queue, \* the event is signalled
          m_stop,           \* the objects whose m_stop is signalled
          blocks,           \* the message a thread sends
          calls, faults, timeouts

queueVars == <<queue, m_nonempty_queue>>
countVars == <<calls, faults, timeouts>>
vars == <<condVars, pc, queueVars, m_stop, blocks, countVars>>

Init ==
  /\ CondInit
  /\ pc = [t \in Threads |-> "idle"]
  /\ queue = <<>>
  /\ m_nonempty_queue = FALSE
  /\ m_stop = {}
  /\ blocks = [t \in Threads |-> 0]
  /\ calls = [t \in Threads |-> 0]
  /\ faults = 0 /\ timeouts = 0

Stopped(t) == ObjectOf[t] \in m_stop
m_size == FoldLeft(+, 0, queue)
HasRoom(n) == Capacity - m_size >= n

(* A call begins when the mutex can be locked. *)
begin_call(t) ==
  /\ pc[t] = "idle" /\ Unlocked
  /\ calls[t] < MaxCalls[t]
  /\ calls' = [calls EXCEPT ![t] = @ + 1]
  /\ UNCHANGED <<m_stop, faults, timeouts>>

enqueue_message(n) ==
  /\ queue' = Append(queue, n)
  /\ m_nonempty_queue' = (m_nonempty_queue \/ queue = <<>>)

(* send, with the policy to block. *)
send(t, n) ==
  /\ t \in Writers /\ begin_call(t)
  /\ \/ HasRoom(n) /\ enqueue_message(n) /\ UNCHANGED <<condVars, pc, blocks>>
     \/ /\ ~HasRoom(n) /\ begin_wait(t, m_waiters)
        /\ blocks' = [blocks EXCEPT ![t] = n]
        /\ UNCHANGED queueVars

(* try_send, and send with another policy. *)
try_send(t, n) ==
  /\ t \in Writers /\ begin_call(t)
  /\ IF HasRoom(n) THEN enqueue_message(n) ELSE UNCHANGED queueVars
  /\ UNCHANGED <<condVars, pc, blocks>>

(* send returns from its wait. *)
end_send(t) ==
  /\ m_waiters' = WaitersLeft(t)
  /\ pc' = [pc EXCEPT ![t] = "idle"]
  /\ generation' = [generation EXCEPT ![t] = 0]
  /\ blocks' = [blocks EXCEPT ![t] = 0]
  /\ UNCHANGED <<m_generation, m_semaphore_id, objectVars, semaphore, handle, search>>

(* send looks for room again. *)
resume_send(t) ==
  /\ pc[t] = "woken" /\ Unlocked
  /\ \/ HasRoom(blocks[t]) /\ enqueue_message(blocks[t]) /\ end_send(t)
     \/ /\ ~HasRoom(blocks[t]) /\ begin_wait(t, WaitersLeft(t))
        /\ UNCHANGED <<queueVars, blocks>>
  /\ UNCHANGED <<m_stop, countVars>>

(* send returns aborted. *)
abort_send(t) ==
  /\ pc[t] = "woken_by_stop" /\ Unlocked
  /\ end_send(t)
  /\ UNCHANGED <<queueVars, m_stop, countVars>>

(* dequeue_message, unless the handler throws. *)
dequeue_message(t) ==
  /\ queue # <<>>
  /\ \/ queue' = Tail(queue) /\ notify_all(ObjectOf[t])
     \/ UNCHANGED <<queue, condVars>>
  /\ pc' = [pc EXCEPT ![t] = "idle"]
  /\ UNCHANGED m_nonempty_queue

receive_waits(t) ==
  /\ queue = <<>>
  /\ pc' = [pc EXCEPT ![t] = "wait_nonempty"]
  /\ UNCHANGED <<condVars, queueVars>>

receive(t) ==
  /\ t = Reader /\ begin_call(t)
  /\ dequeue_message(t) \/ receive_waits(t)
  /\ UNCHANGED blocks

try_receive(t) ==
  /\ t = Reader /\ begin_call(t)
  /\ \/ dequeue_message(t)
     \/ queue = <<>> /\ UNCHANGED <<condVars, pc, queueVars>>
  /\ UNCHANGED blocks

(* The wait of receive ends.  If the queue has been stopped by then, it may   *)
(* not get the lock and return aborted.                                       *)
wake_receive(t) ==
  /\ pc[t] = "wait_nonempty"
  /\ \/ /\ m_nonempty_queue
        /\ m_nonempty_queue' = FALSE
        /\ pc' = [pc EXCEPT ![t] = "signalled"]
     \/ /\ ~m_nonempty_queue /\ Stopped(t)
        /\ pc' = [pc EXCEPT ![t] = "idle"]
        /\ UNCHANGED m_nonempty_queue
  /\ UNCHANGED <<condVars, queue, m_stop, blocks, countVars>>

resume_receive(t) ==
  /\ pc[t] = "signalled"
  /\ \/ Unlocked /\ (dequeue_message(t) \/ receive_waits(t))
     \/ /\ Stopped(t)
        /\ pc' = [pc EXCEPT ![t] = "idle"]
        /\ UNCHANGED <<condVars, queueVars>>
  /\ UNCHANGED <<m_stop, blocks, countVars>>

clear_queue(o) ==
  /\ queue' = <<>>
  /\ notify_all(o)

clear(t) ==
  /\ t \in Controllers /\ begin_call(t)
  /\ clear_queue(ObjectOf[t])
  /\ UNCHANGED <<pc, m_nonempty_queue, blocks>>

stop_local(o) ==
  /\ o \in Stoppable /\ faults < MaxFaults
  /\ faults' = faults + 1
  /\ m_stop' = m_stop \cup {o}
  /\ UNCHANGED <<condVars, pc, queueVars, blocks, calls, timeouts>>

reset_local(o) ==
  /\ o \in m_stop
  /\ m_stop' = m_stop \ {o}
  /\ UNCHANGED <<condVars, pc, queueVars, blocks, countVars>>

(* Two seconds pass, after a semaphore has been checked. *)
timeout ==
  /\ timeouts < MaxTimeouts
  /\ \E o \in Objects : \E i \in ToSet(m_semaphore_info_list[o]) : i.checked = "now"
  /\ timeouts' = timeouts + 1
  /\ m_semaphore_info_list' = [o \in Objects |-> Aged(m_semaphore_info_list[o])]
  /\ UNCHANGED <<sharedVars, m_current_semaphore, m_next_semaphore_id, semaphore, handle, generation,
                 search, pc, queueVars, m_stop, blocks, calls, faults>>

-----------------------------------------------------------------------------
ThreadsOf(o) == {t \in Threads : ObjectOf[t] = o}

crash(o) ==
  /\ faults < MaxFaults
  /\ \A t \in ThreadsOf(o) : pc[t] \in {"idle", "blocked", "wait_nonempty"}
  /\ faults' = faults + 1
  /\ pc' = [t \in Threads |-> IF t \in ThreadsOf(o) THEN "dead" ELSE pc[t]]
  /\ close(o, IdsOf(m_semaphore_info_list[o]))
  /\ m_semaphore_info_list' = [m_semaphore_info_list EXCEPT ![o] = <<>>]
  /\ generation' = [t \in Threads |-> IF t \in ThreadsOf(o) THEN 0 ELSE generation[t]]
  /\ blocks' = [t \in Threads |-> IF t \in ThreadsOf(o) THEN 0 ELSE blocks[t]]
  /\ UNCHANGED <<sharedVars, m_current_semaphore, m_next_semaphore_id, search, queueVars, m_stop, calls,
                 timeouts>>

(* The process is started again and opens the queue. *)
adopt_queue(o) ==
  /\ \A t \in ThreadsOf(o) : pc[t] = "dead"
  /\ pc' = [t \in Threads |-> IF t \in ThreadsOf(o) THEN "idle" ELSE pc[t]]
  /\ m_stop' = m_stop \ {o}
  /\ m_semaphore_info_list' = [m_semaphore_info_list EXCEPT ![o] = <<NewInfo(m_semaphore_id)>>]
  /\ m_current_semaphore' = [m_current_semaphore EXCEPT ![o] = m_semaphore_id]
  /\ m_next_semaphore_id' = [m_next_semaphore_id EXCEPT ![o] = 0]
  /\ UNCHANGED <<sharedVars, semaphore, handle, generation, search, queueVars, blocks, countVars>>

(* The steps of wait. *)
WaitStep(t) ==
  /\ \/ check_current(t) \/ check_list(t) \/ no_unused(t) \/ create(t)
     \/ wake(t)
     \/ Stopped(t) /\ wake_by_stop(t)
  /\ UNCHANGED <<queueVars, m_stop, blocks, countVars>>

ThreadStep(t) ==
  WaitStep(t) \/ resume_send(t) \/ abort_send(t) \/ wake_receive(t) \/ resume_receive(t)

Call(t) ==
  \/ \E n \in BlockCounts : send(t, n) \/ try_send(t, n)
  \/ receive(t) \/ try_receive(t) \/ clear(t)

Next ==
  \/ \E t \in Threads : Call(t) \/ ThreadStep(t)
  \/ \E o \in Objects : stop_local(o) \/ reset_local(o) \/ crash(o) \/ adopt_queue(o)
  \/ timeout

Spec == Init /\ [][Next]_vars

-----------------------------------------------------------------------------
(* Properties *)

TypeOK ==
  /\ CondTypeOK
  /\ pc \in [Threads -> {"idle", "check_current", "check_list", "create", "blocked", "woken",
                         "woken_by_stop", "wait_nonempty", "signalled", "dead"}]
  /\ queue \in Seq(BlockCounts) /\ m_size <= Capacity
  /\ m_nonempty_queue \in BOOLEAN
  /\ m_stop \subseteq Objects

(* A writer that has not been notified finds no room. *)
WritersBlocked == \A t \in Unnotified : ~HasRoom(blocks[t])

(* The event of the reader is signalled while it waits beside messages. *)
ReaderSignalled == queue # <<>> /\ pc[Reader] = "wait_nonempty" => m_nonempty_queue

NoLostWakeup == PostsSuffice /\ WritersBlocked /\ ReaderSignalled
=============================================================================
