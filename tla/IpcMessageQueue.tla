---------------------------- MODULE IpcMessageQueue ----------------------------
(***************************************************************************)
(* ipc::reliable_message_queue on POSIX: a ring of blocks in memory shared *)
(* by several processes, guarded by a robust process-shared mutex and two  *)
(* condition variables.                                                    *)
(*                                                                         *)
(* A process has one queue object, through which its threads send,         *)
(* receive, stop and clear.  A step is one load of m_stop, one operation   *)
(* on the mutex, or one stage of a critical section; the stages are told   *)
(* apart because the process may die between them.  Memory is a sequence   *)
(* of cells (the bytes, in a coarser unit); a cell holds the m_size of a   *)
(* block header or one unit of a message, so what is overwritten is lost.  *)
(***************************************************************************)
EXTENDS Integers, Sequences

CONSTANTS Threads, Processes,
          Writers, Readers, Controllers,  \* what the threads do: send, receive, stop and clear
          ProcessOf,        \* the process of each thread
          PoliciesOf,       \* the overflow policies each process may open the queue with
          Capacity, BlockSize,
          HeaderOverhead,   \* cells a block header takes
          WordModulus,      \* 2^w for the w-bit type of sizes and positions
          Lengths,          \* the message lengths, in cells
          BufferSizes,      \* the sizes of the buffers messages are received into
          MaxCalls,         \* bound: send and receive calls of one thread
          MaxControls,      \* bound: stop_local, reset_local and clear calls of one thread
          MaxWakeups,       \* bound: spurious wake-ups
          MaxCrashes        \* bound: processes that die

ASSUME RolesAssumption ==
  /\ Writers \cup Readers \cup Controllers = Threads
  /\ ProcessOf \in [Threads -> Processes]
  /\ PoliciesOf \in [Processes -> SUBSET {"block", "fail", "throw"}]
ASSUME LayoutAssumption ==
  /\ Capacity \in Nat \ {0}
  /\ BlockSize \in Nat \ {0}
  /\ HeaderOverhead \in 1 .. BlockSize
  /\ WordModulus \in Nat \ {0}
ASSUME BoundsAssumption ==
  /\ Lengths \subseteq Nat
  /\ BufferSizes \subseteq Nat
  /\ MaxCalls \in Nat
  /\ MaxControls \in Nat
  /\ MaxWakeups \in Nat
  /\ MaxCrashes \in Nat

VARIABLES memory, m_size, m_put_pos, m_get_pos,   \* the shared queue
          m_mutex,         \* the thread that holds it, as a set
          mutex_state,     \* "consistent", "owner_dead" or "not_recoverable"
          m_nonempty_queue, m_nonfull_queue,      \* the threads asleep on each
          m_stop, m_overflow_policy,  \* of the object of each process
          pc, call, arg,   \* control point of a thread, the method it is in and its argument
          buffer,          \* what a thread has read of a message
          result,          \* how its last call ended
          calls, controls, wakeups, crashes,  \* bounded counters
          pending, received  \* history: messages sent and not received, and received

ringVars == <<memory, m_size, m_put_pos, m_get_pos>>
condVars == <<m_nonempty_queue, m_nonfull_queue>>
objectVars == <<m_stop, m_overflow_policy>>
mutexVars == <<m_mutex, mutex_state>>
historyVars == <<pending, received>>
countVars == <<calls, controls, wakeups, crashes>>
vars == <<ringVars, mutexVars, condVars, objectVars, pc, call, arg, buffer, result, countVars,
          historyVars>>

Cells == 0 .. Capacity * BlockSize - 1

(* The header of a block, and unit k of a message. *)
SizeCell(n) == [owner |-> "header", number |-> 0, unit |-> n]
UnitCell(t, n, k) == [owner |-> t, number |-> n, unit |-> k]

(* Message number n of thread t, of the given length. *)
Message(t, n, length) == [k \in 1 .. length |-> UnitCell(t, n, k)]

Init ==
  /\ memory = [c \in Cells |-> SizeCell(0)]
  /\ m_size = 0
  /\ m_put_pos = 0
  /\ m_get_pos = 0
  /\ m_mutex = {}
  /\ mutex_state = "consistent"
  /\ m_nonempty_queue = {}
  /\ m_nonfull_queue = {}
  /\ m_stop = [p \in Processes |-> FALSE]
  /\ m_overflow_policy \in [Processes -> {"block", "fail", "throw"}]
  /\ \A p \in Processes : m_overflow_policy[p] \in PoliciesOf[p]
  /\ pc = [t \in Threads |-> "outside"]
  /\ call = [t \in Threads |-> "none"]
  /\ arg = [t \in Threads |-> 0]
  /\ buffer = [t \in Threads |-> <<>>]
  /\ result = [t \in Threads |-> "none"]
  /\ calls = [t \in Threads |-> 0]
  /\ controls = [t \in Threads |-> 0]
  /\ wakeups = 0
  /\ crashes = 0
  /\ pending = <<>>
  /\ received = <<>>

-----------------------------------------------------------------------------
(* The layout of messages in the ring *)

(* ceil((size + overhead) / block size), in the arithmetic of size_type. *)
estimate_block_count(size) ==
  ((size + HeaderOverhead + BlockSize - 1) % WordModulus) \div BlockSize

(* The part of a message that fits between its first block and the end of    *)
(* the ring, in the arithmetic of size_type.                                 *)
first_part(pos, size) ==
  LET room == ((Capacity - pos) * BlockSize - HeaderOverhead) % WordModulus
  IN  IF room < size THEN room ELSE size

get_block(index) == index * BlockSize

(* Faulty variant: the message is put where the header is. *)
get_data_at_header(index) == get_block(index)

get_data(index) == get_block(index) + HeaderOverhead

(* The position after a message, and whether the message runs past the end. *)
advance(pos, block_count) ==
  IF pos + block_count >= Capacity THEN pos + block_count - Capacity ELSE pos + block_count
wraps(pos, block_count) == pos + block_count >= Capacity

(* The memory once a message is copied to the blocks from pos on. *)
copy_in(pos, message) ==
  LET size == Len(message)
      first == first_part(pos, size)
      rest == IF wraps(pos, estimate_block_count(size)) THEN size - first ELSE 0
  IN  [c \in Cells |->
         CASE c < rest -> message[first + c + 1]
           [] c >= rest /\ c \in get_data(pos) .. get_data(pos) + first - 1 ->
                message[c - get_data(pos) + 1]
           [] c >= rest /\ c = get_block(pos) -> SizeCell(size)
           [] OTHER -> memory[c]]

(* What the handler is given of the message in the blocks from pos on. *)
copy_out(pos) ==
  LET size == memory[get_block(pos)].unit
      first == first_part(pos, size)
      rest == IF wraps(pos, estimate_block_count(size)) THEN size - first ELSE 0
  IN  [k \in 1 .. first |-> memory[get_data(pos) + k - 1]]
        \o [k \in 1 .. rest |-> memory[get_block(0) + k - 1]]

-----------------------------------------------------------------------------
(* Control *)

(* A step of thread t inside a call. *)
step(t, from, to) ==
  /\ pc[t] = from
  /\ pc' = [pc EXCEPT ![t] = to]

(* The call of t ends with the given result; the caller starts the next one   *)
(* with a fresh buffer.                                                       *)
return(t, from, outcome) ==
  /\ step(t, from, "outside")
  /\ call' = [call EXCEPT ![t] = "none"]
  /\ arg' = [arg EXCEPT ![t] = 0]
  /\ buffer' = [buffer EXCEPT ![t] = <<>>]
  /\ result' = [result EXCEPT ![t] = outcome]

kept == UNCHANGED <<call, arg, buffer, result>>

stopped(t) == m_stop[ProcessOf[t]]

(* ~auto_unlock: a mutex whose owner died, if it is unlocked without          *)
(* recover(), can never be locked again.                                      *)
unlock ==
  /\ m_mutex' = {}
  /\ mutex_state' = IF mutex_state = "owner_dead" THEN "not_recoverable" ELSE mutex_state

(* A call: the method, its argument, and what it does before it locks.  An   *)
(* early return leaves the thread outside.                                   *)
enter(t, method, a, early, outcome) ==
  /\ pc[t] = "outside"
  /\ IF early
     THEN /\ result' = [result EXCEPT ![t] = outcome]
          /\ UNCHANGED <<pc, call, arg>>
     ELSE /\ pc' = [pc EXCEPT ![t] = "lock"]
          /\ call' = [call EXCEPT ![t] = method]
          /\ arg' = [arg EXCEPT ![t] = a]
          /\ result' = [result EXCEPT ![t] = "none"]
  /\ UNCHANGED <<ringVars, mutexVars, condVars, objectVars, buffer, wakeups, crashes, historyVars>>

(* The bounds on calls. *)
count_call(t) ==
  /\ calls[t] < MaxCalls
  /\ calls' = [calls EXCEPT ![t] = @ + 1]
  /\ UNCHANGED controls
count_control(t) ==
  /\ controls[t] < MaxControls
  /\ controls' = [controls EXCEPT ![t] = @ + 1]
  /\ UNCHANGED calls

too_long(length) == estimate_block_count(length) > Capacity

call_send(t) ==
  /\ t \in Writers
  /\ count_call(t)
  /\ \E length \in Lengths :
       enter(t, "send", length, too_long(length) \/ stopped(t),
             IF too_long(length) THEN "error" ELSE "aborted")

call_try_send(t) ==
  /\ t \in Writers
  /\ count_call(t)
  /\ \E length \in Lengths :
       enter(t, "try_send", length, too_long(length) \/ stopped(t),
             IF too_long(length) THEN "error" ELSE "refused")

call_receive(t) ==
  /\ t \in Readers
  /\ count_call(t)
  /\ \E size \in BufferSizes : enter(t, "receive", size, stopped(t), "aborted")

call_try_receive(t) ==
  /\ t \in Readers
  /\ count_call(t)
  /\ \E size \in BufferSizes : enter(t, "try_receive", size, stopped(t), "refused")

call_stop_local(t) ==
  /\ t \in Controllers
  /\ count_control(t)
  /\ enter(t, "stop_local", 0, stopped(t), "succeeded")

call_clear(t) ==
  /\ t \in Controllers
  /\ count_control(t)
  /\ enter(t, "clear", 0, FALSE, "none")

(* reset_local is not thread-safe: it is called while no thread is inside a   *)
(* call on the object.                                                        *)
reset_local(t) ==
  /\ t \in Controllers
  /\ count_control(t)
  /\ \A u \in Threads : ProcessOf[u] = ProcessOf[t] => pc[u] = "outside"
  /\ m_stop' = [m_stop EXCEPT ![ProcessOf[t]] = FALSE]
  /\ UNCHANGED <<ringVars, mutexVars, condVars, m_overflow_policy, pc, call, arg, buffer, result,
                 wakeups, crashes, historyVars>>

-----------------------------------------------------------------------------
(* lock_queue *)

(* The mutex is acquired.  A thread that inherits it from a dead owner has    *)
(* the queue to repair first.                                                 *)
lock_queue(t) ==
  /\ m_mutex = {}
  /\ mutex_state # "not_recoverable"
  /\ m_mutex' = {t}
  /\ IF mutex_state = "owner_dead" THEN step(t, "lock", "recover") ELSE step(t, "lock", "locked")
  /\ kept
  /\ UNCHANGED <<ringVars, mutex_state, condVars, objectVars, countVars, historyVars>>

(* Locking fails for good: system_error. *)
lock_fails(t) ==
  /\ mutex_state = "not_recoverable"
  /\ return(t, "lock", "error")
  /\ UNCHANGED <<ringVars, mutexVars, condVars, objectVars, countVars, historyVars>>

(* Faulty variant: the reading position is left where it was. *)
clear_queue_keeps_get_pos ==
  /\ m_size' = 0
  /\ m_put_pos' = 0
  /\ m_nonfull_queue' = {}
  /\ pending' = <<>>
  /\ UNCHANGED <<m_get_pos, memory, m_nonempty_queue, received>>

(* All the messages are given up. *)
clear_queue ==
  /\ m_size' = 0
  /\ m_put_pos' = 0
  /\ m_get_pos' = 0
  /\ m_nonfull_queue' = {}
  /\ pending' = <<>>
  /\ UNCHANGED <<memory, m_nonempty_queue, received>>

(* The previous owner died: its half-finished work is given up with all the   *)
(* messages in the queue, and the mutex is made consistent.                   *)
recover(t) ==
  /\ step(t, "recover", "locked")
  /\ clear_queue
  /\ mutex_state' = "consistent"
  /\ kept
  /\ UNCHANGED <<m_mutex, objectVars, countVars>>

-----------------------------------------------------------------------------
(* Waiting on a condition variable *)

wait_nonfull(t) ==
  /\ step(t, "locked", "wait")
  /\ m_nonfull_queue' = m_nonfull_queue \cup {t}
  /\ UNCHANGED m_nonempty_queue
  /\ unlock

wait_nonempty(t) ==
  /\ step(t, "locked", "wait")
  /\ m_nonempty_queue' = m_nonempty_queue \cup {t}
  /\ UNCHANGED m_nonfull_queue
  /\ unlock

awake(t) == t \notin m_nonempty_queue \cup m_nonfull_queue

(* A thread may wake up without being notified. *)
wake_spuriously(t) ==
  /\ ~ awake(t)
  /\ wakeups < MaxWakeups
  /\ wakeups' = wakeups + 1
  /\ m_nonempty_queue' = m_nonempty_queue \ {t}
  /\ m_nonfull_queue' = m_nonfull_queue \ {t}
  /\ UNCHANGED <<ringVars, mutexVars, objectVars, pc, call, arg, buffer, result, calls, controls,
                 crashes, historyVars>>

(* The thread has the mutex back, and looks again at what it waits for.  If   *)
(* the previous owner died, wait() throws with the mutex held.                *)
relock(t) ==
  /\ awake(t)
  /\ m_mutex = {}
  /\ mutex_state # "not_recoverable"
  /\ m_mutex' = {t}
  /\ IF mutex_state = "owner_dead" THEN step(t, "wait", "unwind") ELSE step(t, "wait", "locked")
  /\ kept
  /\ UNCHANGED <<ringVars, mutex_state, condVars, objectVars, countVars, historyVars>>

relock_fails(t) ==
  /\ awake(t)
  /\ mutex_state = "not_recoverable"
  /\ return(t, "wait", "error")
  /\ UNCHANGED <<ringVars, mutexVars, condVars, objectVars, countVars, historyVars>>

(* The exception from wait() leaves send or receive through auto_unlock. *)
unwind(t) ==
  /\ return(t, "unwind", "error")
  /\ unlock
  /\ UNCHANGED <<ringVars, condVars, objectVars, countVars, historyVars>>

-----------------------------------------------------------------------------
(* send and try_send, with the mutex held *)

sending(t) == call[t] \in {"send", "try_send"}
fits(t) == Capacity - m_size >= estimate_block_count(arg[t])
its_message(t) == Message(t, calls[t], arg[t])

(* A return from a critical section that changed nothing. *)
leave(t, from, outcome) ==
  /\ return(t, from, outcome)
  /\ unlock
  /\ UNCHANGED <<ringVars, condVars, objectVars, countVars, historyVars>>

send_aborted(t) ==
  /\ sending(t)
  /\ stopped(t)
  /\ leave(t, "locked", IF call[t] = "send" THEN "aborted" ELSE "refused")

(* The queue is full: try_send gives up, send does what the overflow policy   *)
(* says.                                                                      *)
overflow_policy(t) == m_overflow_policy[ProcessOf[t]]
full_for(t) == sending(t) /\ ~ stopped(t) /\ ~ fits(t)

send_overflows(t) ==
  /\ full_for(t)
  /\ \/ call[t] = "try_send" /\ leave(t, "locked", "refused")
     \/ /\ call[t] = "send"
        /\ overflow_policy(t) # "block"
        /\ leave(t, "locked", IF overflow_policy(t) = "fail" THEN "no_space" ELSE "error")

send_waits(t) ==
  /\ full_for(t)
  /\ call[t] = "send"
  /\ overflow_policy(t) = "block"
  /\ wait_nonfull(t)
  /\ kept
  /\ UNCHANGED <<ringVars, objectVars, countVars, historyVars>>

(* enqueue_message, as three stages: the bytes are copied, *)
enqueue_copy(t) ==
  /\ sending(t)
  /\ ~ stopped(t)
  /\ fits(t)
  /\ step(t, "locked", "copied")
  /\ memory' = copy_in(m_put_pos, its_message(t))
  /\ kept
  /\ UNCHANGED <<m_size, m_put_pos, m_get_pos, mutexVars, condVars, objectVars, countVars, historyVars>>

(* the writing position moves, *)
enqueue_advance(t) ==
  /\ sending(t)
  /\ step(t, "copied", "placed")
  /\ m_put_pos' = advance(m_put_pos, estimate_block_count(arg[t]))
  /\ kept
  /\ UNCHANGED <<memory, m_size, m_get_pos, mutexVars, condVars, objectVars, countVars, historyVars>>

(* notify_one: one of the threads asleep, if there are any. *)
notify_nonempty ==
  m_nonempty_queue' \in IF m_nonempty_queue = {} THEN {{}}
                        ELSE {m_nonempty_queue \ {u} : u \in m_nonempty_queue}

(* and the blocks are counted; the reader is told when the queue was empty. *)
enqueue_count(t) ==
  /\ return(t, "placed", "succeeded")
  /\ m_size' = m_size + estimate_block_count(arg[t])
  /\ IF m_size = 0 THEN notify_nonempty ELSE UNCHANGED m_nonempty_queue
  /\ unlock
  /\ pending' = Append(pending, its_message(t))
  /\ UNCHANGED <<memory, m_put_pos, m_get_pos, m_nonfull_queue, objectVars, countVars, received>>

-----------------------------------------------------------------------------
(* receive and try_receive, with the mutex held *)

receiving(t) == call[t] \in {"receive", "try_receive"}

(* receive looks at m_stop before it looks at the queue; try_receive does not *)
(* look at it again.                                                          *)
receive_aborted(t) ==
  /\ call[t] = "receive"
  /\ stopped(t)
  /\ leave(t, "locked", "aborted")

receive_refused(t) ==
  /\ call[t] = "try_receive"
  /\ m_size = 0
  /\ leave(t, "locked", "refused")

receive_waits(t) ==
  /\ call[t] = "receive"
  /\ ~ stopped(t)
  /\ m_size = 0
  /\ wait_nonempty(t)
  /\ kept
  /\ UNCHANGED <<ringVars, objectVars, countVars, historyVars>>

may_dequeue(t) ==
  /\ receiving(t)
  /\ call[t] = "receive" => ~ stopped(t)
  /\ m_size > 0

(* The handler finds the buffer too small and throws; the message stays. *)
dequeue_throws(t) ==
  /\ may_dequeue(t)
  /\ Len(copy_out(m_get_pos)) > arg[t]
  /\ leave(t, "locked", "error")

(* dequeue_message, as three stages: the handler takes the bytes, *)
dequeue_copy(t) ==
  /\ may_dequeue(t)
  /\ Len(copy_out(m_get_pos)) <= arg[t]
  /\ step(t, "locked", "read")
  /\ buffer' = [buffer EXCEPT ![t] = copy_out(m_get_pos)]
  /\ UNCHANGED <<ringVars, mutexVars, condVars, objectVars, call, arg, result, countVars, historyVars>>

(* The blocks of the message at the reading position. *)
block_count_at(pos) == estimate_block_count(memory[get_block(pos)].unit)

(* the reading position moves (the block count, a local variable, is kept in  *)
(* arg from here on),                                                         *)
dequeue_advance(t) ==
  /\ step(t, "read", "freed")
  /\ m_get_pos' = advance(m_get_pos, block_count_at(m_get_pos))
  /\ arg' = [arg EXCEPT ![t] = block_count_at(m_get_pos)]
  /\ UNCHANGED <<memory, m_size, m_put_pos, mutexVars, condVars, objectVars, call, buffer, result,
                 countVars, historyVars>>

(* Faulty variant: one writer only is told. *)
dequeue_count_notify_one(t) ==
  /\ m_size' = m_size - arg[t]
  /\ m_nonfull_queue' \in IF m_nonfull_queue = {} THEN {{}}
                          ELSE {m_nonfull_queue \ {u} : u \in m_nonfull_queue}
  /\ return(t, "freed", "succeeded")
  /\ unlock
  /\ received' = Append(received, buffer[t])
  /\ pending' = Tail(pending)
  /\ UNCHANGED <<memory, m_put_pos, m_get_pos, m_nonempty_queue, objectVars, countVars>>

(* and the blocks are released; the writers that wait for room are told. *)
dequeue_count(t) ==
  /\ m_size' = m_size - arg[t]
  /\ m_nonfull_queue' = {}
  /\ return(t, "freed", "succeeded")
  /\ unlock
  /\ received' = Append(received, buffer[t])
  /\ pending' = Tail(pending)
  /\ UNCHANGED <<memory, m_put_pos, m_get_pos, m_nonempty_queue, objectVars, countVars>>

-----------------------------------------------------------------------------
(* stop_local and clear, with the mutex held *)

(* Faulty variant: only readers are told. *)
stop_local_readers_only(t) ==
  /\ call[t] = "stop_local"
  /\ return(t, "locked", "succeeded")
  /\ m_stop' = [m_stop EXCEPT ![ProcessOf[t]] = TRUE]
  /\ m_nonempty_queue' = {}
  /\ unlock
  /\ UNCHANGED <<ringVars, m_nonfull_queue, m_overflow_policy, countVars, historyVars>>

stop_local(t) ==
  /\ call[t] = "stop_local"
  /\ return(t, "locked", "succeeded")
  /\ m_stop' = [m_stop EXCEPT ![ProcessOf[t]] = TRUE]
  /\ m_nonempty_queue' = {}
  /\ m_nonfull_queue' = {}
  /\ unlock
  /\ UNCHANGED <<ringVars, m_overflow_policy, countVars, historyVars>>

clear(t) ==
  /\ call[t] = "clear"
  /\ return(t, "locked", "succeeded")
  /\ clear_queue
  /\ unlock
  /\ UNCHANGED <<objectVars, countVars>>

-----------------------------------------------------------------------------
(* Processes that die and start again *)

ThreadsOf(p) == {t \in Threads : ProcessOf[t] = p}

(* The process dies, wherever its threads are.  A mutex it holds is left to   *)
(* the next thread that locks it.                                             *)
crash(p) ==
  /\ crashes < MaxCrashes
  /\ \E t \in ThreadsOf(p) : pc[t] # "dead"
  /\ crashes' = crashes + 1
  /\ pc' = [t \in Threads |-> IF t \in ThreadsOf(p) THEN "dead" ELSE pc[t]]
  /\ call' = [t \in Threads |-> IF t \in ThreadsOf(p) THEN "none" ELSE call[t]]
  /\ arg' = [t \in Threads |-> IF t \in ThreadsOf(p) THEN 0 ELSE arg[t]]
  /\ buffer' = [t \in Threads |-> IF t \in ThreadsOf(p) THEN <<>> ELSE buffer[t]]
  /\ result' = [t \in Threads |-> IF t \in ThreadsOf(p) THEN "none" ELSE result[t]]
  /\ m_nonempty_queue' = m_nonempty_queue \ ThreadsOf(p)
  /\ m_nonfull_queue' = m_nonfull_queue \ ThreadsOf(p)
  /\ m_mutex' = m_mutex \ ThreadsOf(p)
  /\ mutex_state' = IF m_mutex \cap ThreadsOf(p) # {} THEN "owner_dead" ELSE mutex_state
  /\ UNCHANGED <<ringVars, objectVars, calls, controls, wakeups, historyVars>>

(* The process starts again and opens the queue: the shared memory is still   *)
(* there, the object is new.                                                  *)
restart(p) ==
  /\ \E t \in ThreadsOf(p) : pc[t] = "dead"
  /\ pc' = [t \in Threads |-> IF t \in ThreadsOf(p) THEN "outside" ELSE pc[t]]
  /\ m_stop' = [m_stop EXCEPT ![p] = FALSE]
  /\ \E policy \in PoliciesOf[p] : m_overflow_policy' = [m_overflow_policy EXCEPT ![p] = policy]
  /\ UNCHANGED <<ringVars, mutexVars, condVars, call, arg, buffer, result, countVars, historyVars>>

-----------------------------------------------------------------------------
(* A step of a thread inside a call: none of them waits for the user. *)
ThreadStep(t) ==
  \/ lock_queue(t) \/ lock_fails(t) \/ recover(t)
  \/ relock(t) \/ relock_fails(t) \/ unwind(t)
  \/ send_aborted(t) \/ send_overflows(t) \/ send_waits(t)
  \/ enqueue_copy(t) \/ enqueue_advance(t) \/ enqueue_count(t)
  \/ receive_aborted(t) \/ receive_refused(t) \/ receive_waits(t)
  \/ dequeue_throws(t) \/ dequeue_copy(t) \/ dequeue_advance(t) \/ dequeue_count(t)
  \/ stop_local(t) \/ clear(t)

Call(t) ==
  \/ call_send(t) \/ call_try_send(t)
  \/ call_receive(t) \/ call_try_receive(t)
  \/ call_stop_local(t) \/ call_clear(t) \/ reset_local(t)

Next ==
  \/ \E t \in Threads : ThreadStep(t) \/ Call(t) \/ wake_spuriously(t)
  \/ \E p \in Processes : crash(p) \/ restart(p)

Spec == Init /\ [][Next]_vars

(* A thread inside a call goes on, as long as its process lives. *)
FairSpec == Spec /\ \A t \in Threads : WF_vars(ThreadStep(t))

-----------------------------------------------------------------------------
(* Properties *)

(* No thread is in the middle of changing the queue, and none died there. *)
Quiescent ==
  /\ mutex_state = "consistent"
  /\ \A t \in m_mutex : pc[t] \in {"locked", "read"}

(* The blocks taken by the first i messages of a queue. *)
BlocksBefore(messages) ==
  LET blocks[i \in 0 .. Len(messages)] ==
        IF i = 0 THEN 0 ELSE blocks[i - 1] + estimate_block_count(Len(messages[i]))
  IN  blocks

(* The shared variables describe a ring that holds exactly the messages sent  *)
(* and not received: they follow each other from m_get_pos on, each one can   *)
(* be read back whole from its place, they take m_size blocks, which are no   *)
(* more than there are, and m_put_pos is the place after the last.  This is   *)
(* what enqueue_message and dequeue_message assert in part                    *)
(* (pos < capacity, block_count <= m_size), across wrap-around, a handler     *)
(* that throws, clear() and recovery after the death of a process.            *)
RingHoldsPending ==
  Quiescent =>
    LET place(i) == (m_get_pos + BlocksBefore(pending)[i - 1]) % Capacity
    IN  /\ m_get_pos \in 0 .. Capacity - 1
        /\ m_size = BlocksBefore(pending)[Len(pending)]
        /\ m_size <= Capacity
        /\ m_put_pos = (m_get_pos + m_size) % Capacity
        /\ \A i \in 1 .. Len(pending) : copy_out(place(i)) = pending[i]

(* No wake-up is lost: while the queue is at rest, a thread asleep in send or *)
(* receive has a reason to be.  Its object is not stopped; a reader sleeps    *)
(* only on an empty queue, although enqueue_message notifies only when it     *)
(* finds the queue empty; and a writer sleeps only while its message, which   *)
(* may be longer than those of others, does not fit.                          *)
SleepersBlocked ==
  Quiescent =>
    /\ \A t \in m_nonempty_queue : ~ stopped(t) /\ m_size = 0
    /\ \A t \in m_nonfull_queue : ~ stopped(t) /\ ~ fits(t)

(* The queue is a channel: whatever the processes do and wherever they die,   *)
(* what receive hands out are the messages sent, whole and in order.          *)
(* Messages are given up only all at once, in a call of clear or when the     *)
(* queue is repaired after a process died with the mutex in its hands.        *)
AllMessages ==
  {Message(t, n, length) : t \in Writers, n \in 1 .. MaxCalls, length \in Lengths}
Channel == INSTANCE MessageChannel
  WITH Messages <- AllMessages, broken <- mutex_state = "owner_dead",
       clearing <- {t \in DOMAIN call : call[t] = "clear"}
ImplementsChannel == Channel!Spec

(* The calls that are under way although they have no reason to wait: a        *)
(* receive while there is a message, and, once stop_local has set m_stop, any  *)
(* send or receive on the object, whichever of its two checks of m_stop it had *)
(* passed.                                                                     *)
Overdue ==
  {t \in Threads : \/ call[t] = "receive" /\ pending # <<>>
                   \/ call[t] # "none" /\ stopped(t)}

(* "The queue is reliable in that it will not drop successfully sent messages *)
(* that are not received by the reader": as long as nobody calls clear, a     *)
(* message leaves the queue only when it is received.                         *)
DropsNothing == [][received' = received => Len(pending') >= Len(pending)]_vars

(* The queue stays usable when a process dies: the mutex can be locked again. *)
MutexRecovers == mutex_state # "not_recoverable"
=============================================================================
