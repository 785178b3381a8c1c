-------------------------- MODULE UnboundedFifoQueue ---------------------------
(***************************************************************************)
(* sinks::unbounded_fifo_queue: a threadsafe_queue (a linked list with one *)
(* lock for each end) and an event that records and interruptions share.   *)
(* Any number of threads enqueue and interrupt; one thread at a time       *)
(* dequeues, so the lock of the head is never contended and is left out.   *)
(*                                                                         *)
(* A step is one access to memory that threads share: a store or a load of *)
(* node_base::next, of an atomic or of the operating system's object under *)
(* the event.  The event has four implementations, selected by the build.  *)
(***************************************************************************)
EXTENDS Naturals, Sequences, FiniteSets, Functions

CONSTANTS Producers,      \* threads that enqueue records
          Interrupters,   \* threads that call interrupt_dequeue
          Consumer,       \* the thread that dequeues
          MaxRecords,     \* bound: records enqueued by one thread
          MaxInterrupts,  \* bound: calls of interrupt_dequeue by one thread
          Builds,         \* the implementations of the event to consider
          StoresInOrder   \* whether the platform makes stores visible in program order

VARIABLES build,                      \* the implementation of the event in use
          m_state, m_semaphore, m_event,  \* the flag of the event, and what is under it
          asleep,                     \* the consumer sleeps in the event
          m_Head, m_Tail, next,       \* the list: both ends, node_base::next
          tail_mutex,                 \* the thread that holds m_Tail.mutex, as a set
          m_interruption_requested,
          pc, calls, node_to_free,
          constructed, freed,         \* nodes whose value can be read, nodes deallocated
          linked, popped              \* history: the records linked, and those taken out

listVars == <<m_Head, m_Tail, next, tail_mutex, node_to_free>>
eventVars == <<m_state, m_semaphore, m_event, asleep>>
memoryVars == <<constructed, freed>>
vars == <<build, eventVars, listVars, m_interruption_requested, pc, calls, memoryVars,
          linked, popped>>

FifoThreads == Producers \cup Interrupters \cup {Consumer}
Records == Producers \X (1 .. MaxRecords)

(* The node of a record is named after the record. *)
FirstNode == <<Consumer, 0>>
NULL == <<>>
Nodes == Records \cup {FirstNode}

step(t, from, to) ==
  /\ pc[t] = from
  /\ pc' = [pc EXCEPT ![t] = to]

Init ==
  /\ build \in Builds
  /\ m_state = 0 /\ m_semaphore = 0 /\ m_event = FALSE /\ asleep = FALSE
  /\ m_Head = FirstNode /\ m_Tail = FirstNode
  /\ next = [n \in Nodes |-> NULL]
  /\ tail_mutex = {}
  /\ node_to_free = NULL
  /\ m_interruption_requested = FALSE
  /\ pc = [t \in FifoThreads |-> "outside"]
  /\ calls = [t \in FifoThreads |-> 0]
  /\ constructed = {} /\ freed = {}
  /\ linked = <<>> /\ popped = <<>>

-----------------------------------------------------------------------------
(* enqueue and try_enqueue: threadsafe_queue::push, then set_signalled *)

NewNode(p) == <<p, calls[p]>>

(* The node is allocated and its value constructed.  If the platform may     *)
(* reorder the stores, the value becomes visible now or with the unlocking.  *)
enqueue(p) ==
  /\ p \in Producers
  /\ calls[p] < MaxRecords
  /\ calls' = [calls EXCEPT ![p] = @ + 1]
  /\ step(p, "outside", "lock_tail")
  /\ \/ constructed' = constructed \cup {<<p, calls[p] + 1>>}
     \/ ~StoresInOrder /\ UNCHANGED constructed
  /\ UNCHANGED <<build, eventVars, listVars, m_interruption_requested, freed, linked, popped>>

lock_tail(p) ==
  /\ tail_mutex = {}
  /\ step(p, "lock_tail", "link")
  /\ tail_mutex' = {p}
  /\ UNCHANGED <<build, eventVars, m_Head, m_Tail, next, node_to_free,
                 m_interruption_requested, calls, memoryVars, linked, popped>>

(* set_next(m_Tail.node, p): from here on the consumer can see the record. *)
link(p) ==
  /\ step(p, "link", "move_tail")
  /\ next' = [next EXCEPT ![m_Tail] = NewNode(p)]
  /\ linked' = Append(linked, NewNode(p))
  /\ UNCHANGED <<build, eventVars, m_Head, m_Tail, tail_mutex, node_to_free,
                 m_interruption_requested, calls, memoryVars, popped>>

move_tail(p) ==
  /\ step(p, "move_tail", "signal")
  /\ m_Tail' = NewNode(p)
  /\ tail_mutex' = {}
  /\ constructed' = constructed \cup {NewNode(p)}
  /\ UNCHANGED <<build, eventVars, m_Head, next, node_to_free,
                 m_interruption_requested, calls, freed, linked, popped>>

interrupt_dequeue(i) ==
  /\ i \in Interrupters
  /\ calls[i] < MaxInterrupts
  /\ calls' = [calls EXCEPT ![i] = @ + 1]
  /\ step(i, "outside", "signal")
  /\ m_interruption_requested' = TRUE
  /\ UNCHANGED <<build, eventVars, listVars, memoryVars, linked, popped>>

-----------------------------------------------------------------------------
(* event::set_signalled *)

signalVars == <<build, listVars, m_interruption_requested, calls, memoryVars, linked, popped>>

(* The atomic and the Windows event look at m_state first; the semaphore     *)
(* event sets it with the same instruction, the generic one under a mutex.   *)
set_signalled(t) ==
  /\ \/ /\ build \in {"atomic", "winapi"}
        /\ IF m_state # 0 THEN step(t, "signal", "outside") ELSE step(t, "signal", "exchange")
        /\ UNCHANGED eventVars
     \/ /\ build = "semaphore"
        /\ IF m_state # 0 THEN step(t, "signal", "outside") ELSE step(t, "signal", "notify")
        /\ m_state' = 1
        /\ UNCHANGED <<m_semaphore, m_event, asleep>>
     \/ /\ build = "generic"
        /\ step(t, "signal", "outside")
        /\ m_state' = 1
        /\ asleep' = (asleep /\ m_state # 0)
        /\ UNCHANGED <<m_semaphore, m_event>>
  /\ UNCHANGED signalVars

(* Faulty variant: the thread that sets the flag does not wake the consumer. *)
exchange_state_silently(t) ==
  /\ step(t, "exchange", "outside")
  /\ m_state' = 1
  /\ UNCHANGED <<m_semaphore, m_event, asleep>>
  /\ UNCHANGED signalVars

exchange_state(t) ==
  /\ IF m_state # 0 THEN step(t, "exchange", "outside") ELSE step(t, "exchange", "notify")
  /\ m_state' = 1
  /\ UNCHANGED <<m_semaphore, m_event, asleep>>
  /\ UNCHANGED signalVars

(* m_state.notify_one(), SetEvent or sem_post. *)
notify(t) ==
  /\ step(t, "notify", "outside")
  /\ asleep' = (asleep /\ build # "atomic")
  /\ m_event' = (m_event \/ build = "winapi")
  /\ m_semaphore' = m_semaphore + (IF build = "semaphore" THEN 1 ELSE 0)
  /\ UNCHANGED m_state
  /\ UNCHANGED signalVars

-----------------------------------------------------------------------------
(* event::wait *)

consumerVars == <<build, listVars, m_interruption_requested, calls, memoryVars, linked, popped>>

(* The consumer takes the signal, or has to block; the semaphore event       *)
(* blocks first and clears m_state afterwards.                               *)
wait ==
  /\ ~asleep
  /\ \/ /\ build \in {"atomic", "winapi"}
        /\ IF m_state = 0 THEN step(Consumer, "wait", "block")
                          ELSE step(Consumer, "wait", "woken")
        /\ m_state' = 0
        /\ UNCHANGED <<m_semaphore, m_event, asleep>>
     \/ /\ build = "semaphore"
        /\ m_semaphore > 0
        /\ m_semaphore' = m_semaphore - 1
        /\ step(Consumer, "wait", "block")
        /\ UNCHANGED <<m_state, m_event, asleep>>
     \/ /\ build = "generic"
        /\ IF m_state = 0 THEN step(Consumer, "wait", "wait")
                          ELSE step(Consumer, "wait", "woken")
        /\ asleep' = (m_state = 0)
        /\ m_state' = 0
        /\ UNCHANGED <<m_semaphore, m_event>>
  /\ UNCHANGED consumerVars

(* m_state.wait(0), WaitForSingleObject, or the clearing after sem_wait. *)
block ==
  /\ ~asleep
  /\ \/ /\ build = "atomic"
        /\ IF m_state # 0 THEN step(Consumer, "block", "wait") ELSE step(Consumer, "block", "block")
        /\ asleep' = (m_state = 0)
        /\ UNCHANGED <<m_state, m_semaphore, m_event>>
     \/ /\ build = "winapi"
        /\ m_event
        /\ m_event' = FALSE
        /\ step(Consumer, "block", "wait")
        /\ UNCHANGED <<m_state, m_semaphore, asleep>>
     \/ /\ build = "semaphore"
        /\ m_state' = 0
        /\ step(Consumer, "block", "woken")
        /\ UNCHANGED <<m_semaphore, m_event, asleep>>
  /\ UNCHANGED consumerVars

-----------------------------------------------------------------------------
(* try_dequeue, try_dequeue_ready and dequeue_ready *)

begin_dequeue ==
  /\ step(Consumer, "outside", "try_dequeue") \/ step(Consumer, "outside", "dequeue_ready")
  /\ UNCHANGED <<build, eventVars, listVars, m_interruption_requested, calls, memoryVars,
                 linked, popped>>

(* The control point after try_pop finds nothing. *)
after_empty(from) == IF from = "try_dequeue" THEN "outside" ELSE "wait"

(* Faulty variant: the head goes to the end of the list. *)
try_pop_last(from) ==
  /\ \/ /\ next[m_Head] = NULL
        /\ step(Consumer, from, after_empty(from))
        /\ UNCHANGED <<m_Head, node_to_free>>
     \/ /\ next[m_Head] # NULL
        /\ step(Consumer, from, "move_value")
        /\ node_to_free' = m_Head
        /\ m_Head' = IF m_Tail = m_Head THEN next[m_Head] ELSE m_Tail
  /\ UNCHANGED <<build, eventVars, m_Tail, next, tail_mutex, m_interruption_requested, calls,
                 memoryVars, linked, popped>>

(* threadsafe_queue_impl::try_pop, under the lock of the head. *)
try_pop(from) ==
  /\ \/ /\ next[m_Head] = NULL
        /\ step(Consumer, from, after_empty(from))
        /\ UNCHANGED <<m_Head, node_to_free>>
     \/ /\ next[m_Head] # NULL
        /\ step(Consumer, from, "move_value")
        /\ node_to_free' = m_Head
        /\ m_Head' = next[m_Head]
  /\ UNCHANGED <<build, eventVars, m_Tail, next, tail_mutex, m_interruption_requested, calls,
                 memoryVars, linked, popped>>

(* Faulty variant: the node that holds the value is freed with it. *)
move_value_frees_node ==
  /\ step(Consumer, "move_value", "outside")
  /\ popped' = Append(popped, m_Head)
  /\ freed' = freed \cup {m_Head}
  /\ UNCHANGED <<build, eventVars, listVars, m_interruption_requested, calls, constructed, linked>>

(* try_pop of threadsafe_queue: the value is moved out of the node that has   *)
(* become the head, and the former head is deallocated.                       *)
move_value ==
  /\ step(Consumer, "move_value", "outside")
  /\ popped' = Append(popped, m_Head)
  /\ freed' = freed \cup {node_to_free}
  /\ UNCHANGED <<build, eventVars, listVars, m_interruption_requested, calls, constructed, linked>>

(* After the wait the interruption comes first; a record stays for next time. *)
woken ==
  /\ IF m_interruption_requested THEN step(Consumer, "woken", "outside")
                                 ELSE step(Consumer, "woken", "pop_again")
  /\ m_interruption_requested' = FALSE
  /\ UNCHANGED <<build, eventVars, listVars, calls, memoryVars, linked, popped>>

ConsumerStep ==
  \/ wait \/ block \/ woken \/ move_value
  \/ \E from \in {"try_dequeue", "dequeue_ready", "pop_again"} : try_pop(from)

ThreadStep(t) ==
  \/ t \in Producers /\ (lock_tail(t) \/ link(t) \/ move_tail(t))
  \/ set_signalled(t) \/ exchange_state(t) \/ notify(t)
  \/ t = Consumer /\ ConsumerStep

Next ==
  \/ \E t \in FifoThreads : enqueue(t) \/ interrupt_dequeue(t) \/ ThreadStep(t)
  \/ begin_dequeue

Spec == Init /\ [][Next]_vars

(* Threads that can run do run, and the feeding loop keeps asking for records. *)
FairSpec == Spec /\ (\A t \in FifoThreads : WF_vars(ThreadStep(t))) /\ WF_vars(begin_dequeue)

-----------------------------------------------------------------------------
(* What the queue promises *)

TypeOK ==
  /\ build \in Builds
  /\ m_state \in 0 .. 1 /\ m_semaphore \in 0 .. 1 /\ m_event \in BOOLEAN /\ asleep \in BOOLEAN
  /\ m_Head \in Nodes /\ m_Tail \in Nodes /\ node_to_free \in Nodes \cup {NULL}
  /\ next \in [Nodes -> Nodes \cup {NULL}]
  /\ tail_mutex \subseteq Producers
  /\ m_interruption_requested \in BOOLEAN
  /\ constructed \subseteq Nodes /\ freed \subseteq Nodes
  /\ linked \in Seq(Records) /\ popped \in Seq(Records)

(* The two locks are enough: although producers and the consumer meet at the *)
(* first node when the queue is empty, no thread reaches a node that has been *)
(* deallocated, and every node behind the head is deallocated.                *)
ListMemorySafe ==
  /\ m_Head \notin freed
  /\ \A p \in Producers : pc[p] = "link" => m_Tail \notin freed
  /\ pc[Consumer] # "move_value" => freed = ({FirstNode} \cup Range(popped)) \ {m_Head}

(* The value that is moved out of a node has been constructed.  Nothing but   *)
(* the order of stores ensures it: push and try_pop share no lock, and        *)
(* node_base::next is stored and loaded with relaxed ordering.                *)
PoppedIsConstructed == pc[Consumer] = "move_value" => m_Head \in constructed

(* The consumer will not block, or not for long: the event is signalled in    *)
(* the way that the consumer looks at where it is (the Windows event looks at *)
(* m_state only before it blocks, the semaphore event not at all), or a       *)
(* thread is about to signal it.                                              *)
SignalPending ==
  \/ /\ m_state # 0 /\ ~asleep
     /\ build \in {"atomic", "generic"} \/ (build = "winapi" /\ pc[Consumer] = "wait")
  \/ m_semaphore > 0 \/ m_event
  \/ \E t \in FifoThreads : pc[t] \in {"move_tail", "signal", "exchange", "notify"}

(* No wake-up is lost, in any implementation of the event: when the consumer *)
(* is going to block while a record or an interruption waits for it, a        *)
(* signal is on its way.                                                      *)
NoLostWakeup ==
  pc[Consumer] \in {"wait", "block"} /\ (next[m_Head] # NULL \/ m_interruption_requested)
    => SignalPending \/ (build = "semaphore" /\ pc[Consumer] = "block")

Channel == INSTANCE RecordChannel WITH accepted <- linked, delivered <- popped

(* The records come out once each, in the order in which they were linked,   *)
(* and the records of one thread in the order of its calls.                   *)
ImplementsFifo == Channel!Spec

(* All the records that have been put in the queue have been taken out. *)
AllDequeued == Range(linked) \subseteq Range(popped)

(* The consumer waits although it has been interrupted. *)
WaitsInterrupted == m_interruption_requested /\ pc[Consumer] \in {"wait", "block"}
=============================================================================
