------------------------------- MODULE IpcRegion -------------------------------
(***************************************************************************)
(* The shared memory under reliable_message_queue (POSIX): how processes   *)
(* create, find, initialize, count their references to, and remove the     *)
(* segment with the name of the queue.                                     *)
(*                                                                         *)
(* A step is one system call on the name or the segment, or one access to  *)
(* m_ref_count.  Waiting ends when its condition holds or, at any moment,  *)
(* by giving up: the loops are bounded by a count or by a minute.          *)
(***************************************************************************)
EXTENDS Naturals, FiniteSets

CONSTANTS Objects,        \* queue objects, at most one in use per process
          Incompatible,   \* objects in processes with another ABI
          MaxSegments,    \* bound: segments created
          MaxCalls,       \* bound: opening calls of one object
          MaxFaults,      \* bound: failures to allocate memory, and crashes
          MaxRemoves      \* bound: calls of reliable_message_queue::remove

VARIABLES shm_name,       \* the segment that has the name, NoSegment if none
          segments,       \* segments created so far
          shm_size,       \* whether each segment has been given its size
          m_ref_count,
          queue,          \* the header of each segment: none, live or destroyed
          pc, mode, segment, ref_count,
          calls, faults, removes,
          leaked          \* history: references of objects that crashed, per segment

regionVars == <<shm_name, segments, shm_size, m_ref_count, queue>>
localVars == <<pc, mode, segment, ref_count>>
boundVars == <<calls, faults, removes, leaked>>
vars == <<regionVars, localVars, boundVars>>

NoSegment == 0
Segments == 1 .. MaxSegments

Init ==
  /\ shm_name = NoSegment /\ segments = 0
  /\ shm_size = [s \in Segments |-> FALSE]
  /\ m_ref_count = [s \in Segments |-> 0]
  /\ queue = [s \in Segments |-> "none"]
  /\ pc = [o \in Objects |-> "closed"]
  /\ mode = [o \in Objects |-> "none"]
  /\ segment = [o \in Objects |-> NoSegment]
  /\ ref_count = [o \in Objects |-> 0]
  /\ calls = [o \in Objects |-> 0] /\ faults = 0 /\ removes = 0
  /\ leaked = [s \in Segments |-> 0]

step(o, from, to) ==
  /\ pc[o] = from
  /\ pc' = [pc EXCEPT ![o] = to]

-----------------------------------------------------------------------------
(* create, open and open_or_create *)

begin(o, m) ==
  /\ calls[o] < MaxCalls
  /\ calls' = [calls EXCEPT ![o] = @ + 1]
  /\ step(o, "closed", IF m = "open" THEN "open" ELSE "create")
  /\ mode' = [mode EXCEPT ![o] = m]
  /\ UNCHANGED <<regionVars, segment, ref_count, faults, removes, leaked>>

(* shared_memory_object(create_only): fails if the name is taken. *)
create(o) ==
  /\ IF shm_name = NoSegment
       THEN /\ segments < MaxSegments
            /\ segments' = segments + 1
            /\ shm_name' = segments'
            /\ segment' = [segment EXCEPT ![o] = segments']
            /\ step(o, "create", "truncate")
       ELSE /\ step(o, "create", IF mode[o] = "create" THEN "closed" ELSE "open")
            /\ UNCHANGED <<segments, shm_name, segment>>
  /\ UNCHANGED <<shm_size, m_ref_count, queue, mode, ref_count, boundVars>>

(* shared_memory_object(open_only): fails if there is no such name; then     *)
(* open_or_create tries to create the segment again, or gives up.            *)
open(o) ==
  /\ IF shm_name # NoSegment
       THEN segment' = [segment EXCEPT ![o] = shm_name] /\ step(o, "open", "get_size")
       ELSE /\ step(o, "open", "closed") \/ (mode[o] = "open_or_create" /\ step(o, "open", "create"))
            /\ UNCHANGED segment
  /\ UNCHANGED <<regionVars, mode, ref_count, boundVars>>

(* create_region: the memory is allocated, which may fail; the name stays.   *)
truncate(o) ==
  /\ \/ /\ step(o, "truncate", "construct")
        /\ shm_size' = [shm_size EXCEPT ![segment[o]] = TRUE]
        /\ UNCHANGED <<segment, faults>>
     \/ /\ faults < MaxFaults
        /\ faults' = faults + 1
        /\ step(o, "truncate", "closed")
        /\ segment' = [segment EXCEPT ![o] = NoSegment]
        /\ UNCHANGED shm_size
  /\ UNCHANGED <<shm_name, segments, m_ref_count, queue, mode, ref_count, calls, removes,
                 leaked>>

(* create_region: the header is constructed.                                 *)
construct(o) ==
  /\ step(o, "construct", "publish")
  /\ queue' = [queue EXCEPT ![segment[o]] = "live"]
  /\ UNCHANGED <<shm_name, segments, shm_size, m_ref_count, mode, segment, ref_count, boundVars>>

(* The last thing the constructor of the header does: m_ref_count is no      *)
(* longer zero, so that others may adopt the region.                         *)
publish(o) ==
  /\ step(o, "publish", "attached")
  /\ m_ref_count' = [m_ref_count EXCEPT ![segment[o]] = @ + 1]
  /\ UNCHANGED <<shm_name, segments, shm_size, queue, mode, segment, ref_count, boundVars>>

-----------------------------------------------------------------------------
(* adopt_region *)

Detach(o) == segment' = [segment EXCEPT ![o] = NoSegment]

(* Faulty variant: initialization is waited for without a limit. *)
give_up_on_size(o) ==
  /\ step(o, "get_size", "closed") /\ ~shm_size[segment[o]]
  /\ Detach(o)
  /\ UNCHANGED <<regionVars, mode, ref_count, boundVars>>

(* The waiting for the size or for the initialization takes too long. *)
give_up(o) ==
  /\ \/ step(o, "get_size", "closed") /\ ~shm_size[segment[o]]
     \/ step(o, "exchange", "closed") /\ ref_count[o] = 0
  /\ Detach(o)
  /\ UNCHANGED <<regionVars, mode, ref_count, boundVars>>

get_size(o) ==
  /\ pc[o] = "get_size" /\ shm_size[segment[o]]
  /\ step(o, "get_size", "load")
  /\ UNCHANGED <<regionVars, mode, segment, ref_count, boundVars>>

load(o) ==
  /\ step(o, "load", "exchange")
  /\ ref_count' = [ref_count EXCEPT ![o] = m_ref_count[segment[o]]]
  /\ UNCHANGED <<regionVars, mode, segment, boundVars>>

(* Faulty variant: the reference is added without looking at the counter. *)
exchange_blindly(o) ==
  /\ step(o, "exchange", "check")
  /\ m_ref_count' = [m_ref_count EXCEPT ![segment[o]] = @ + 1]
  /\ UNCHANGED <<shm_name, segments, shm_size, queue, mode, segment, ref_count, boundVars>>

(* A reference is added to a counter that is not zero; a counter that is     *)
(* zero is loaded again.                                                     *)
exchange(o) ==
  /\ pc[o] = "exchange"
  /\ IF ref_count[o] > 0 /\ m_ref_count[segment[o]] = ref_count[o]
       THEN /\ step(o, "exchange", "check")
            /\ m_ref_count' = [m_ref_count EXCEPT ![segment[o]] = @ + 1]
            /\ UNCHANGED ref_count
       ELSE /\ ref_count' = [ref_count EXCEPT ![o] = m_ref_count[segment[o]]]
            /\ UNCHANGED <<m_ref_count, pc>>
  /\ UNCHANGED <<shm_name, segments, shm_size, queue, mode, segment, boundVars>>

(* The layout is checked; if it does not match, the region is closed. *)
check(o) ==
  /\ step(o, "check", IF o \in Incompatible THEN "close" ELSE "attached")
  /\ UNCHANGED <<regionVars, mode, segment, ref_count, boundVars>>

-----------------------------------------------------------------------------
(* close, and close_region *)

begin_close(o) ==
  /\ step(o, "attached", "close")
  /\ UNCHANGED <<regionVars, mode, segment, ref_count, boundVars>>

release(o) ==
  /\ pc[o] = "close"
  /\ m_ref_count' = [m_ref_count EXCEPT ![segment[o]] = @ - 1]
  /\ IF m_ref_count[segment[o]] = 1
       THEN step(o, "close", "remove_name") /\ UNCHANGED segment
       ELSE step(o, "close", "closed") /\ Detach(o)
  /\ UNCHANGED <<shm_name, segments, shm_size, queue, mode, ref_count, boundVars>>

(* shared_memory_object::remove: the name goes, whatever it refers to. *)
remove_name(o) ==
  /\ step(o, "remove_name", "destroy")
  /\ shm_name' = NoSegment
  /\ UNCHANGED <<segments, shm_size, m_ref_count, queue, mode, segment, ref_count, boundVars>>

destroy(o) ==
  /\ step(o, "destroy", "closed")
  /\ queue' = [queue EXCEPT ![segment[o]] = "destroyed"]
  /\ Detach(o)
  /\ UNCHANGED <<shm_name, segments, shm_size, m_ref_count, mode, ref_count, boundVars>>

(* reliable_message_queue::remove, by any process. *)
remove ==
  /\ removes < MaxRemoves
  /\ removes' = removes + 1
  /\ shm_name' = NoSegment
  /\ UNCHANGED <<segments, shm_size, m_ref_count, queue, localVars, calls, faults, leaked>>

(* The process of the object dies; its reference stays. *)
crash(o) ==
  /\ pc[o] # "closed"
  /\ faults < MaxFaults
  /\ faults' = faults + 1
  /\ pc' = [pc EXCEPT ![o] = "closed"]
  /\ leaked' = IF pc[o] \in {"check", "attached", "close"}
                 THEN [leaked EXCEPT ![segment[o]] = @ + 1] ELSE leaked
  /\ Detach(o)
  /\ UNCHANGED <<regionVars, mode, ref_count, calls, removes>>

ObjectStep(o) ==
  \/ create(o) \/ open(o) \/ truncate(o) \/ construct(o) \/ publish(o) \/ give_up(o) \/ get_size(o)
  \/ load(o) \/ exchange(o) \/ check(o) \/ release(o) \/ remove_name(o) \/ destroy(o)

Next ==
  \/ \E o \in Objects :
       \/ \E m \in {"create", "open", "open_or_create"} : begin(o, m)
       \/ begin_close(o) \/ ObjectStep(o) \/ crash(o)
  \/ remove

Spec == Init /\ [][Next]_vars

(* A process that does not die goes on with its call. *)
FairSpec == Spec /\ \A o \in Objects : WF_vars(ObjectStep(o))

-----------------------------------------------------------------------------
(* What the processes can rely on *)

TypeOK ==
  /\ shm_name \in 0 .. MaxSegments /\ segments \in 0 .. MaxSegments
  /\ m_ref_count \in [Segments -> 0 .. Cardinality(Objects) + MaxFaults]
  /\ segment \in [Objects -> 0 .. MaxSegments]
  /\ faults \in 0 .. MaxFaults /\ removes \in 0 .. MaxRemoves

(* The objects that hold a reference to segment s. *)
Holders(s) == {o \in Objects : segment[o] = s /\ pc[o] \in {"check", "attached", "close"}}

(* m_ref_count is the number of objects attached to the segment and of those *)
(* whose processes died, whatever opening, closing and giving up overlap: it *)
(* never comes back from zero, so a queue is destroyed once.                 *)
CountsHolders == \A s \in Segments : m_ref_count[s] = Cardinality(Holders(s)) + leaked[s]

(* Nobody uses a queue that is not constructed yet or destroyed already. *)
HoldersHaveQueue == \A s \in Segments : Holders(s) # {} => queue[s] = "live"

(* As long as nobody removes it by hand, the name of a queue in use leads to *)
(* it: all objects are attached to one queue, and closing an old queue never *)
(* takes the name away from its successor.                                   *)
NameLeadsToQueue == removes = 0 => \A s \in Segments : Holders(s) # {} => shm_name = s

(* No object is being opened or closed. *)
AllReturned == \A o \in Objects : pc[o] \in {"closed", "attached"}
=============================================================================
