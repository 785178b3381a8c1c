----------------------------- MODULE AttributeNames -----------------------------
(***************************************************************************)
(* The repository of attribute names, which gives every name an id for the *)
(* lifetime of the process.  A thread looks a name up under the shared     *)
(* lock and, when it is not there, once more under the exclusive lock.     *)
(*                                                                         *)
(* A step is a critical section.  The nodes are in a deque, where they     *)
(* stay at their place, and are linked into a set ordered by name; a node  *)
(* is known by its position in the deque.                                  *)
(***************************************************************************)
EXTENDS Integers, Sequences

CONSTANTS NameThreads, Names,
          uninitialized,    \* the id of no name: 2^32 - 1 in the code
          MaxLookups        \* bound: calls of one thread

VARIABLES m_NodeList,       \* the names in the deque
          m_NodeSet,        \* the positions of the nodes in the set
          lookup,           \* where thread t is in get_id_from_string
          wanted,           \* the name thread t is looking for
          lookups,
          known             \* history: the names and the ids that have been returned

nameVars == <<m_NodeList, m_NodeSet, lookup, wanted, lookups, known>>

NamesInit ==
  /\ m_NodeList = <<>>
  /\ m_NodeSet = {}
  /\ lookup = [t \in NameThreads |-> "idle"]
  /\ wanted \in [NameThreads -> Names]
  /\ lookups = [t \in NameThreads |-> 0]
  /\ known = {}

(* The nodes with the name. *)
Found(name) == {id \in m_NodeSet : m_NodeList[id + 1] = name}

Return(name, id) == known' = known \cup {<<name, id>>}

get_id_from_string(t, name) ==
  /\ lookup[t] = "idle" /\ lookups[t] < MaxLookups
  /\ lookups' = [lookups EXCEPT ![t] = @ + 1]
  /\ wanted' = [wanted EXCEPT ![t] = name]
  /\ \/ \E id \in Found(name) : Return(name, id) /\ UNCHANGED lookup
     \/ /\ Found(name) = {}
        /\ lookup' = [lookup EXCEPT ![t] = "insert"]
        /\ UNCHANGED known
  /\ UNCHANGED <<m_NodeList, m_NodeSet>>

push_back(name) ==
  /\ Len(m_NodeList) < uninitialized
  /\ m_NodeList' = Append(m_NodeList, name)
  /\ m_NodeSet' = m_NodeSet \cup {Len(m_NodeList)}
  /\ Return(name, Len(m_NodeList))

(* Faulty variant: the name is not looked up again. *)
insert_unchecked(t) ==
  /\ lookup[t] = "insert"
  /\ lookup' = [lookup EXCEPT ![t] = "idle"]
  /\ push_back(wanted[t])
  /\ UNCHANGED <<wanted, lookups>>

(* The rest of get_id_from_string, which throws when there are too many names. *)
insert(t) ==
  /\ lookup[t] = "insert"
  /\ lookup' = [lookup EXCEPT ![t] = "idle"]
  /\ \/ \E id \in Found(wanted[t]) : Return(wanted[t], id) /\ UNCHANGED <<m_NodeList, m_NodeSet>>
     \/ Found(wanted[t]) = {} /\ push_back(wanted[t])
     \/ /\ Found(wanted[t]) = {} /\ Len(m_NodeList) >= uninitialized
        /\ UNCHANGED <<m_NodeList, m_NodeSet, known>>
  /\ UNCHANGED <<wanted, lookups>>

NamesNext == \E t \in NameThreads : insert(t) \/ \E name \in Names : get_id_from_string(t, name)

NamesSpec == NamesInit /\ [][NamesNext]_nameVars

-----------------------------------------------------------------------------
(* Properties *)

NamesTypeOK ==
  /\ m_NodeList \in Seq(Names)
  /\ m_NodeSet \subseteq Nat
  /\ lookup \in [NameThreads -> {"idle", "insert"}]
  /\ wanted \in [NameThreads -> Names]
  /\ lookups \in [NameThreads -> Nat]
  /\ known \subseteq Names \X Nat

(* get_string_from_id: the name the node of the id has. *)
get_string_from_id(id) == m_NodeList[id + 1]

(* Whatever threads register names at the same time: an id that has been       *)
(* returned is a valid one that still stands for its name, and equal names     *)
(* have equal ids.                                                             *)
NamesAgree ==
  /\ \A k \in known : k[2] < Len(m_NodeList) /\ k[2] < uninitialized
                      /\ get_string_from_id(k[2]) = k[1]
  /\ \A j, k \in known : j[1] = k[1] => j[2] = k[2]
=============================================================================
