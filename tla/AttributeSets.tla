----------------------------- MODULE AttributeSets -----------------------------
(***************************************************************************)
(* attribute_set and attribute_value_set: a list of nodes with an index of *)
(* buckets, each a sorted run of the list known by its first and its last  *)
(* node; and the view of the values of a record, which adopts the sets of  *)
(* the source, the thread and the core and acquires a value when it is     *)
(* looked for, or all of them when it is frozen.                           *)
(*                                                                         *)
(* A node is known by its key, the id of the attribute name.  A view has   *)
(* pointers to the sets until it is frozen, and the locks of the logger    *)
(* and the core keep the sets as they are meanwhile; afterwards it has     *)
(* none, so that the sets of the model only change between two views.      *)
(***************************************************************************)
EXTENDS Integers, SequencesExt

CONSTANTS Keys,             \* ids of attribute names
          BucketCount,      \* 2^BOOST_LOG_HASH_TABLE_SIZE_LOG: 16 in the code
          Attributes,       \* what the sets hold
          MaxNodes,         \* bound: nodes in the three sets
          MaxInserts        \* bound: values inserted into a view

VARIABLES sets,             \* the attribute sets
          view,             \* the attribute_value_set of the record, as a set
          contents,         \* history: what has been inserted in each set and not erased
          values,           \* history: what the view stands for
          acquired          \* history: the calls of get_value for each key of the view

vars == <<sets, view, contents, values, acquired>>

Owners == {"source", "thread", "global"}
NULL == -1

-----------------------------------------------------------------------------
(* The container *)

Empty ==
  [nodes |-> <<>>, data |-> <<>>,
   first |-> [b \in 0 .. BucketCount - 1 |-> NULL], last |-> [b \in 0 .. BucketCount - 1 |-> NULL]]

get_bucket(key) == key % BucketCount

(* The list with a node inserted at position k, or without the one there. *)
Inserted(c, k, key, data) ==
  [c EXCEPT !.nodes = InsertAt(@, k, key),
            !.data = [x \in DOMAIN @ \cup {key} |-> IF x = key THEN data ELSE @[x]]]

Position(c, key) == SelectInSeq(c.nodes, LAMBDA x : x = key)

(* The walk from the first node to the last one or to one not before key. *)
find_in_bucket(c, key) ==
  LET b == get_bucket(key)
      end == Position(c, c.last[b])
  IN  IF c.first[b] = NULL THEN NULL
      ELSE c.nodes[Min({k \in Position(c, c.first[b]) .. end : k = end \/ c.nodes[k] >= key})]

find(c, key) == find_in_bucket(c, key) = key

(* Faulty variant: a node after the last one does not become the last. *)
insert_node_unsorted(c, key, data) ==
  LET b == get_bucket(key)
      where == find_in_bucket(c, key)
  IN  IF c.first[b] = NULL
      THEN [Inserted(c, Len(c.nodes) + 1, key, data) EXCEPT !.first[b] = key, !.last[b] = key]
      ELSE IF where = c.first[b]
      THEN [Inserted(c, Position(c, where), key, data) EXCEPT !.first[b] = key]
      ELSE Inserted(c, Position(c, where), key, data)

insert_node(c, key, data) ==
  LET b == get_bucket(key)
      where == find_in_bucket(c, key)
  IN  IF c.first[b] = NULL
      THEN [Inserted(c, Len(c.nodes) + 1, key, data) EXCEPT !.first[b] = key, !.last[b] = key]
      ELSE IF where = c.last[b] /\ key > where
      THEN [Inserted(c, Position(c, where) + 1, key, data) EXCEPT !.last[b] = key]
      ELSE IF where = c.first[b]
      THEN [Inserted(c, Position(c, where), key, data) EXCEPT !.first[b] = key]
      ELSE Inserted(c, Position(c, where), key, data)

erase_node(c, key) ==
  LET b == get_bucket(key)
      k == Position(c, key)
      without == [c EXCEPT !.nodes = RemoveAt(@, k),
                           !.data = [x \in DOMAIN @ \ {key} |-> @[x]]]
  IN  IF key = c.first[b] /\ key = c.last[b]
      THEN [without EXCEPT !.first[b] = NULL, !.last[b] = NULL]
      ELSE IF key = c.first[b] THEN [without EXCEPT !.first[b] = c.nodes[k + 1]]
      ELSE IF key = c.last[b] THEN [without EXCEPT !.last[b] = c.nodes[k - 1]]
      ELSE without

(* copy_nodes_from and the copy constructor: nodes are appended to the list   *)
(* and to their buckets in the order of the original.                         *)
Copied(c) ==
  FoldLeft(LAMBDA d, key :
             [Inserted(d, Len(d.nodes) + 1, key, c.data[key])
                EXCEPT !.first[get_bucket(key)] = IF @ = NULL THEN key ELSE @,
                       !.last[get_bucket(key)] = key],
           Empty, c.nodes)

-----------------------------------------------------------------------------
(* attribute_set *)

Init ==
  /\ sets = [o \in Owners |-> Empty]
  /\ view = {}
  /\ contents = [o \in Owners |-> <<>>]
  /\ values = <<>>
  /\ acquired = [key \in Keys |-> 0]

Size(o) == Len(sets[o].nodes)

change_set(o, c, map) ==
  /\ view = {}
  /\ sets' = [sets EXCEPT ![o] = c]
  /\ contents' = [contents EXCEPT ![o] = map]
  /\ UNCHANGED <<view, values, acquired>>

(* A key in map keeps its value. *)
Extended(map, key, value) ==
  [x \in DOMAIN map \cup {key} |-> IF x \in DOMAIN map THEN map[x] ELSE value]

insert(o, key, attribute) ==
  /\ Size("source") + Size("thread") + Size("global") < MaxNodes
  /\ change_set(o, IF find(sets[o], key) THEN sets[o] ELSE insert_node(sets[o], key, attribute),
                Extended(contents[o], key, attribute))

erase(o, key) ==
  change_set(o, IF find(sets[o], key) THEN erase_node(sets[o], key) ELSE sets[o],
             [x \in DOMAIN contents[o] \ {key} |-> contents[o][x]])

clear(o) == change_set(o, Empty, <<>>)

assign(o, from) ==
  /\ Size("source") + Size("thread") + Size("global") - Size(o) + Size(from) <= MaxNodes
  /\ change_set(o, Copied(sets[from]), contents[from])

-----------------------------------------------------------------------------
(* attribute_value_set *)

(* The sets are searched in this order. *)
Priority == <<"source", "thread", "global">>

(* What the sets of owners have for each key, the first of them first. *)
Adopted(owners) ==
  [key \in UNION {DOMAIN contents[owners[k]] : k \in DOMAIN owners} |->
     LET o == owners[SelectInSeq(owners, LAMBDA p : key \in DOMAIN contents[p])]
     IN  <<o, contents[o][key]>>]

(* The storage of a view has room for a node of each attribute. *)
create ==
  /\ view = {}
  /\ view' = {[c |-> Empty, adopted |-> Priority, m_pEnd |-> 0, inserts |-> 0,
               m_pEOS |-> Size("source") + Size("thread") + Size("global")]}
  /\ values' = Adopted(Priority)
  /\ acquired' = [key \in Keys |-> 0]
  /\ UNCHANGED <<sets, contents>>

(* A node comes from the storage or from the heap. *)
Added(v, key, value) ==
  [v EXCEPT !.c = insert_node(@, key, value), !.m_pEnd = Min({@ + 1, v.m_pEOS})]

Acquire(r, o, key) ==
  [v |-> Added(r.v, key, <<o, sets[o].data[key]>>), acquired |-> [r.acquired EXCEPT ![key] = @ + 1]]

freeze_nodes_from(r, o) ==
  FoldLeft(LAMBDA s, key : IF find(s.v.c, key) THEN s ELSE Acquire(s, o, key), r, sets[o].nodes)

Frozen(v) ==
  LET r == FoldLeft(freeze_nodes_from, [v |-> v, acquired |-> acquired], v.adopted)
  IN  [r EXCEPT !.v.adopted = <<>>]

change_view(r) ==
  /\ view' = {r.v}
  /\ acquired' = r.acquired
  /\ UNCHANGED <<sets, contents>>

(* find, which acquires the value of the first adopted set that has the key. *)
find_value(key) ==
  \E v \in view :
    LET from == SelectInSeq(v.adopted, LAMBDA o : find(sets[o], key))
        r == [v |-> v, acquired |-> acquired]
    IN  /\ change_view(IF find(v.c, key) \/ from = 0 THEN r ELSE Acquire(r, v.adopted[from], key))
        /\ UNCHANGED values

freeze == \E v \in view : change_view(Frozen(v)) /\ UNCHANGED values

(* insert, which requires a frozen view. *)
insert_value(key, value) ==
  \E v \in view :
    /\ v.adopted = <<>> /\ v.inserts < MaxInserts
    /\ LET w == [v EXCEPT !.inserts = @ + 1]
       IN  change_view([v |-> IF find(v.c, key) THEN w ELSE Added(w, key, value),
                        acquired |-> acquired])
    /\ values' = Extended(values, key, value)

(* copy, which freezes the original first. *)
copy ==
  \E v \in view :
    LET r == Frozen(v)
        n == Len(r.v.c.nodes)
    IN  /\ change_view([r EXCEPT !.v.c = Copied(@), !.v.m_pEnd = n, !.v.m_pEOS = n])
        /\ UNCHANGED values

(* create, with the values of a view as the attributes of the source: a copy   *)
(* of the view has them frozen; the view itself, when it is moved, keeps its   *)
(* storage and the source it may still have adopted.                           *)
create_from_values(moved) ==
  \E v \in view :
    LET r == IF moved THEN [v |-> v, acquired |-> acquired] ELSE Frozen(v)
        n == Len(r.v.c.nodes)
        adopted == SelectSeq(Priority, LAMBDA o : o # "source" \/ o \in ToSet(r.v.adopted))
    IN  /\ change_view(
             [r EXCEPT !.v = IF moved THEN [@ EXCEPT !.adopted = adopted]
                             ELSE [@ EXCEPT !.c = Copied(@), !.adopted = adopted, !.m_pEnd = n,
                                            !.m_pEOS = n + Size("thread") + Size("global")]])
        /\ values' = [key \in DOMAIN values \cup DOMAIN Adopted(adopted) |->
                        IF key \in DOMAIN values THEN values[key] ELSE Adopted(adopted)[key]]

destroy ==
  /\ view # {}
  /\ view' = {}
  /\ values' = <<>>
  /\ acquired' = [key \in Keys |-> 0]
  /\ UNCHANGED <<sets, contents>>

-----------------------------------------------------------------------------
Next ==
  \/ \E o \in Owners, key \in Keys, a \in Attributes : insert(o, key, a)
  \/ \E o \in Owners, key \in Keys : erase(o, key)
  \/ \E o \in Owners : clear(o)
  \/ \E o, from \in Owners : assign(o, from)
  \/ create \/ freeze \/ copy \/ destroy
  \/ \E moved \in BOOLEAN : create_from_values(moved)
  \/ \E key \in Keys : find_value(key)
  \/ \E key \in Keys : insert_value(key, <<"user", key>>)

Spec == Init /\ [][Next]_vars

-----------------------------------------------------------------------------
(* Properties *)

IsContainer(c) ==
  /\ DOMAIN c = {"nodes", "data", "first", "last"}
  /\ ToSet(c.nodes) \subseteq Keys /\ DOMAIN c.data \subseteq Keys
  /\ {c.first, c.last} \subseteq [0 .. BucketCount - 1 -> Keys \cup {NULL}]

TypeOK ==
  /\ DOMAIN sets = Owners /\ \A o \in Owners : IsContainer(sets[o])
  /\ \A v \in view : IsContainer(v.c) /\ v.m_pEnd \in 0 .. v.m_pEOS /\ v.inserts \in 0 .. MaxInserts
  /\ acquired \in [Keys -> Nat]

(* Iterating over the container and looking for each key find the pairs of map. *)
Holds(c, map) ==
  /\ Len(c.nodes) = Cardinality(DOMAIN map) /\ ToSet(c.nodes) = DOMAIN map
  /\ c.data = map
  /\ \A key \in Keys : find(c, key) <=> key \in DOMAIN map

(* attribute_set is the map its operations say: after insertions, erasures and *)
(* copies, lookups through the buckets and iteration agree with it.  A view    *)
(* has the values of the source, else of the thread, else of the core; what it *)
(* has acquired it does not acquire again.                                     *)
SetsMatchMaps ==
  /\ \A o \in Owners : Holds(sets[o], contents[o])
  /\ \A v \in view :
       /\ \A key \in Keys : acquired[key] <= 1
       /\ Holds(v.c, IF v.adopted = <<>> THEN values
                     ELSE [key \in ToSet(v.c.nodes) |-> values[key]])
=============================================================================
