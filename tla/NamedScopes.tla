------------------------------- MODULE NamedScopes -------------------------------
(***************************************************************************)
(* Stacks of named scopes: the list of a thread, whose entries live in the *)
(* scopes themselves, and the copies that records take of it when they are *)
(* passed to another thread, whose entries are allocated as one block.     *)
(* Lists are circular, doubly linked and hold their root node.             *)
(***************************************************************************)
EXTENDS Integers, SequencesExt

CONSTANTS Names,            \* names of scopes
          Copies,           \* named_scope_list objects other than the thread's
          Blocks,           \* blocks of memory that can be allocated
          MaxDepth          \* bound: scopes inside of each other

VARIABLES prev, next,       \* of every node
          name,             \* the scope that an entry names
          m_Size, m_fNeedToDeallocate,   \* of every list
          existing,         \* the copies that exist
          block,            \* per block: the number of entries allocated in it, or 0
          contents          \* history: what each list should hold

links == <<prev, next>>
listVars == <<m_Size, m_fNeedToDeallocate>>
vars == <<links, name, listVars, existing, block, contents>>

Thread == "thread"
Lists == Copies \cup {Thread}
root(l) == <<l, 0>>

(* The i-th entry in a block of memory, or on the thread's stack. *)
entry(b, i) == <<b, i>>
Nodes == {root(l) : l \in Lists} \cup (Blocks \cup {Thread}) \X (1 .. MaxDepth)

Init ==
  /\ prev = [n \in Nodes |-> n]
  /\ next = [n \in Nodes |-> n]
  /\ name = [n \in Nodes |-> "none"]
  /\ m_Size = [l \in Lists |-> 0]
  /\ m_fNeedToDeallocate = [l \in Lists |-> FALSE]
  /\ existing = {}
  /\ block = [b \in Blocks |-> 0]
  /\ contents = [l \in Lists |-> <<>>]

(* The entries from node n on, as iterators visit them up to the root, or     *)
(* until k are visited.                                                       *)
RECURSIVE Visit(_, _, _, _)
Visit(link, n, end, k) == IF n = end \/ k = 0 THEN <<>> ELSE <<n>> \o Visit(link, link[n], end, k - 1)

Forward(l) == Visit(next, next[root(l)], root(l), MaxDepth + 1)
Backward(l) == Visit(prev, prev[root(l)], root(l), MaxDepth + 1)
NamesOf(nodes) == [i \in DOMAIN nodes |-> name[nodes[i]]]

-----------------------------------------------------------------------------
(* The thread's own list *)

push_scope(scope) ==
  LET e == entry(Thread, m_Size[Thread] + 1)
      top == prev[root(Thread)]
  IN  /\ m_Size[Thread] < MaxDepth
      /\ prev' = [prev EXCEPT ![e] = top, ![root(Thread)] = e]
      /\ next' = [next EXCEPT ![e] = root(Thread), ![top] = e]
      /\ name' = [name EXCEPT ![e] = scope]
      /\ m_Size' = [m_Size EXCEPT ![Thread] = @ + 1]
      /\ contents' = [contents EXCEPT ![Thread] = Append(@, scope)]
      /\ UNCHANGED <<m_fNeedToDeallocate, existing, block>>

(* The entry on top goes with its scope. *)
pop_scope ==
  LET top == prev[root(Thread)]
  IN  /\ m_Size[Thread] > 0
      /\ next' = [next EXCEPT ![prev[top]] = next[top], ![top] = top]
      /\ prev' = [prev EXCEPT ![next[top]] = prev[top], ![top] = top]
      /\ name' = [name EXCEPT ![top] = "none"]
      /\ m_Size' = [m_Size EXCEPT ![Thread] = @ - 1]
      /\ contents' = [contents EXCEPT ![Thread] = Front(@)]
      /\ UNCHANGED <<m_fNeedToDeallocate, existing, block>>

-----------------------------------------------------------------------------
(* Copies.  A state of the memory is [prev, next, name, size, owns, block]. *)

Memory == [prev |-> prev, next |-> next, name |-> name, size |-> m_Size, owns |-> m_fNeedToDeallocate,
           block |-> block]

become(m) ==
  /\ prev' = m.prev /\ next' = m.next /\ name' = m.name
  /\ m_Size' = m.size /\ m_fNeedToDeallocate' = m.owns
  /\ block' = m.block

(* The copy constructor: the nodes of the copy are linked in the order in     *)
(* which the source is visited.                                               *)
copied(m, l, b, source) ==
  LET n == m.size[source]
      src == Visit(m.next, m.next[root(source)], root(source), n)
      node(i) == IF i \in 1 .. n THEN entry(b, i) ELSE root(l)
      own == {node(i) : i \in 0 .. n}
      index(x) == CHOOSE i \in 0 .. n : node(i) = x
  IN  [prev |-> [x \in Nodes |-> IF x \notin own THEN m.prev[x]
                                 ELSE IF x = root(l) THEN node(n) ELSE node(index(x) - 1)],
       next |-> [x \in Nodes |-> IF x \in own THEN node(index(x) + 1) ELSE m.next[x]],
       name |-> [x \in Nodes |-> IF x \in own \ {root(l)} THEN m.name[src[index(x)]] ELSE m.name[x]],
       size |-> [m.size EXCEPT ![l] = n],
       owns |-> [m.owns EXCEPT ![l] = n > 0],
       block |-> IF n > 0 THEN [m.block EXCEPT ![b] = n] ELSE m.block]

(* The destructor: a list that owns its entries frees m_Size of them from the *)
(* first on.                                                                  *)
destroyed(m, l) ==
  LET freed == IF m.owns[l] THEN {entry(m.next[root(l)][1], i) : i \in 1 .. m.size[l]} ELSE {}
      gone == freed \cup {root(l)}
  IN  [prev |-> [x \in Nodes |-> IF x \in gone THEN x ELSE m.prev[x]],
       next |-> [x \in Nodes |-> IF x \in gone THEN x ELSE m.next[x]],
       name |-> [x \in Nodes |-> IF x \in freed THEN "none" ELSE m.name[x]],
       size |-> [m.size EXCEPT ![l] = 0],
       owns |-> [m.owns EXCEPT ![l] = FALSE],
       block |-> IF m.owns[l] THEN [m.block EXCEPT ![m.next[root(l)][1]] = 0] ELSE m.block]

Swapped(f, x, y) == [f EXCEPT ![x] = f[y], ![y] = f[x]]

(* Faulty variant: the last entry still leads to the root it had. *)
moved_root(m, l, k) ==
  [m EXCEPT !.prev = [@ EXCEPT ![m.next[root(l)]] = root(k), ![root(k)] = m.prev[root(l)], ![root(l)] = root(l)],
            !.next = [@ EXCEPT ![root(k)] = m.next[root(l)], ![root(l)] = root(l)]]

(* swap, with list l not empty and list k empty. *)
moved(m, l, k) ==
  [m EXCEPT !.prev = [@ EXCEPT ![m.next[root(l)]] = root(k), ![root(k)] = m.prev[root(l)], ![root(l)] = root(l)],
            !.next = [@ EXCEPT ![m.prev[root(l)]] = root(k), ![root(k)] = m.next[root(l)], ![root(l)] = root(l)]]

(* swap, with neither list empty: first the entries at the ends, then the     *)
(* roots.                                                                     *)
exchanged(m, l, k) ==
  [m EXCEPT !.prev = Swapped(Swapped(@, m.next[root(l)], m.next[root(k)]), root(l), root(k)),
            !.next = Swapped(Swapped(@, m.prev[root(l)], m.prev[root(k)]), root(l), root(k))]

swapped(m, l, k) ==
  LET linked == IF m.size[l] > 0 /\ m.size[k] > 0 THEN exchanged(m, l, k)
                ELSE IF m.size[l] > 0 THEN moved(m, l, k)
                ELSE IF m.size[k] > 0 THEN moved(m, k, l)
                ELSE m
  IN  [linked EXCEPT !.size = Swapped(@, l, k), !.owns = Swapped(@, l, k)]

FreeBlock == CHOOSE b \in Blocks : block[b] = 0

(* The copy constructor, as in detach_from_thread of the attribute value. *)
copy(l, source) ==
  /\ l \in Copies \ existing /\ source \in existing \cup {Thread}
  /\ become(copied(Memory, l, FreeBlock, source))
  /\ existing' = existing \cup {l}
  /\ contents' = [contents EXCEPT ![l] = contents[source]]

(* operator=: a copy is swapped in. *)
assign(l, source) ==
  /\ l \in existing /\ source \in (existing \cup {Thread}) \ {l}
  /\ \E tmp \in Copies \ existing :
       become(destroyed(swapped(copied(Memory, tmp, FreeBlock, source), l, tmp), tmp))
  /\ contents' = [contents EXCEPT ![l] = contents[source]]
  /\ UNCHANGED existing

swap(l, k) ==
  /\ l \in existing /\ k \in existing \ {l}
  /\ become(swapped(Memory, l, k))
  /\ contents' = Swapped(contents, l, k)
  /\ UNCHANGED existing

destroy(l) ==
  /\ l \in existing
  /\ become(destroyed(Memory, l))
  /\ existing' = existing \ {l}
  /\ contents' = [contents EXCEPT ![l] = <<>>]

Next ==
  \/ \E scope \in Names : push_scope(scope)
  \/ pop_scope
  \/ \E l \in Copies :
       \/ \E source \in Lists : copy(l, source) \/ assign(l, source)
       \/ \E k \in Copies : swap(l, k)
       \/ destroy(l)

Spec == Init /\ [][Next]_vars

-----------------------------------------------------------------------------
(* Properties *)

(* Every list, visited in either direction, holds the scopes it should: those *)
(* the thread is in, or was in when the copy was taken.  A list that owns its *)
(* entries has the first of a block, and the number it frees is the number    *)
(* that was allocated; no block is owned twice, and none is lost.             *)
ScopesMatch ==
  /\ \A l \in existing \cup {Thread} :
       /\ NamesOf(Forward(l)) = contents[l]
       /\ Backward(l) = Reverse(Forward(l))
       /\ m_Size[l] = Len(contents[l])
  /\ \A b \in Blocks :
       block[b] = Cardinality({l \in existing : m_fNeedToDeallocate[l] /\ next[root(l)] = entry(b, 1)
                                               /\ m_Size[l] = block[b]}) * block[b]
  /\ \A l \in Lists : m_fNeedToDeallocate[l] => l \in existing /\ next[root(l)][2] = 1
=============================================================================
