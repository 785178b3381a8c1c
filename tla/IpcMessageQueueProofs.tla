------------------------- MODULE IpcMessageQueueProofs -------------------------
(***************************************************************************)
(* Three theorems about ipc::reliable_message_queue on POSIX, for any      *)
(* number of threads and processes, any capacity, block size and lengths:  *)
(* the ring holds the pending messages, the queue implements a channel,    *)
(* and no wake-up is lost.                                                 *)
(*                                                                         *)
(* The inductive invariant has a part about where the threads are          *)
(* (Control), one about the ring at each stage of a critical section       *)
(* (RingInv) and one about the threads asleep (Asleep).  Every step of a   *)
(* thread is first reduced to one of twelve effects (Effects), and the     *)
(* parts are then shown to be kept effect by effect.                       *)
(*                                                                         *)
(* The first half is about the arithmetic of the ring: a message that is   *)
(* copied into it is read back whole, messages in different blocks leave   *)
(* each other alone, and the ring still holds a sequence of messages when  *)
(* one is added at its end or its first one is removed.                    *)
(***************************************************************************)
EXTENDS IpcMessageQueue, SequenceTheorems, WellFoundedInduction, TLAPS

(* The provers, with their limits in seconds, for the leaves that name none.  *)
USE ZenonT(10), SMTT(30)

(* The arithmetic of sizes and positions does not wrap around. *)
NoOverflow ==
  /\ Capacity * BlockSize <= WordModulus
  /\ \A n \in Lengths : n + HeaderOverhead + BlockSize - 1 < WordModulus

-----------------------------------------------------------------------------
(* Arithmetic *)

(* A cell lies in exactly one block.                                          *)
LEMMA DivBounds ==
  ASSUME NEW x \in Nat, NEW b \in Nat \ {0}
  PROVE  x \div b \in Nat /\ (x \div b) * b <= x /\ x < (x \div b + 1) * b
  OBVIOUS

(* The remainder of a position that ran past the end of the ring once.        *)
LEMMA ModOnce ==
  ASSUME NEW x \in Nat, NEW m \in Nat \ {0}, x < m + m
  PROVE  x % m = IF x < m THEN x ELSE x - m
  OBVIOUS

(* Products are monotonic.                                                    *)
LEMMA Products ==
  ASSUME NEW a \in Nat, NEW b \in Nat, NEW m \in Nat
  PROVE  /\ a * m \in Nat
         /\ (a + b) * m = a * m + b * m
         /\ a <= b => a * m <= b * m
         /\ a < b => a * m + m <= b * m
  OBVIOUS

-----------------------------------------------------------------------------
(* The layout of messages *)

(* estimate_block_count takes the least number of blocks that hold a message  *)
(* and its header.                                                            *)
LEMMA BlockCount ==
  ASSUME NEW n \in Nat, n + HeaderOverhead + BlockSize - 1 < WordModulus
  PROVE  /\ estimate_block_count(n) \in Nat
         /\ estimate_block_count(n) >= 1
         /\ n + HeaderOverhead <= estimate_block_count(n) * BlockSize
  <1> DEFINE x == n + HeaderOverhead + BlockSize - 1
             k == estimate_block_count(n)
  <1>1. x \in Nat /\ BlockSize \in Nat \ {0} /\ WordModulus \in Nat /\ HeaderOverhead \in Nat
        /\ HeaderOverhead >= 1
    BY LayoutAssumption
  <1>2. k = x \div BlockSize
    <2>1. x % WordModulus = x
      BY <1>1
    <2> QED BY <2>1 DEF estimate_block_count
  <1>3. k \in Nat /\ x < (k + 1) * BlockSize
    BY <1>1, <1>2, DivBounds
  <1>4. (k + 1) * BlockSize = k * BlockSize + BlockSize /\ k * BlockSize \in Nat
    BY <1>1, <1>3, Products, SMTT(30)
  <1>5. n + HeaderOverhead <= k * BlockSize
    BY <1>1, <1>3, <1>4
  <1>6. k # 0
    BY <1>1, <1>5
  <1> QED BY <1>3, <1>5, <1>6

(* A message is split at the end of the ring: its first part ends with the    *)
(* ring or with the message, and the rest fits before its own first block.    *)
LEMMA Split ==
  ASSUME NoOverflow, NEW pos \in 0 .. Capacity - 1, NEW n \in Nat, NEW k \in 1 .. Capacity,
         n + HeaderOverhead <= k * BlockSize
  PROVE  LET first == first_part(pos, n)
         IN  /\ first \in 0 .. n
             /\ get_block(pos) \in Nat
             /\ get_data(pos) + first <= Capacity * BlockSize
             /\ get_data(pos) + first <= (pos + k) * BlockSize
             /\ first = n \/ pos + k > Capacity
             /\ pos + k > Capacity => n - first <= (pos + k - Capacity) * BlockSize
             /\ n - first <= get_block(pos)
             /\ (IF wraps(pos, k) THEN n - first ELSE 0) = n - first
  <1> DEFINE room == (Capacity - pos) * BlockSize - HeaderOverhead
  <1>1. /\ Capacity \in Nat \ {0} /\ BlockSize \in Nat \ {0} /\ HeaderOverhead \in 1 .. BlockSize
        /\ WordModulus \in Nat \ {0} /\ pos \in Nat /\ k \in Nat
    BY LayoutAssumption
  <1>2. PICK a \in Nat, c \in Nat, kb \in Nat :
          a = pos * BlockSize /\ c = Capacity * BlockSize /\ kb = k * BlockSize
    BY <1>1, Products
  <1>3. (Capacity - pos) * BlockSize = c - a /\ c - a >= BlockSize
    <2>1. Capacity - pos \in Nat /\ Capacity = (Capacity - pos) + pos /\ 1 <= Capacity - pos
      BY <1>1
    <2>2. Capacity * BlockSize = (Capacity - pos) * BlockSize + pos * BlockSize
      BY <1>1, <2>1, Products, SMTT(30)
    <2>3. 1 * BlockSize <= (Capacity - pos) * BlockSize /\ (Capacity - pos) * BlockSize \in Nat
      BY <1>1, <2>1, Products
    <2> QED BY <1>1, <1>2, <2>2, <2>3
  <1>4. (pos + k) * BlockSize = a + kb
    BY <1>1, <1>2, Products, SMTT(30)
  <1>5. pos + k > Capacity => (pos + k - Capacity) * BlockSize = a + kb - c
    <2> SUFFICES ASSUME pos + k > Capacity PROVE (pos + k - Capacity) * BlockSize = a + kb - c
      OBVIOUS
    <2>1. pos + k - Capacity \in Nat /\ pos + k = (pos + k - Capacity) + Capacity
      BY <1>1
    <2>2. PICK d \in Nat : d = (pos + k - Capacity) * BlockSize
      BY <1>1, <2>1, Products
    <2>3. (pos + k) * BlockSize = d + c
      BY <1>1, <1>2, <2>1, <2>2, Products, SMTT(30)
    <2>4. a + kb = d + c
      BY <1>4, <2>3
    <2> QED BY <2>2, <2>4
  <1>6. kb <= c /\ (pos + k <= Capacity => a + kb <= c)
    <2>1. kb <= c
      BY <1>1, <1>2, Products, SMTT(30)
    <2>2. pos + k <= Capacity => (pos + k) * BlockSize <= c
      BY <1>1, <1>2, Products, SMTT(30)
    <2> QED BY <1>4, <2>1, <2>2
  <1>7. room = c - a - HeaderOverhead /\ room \in Nat /\ room < WordModulus
    BY <1>1, <1>2, <1>3 DEF NoOverflow
  <1>8. room % WordModulus = room
    BY <1>1, <1>7
  <1>9. first_part(pos, n) = IF room < n THEN room ELSE n
    BY <1>8 DEF first_part
  <1>10. get_block(pos) = a /\ get_data(pos) = a + HeaderOverhead
    BY <1>2 DEF get_block, get_data
  <1> QED BY <1>1, <1>2, <1>4, <1>5, <1>6, <1>7, <1>9, <1>10 DEF wraps

(* The cells that a message of length n takes from block pos on. *)
Used(pos, n) ==
  LET first == first_part(pos, n)
  IN  {get_block(pos)} \cup (get_data(pos) .. get_data(pos) + first - 1) \cup (0 .. n - first - 1)

(* The message is stored in mem, from block pos on. *)
Stored(mem, pos, message) ==
  LET n == Len(message)
      first == first_part(pos, n)
  IN  /\ mem[get_block(pos)].unit = n
      /\ \A i \in 1 .. first : mem[get_data(pos) + i - 1] = message[i]
      /\ \A i \in 1 .. n - first : mem[i - 1] = message[first + i]

(* The blocks that k blocks from pos on take in the ring. *)
Ring(pos, k) == {(pos + j) % Capacity : j \in 0 .. k - 1}

(* A message that send accepts. *)
Sendable == {m \in AllMessages : estimate_block_count(Len(m)) <= Capacity}

(* The cells of a message lie in its blocks.                                  *)
LEMMA UsedBlocks ==
  ASSUME NoOverflow, NEW pos \in 0 .. Capacity - 1, NEW n \in Nat, NEW k \in 1 .. Capacity,
         n + HeaderOverhead <= k * BlockSize, NEW c \in Used(pos, n)
  PROVE  c \in Cells /\ c \div BlockSize \in Ring(pos, k)
  <1> DEFINE first == first_part(pos, n)
             b == c \div BlockSize
  <1>1. /\ Capacity \in Nat \ {0} /\ BlockSize \in Nat \ {0} /\ HeaderOverhead \in 1 .. BlockSize
        /\ pos \in Nat /\ k \in Nat
    BY LayoutAssumption
  <1>2. /\ first \in 0 .. n
        /\ get_block(pos) \in Nat
        /\ get_data(pos) + first <= Capacity * BlockSize
        /\ get_data(pos) + first <= (pos + k) * BlockSize
        /\ first = n \/ pos + k > Capacity
        /\ pos + k > Capacity => n - first <= (pos + k - Capacity) * BlockSize
        /\ n - first <= get_block(pos)
    BY Split
  <1>3. get_data(pos) = get_block(pos) + HeaderOverhead /\ get_block(pos) = pos * BlockSize
    BY DEF get_data, get_block
  <1>4. Capacity * BlockSize \in Nat /\ (pos + k) * BlockSize \in Nat
    BY <1>1, Products, SMTT(30)
  <1>5. c \in Nat /\ c < Capacity * BlockSize
    BY <1>1, <1>2, <1>3, <1>4 DEF Used
  <1>6. b \in Nat /\ b * BlockSize <= c /\ c < (b + 1) * BlockSize
    BY <1>1, <1>5, DivBounds
  <1>7. ASSUME NEW d \in Nat, c < d * BlockSize PROVE b < d
    <2>1. d <= b => d * BlockSize <= b * BlockSize /\ d * BlockSize \in Nat /\ b * BlockSize \in Nat
      BY <1>1, <1>6, Products
    <2> QED BY <1>5, <1>6, <1>7, <2>1
  <1>8. b < Capacity
    BY <1>1, <1>5, <1>7
  <1>9. CASE c >= get_block(pos)
    <2>1. c < (pos + k) * BlockSize
      BY <1>1, <1>2, <1>3, <1>4, <1>5, <1>9 DEF Used
    <2>2. b < pos + k
      BY <1>1, <2>1, <1>7
    <2>3. pos <= b
      <3>1. pos * BlockSize < (b + 1) * BlockSize
        BY <1>1, <1>2, <1>3, <1>5, <1>6, <1>9, Products, SMTT(30)
      <3>2. b + 1 <= pos => (b + 1) * BlockSize <= pos * BlockSize
        BY <1>1, <1>6, Products, SMTT(30)
      <3>3. (b + 1) * BlockSize \in Nat /\ pos * BlockSize \in Nat
        BY <1>1, <1>6, Products, SMTT(30)
      <3> QED BY <1>1, <1>6, <3>1, <3>2, <3>3
    <2>4. b - pos \in 0 .. k - 1 /\ (pos + (b - pos)) % Capacity = b
      BY <1>1, <1>6, <1>8, <2>2, <2>3
    <2> QED BY <1>5, <1>4, <2>4 DEF Ring, Cells
  <1>10. CASE c < get_block(pos)
    <2>1. c < n - first /\ pos + k > Capacity
      BY <1>1, <1>2, <1>3, <1>5, <1>10 DEF Used
    <2>2. pos + k - Capacity \in Nat /\ (pos + k - Capacity) * BlockSize \in Nat
      BY <1>1, <2>1, Products, SMTT(30)
    <2>3. b < pos + k - Capacity
      BY <1>2, <1>5, <1>7, <2>1, <2>2
    <2>4. b + Capacity - pos \in 0 .. k - 1 /\ (pos + (b + Capacity - pos)) % Capacity = b
      <3>1. pos + (b + Capacity - pos) = b + Capacity /\ b + Capacity \in Nat
            /\ b + Capacity < Capacity + Capacity
        BY <1>1, <1>6, <1>8
      <3>2. (b + Capacity) % Capacity = b
        BY <1>1, <1>6, <3>1, ModOnce, SMTT(30)
      <3> QED BY <1>1, <1>6, <2>3, <3>1, <3>2
    <2> QED BY <1>5, <1>4, <2>4 DEF Ring, Cells
  <1> QED BY <1>2, <1>5, <1>9, <1>10

(* Going around the ring in two steps is going around it in one.              *)
LEMMA Around ==
  ASSUME NEW g \in 0 .. Capacity - 1, NEW o \in Nat, NEW j \in Nat, o + j <= Capacity
  PROVE  /\ (((g + o) % Capacity) + j) % Capacity = (g + (o + j)) % Capacity
         /\ (g + o) % Capacity \in 0 .. Capacity - 1
         /\ (g + o) % Capacity = IF g + o < Capacity THEN g + o ELSE g + o - Capacity
  <1>1. Capacity \in Nat \ {0} /\ g \in Nat /\ g < Capacity
    BY LayoutAssumption
  <1>2. \A x \in Nat : x < Capacity + Capacity =>
          x % Capacity = IF x < Capacity THEN x ELSE x - Capacity
    BY <1>1, ModOnce
  <1>3. (g + o) % Capacity = IF g + o < Capacity THEN g + o ELSE g + o - Capacity
    BY <1>1, <1>2, SMTT(30)
  <1>4. (g + (o + j)) % Capacity = IF g + (o + j) < Capacity THEN g + (o + j)
                                                           ELSE g + (o + j) - Capacity
    BY <1>1, <1>2, SMTT(30)
  <1>5. CASE g + o < Capacity
    <2>1. ((g + o) % Capacity) + j = g + (o + j)
      BY <1>1, <1>3, <1>5
    <2> QED BY <1>1, <1>3, <1>5, <2>1
  <1>6. CASE g + o >= Capacity
    <2>1. ((g + o) % Capacity) + j = g + (o + j) - Capacity /\ g + (o + j) - Capacity \in 0 .. Capacity - 1
      BY <1>1, <1>3, <1>6
    <2>2. (((g + o) % Capacity) + j) % Capacity = g + (o + j) - Capacity
      BY <1>1, <1>2, <2>1, SMTT(30)
    <2> QED BY <1>1, <1>3, <1>4, <1>6, <2>2
  <1> QED BY <1>1, <1>5, <1>6

(* The blocks of two messages that follow each other in the ring are          *)
(* different blocks.                                                          *)
LEMMA DisjointBlocks ==
  ASSUME NEW g \in 0 .. Capacity - 1, NEW o1 \in Nat, NEW k1 \in Nat, NEW o2 \in Nat,
         NEW k2 \in Nat, o1 + k1 <= o2, o2 + k2 <= Capacity
  PROVE  Ring((g + o1) % Capacity, k1) \cap Ring((g + o2) % Capacity, k2) = {}
  <1>1. Capacity \in Nat \ {0} /\ g \in Nat /\ g < Capacity
    BY LayoutAssumption
  <1>2. ASSUME NEW i \in 0 .. k1 - 1, NEW j \in 0 .. k2 - 1,
               (((g + o1) % Capacity) + i) % Capacity = (((g + o2) % Capacity) + j) % Capacity
        PROVE  FALSE
    <2>1. /\ (((g + o1) % Capacity) + i) % Capacity = (g + (o1 + i)) % Capacity
          /\ (((g + o2) % Capacity) + j) % Capacity = (g + (o2 + j)) % Capacity
      <3>1. i \in Nat /\ j \in Nat /\ o1 + i <= Capacity /\ o2 + j <= Capacity
        BY <1>1
      <3> QED BY <3>1, Around
    <2>2. PICK x \in Nat, y \in Nat : x = o1 + i /\ y = o2 + j /\ x < y /\ y < Capacity
      BY <1>1
    <2>3. /\ (g + x) % Capacity = IF g + x < Capacity THEN g + x ELSE g + x - Capacity
          /\ (g + y) % Capacity = IF g + y < Capacity THEN g + y ELSE g + y - Capacity
      <3>1. 0 \in Nat /\ x + 0 <= Capacity /\ y + 0 <= Capacity
        BY <1>1, <2>2
      <3> QED BY <3>1, Around
    <2> QED BY <1>1, <1>2, <2>1, <2>2, <2>3
  <1> QED BY <1>2 DEF Ring

(* What send accepts is a message of a length that fits into the ring.        *)
LEMMA SendableMessage ==
  ASSUME NoOverflow, NEW m \in Sendable
  PROVE  /\ Len(m) \in Nat /\ DOMAIN m = 1 .. Len(m)
         /\ m \in Seq({m[i] : i \in 1 .. Len(m)})
         /\ estimate_block_count(Len(m)) \in 1 .. Capacity
         /\ Len(m) + HeaderOverhead <= estimate_block_count(Len(m)) * BlockSize
  <1>1. PICK t \in Writers, n \in 1 .. MaxCalls, length \in Lengths : m = Message(t, n, length)
    BY DEF Sendable, AllMessages
  <1>2. length \in Nat /\ length + HeaderOverhead + BlockSize - 1 < WordModulus
    BY BoundsAssumption DEF NoOverflow
  <1>3. DOMAIN m = 1 .. length /\ m = [i \in 1 .. length |-> m[i]]
    BY <1>1 DEF Message
  <1>4. m \in [1 .. length -> {m[i] : i \in 1 .. length}]
    BY <1>3
  <1>5. m \in Seq({m[i] : i \in 1 .. length})
    BY <1>2, <1>4, SeqDef
  <1>6. Len(m) = length
    BY <1>2, <1>3, <1>5, LenProperties
  <1>7. estimate_block_count(length) <= Capacity
    BY <1>6 DEF Sendable
  <1> QED BY <1>2, <1>3, <1>5, <1>6, <1>7, BlockCount, LayoutAssumption, SMTT(30)

(* A message that is stored in the ring is read back whole.                   *)
LEMMA ReadBack ==
  ASSUME NoOverflow, NEW pos \in 0 .. Capacity - 1, NEW m \in Sendable, Stored(memory, pos, m)
  PROVE  copy_out(pos) = m
  <1> DEFINE n == Len(m)
             S == {m[i] : i \in 1 .. n}
             k == estimate_block_count(n)
             first == first_part(pos, n)
             a == [i \in 1 .. first |-> memory[get_data(pos) + i - 1]]
             b == [i \in 1 .. n - first |-> memory[get_block(0) + i - 1]]
  <1>1. n \in Nat /\ m \in Seq(S) /\ k \in 1 .. Capacity /\ n + HeaderOverhead <= k * BlockSize
    BY SendableMessage
  <1>2. first \in 0 .. n /\ (IF wraps(pos, k) THEN n - first ELSE 0) = n - first
    BY <1>1, Split
  <1>3. /\ memory[get_block(pos)].unit = n
        /\ \A i \in 1 .. first : memory[get_data(pos) + i - 1] = m[i]
        /\ \A i \in 1 .. n - first : memory[i - 1] = m[first + i]
    BY DEF Stored
  <1>4. copy_out(pos) = a \o b
    BY <1>2, <1>3 DEF copy_out
  <1>5. get_block(0) = 0
    BY LayoutAssumption DEF get_block
  <1>6. \A i \in 1 .. n - first : get_block(0) + i - 1 = i - 1
    BY <1>1, <1>2, <1>5
  <1>7. a = [i \in 1 .. first |-> m[i]] /\ b = [i \in 1 .. n - first |-> m[first + i]]
    BY <1>3, <1>6
  <1> HIDE DEF first, n, k, a, b, S
  <1>8. a \in [1 .. first -> S] /\ b \in [1 .. n - first -> S]
    <2>1. (\A i \in 1 .. first : i \in 1 .. n) /\ \A i \in 1 .. n - first : first + i \in 1 .. n
      BY <1>1, <1>2
    <2>2. \A i \in 1 .. n : m[i] \in S
      BY DEF S
    <2>3. (\A i \in 1 .. first : m[i] \in S) /\ \A i \in 1 .. n - first : m[first + i] \in S
      BY <2>1, <2>2
    <2> QED BY <1>7, <2>3
  <1>9. a \in Seq(S) /\ b \in Seq(S) /\ Len(a) = first /\ Len(b) = n - first
    <2>1. first \in Nat /\ n - first \in Nat
      BY <1>1, <1>2
    <2>2. a \in Seq(S) /\ b \in Seq(S)
      BY <1>8, <2>1, SeqDef
    <2>3. DOMAIN a = 1 .. first /\ DOMAIN b = 1 .. n - first
      BY <1>7
    <2> QED BY <2>1, <2>2, <2>3, LenProperties
  <1>10. Len(a \o b) = Len(m) /\ a \o b \in Seq(S)
    <2>1. a \o b \in Seq(S) /\ Len(a \o b) = Len(a) + Len(b)
      BY <1>9, ConcatProperties
    <2> QED BY <1>1, <1>2, <1>9, <2>1 DEF n
  <1>11. ASSUME NEW i \in 1 .. Len(a \o b) PROVE (a \o b)[i] = m[i]
    <2>1. i \in 1 .. n
      BY <1>10 DEF n
    <2>2. (a \o b)[i] = IF i <= first THEN a[i] ELSE b[i - first]
      BY <1>1, <1>2, <1>9, <2>1, ConcatProperties, SMTT(30)
    <2>3. CASE i <= first
      BY <1>1, <1>2, <1>7, <2>1, <2>2, <2>3
    <2>4. CASE ~(i <= first)
      <3>1. i - first \in 1 .. n - first /\ first + (i - first) = i
        BY <1>1, <1>2, <2>1, <2>4
      <3> QED BY <1>7, <2>2, <2>4, <3>1
    <2> QED BY <2>3, <2>4
  <1>12. a \o b = m
    BY <1>1, <1>10, <1>11, SeqEqual
  <1> QED BY <1>4, <1>12

(* enqueue_message stores the message, and writes to its own cells only.      *)
LEMMA CopyIn ==
  ASSUME NoOverflow, NEW pos \in 0 .. Capacity - 1, NEW m \in Sendable
  PROVE  /\ Stored(copy_in(pos, m), pos, m)
         /\ \A c \in Cells \ Used(pos, Len(m)) : copy_in(pos, m)[c] = memory[c]
  <1> DEFINE n == Len(m)
             k == estimate_block_count(n)
             first == first_part(pos, n)
             mem == copy_in(pos, m)
  <1>1. n \in Nat /\ k \in 1 .. Capacity /\ n + HeaderOverhead <= k * BlockSize
    BY SendableMessage
  <1>2. /\ first \in 0 .. n
        /\ get_block(pos) \in Nat
        /\ get_data(pos) + first <= Capacity * BlockSize
        /\ n - first <= get_block(pos)
        /\ (IF wraps(pos, k) THEN n - first ELSE 0) = n - first
    BY <1>1, Split
  <1>3. get_data(pos) = get_block(pos) + HeaderOverhead /\ HeaderOverhead \in Nat \ {0}
        /\ Capacity * BlockSize \in Nat
    BY LayoutAssumption, Products, SMTT(30) DEF get_data
  <1>4. mem = [c \in Cells |->
                 CASE c < n - first -> m[first + c + 1]
                   [] c >= n - first /\ c \in get_data(pos) .. get_data(pos) + first - 1 ->
                        m[c - get_data(pos) + 1]
                   [] c >= n - first /\ c = get_block(pos) -> SizeCell(n)
                   [] OTHER -> memory[c]]
    BY <1>2 DEF copy_in
  <1> HIDE DEF first, n, k, mem
  <1>5. mem[get_block(pos)] = SizeCell(n)
    <2>1. /\ get_block(pos) \in Cells /\ ~(get_block(pos) < n - first)
          /\ get_block(pos) >= n - first
          /\ get_block(pos) \notin get_data(pos) .. get_data(pos) + first - 1
      BY <1>1, <1>2, <1>3 DEF Cells
    <2> QED BY <1>4, <2>1
  <1>6. ASSUME NEW i \in 1 .. first PROVE mem[get_data(pos) + i - 1] = m[i]
    <2>1. PICK c \in Nat : c = get_data(pos) + i - 1
      BY <1>1, <1>2, <1>3
    <2>2. c \in Cells /\ ~(c < n - first) /\ c >= n - first
          /\ c \in get_data(pos) .. get_data(pos) + first - 1 /\ c - get_data(pos) + 1 = i
          /\ c # get_block(pos)
      BY <1>1, <1>2, <1>3, <2>1 DEF Cells
    <2> QED BY <1>4, <2>1, <2>2
  <1>7. ASSUME NEW i \in 1 .. n - first PROVE mem[i - 1] = m[first + i]
    <2>1. PICK c \in Nat : c = i - 1
      BY <1>1, <1>2
    <2>2. c \in Cells /\ c < n - first /\ ~(c >= n - first) /\ first + c + 1 = first + i
      BY <1>1, <1>2, <1>3, <2>1 DEF Cells
    <2> QED BY <1>4, <2>1, <2>2
  <1>8. ASSUME NEW c \in Cells \ Used(pos, n) PROVE mem[c] = memory[c]
    <2>1. /\ ~(c < n - first) /\ c \notin get_data(pos) .. get_data(pos) + first - 1
          /\ c # get_block(pos)
      BY <1>1, <1>2, <1>3, <1>8 DEF Used, Cells, first
    <2> QED BY <1>4, <2>1
  <1>9. mem[get_block(pos)].unit = n
    BY <1>5 DEF SizeCell
  <1>10. Stored(mem, pos, m)
    BY <1>6, <1>7, <1>9 DEF Stored, first, n
  <1> QED BY <1>8, <1>10 DEF n, mem

(* Storing a message leaves the messages in other blocks alone.               *)
LEMMA Untouched ==
  ASSUME NoOverflow, NEW pos \in 0 .. Capacity - 1, NEW m \in Sendable,
         NEW at \in 0 .. Capacity - 1, NEW other \in Sendable,
         Ring(at, estimate_block_count(Len(other))) \cap Ring(pos, estimate_block_count(Len(m))) = {},
         Stored(memory, at, other)
  PROVE  Stored(copy_in(pos, m), at, other)
  <1>1. ASSUME NEW c \in Used(at, Len(other)) PROVE copy_in(pos, m)[c] = memory[c]
    <2>1. c \in Cells /\ c \div BlockSize \in Ring(at, estimate_block_count(Len(other)))
      BY SendableMessage, UsedBlocks
    <2>2. c \notin Used(pos, Len(m))
      BY <2>1, SendableMessage, UsedBlocks
    <2> QED BY <2>1, <2>2, CopyIn
  <1> DEFINE n == Len(other)
             first == first_part(at, n)
  <1>2. n \in Nat /\ first \in 0 .. n /\ get_data(at) \in Nat
    <2>1. n \in Nat /\ first \in 0 .. n /\ get_block(at) \in Nat
      BY SendableMessage, Split
    <2> QED BY <2>1, LayoutAssumption, SMTT(30) DEF get_data
  <1>3. /\ get_block(at) \in Used(at, n)
        /\ \A i \in 1 .. first : get_data(at) + i - 1 \in Used(at, n)
        /\ \A i \in 1 .. n - first : i - 1 \in Used(at, n)
    BY <1>2 DEF Used
  <1> QED BY <1>1, <1>3 DEF Stored

-----------------------------------------------------------------------------
(* The blocks of the messages in a queue *)

(* Induction on natural numbers, with the property as a set.                  *)
LEMMA SetInduction ==
  ASSUME NEW T, 0 \in T, \A n \in Nat : n \in T => n + 1 \in T
  PROVE  Nat \subseteq T
  <1> SUFFICES ASSUME Nat \ T # {} PROVE FALSE
    OBVIOUS
  <1> DEFINE R == OpToRel(<, Nat)
  <1>1. IsWellFoundedOn(R, Nat)
    BY NatLessThanWellFounded
  <1>2. \A x, y \in Nat : y < x => <<y, x>> \in R
    BY DEF OpToRel
  <1> HIDE DEF R
  <1>3. PICK x \in Nat \ T : \A y \in Nat \ T : ~ (<<y, x>> \in R)
    BY <1>1, WFMin
  <1>4. x - 1 \in Nat /\ x - 1 < x
    BY <1>3
  <1>5. x - 1 \in T
    BY <1>2, <1>3, <1>4
  <1>6. (x - 1) + 1 \in T
    BY <1>4, <1>5
  <1>7. (x - 1) + 1 = x
    BY <1>3
  <1> QED BY <1>3, <1>6, <1>7

(* The function that BlocksBefore defines. *)
CountsBlocks(f, q) ==
  f = [i \in 0 .. Len(q) |-> IF i = 0 THEN 0 ELSE f[i - 1] + estimate_block_count(Len(q[i]))]

(* Blocks can be counted from the first message on.                           *)
LEMMA BlocksExist ==
  ASSUME NEW q \in Seq(Sendable)
  PROVE  CountsBlocks(BlocksBefore(q), q)
  <1> DEFINE w(i) == estimate_block_count(Len(q[i]))
             Good(f, n) == f = [i \in 0 .. n |-> IF i = 0 THEN 0 ELSE f[i - 1] + w(i)]
             T == {n \in Nat : \E f : Good(f, n)}
  <1>1. 0 \in T
    <2>1. Good([i \in 0 .. 0 |-> 0], 0)
      OBVIOUS
    <2> QED BY <2>1
  <1>2. ASSUME NEW n \in Nat, n \in T PROVE n + 1 \in T
    <2>1. PICK f : f = [i \in 0 .. n |-> IF i = 0 THEN 0 ELSE f[i - 1] + w(i)]
      BY <1>2
    <2> DEFINE g == [i \in 0 .. n + 1 |-> IF i = n + 1 THEN f[n] + w(n + 1) ELSE f[i]]
    <2>2. ASSUME NEW i \in 0 .. n + 1 PROVE g[i] = IF i = 0 THEN 0 ELSE g[i - 1] + w(i)
      <3> HIDE DEF w
      <3>1. CASE i = n + 1
        <4>1. n \in 0 .. n + 1 /\ n # n + 1 /\ i - 1 = n /\ i # 0
          BY <3>1
        <4> QED BY <3>1, <4>1
      <3>2. CASE i # n + 1 /\ i # 0
        <4>1. i \in 0 .. n /\ i - 1 \in 0 .. n + 1 /\ i - 1 # n + 1
          BY <3>2
        <4> QED BY <2>1, <3>2, <4>1
      <3>3. CASE i = 0
        <4>1. i \in 0 .. n /\ i # n + 1
          BY <3>3
        <4> QED BY <2>1, <3>3, <4>1
      <3> QED BY <3>1, <3>2, <3>3
    <2>3. Good(g, n + 1)
      BY <2>2
    <2>4. n + 1 \in Nat
      OBVIOUS
    <2> QED BY <2>3, <2>4
  <1>3. Len(q) \in T
    BY <1>1, <1>2, SetInduction, LenProperties
  <1>4. PICK f : Good(f, Len(q))
    BY <1>3
  <1>5. BlocksBefore(q) = CHOOSE b : b = [i \in 0 .. Len(q) |->
                                            IF i = 0 THEN 0 ELSE b[i - 1] + w(i)]
    BY DEF BlocksBefore
  <1> QED BY <1>4, <1>5 DEF CountsBlocks

(* The counts are numbers, and they grow with every message.                  *)
LEMMA BlocksGrow ==
  ASSUME NoOverflow, NEW q \in Seq(Sendable)
  PROVE  /\ BlocksBefore(q)[0] = 0
         /\ \A i \in 0 .. Len(q) : BlocksBefore(q)[i] \in Nat
         /\ \A i \in 1 .. Len(q) :
              BlocksBefore(q)[i] = BlocksBefore(q)[i - 1] + estimate_block_count(Len(q[i]))
         /\ \A i, j \in 0 .. Len(q) : i <= j => BlocksBefore(q)[i] <= BlocksBefore(q)[j]
  <1> DEFINE f == BlocksBefore(q)
             w(i) == estimate_block_count(Len(q[i]))
  <1>1. /\ Len(q) \in Nat
        /\ \A i \in 1 .. Len(q) : q[i] \in Sendable
    BY LenProperties, ElementOfSeq
  <1>2. \A i \in 1 .. Len(q) : w(i) \in Nat
    <2> TAKE i \in 1 .. Len(q)
    <2>1. w(i) \in 1 .. Capacity
      BY <1>1, SendableMessage
    <2> QED BY <2>1, LayoutAssumption
  <1>3. f = [i \in 0 .. Len(q) |-> IF i = 0 THEN 0 ELSE f[i - 1] + w(i)]
    BY BlocksExist DEF CountsBlocks
  <1> HIDE DEF f, w
  <1>4. f[0] = 0
    BY <1>1, <1>3
  <1>5. \A i \in 1 .. Len(q) : f[i] = f[i - 1] + w(i)
    <2> TAKE i \in 1 .. Len(q)
    <2>1. i \in 0 .. Len(q) /\ i # 0
      BY <1>1
    <2> QED BY <1>3, <2>1
  <1> DEFINE T == {j \in Nat : j \in 0 .. Len(q) =>
                                    f[j] \in Nat /\ \A i \in 0 .. j : f[i] \in Nat /\ f[i] <= f[j]}
  <1>6. 0 \in T
    BY <1>4, SMTT(30)
  <1>7. ASSUME NEW n \in Nat, n \in T PROVE n + 1 \in T
    <2> SUFFICES ASSUME n + 1 \in 0 .. Len(q)
                 PROVE  f[n + 1] \in Nat /\ \A i \in 0 .. n + 1 : f[i] \in Nat /\ f[i] <= f[n + 1]
      BY SMTT(30)
    <2>1. n \in 0 .. Len(q) /\ n + 1 \in 1 .. Len(q) /\ (n + 1) - 1 = n
      BY <1>1
    <2>2. f[n] \in Nat /\ \A i \in 0 .. n : f[i] \in Nat /\ f[i] <= f[n]
      BY <1>7, <2>1
    <2>3. f[n + 1] = f[n] + w(n + 1) /\ w(n + 1) \in Nat
      BY <1>2, <1>5, <2>1
    <2> QED BY <2>2, <2>3
  <1>8. \A j \in 0 .. Len(q) : f[j] \in Nat /\ \A i \in 0 .. j : f[i] <= f[j]
    <2>1. Nat \subseteq T
      BY <1>6, <1>7, SetInduction
    <2> QED BY <1>1, <2>1, SMTT(30)
  <1> QED BY <1>1, <1>4, <1>5, <1>8, SMTT(30) DEF f, w

(* A message at the end leaves the counts of the others as they are.          *)
LEMMA BlocksAppend ==
  ASSUME NoOverflow, NEW q \in Seq(Sendable), NEW m \in Sendable
  PROVE  /\ \A i \in 0 .. Len(q) : BlocksBefore(Append(q, m))[i] = BlocksBefore(q)[i]
         /\ BlocksBefore(Append(q, m))[Len(q) + 1] =
              BlocksBefore(q)[Len(q)] + estimate_block_count(Len(m))
  <1> DEFINE p == Append(q, m)
             f == BlocksBefore(q)
             g == BlocksBefore(p)
  <1>1. /\ p \in Seq(Sendable) /\ Len(q) \in Nat /\ Len(p) = Len(q) + 1
        /\ \A i \in 1 .. Len(q) : p[i] = q[i]
        /\ p[Len(q) + 1] = m
    BY AppendProperties, LenProperties, SMTT(30)
  <1>2. /\ f[0] = 0 /\ g[0] = 0
        /\ \A i \in 1 .. Len(q) : f[i] = f[i - 1] + estimate_block_count(Len(q[i]))
        /\ \A i \in 1 .. Len(p) : g[i] = g[i - 1] + estimate_block_count(Len(p[i]))
    BY <1>1, BlocksGrow
  <1> HIDE DEF f, g, p
  <1> DEFINE T == {i \in Nat : i \in 0 .. Len(q) => g[i] = f[i]}
  <1>3. 0 \in T
    BY <1>2
  <1>4. ASSUME NEW n \in Nat, n \in T PROVE n + 1 \in T
    <2> SUFFICES ASSUME n + 1 \in 0 .. Len(q) PROVE g[n + 1] = f[n + 1]
      OBVIOUS
    <2>1. /\ n + 1 \in 1 .. Len(q) /\ n + 1 \in 1 .. Len(p) /\ (n + 1) - 1 = n
          /\ n \in 0 .. Len(q)
      BY <1>1
    <2>2. g[n] = f[n]
      BY <1>4, <2>1
    <2> QED BY <1>1, <1>2, <2>1, <2>2
  <1>5. \A i \in 0 .. Len(q) : g[i] = f[i]
    <2>1. Nat \subseteq T
      BY <1>3, <1>4, SetInduction
    <2> QED BY <1>1, <2>1, SMTT(30)
  <1>6. g[Len(q) + 1] = f[Len(q)] + estimate_block_count(Len(m))
    <2>1. Len(q) + 1 \in 1 .. Len(p) /\ (Len(q) + 1) - 1 = Len(q) /\ Len(q) \in 0 .. Len(q)
      BY <1>1
    <2> QED BY <1>1, <1>2, <1>5, <2>1
  <1> QED BY <1>5, <1>6 DEF f, g, p

(* Without the first message, the counts are lower by its blocks.             *)
LEMMA BlocksTail ==
  ASSUME NoOverflow, NEW q \in Seq(Sendable), q # <<>>
  PROVE  /\ Tail(q) \in Seq(Sendable) /\ Len(Tail(q)) = Len(q) - 1 /\ Len(q) \in Nat \ {0}
         /\ q[1] \in Sendable
         /\ \A i \in 1 .. Len(q) - 1 : Tail(q)[i] = q[i + 1]
         /\ BlocksBefore(q)[1] = estimate_block_count(Len(q[1]))
         /\ \A i \in 0 .. Len(q) - 1 :
              BlocksBefore(Tail(q))[i] + BlocksBefore(q)[1] = BlocksBefore(q)[i + 1]
  <1> DEFINE p == Tail(q)
             f == BlocksBefore(q)
             g == BlocksBefore(p)
  <1>1. /\ p \in Seq(Sendable) /\ Len(p) = Len(q) - 1 /\ Len(q) \in Nat \ {0}
        /\ \A i \in 1 .. Len(q) - 1 : p[i] = q[i + 1]
        /\ \A i \in 1 .. Len(q) : q[i] \in Sendable
    BY HeadTailProperties, LenProperties, EmptySeq, ElementOfSeq
  <1>2. /\ f[0] = 0 /\ g[0] = 0
        /\ \A i \in 1 .. Len(q) : f[i] = f[i - 1] + estimate_block_count(Len(q[i]))
        /\ \A i \in 1 .. Len(p) : g[i] = g[i - 1] + estimate_block_count(Len(p[i]))
        /\ \A i \in 0 .. Len(q) : f[i] \in Nat
        /\ \A i \in 0 .. Len(p) : g[i] \in Nat
    BY <1>1, BlocksGrow
  <1>3. \A i \in 1 .. Len(q) : estimate_block_count(Len(q[i])) \in Nat
    <2> TAKE i \in 1 .. Len(q)
    <2>1. estimate_block_count(Len(q[i])) \in 1 .. Capacity
      BY <1>1, SendableMessage
    <2> QED BY <2>1, LayoutAssumption
  <1> HIDE DEF f, g, p
  <1>4. f[1] = estimate_block_count(Len(q[1]))
    <2>1. 1 \in 1 .. Len(q) /\ 1 - 1 = 0
      BY <1>1
    <2> QED BY <1>2, <1>3, <2>1, SMTT(30)
  <1> DEFINE T == {i \in Nat : i \in 0 .. Len(q) - 1 => g[i] + f[1] = f[i + 1]}
  <1>5. 0 \in T
    BY <1>1, <1>2, SMTT(30)
  <1>6. ASSUME NEW n \in Nat, n \in T PROVE n + 1 \in T
    <2> SUFFICES ASSUME n + 1 \in 0 .. Len(q) - 1 PROVE g[n + 1] + f[1] = f[n + 1 + 1]
      OBVIOUS
    <2>1. /\ n + 1 \in 1 .. Len(p) /\ (n + 1) - 1 = n /\ n \in 0 .. Len(q) - 1
          /\ n + 1 + 1 \in 1 .. Len(q) /\ (n + 1 + 1) - 1 = n + 1
          /\ n + 1 \in 1 .. Len(q) - 1 /\ n \in 0 .. Len(p)
          /\ 1 \in 0 .. Len(q) /\ n + 1 \in 0 .. Len(q)
      BY <1>1
    <2>2. g[n] + f[1] = f[n + 1]
      BY <1>6, <2>1
    <2>3. g[n + 1] = g[n] + estimate_block_count(Len(q[n + 1 + 1]))
      BY <1>1, <1>2, <2>1
    <2>4. f[n + 1 + 1] = f[n + 1] + estimate_block_count(Len(q[n + 1 + 1]))
      BY <1>2, <2>1
    <2>5. /\ estimate_block_count(Len(q[n + 1 + 1])) \in Nat /\ g[n] \in Nat /\ f[1] \in Nat
          /\ f[n + 1] \in Nat
      BY <1>2, <1>3, <2>1
    <2> QED BY <2>2, <2>3, <2>4, <2>5
  <1>7. \A i \in 0 .. Len(q) - 1 : g[i] + f[1] = f[i + 1]
    <2>1. Nat \subseteq T
      BY <1>5, <1>6, SetInduction
    <2> QED BY <1>1, <2>1, SMTT(30)
  <1>8. q[1] \in Sendable
    BY <1>1, SMTT(30)
  <1> QED BY <1>1, <1>4, <1>7, <1>8 DEF f, g, p

-----------------------------------------------------------------------------
(* The ring *)

(* From block g on, mem holds the messages q one after the other; they take   *)
(* size blocks, which are no more than there are.                             *)
Holds(mem, g, size, q) ==
  /\ q \in Seq(Sendable)
  /\ g \in 0 .. Capacity - 1
  /\ size = BlocksBefore(q)[Len(q)] /\ size <= Capacity
  /\ \A i \in 1 .. Len(q) : Stored(mem, (g + BlocksBefore(q)[i - 1]) % Capacity, q[i])

(* The positions the ring uses lie in it, and the counts are numbers.         *)
LEMMA HeldPlaces ==
  ASSUME NoOverflow, NEW mem, NEW g, NEW size, NEW q, Holds(mem, g, size, q)
  PROVE  /\ size \in Nat /\ Len(q) \in Nat
         /\ \A i \in 1 .. Len(q) :
              /\ q[i] \in Sendable
              /\ estimate_block_count(Len(q[i])) \in 1 .. Capacity
              /\ BlocksBefore(q)[i - 1] \in Nat
              /\ BlocksBefore(q)[i] = BlocksBefore(q)[i - 1] + estimate_block_count(Len(q[i]))
              /\ BlocksBefore(q)[i - 1] + estimate_block_count(Len(q[i])) <= size
              /\ (g + BlocksBefore(q)[i - 1]) % Capacity \in 0 .. Capacity - 1
  <1>1. /\ q \in Seq(Sendable) /\ g \in 0 .. Capacity - 1 /\ size = BlocksBefore(q)[Len(q)]
        /\ size <= Capacity
    BY DEF Holds
  <1>2. Len(q) \in Nat
    BY <1>1, LenProperties
  <1>3. /\ \A i \in 0 .. Len(q) : BlocksBefore(q)[i] \in Nat
        /\ \A i \in 1 .. Len(q) :
              BlocksBefore(q)[i] = BlocksBefore(q)[i - 1] + estimate_block_count(Len(q[i]))
        /\ \A i, j \in 0 .. Len(q) : i <= j => BlocksBefore(q)[i] <= BlocksBefore(q)[j]
    BY <1>1, BlocksGrow
  <1>4. size \in Nat
    BY <1>1, <1>2, <1>3
  <1>5. ASSUME NEW i \in 1 .. Len(q)
        PROVE  /\ q[i] \in Sendable
               /\ estimate_block_count(Len(q[i])) \in 1 .. Capacity
               /\ BlocksBefore(q)[i - 1] \in Nat
               /\ BlocksBefore(q)[i] = BlocksBefore(q)[i - 1] + estimate_block_count(Len(q[i]))
               /\ BlocksBefore(q)[i - 1] + estimate_block_count(Len(q[i])) <= size
               /\ (g + BlocksBefore(q)[i - 1]) % Capacity \in 0 .. Capacity - 1
    <2>1. q[i] \in Sendable
      BY <1>1, ElementOfSeq
    <2>2. estimate_block_count(Len(q[i])) \in 1 .. Capacity
      BY <2>1, SendableMessage
    <2>3. i - 1 \in 0 .. Len(q) /\ i \in 0 .. Len(q) /\ i <= Len(q) /\ Len(q) \in 0 .. Len(q)
      BY <1>2
    <2>4. /\ BlocksBefore(q)[i - 1] \in Nat
          /\ BlocksBefore(q)[i] = BlocksBefore(q)[i - 1] + estimate_block_count(Len(q[i]))
          /\ BlocksBefore(q)[i] <= size
      BY <1>1, <1>3, <2>3
    <2>5. BlocksBefore(q)[i - 1] + 0 <= Capacity /\ 0 \in Nat
      BY <1>1, <1>4, <2>2, <2>4, LayoutAssumption
    <2>6. (g + BlocksBefore(q)[i - 1]) % Capacity \in 0 .. Capacity - 1
      BY <1>1, <2>4, <2>5, Around
    <2> QED BY <2>1, <2>2, <2>4, <2>6
  <1> QED BY <1>2, <1>4, <1>5

(* An empty queue.                                                            *)
LEMMA HoldsNothing ==
  ASSUME NoOverflow, NEW mem
  PROVE  Holds(mem, 0, 0, <<>>)
  <1>1. <<>> \in Seq(Sendable) /\ Len(<<>>) = 0
    BY EmptySeq
  <1>2. BlocksBefore(<<>>)[0] = 0
    BY <1>1, BlocksGrow
  <1> QED BY <1>1, <1>2, LayoutAssumption DEF Holds

(* dequeue_message reads the message that was sent first, and counts its      *)
(* blocks.                                                                    *)
LEMMA HeldFirst ==
  ASSUME NoOverflow, NEW g, NEW size, NEW q, Holds(memory, g, size, q), size # 0
  PROVE  /\ q # <<>> /\ q[1] \in Sendable
         /\ copy_out(g) = q[1]
         /\ block_count_at(g) = estimate_block_count(Len(q[1]))
  <1>1. /\ q \in Seq(Sendable) /\ g \in 0 .. Capacity - 1 /\ size = BlocksBefore(q)[Len(q)]
        /\ \A i \in 1 .. Len(q) : Stored(memory, (g + BlocksBefore(q)[i - 1]) % Capacity, q[i])
    BY DEF Holds
  <1>2. BlocksBefore(q)[0] = 0
    BY <1>1, BlocksGrow
  <1>3. q # <<>> /\ Len(q) \in Nat \ {0}
    BY <1>1, <1>2, EmptySeq, LenProperties
  <1>4. 1 \in 1 .. Len(q) /\ 1 - 1 = 0
    BY <1>3
  <1>5. (g + 0) % Capacity = g
    <2>1. g + 0 = g /\ g \in Nat /\ g < Capacity /\ Capacity \in Nat \ {0}
      BY <1>1, LayoutAssumption
    <2>2. g % Capacity = g
      BY <2>1
    <2> QED BY <2>1, <2>2
  <1>6. Stored(memory, g, q[1])
    BY <1>1, <1>2, <1>4, <1>5
  <1>7. q[1] \in Sendable
    BY <1>4, HeldPlaces
  <1>8. copy_out(g) = q[1]
    BY <1>1, <1>6, <1>7, ReadBack
  <1>9. block_count_at(g) = estimate_block_count(Len(q[1]))
    BY <1>6 DEF block_count_at, Stored
  <1> QED BY <1>3, <1>7, <1>8, <1>9

(* enqueue_message writes behind the messages in the ring.                    *)
LEMMA HoldsCopied ==
  ASSUME NoOverflow, NEW g, NEW size, NEW q, Holds(memory, g, size, q), NEW m \in Sendable,
         size + estimate_block_count(Len(m)) <= Capacity
  PROVE  /\ Holds(copy_in((g + size) % Capacity, m), g, size, q)
         /\ Stored(copy_in((g + size) % Capacity, m), (g + size) % Capacity, m)
  <1> DEFINE pos == (g + size) % Capacity
             k == estimate_block_count(Len(m))
  <1>1. size \in Nat /\ g \in 0 .. Capacity - 1
    BY HeldPlaces DEF Holds
  <1>2. k \in 1 .. Capacity /\ k \in Nat
    <2>1. k \in 1 .. Capacity
      BY SendableMessage
    <2> QED BY <2>1, LayoutAssumption
  <1>3. pos \in 0 .. Capacity - 1
    BY <1>1, <1>2, Around
  <1>4. Stored(copy_in(pos, m), pos, m)
    BY <1>3, CopyIn
  <1>5. ASSUME NEW i \in 1 .. Len(q)
        PROVE  Stored(copy_in(pos, m), (g + BlocksBefore(q)[i - 1]) % Capacity, q[i])
    <2> DEFINE o == BlocksBefore(q)[i - 1]
               ki == estimate_block_count(Len(q[i]))
               at == (g + o) % Capacity
    <2>1. q[i] \in Sendable /\ ki \in 1 .. Capacity /\ o \in Nat /\ o + ki <= size
          /\ at \in 0 .. Capacity - 1
      BY HeldPlaces
    <2>2. ki \in Nat
      BY <2>1, LayoutAssumption
    <2>3. Ring(at, ki) \cap Ring(pos, k) = {}
      BY <1>1, <1>2, <2>1, <2>2, DisjointBlocks
    <2>4. Stored(memory, at, q[i])
      BY DEF Holds
    <2> HIDE DEF o, at, pos
    <2>5. Stored(copy_in(pos, m), at, q[i])
      BY <1>3, <2>1, <2>3, <2>4, Untouched
    <2> QED BY <2>5 DEF at, o
  <1>6. Holds(copy_in(pos, m), g, size, q)
    BY <1>5 DEF Holds
  <1> QED BY <1>4, <1>6

(* With the blocks of the copied message the ring holds it too.               *)
LEMMA HoldsAppended ==
  ASSUME NoOverflow, NEW mem, NEW g, NEW size, NEW q, Holds(mem, g, size, q), NEW m \in Sendable,
         size + estimate_block_count(Len(m)) <= Capacity, Stored(mem, (g + size) % Capacity, m)
  PROVE  Holds(mem, g, size + estimate_block_count(Len(m)), Append(q, m))
  <1> DEFINE p == Append(q, m)
             k == estimate_block_count(Len(m))
  <1>1. /\ q \in Seq(Sendable) /\ g \in 0 .. Capacity - 1 /\ size = BlocksBefore(q)[Len(q)]
        /\ Len(q) \in Nat
        /\ \A i \in 1 .. Len(q) : Stored(mem, (g + BlocksBefore(q)[i - 1]) % Capacity, q[i])
    BY LenProperties DEF Holds
  <1>2. /\ p \in Seq(Sendable) /\ Len(p) = Len(q) + 1
        /\ \A i \in 1 .. Len(q) : p[i] = q[i]
        /\ p[Len(q) + 1] = m
    BY <1>1, AppendProperties, SMTT(30)
  <1>3. /\ \A i \in 0 .. Len(q) : BlocksBefore(p)[i] = BlocksBefore(q)[i]
        /\ BlocksBefore(p)[Len(q) + 1] = size + k
    BY <1>1, BlocksAppend
  <1> HIDE DEF p, k
  <1>4. ASSUME NEW i \in 1 .. Len(p)
        PROVE  Stored(mem, (g + BlocksBefore(p)[i - 1]) % Capacity, p[i])
    <2>1. CASE i \in 1 .. Len(q)
      <3>1. i - 1 \in 0 .. Len(q)
        BY <1>1, <2>1
      <3>2. BlocksBefore(p)[i - 1] = BlocksBefore(q)[i - 1] /\ p[i] = q[i]
        BY <1>2, <1>3, <2>1, <3>1
      <3> QED BY <1>1, <2>1, <3>2
    <2>2. CASE i = Len(q) + 1
      <3>1. i - 1 = Len(q) /\ Len(q) \in 0 .. Len(q)
        BY <1>1, <2>2
      <3> QED BY <1>1, <1>2, <1>3, <2>2, <3>1
    <2> QED BY <1>1, <1>2, <2>1, <2>2
  <1>5. Holds(mem, g, size + k, p)
    BY <1>1, <1>2, <1>3, <1>4 DEF Holds, k
  <1> QED BY <1>5 DEF p, k

(* Without its first message the ring holds the others, from the next place   *)
(* on, and the place after the last is where it was.                          *)
LEMMA HoldsRest ==
  ASSUME NoOverflow, NEW mem, NEW g, NEW size, NEW q, Holds(mem, g, size, q), q # <<>>
  PROVE  LET k == estimate_block_count(Len(q[1]))
             next == (g + k) % Capacity
         IN  /\ Holds(mem, next, size - k, Tail(q))
             /\ (next + (size - k)) % Capacity = (g + size) % Capacity
             /\ k \in 1 .. Capacity
  <1> DEFINE p == Tail(q)
             k == estimate_block_count(Len(q[1]))
             next == (g + k) % Capacity
             f == BlocksBefore(q)
             h == BlocksBefore(p)
  <1>1. /\ q \in Seq(Sendable) /\ g \in 0 .. Capacity - 1 /\ size = f[Len(q)]
        /\ size <= Capacity
        /\ \A i \in 1 .. Len(q) : Stored(mem, (g + f[i - 1]) % Capacity, q[i])
    BY DEF Holds
  <1>2. /\ p \in Seq(Sendable) /\ Len(p) = Len(q) - 1 /\ Len(q) \in Nat \ {0}
        /\ \A i \in 1 .. Len(q) - 1 : p[i] = q[i + 1]
        /\ f[1] = k
        /\ \A i \in 0 .. Len(q) - 1 : h[i] + f[1] = f[i + 1]
    BY <1>1, BlocksTail
  <1>3. size \in Nat /\ k \in 1 .. Capacity /\ k <= size /\ k \in Nat
    <2>1. 1 \in 1 .. Len(q) /\ 1 - 1 = 0
      BY <1>2, SMTT(30)
    <2>2. size \in Nat /\ k \in 1 .. Capacity /\ f[1 - 1] \in Nat /\ f[1 - 1] + k <= size
      BY <2>1, HeldPlaces
    <2> QED BY <2>1, <2>2, LayoutAssumption
  <1>4. \A i \in 0 .. Len(p) : h[i] \in Nat
    BY <1>2, BlocksGrow
  <1>5. /\ next \in 0 .. Capacity - 1
        /\ (next + (size - k)) % Capacity = (g + size) % Capacity
    <2>1. size - k \in Nat /\ k + (size - k) <= Capacity /\ k + (size - k) = size
      BY <1>1, <1>3, LayoutAssumption
    <2>2. /\ (((g + k) % Capacity) + (size - k)) % Capacity = (g + (k + (size - k))) % Capacity
          /\ next \in 0 .. Capacity - 1
      BY <1>1, <1>3, <2>1, Around
    <2> QED BY <2>1, <2>2
  <1> HIDE DEF p, k, f, h
  <1>6. ASSUME NEW i \in 1 .. Len(p)
        PROVE  Stored(mem, (next + h[i - 1]) % Capacity, p[i])
    <2>1. /\ i - 1 \in 0 .. Len(q) - 1 /\ i - 1 \in 0 .. Len(p) /\ i \in 1 .. Len(q) - 1
          /\ (i - 1) + 1 = i /\ (i + 1) - 1 = i /\ i + 1 \in 1 .. Len(q)
      BY <1>2, SMTT(30)
    <2>2. h[i - 1] \in Nat /\ h[i - 1] + k = f[i]
      BY <1>2, <1>4, <2>1
    <2>3. f[i] <= size
      <3>1. i \in 0 .. Len(q) /\ Len(q) \in 0 .. Len(q) /\ i <= Len(q)
        BY <1>2, <2>1, SMTT(30)
      <3> QED BY <1>1, <3>1, BlocksGrow DEF f
    <2>4. k + h[i - 1] <= Capacity /\ k + h[i - 1] = f[i]
      BY <1>1, <1>3, <2>2, <2>3, LayoutAssumption
    <2>5. (next + h[i - 1]) % Capacity = (g + f[i]) % Capacity
      <3>1. (((g + k) % Capacity) + h[i - 1]) % Capacity = (g + (k + h[i - 1])) % Capacity
        BY <1>1, <1>3, <2>2, <2>4, Around
      <3> QED BY <2>4, <3>1
    <2>6. Stored(mem, (g + f[(i + 1) - 1]) % Capacity, q[i + 1])
      BY <1>1, <2>1
    <2> QED BY <1>2, <2>1, <2>5, <2>6
  <1>7. size - k = h[Len(p)] /\ size - k <= Capacity
    <2>1. Len(q) - 1 \in 0 .. Len(q) - 1 /\ (Len(q) - 1) + 1 = Len(q) /\ Len(p) \in 0 .. Len(p)
      BY <1>2, SMTT(30)
    <2>2. h[Len(p)] + k = size /\ h[Len(p)] \in Nat
      BY <1>1, <1>2, <1>4, <2>1
    <2> QED BY <1>1, <1>3, <2>2, LayoutAssumption
  <1>8. Holds(mem, next, size - k, p)
    <2> HIDE DEF next
    <2> QED BY <1>2, <1>5, <1>6, <1>7 DEF Holds, h
  <1> QED BY <1>3, <1>5, <1>8 DEF p, k

-----------------------------------------------------------------------------
(* The invariant *)

ControlPoints ==
  {"outside", "dead", "lock", "recover", "locked", "wait", "unwind", "copied", "placed", "read",
   "freed"}
Methods == {"none", "send", "try_send", "receive", "try_receive", "stop_local", "clear"}

Typed ==
  /\ m_mutex \subseteq Threads
  /\ mutex_state \in {"consistent", "owner_dead", "not_recoverable"}
  /\ m_nonempty_queue \subseteq Threads
  /\ m_nonfull_queue \subseteq Threads
  /\ m_stop \in [Processes -> BOOLEAN]
  /\ pc \in [Threads -> ControlPoints]
  /\ call \in [Threads -> Methods]
  /\ calls \in [Threads -> 0 .. MaxCalls]
  /\ DOMAIN arg = Threads
  /\ DOMAIN buffer = Threads

(* The control points at which a thread holds the mutex. *)
Critical == {"recover", "locked", "unwind", "copied", "placed", "read", "freed"}

(* One thread holds the mutex, and it knows whether the previous owner died. *)
Owned ==
  /\ \A t \in Threads : t \in m_mutex <=> pc[t] \in Critical
  /\ \A t, u \in m_mutex : t = u
  /\ m_mutex # {} => mutex_state # "not_recoverable"
  /\ \A t \in m_mutex : pc[t] \in {"recover", "unwind"} <=> mutex_state = "owner_dead"

(* The arguments of a call are those that its method accepted. *)
Admitted(t) ==
  /\ sending(t) => /\ t \in Writers
                   /\ calls[t] \in 1 .. MaxCalls
                   /\ arg[t] \in Lengths
                   /\ ~ too_long(arg[t])
  /\ receiving(t) => t \in Readers

InCall ==
  \A t \in Threads :
    /\ Admitted(t)
    /\ pc[t] \in {"outside", "dead"} => call[t] = "none"
    /\ pc[t] \in {"copied", "placed"} => sending(t)
    /\ pc[t] \in {"read", "freed"} => receiving(t)

(* The threads of a process die together. *)
Deaths ==
  \A t, u \in Threads : ProcessOf[t] = ProcessOf[u] /\ pc[t] = "dead" => pc[u] = "dead"

(* A thread asleep waits in send or in receive, on an object that is not      *)
(* stopped.                                                                   *)
Sleepers ==
  /\ \A t \in m_nonempty_queue : pc[t] = "wait" /\ call[t] = "receive" /\ ~ stopped(t)
  /\ \A t \in m_nonfull_queue : pc[t] = "wait" /\ call[t] = "send" /\ ~ stopped(t)

(* Where the threads are, whatever the queue holds. *)
Control == Typed /\ Owned /\ InCall /\ Deaths /\ Sleepers

-----------------------------------------------------------------------------
(* What a step of a thread does, apart from the bytes it copies *)

Others(t) ==
  \A u \in Threads \ {t} :
    /\ pc'[u] = pc[u] /\ call'[u] = call[u] /\ arg'[u] = arg[u]
    /\ buffer'[u] = buffer[u] /\ calls'[u] = calls[u]
Same(t) == call'[t] = call[t] /\ arg'[t] = arg[t] /\ calls'[t] = calls[t]
Ended(t) == pc'[t] = "outside" /\ call'[t] = "none"
RingSame == UNCHANGED <<memory, m_size, m_put_pos, m_get_pos, pending, received>>

Begins(t) ==
  /\ pc[t] = "outside"
  /\ (pc'[t] = "outside" /\ call'[t] = call[t]) \/ pc'[t] = "lock"
  /\ Admitted(t)'
  /\ RingSame /\ UNCHANGED <<m_mutex, mutex_state, m_nonempty_queue, m_nonfull_queue>>
  /\ \A p \in Processes : m_stop'[p] => m_stop[p]
Locks(t) ==
  /\ pc[t] = "lock" \/ (pc[t] = "wait" /\ awake(t))
  /\ m_mutex = {} /\ m_mutex' = {t}
  /\ mutex_state # "not_recoverable" /\ UNCHANGED mutex_state
  /\ IF mutex_state = "owner_dead" THEN pc'[t] \in {"recover", "unwind"} ELSE pc'[t] = "locked"
  /\ Same(t) /\ RingSame /\ UNCHANGED <<m_nonempty_queue, m_nonfull_queue, m_stop>>
Fails(t) ==
  /\ pc[t] = "lock" \/ (pc[t] = "wait" /\ awake(t))
  /\ Ended(t) /\ RingSame
  /\ UNCHANGED <<m_mutex, mutex_state, m_nonempty_queue, m_nonfull_queue, m_stop>>
Leaves(t) ==
  /\ pc[t] \in {"locked", "unwind"}
  /\ Ended(t) /\ RingSame /\ unlock
  /\ UNCHANGED <<m_nonempty_queue, m_nonfull_queue, m_stop>>
Waits(t) ==
  /\ pc[t] = "locked" /\ pc'[t] = "wait"
  /\ Same(t) /\ RingSame /\ unlock /\ UNCHANGED m_stop
  /\ ~ stopped(t)
  /\ \/ /\ call[t] = "send" /\ ~ fits(t)
        /\ m_nonfull_queue' = m_nonfull_queue \cup {t} /\ UNCHANGED m_nonempty_queue
     \/ /\ call[t] = "receive" /\ m_size = 0
        /\ m_nonempty_queue' = m_nonempty_queue \cup {t} /\ UNCHANGED m_nonfull_queue
Stops(t) ==
  /\ pc[t] = "locked"
  /\ Ended(t) /\ RingSame /\ unlock
  /\ m_nonempty_queue' = {} /\ m_nonfull_queue' = {}
Clears(t) ==
  /\ pc[t] = "locked" /\ call[t] = "clear"
  /\ Ended(t) /\ clear_queue /\ unlock /\ UNCHANGED m_stop
Recovers(t) ==
  /\ pc[t] = "recover" /\ pc'[t] = "locked"
  /\ Same(t) /\ clear_queue
  /\ mutex_state' = "consistent" /\ UNCHANGED <<m_mutex, m_stop>>
Works(t) ==
  /\ enqueue_copy(t) \/ enqueue_advance(t) \/ dequeue_copy(t) \/ dequeue_advance(t)
  /\ \/ pc[t] = "locked" /\ pc'[t] \in {"copied", "read"}
     \/ pc[t] = "copied" /\ pc'[t] = "placed"
     \/ pc[t] = "read" /\ pc'[t] = "freed"
  /\ pc'[t] \in {"copied", "placed"} => sending(t) /\ arg'[t] = arg[t]
  /\ pc'[t] \in {"read", "freed"} => receiving(t)
  /\ call'[t] = call[t] /\ calls'[t] = calls[t]
  /\ UNCHANGED <<m_size, pending, received, m_mutex, mutex_state, m_nonempty_queue,
                 m_nonfull_queue, m_stop>>
Counts(t) ==
  /\ enqueue_count(t)
  /\ pc[t] = "placed"
  /\ Ended(t) /\ unlock /\ UNCHANGED <<m_nonfull_queue, m_stop>>
Frees(t) ==
  /\ dequeue_count(t)
  /\ pc[t] = "freed"
  /\ Ended(t) /\ unlock /\ UNCHANGED <<m_nonempty_queue, m_stop>> /\ m_nonfull_queue' = {}
Wakes(t) ==
  /\ RingSame /\ UNCHANGED <<m_mutex, mutex_state, m_stop, pc, call, arg, buffer, calls>>
  /\ m_nonempty_queue' \subseteq m_nonempty_queue /\ m_nonfull_queue' \subseteq m_nonfull_queue

Effect(t) ==
  \/ Begins(t) \/ Locks(t) \/ Fails(t) \/ Leaves(t) \/ Waits(t) \/ Stops(t) \/ Clears(t)
  \/ Recovers(t) \/ Works(t) \/ Counts(t) \/ Frees(t) \/ Wakes(t)

(* Every step of a thread does one of twelve things, to no other thread.      *)
LEMMA Effects ==
  ASSUME Typed, InCall, NEW t \in Threads, ThreadStep(t) \/ Call(t) \/ wake_spuriously(t)
  PROVE  Others(t) /\ Effect(t) /\ Typed'
  <1> USE DEF Typed, ControlPoints, Methods, Others, Same, Ended, RingSame, ringVars, mutexVars,
              condVars, objectVars, historyVars, countVars, step, kept
  <1>0. ProcessOf[t] \in Processes
    BY RolesAssumption
  <1>C. count_call(t) => calls' \in [Threads -> 0 .. MaxCalls] /\ calls'[t] \in 1 .. MaxCalls
    <2>1. calls \in [Threads -> 0 .. MaxCalls]
      BY DEF Typed
    <2>2. calls[t] < MaxCalls => calls[t] + 1 \in 0 .. MaxCalls /\ calls[t] + 1 \in 1 .. MaxCalls
      BY <2>1, BoundsAssumption, SMTT(30)
    <2> QED BY <2>1, <2>2 DEF count_call
  <1>S. ASSUME NEW method \in {"send", "try_send"}, NEW length \in Lengths, NEW outcome,
               t \in Writers, count_call(t),
               enter(t, method, length, too_long(length) \/ stopped(t), outcome)
        PROVE  Others(t) /\ Effect(t) /\ Typed'
    <2> USE DEF enter, count_call, Begins, Effect, Admitted, sending, receiving, InCall
    <2>1. CASE too_long(length) \/ stopped(t)
      BY <1>C, <1>S, <2>1
    <2>2. CASE ~ (too_long(length) \/ stopped(t))
      BY <1>C, <1>S, <2>2
    <2> QED BY <2>1, <2>2
  <1>R. ASSUME NEW method \in {"receive", "try_receive"}, NEW size, NEW outcome,
               t \in Readers, count_call(t), enter(t, method, size, stopped(t), outcome)
        PROVE  Others(t) /\ Effect(t) /\ Typed'
    <2> USE DEF enter, count_call, Begins, Effect, Admitted, sending, receiving, InCall
    <2>1. CASE stopped(t)
      BY <1>C, <1>R, <2>1
    <2>2. CASE ~ stopped(t)
      BY <1>C, <1>R, <2>2
    <2> QED BY <2>1, <2>2
  <1>1. CASE call_send(t)
    BY <1>1, <1>S DEF call_send
  <1>2. CASE call_try_send(t)
    BY <1>2, <1>S DEF call_try_send
  <1>3. CASE call_receive(t)
    BY <1>3, <1>R DEF call_receive
  <1>4. CASE call_try_receive(t)
    BY <1>4, <1>R DEF call_try_receive
  <1>5. CASE call_stop_local(t)
    <2> USE DEF enter, count_control, Begins, Effect, Admitted, sending, receiving, InCall
    <2>1. CASE stopped(t)
      BY <1>5, <2>1 DEF call_stop_local
    <2>2. CASE ~ stopped(t)
      BY <1>5, <2>2 DEF call_stop_local
    <2> QED BY <2>1, <2>2
  <1>6. CASE call_clear(t)
    <2>1. /\ pc[t] = "outside" /\ pc' = [pc EXCEPT ![t] = "lock"]
          /\ call' = [call EXCEPT ![t] = "clear"] /\ arg' = [arg EXCEPT ![t] = 0]
          /\ UNCHANGED <<calls, buffer>> /\ RingSame
          /\ UNCHANGED <<m_mutex, mutex_state, m_nonempty_queue, m_nonfull_queue, m_stop>>
      BY <1>6 DEF call_clear, enter, count_control
    <2>2. Others(t)
      BY <2>1
    <2>3. Typed'
      BY <2>1
    <2>4. Begins(t)
      BY <2>1 DEF Begins, Admitted, sending, receiving
    <2> QED BY <2>2, <2>3, <2>4 DEF Effect
  <1>7. CASE reset_local(t)
    BY <1>0, <1>7, RolesAssumption DEF reset_local, count_control, Begins, Effect, InCall,
       Admitted, sending, receiving
  <1>8. CASE lock_queue(t)
    BY <1>8 DEF lock_queue, Locks, Effect
  <1>9. CASE lock_fails(t)
    BY <1>9 DEF lock_fails, return, Fails, Effect
  <1>10. CASE recover(t)
    BY <1>10 DEF recover, clear_queue, Recovers, Effect
  <1>11. CASE relock(t)
    BY <1>11 DEF relock, Locks, Effect
  <1>12. CASE relock_fails(t)
    BY <1>12 DEF relock_fails, return, Fails, Effect
  <1>13. CASE unwind(t)
    BY <1>13 DEF unwind, return, unlock, Leaves, Effect
  <1>L. ASSUME NEW outcome, leave(t, "locked", outcome)
        PROVE  Others(t) /\ Effect(t) /\ Typed'
    BY <1>L DEF leave, return, unlock, Leaves, Effect
  <1>14. CASE send_aborted(t)
    BY <1>14, <1>L DEF send_aborted
  <1>15. CASE send_overflows(t)
    BY <1>15, <1>L DEF send_overflows
  <1>16. CASE send_waits(t)
    BY <1>16 DEF send_waits, wait_nonfull, full_for, unlock, Waits, Effect
  <1>17. CASE enqueue_copy(t)
    BY <1>17 DEF enqueue_copy, Works, Effect
  <1>18. CASE enqueue_advance(t)
    BY <1>18 DEF enqueue_advance, Works, Effect
  <1>19. CASE enqueue_count(t)
    <2>1. m_nonempty_queue' \subseteq Threads
      BY <1>19 DEF enqueue_count, notify_nonempty
    <2> QED BY <1>19, <2>1 DEF enqueue_count, return, unlock, Counts, Effect
  <1>20. CASE receive_aborted(t)
    BY <1>20, <1>L DEF receive_aborted
  <1>21. CASE receive_refused(t)
    BY <1>21, <1>L DEF receive_refused
  <1>22. CASE receive_waits(t)
    BY <1>22 DEF receive_waits, wait_nonempty, unlock, Waits, Effect
  <1>23. CASE dequeue_throws(t)
    BY <1>23, <1>L DEF dequeue_throws
  <1>24. CASE dequeue_copy(t)
    BY <1>24 DEF dequeue_copy, may_dequeue, Works, Effect
  <1>25. CASE dequeue_advance(t)
    BY <1>25 DEF dequeue_advance, Works, Effect, InCall
  <1>26. CASE dequeue_count(t)
    BY <1>26 DEF dequeue_count, return, unlock, Frees, Effect
  <1>27. CASE stop_local(t)
    BY <1>0, <1>27 DEF stop_local, return, unlock, Stops, Effect
  <1>28. CASE clear(t)
    BY <1>28 DEF clear, clear_queue, return, unlock, Clears, Effect
  <1>29. CASE wake_spuriously(t)
    BY <1>29 DEF wake_spuriously, Wakes, Effect
  <1> QED
    BY <1>1, <1>2, <1>3, <1>4, <1>5, <1>6, <1>7, <1>8, <1>9, <1>10, <1>11, <1>12, <1>13, <1>14,
       <1>15, <1>16, <1>17, <1>18, <1>19, <1>20, <1>21, <1>22, <1>23, <1>24, <1>25, <1>26, <1>27,
       <1>28, <1>29 DEF ThreadStep, Call

(* What holds of the control points is kept by every step of a thread.        *)
LEMMA ThreadControl ==
  ASSUME Control, NEW t \in Threads, ThreadStep(t) \/ Call(t) \/ wake_spuriously(t)
  PROVE  Control'
  <1>1. Typed /\ Owned /\ InCall /\ Deaths /\ Sleepers
    BY DEF Control
  <1>2. Others(t) /\ Effect(t) /\ Typed'
    BY <1>1, Effects
  <1>T. m_mutex \subseteq Threads /\ m_nonempty_queue \subseteq Threads /\ m_nonfull_queue \subseteq Threads
    BY <1>1 DEF Typed
  <1>3. Owned'
    <2> USE DEF Owned, Critical, Others
    <2>1. CASE Begins(t) \/ Fails(t)
      BY <1>1, <1>2, <1>T, <2>1 DEF Begins, Fails, Ended
    <2>2. CASE Locks(t)
      BY <1>1, <1>2, <1>T, <2>2 DEF Locks
    <2>3. CASE Leaves(t) \/ Waits(t) \/ Stops(t) \/ Clears(t) \/ Counts(t) \/ Frees(t)
      <3>1. pc[t] \in Critical /\ pc'[t] \notin Critical /\ unlock
        BY <2>3 DEF Leaves, Waits, Stops, Clears, Counts, Frees, Ended
      <3> QED BY <1>1, <1>2, <1>T, <3>1 DEF unlock
    <2>4. CASE Recovers(t) \/ Works(t)
      BY <1>1, <1>2, <1>T, <2>4 DEF Recovers, Works
    <2>5. CASE Wakes(t)
      BY <1>1, <2>5 DEF Wakes
    <2> QED BY <1>2, <2>1, <2>2, <2>3, <2>4, <2>5 DEF Effect
  <1>4. InCall'
    <2>1. \A u \in Threads \ {t} :
            Admitted(u)' /\ (pc'[u] \in {"outside", "dead"} => call'[u] = "none")
            /\ (pc'[u] \in {"copied", "placed"} => sending(u)')
            /\ (pc'[u] \in {"read", "freed"} => receiving(u)')
      BY <1>1, <1>2 DEF Others, InCall, Admitted, sending, receiving
    <2> SUFFICES Admitted(t)' /\ (pc'[t] \in {"outside", "dead"} => call'[t] = "none")
                 /\ (pc'[t] \in {"copied", "placed"} => sending(t)')
                 /\ (pc'[t] \in {"read", "freed"} => receiving(t)')
      BY <2>1 DEF InCall
    <2> USE DEF InCall, sending, receiving
    <2>2. CASE Begins(t)
      BY <1>1, <2>2 DEF Begins
    <2>3. CASE Fails(t) \/ Leaves(t) \/ Stops(t) \/ Clears(t) \/ Counts(t) \/ Frees(t)
      <3>1. Ended(t)
        BY <2>3 DEF Fails, Leaves, Stops, Clears, Counts, Frees
      <3> QED BY <3>1 DEF Ended, Admitted
    <2>4. CASE Locks(t) \/ Waits(t) \/ Recovers(t)
      <3>1. Same(t) /\ pc'[t] \notin {"outside", "dead", "copied", "placed", "read", "freed"}
        BY <2>4 DEF Locks, Waits, Recovers
      <3> QED BY <1>1, <3>1 DEF Same, Admitted
    <2>5. CASE Works(t)
      BY <1>1, <2>5 DEF Works, Admitted
    <2>6. CASE Wakes(t)
      BY <1>1, <2>6 DEF Wakes, Admitted
    <2> QED BY <1>2, <2>2, <2>3, <2>4, <2>5, <2>6 DEF Effect
  <1>5. Deaths'
    <2>1. (pc[t] # "dead" /\ pc'[t] # "dead") \/ pc'[t] = pc[t]
      BY <1>2 DEF Effect, Begins, Locks, Fails, Leaves, Waits, Stops, Clears, Recovers, Works,
         Counts,
         Frees, Wakes, Ended
    <2> QED BY <1>1, <1>2, <2>1 DEF Others, Deaths
  <1>6. Sleepers'
    <2> USE DEF Sleepers, stopped, Others
    <2>1. CASE Begins(t)
      <3>1. \A u \in Threads : ~ stopped(u) => ~ stopped(u)'
        BY <2>1, RolesAssumption DEF Begins
      <3> QED BY <1>1, <1>2, <1>T, <2>1, <3>1 DEF Begins
    <2>2. CASE Waits(t)
      BY <1>1, <1>2, <1>T, <2>2 DEF Waits, Same
    <2>3. CASE Locks(t) \/ Fails(t)
      <3>1. /\ pc[t] = "lock" \/ t \notin m_nonempty_queue \cup m_nonfull_queue
            /\ UNCHANGED <<m_nonempty_queue, m_nonfull_queue, m_stop>>
        BY <2>3 DEF Locks, Fails, awake
      <3> QED BY <1>1, <1>2, <1>T, <3>1
    <2>4. CASE Counts(t)
      BY <1>1, <1>2, <1>T, <2>4 DEF Counts, enqueue_count, notify_nonempty
    <2>5. CASE Leaves(t) \/ Works(t) \/ Frees(t) \/ Clears(t) \/ Recovers(t)
      <3>1. /\ pc[t] # "wait" /\ m_nonempty_queue' = m_nonempty_queue /\ m_stop' = m_stop
            /\ m_nonfull_queue' \in {{}, m_nonfull_queue}
        BY <2>5 DEF Leaves, Works, Frees, Clears, Recovers, clear_queue
      <3> QED BY <1>1, <1>2, <1>T, <3>1
    <2>6. CASE Stops(t)
      BY <2>6 DEF Stops
    <2>7. CASE Wakes(t)
      BY <1>1, <2>7 DEF Wakes
    <2> QED BY <1>2, <2>1, <2>2, <2>3, <2>4, <2>5, <2>6, <2>7 DEF Effect
  <1> QED BY <1>2, <1>3, <1>4, <1>5, <1>6 DEF Control

(* It is kept when a process dies or starts again.                            *)
LEMMA ProcessControl ==
  ASSUME Control, NEW p \in Processes, crash(p) \/ restart(p)
  PROVE  Control'
  <1>1. Typed /\ Owned /\ InCall /\ Deaths /\ Sleepers
    BY DEF Control
  <1>2. CASE crash(p)
    <2> USE DEF crash, ThreadsOf, ringVars, objectVars, historyVars
    <2>1. Typed'
      BY <1>1, <1>2 DEF Typed, ControlPoints, Methods
    <2>2. Owned'
      <3> DEFINE D == ThreadsOf(p)
      <3>1. /\ m_mutex' = m_mutex \ D
            /\ mutex_state' = IF m_mutex \cap D # {} THEN "owner_dead" ELSE mutex_state
            /\ \A t \in Threads : pc'[t] = IF t \in D THEN "dead" ELSE pc[t]
        BY <1>2
      <3> HIDE DEF D, crash
      <3>2. m_mutex \subseteq Threads
        BY <1>1 DEF Typed
      <3>3. \A t \in Threads : t \in m_mutex' <=> pc'[t] \in Critical
        BY <1>1, <3>1 DEF Owned, Critical
      <3>4. m_mutex \cap D # {} => m_mutex' = {}
        BY <1>1, <3>1, <3>2 DEF Owned
      <3>5. /\ \A t, u \in m_mutex' : t = u
            /\ m_mutex' # {} => mutex_state' # "not_recoverable"
            /\ \A t \in m_mutex' : pc'[t] \in {"recover", "unwind"} <=> mutex_state' = "owner_dead"
        BY <1>1, <3>1, <3>2, <3>4 DEF Owned
      <3> QED BY <3>3, <3>5 DEF Owned
    <2>3. InCall'
      BY <1>1, <1>2 DEF Typed, InCall, Admitted, sending, receiving
    <2>4. Deaths'
      BY <1>1, <1>2 DEF Typed, Deaths
    <2>5. Sleepers'
      BY <1>1, <1>2 DEF Typed, Sleepers, stopped
    <2> QED BY <2>1, <2>2, <2>3, <2>4, <2>5 DEF Control
  <1>3. CASE restart(p)
    <2> USE DEF restart, ThreadsOf, ringVars, mutexVars, condVars, historyVars, countVars
    <2>0. \A t \in Threads : ProcessOf[t] = p => pc[t] = "dead"
      BY <1>1, <1>3 DEF Deaths
    <2>1. Typed'
      BY <1>1, <1>3 DEF Typed, ControlPoints, Methods
    <2>2. Owned'
      BY <1>1, <1>3, <2>0 DEF Typed, Owned, Critical
    <2>3. InCall'
      BY <1>1, <1>3, <2>0 DEF Typed, InCall, Admitted, sending, receiving
    <2>4. Deaths'
      BY <1>1, <1>3, <2>0 DEF Typed, Deaths
    <2>5. Sleepers'
      BY <1>1, <1>3, <2>0, RolesAssumption DEF Typed, Sleepers, stopped
    <2> QED BY <2>1, <2>2, <2>3, <2>4, <2>5 DEF Control
  <1> QED BY <1>2, <1>3

-----------------------------------------------------------------------------
(* What the ring holds, at every point of a critical section *)

Rest ==
  /\ Holds(memory, m_get_pos, m_size, pending)
  /\ m_put_pos = (m_get_pos + m_size) % Capacity

(* The ring when its owner t is in the middle of its work. *)
Stage(t) ==
  /\ pc[t] \in {"locked", "copied", "read"} => Rest
  /\ pc[t] \in {"copied", "placed"} =>
       /\ m_size + estimate_block_count(arg[t]) <= Capacity
       /\ Stored(memory, (m_get_pos + m_size) % Capacity, its_message(t))
  /\ pc[t] = "placed" =>
       /\ Holds(memory, m_get_pos, m_size, pending)
       /\ m_put_pos = (m_get_pos + (m_size + estimate_block_count(arg[t]))) % Capacity
  /\ pc[t] \in {"read", "freed"} => pending # <<>> /\ buffer[t] = pending[1]
  /\ pc[t] = "freed" =>
       /\ Holds(memory, m_get_pos, m_size - arg[t], Tail(pending))
       /\ m_put_pos = (m_get_pos + (m_size - arg[t])) % Capacity
       /\ arg[t] \in 1 .. Capacity

RingInv ==
  mutex_state = "consistent" =>
    /\ m_mutex = {} => Rest
    /\ \A t \in m_mutex : Stage(t)

(* A position is advanced around the ring.                                    *)
LEMMA Advance ==
  ASSUME NEW pos \in 0 .. Capacity - 1, NEW k \in 0 .. Capacity
  PROVE  advance(pos, k) = (pos + k) % Capacity
  <1>1. k \in Nat /\ 0 \in Nat /\ k + 0 <= Capacity
    BY LayoutAssumption
  <1>2. (pos + k) % Capacity = IF pos + k < Capacity THEN pos + k ELSE pos + k - Capacity
    BY <1>1, Around
  <1> QED BY <1>1, <1>2, LayoutAssumption DEF advance

(* What a thread sends is a message that send accepted.                       *)
LEMMA ItsMessage ==
  ASSUME NoOverflow, InCall, NEW t \in Threads, sending(t)
  PROVE  its_message(t) \in Sendable /\ Len(its_message(t)) = arg[t]
  <1>1. /\ t \in Writers /\ calls[t] \in 1 .. MaxCalls /\ arg[t] \in Lengths
        /\ ~ too_long(arg[t])
    BY DEF InCall, Admitted
  <1>2. arg[t] \in Nat
    BY <1>1, BoundsAssumption
  <1>3. Len(its_message(t)) = arg[t]
    BY <1>2 DEF its_message, Message
  <1>4. its_message(t) \in AllMessages
    BY <1>1 DEF its_message, AllMessages
  <1>5. arg[t] + HeaderOverhead + BlockSize - 1 < WordModulus
    BY <1>1 DEF NoOverflow
  <1>6. estimate_block_count(arg[t]) \in Nat
    BY <1>2, <1>5, BlockCount, LayoutAssumption
  <1> QED BY <1>1, <1>3, <1>4, <1>6, LayoutAssumption DEF Sendable, too_long

(* The ring is as it was if neither it nor what its owner does has changed.   *)
LEMMA RingKept ==
  ASSUME RingInv, RingSame, UNCHANGED <<m_mutex, mutex_state>>,
         \A t \in m_mutex : /\ pc'[t] = pc[t] /\ arg'[t] = arg[t]
                            /\ buffer'[t] = buffer[t] /\ calls'[t] = calls[t]
  PROVE  RingInv'
  <1>1. \A t \in m_mutex : its_message(t)' = its_message(t)
    BY DEF its_message
  <1>2. Rest' = Rest
    BY DEF Rest, RingSame
  <1>3. \A t \in m_mutex : Stage(t) => Stage(t)'
    BY <1>1, <1>2 DEF Stage, RingSame
  <1> QED BY <1>2, <1>3 DEF RingInv

(* Each stage of enqueue_message and dequeue_message leaves the ring in the   *)
(* state that the next stage starts from.                                     *)
LEMMA WorkRing ==
  ASSUME NoOverflow, Control, RingInv, NEW t \in Threads, Others(t), Works(t)
  PROVE  RingInv'
  <1>1. Typed /\ Owned /\ InCall
    BY DEF Control
  <1>2. /\ m_mutex = {t} /\ m_mutex' = {t} /\ mutex_state = "consistent" /\ Stage(t)
    BY <1>1 DEF Works, Owned, Critical, RingInv, Typed
  <1> SUFFICES Stage(t)'
    BY <1>2 DEF RingInv
  <1>3. Rest
    BY <1>2 DEF Works, Stage
  <1> DEFINE g == m_get_pos
             n == m_size
             m == its_message(t)
             k == estimate_block_count(arg[t])
  <1>4. Holds(memory, g, n, pending) /\ m_put_pos = (g + n) % Capacity
    BY <1>3 DEF Rest
  <1>5. n \in Nat /\ g \in 0 .. Capacity - 1 /\ n <= Capacity
    BY <1>4, HeldPlaces DEF Holds
  <1>6. sending(t) => m \in Sendable /\ Len(m) = arg[t] /\ k \in 1 .. Capacity
    BY <1>1, ItsMessage, SendableMessage
  <1>7. CASE enqueue_copy(t)
    <2>1. /\ sending(t) /\ pc'[t] = "copied" /\ n + k <= Capacity
          /\ memory' = copy_in(m_put_pos, m) /\ arg' = arg /\ calls' = calls
          /\ UNCHANGED <<m_size, m_put_pos, m_get_pos, pending>>
      BY <1>1, <1>5, <1>6, <1>7, LayoutAssumption, SMTT(30)
         DEF enqueue_copy, step, kept, fits, Typed, countVars, historyVars
    <2>2. /\ Holds(memory', g, n, pending) /\ Stored(memory', (g + n) % Capacity, m)
      BY <1>4, <1>6, <2>1, HoldsCopied
    <2>3. its_message(t)' = m
      BY <2>1 DEF its_message
    <2> QED BY <1>4, <2>1, <2>2, <2>3 DEF Stage, Rest
  <1>8. CASE enqueue_advance(t)
    <2>1. /\ sending(t) /\ pc[t] = "copied" /\ pc'[t] = "placed" /\ arg' = arg /\ calls' = calls
          /\ m_put_pos' = advance((g + n) % Capacity, k)
          /\ UNCHANGED <<memory, m_size, m_get_pos, pending>>
      BY <1>1, <1>4, <1>8 DEF enqueue_advance, step, kept, Typed, countVars, historyVars
    <2>2. n + k <= Capacity /\ Stored(memory, (g + n) % Capacity, m)
      BY <1>2, <2>1 DEF Stage
    <2>3. k \in Nat /\ k \in 0 .. Capacity
      BY <1>6, <2>1, LayoutAssumption
    <2>4. /\ (g + n) % Capacity \in 0 .. Capacity - 1
          /\ (((g + n) % Capacity) + k) % Capacity = (g + (n + k)) % Capacity
      BY <1>5, <2>2, <2>3, Around
    <2>5. m_put_pos' = (g + (n + k)) % Capacity
      BY <2>1, <2>3, <2>4, Advance
    <2>6. its_message(t)' = m
      BY <2>1 DEF its_message
    <2> QED BY <1>4, <2>1, <2>2, <2>5, <2>6 DEF Stage
  <1>9. CASE dequeue_copy(t)
    <2>1. /\ n # 0 /\ pc'[t] = "read" /\ buffer'[t] = copy_out(g)
          /\ UNCHANGED <<memory, m_size, m_get_pos, m_put_pos, pending>>
      BY <1>1, <1>5, <1>9 DEF dequeue_copy, may_dequeue, step, Typed, ringVars, historyVars
    <2>2. pending # <<>> /\ copy_out(g) = pending[1]
      BY <1>4, <2>1, HeldFirst
    <2>3. Rest'
      BY <1>3, <2>1 DEF Rest
    <2> QED BY <2>1, <2>2, <2>3 DEF Stage
  <1>10. CASE dequeue_advance(t)
    <2> DEFINE b == estimate_block_count(Len(pending[1]))
    <2>1. /\ pc[t] = "read" /\ pc'[t] = "freed" /\ buffer' = buffer
          /\ arg'[t] = block_count_at(g) /\ m_get_pos' = advance(g, block_count_at(g))
          /\ UNCHANGED <<memory, m_size, m_put_pos, pending>>
      BY <1>1, <1>10 DEF dequeue_advance, step, Typed, historyVars
    <2>2. pending # <<>> /\ buffer[t] = pending[1]
      BY <1>2, <2>1 DEF Stage
    <2>3. /\ Holds(memory, (g + b) % Capacity, n - b, Tail(pending))
          /\ (((g + b) % Capacity) + (n - b)) % Capacity = (g + n) % Capacity
          /\ b \in 1 .. Capacity
      BY <1>4, <2>2, HoldsRest
    <2>4. n # 0
      BY <1>4, <1>5, <2>2, <2>3, HeldPlaces
    <2>5. block_count_at(g) = b
      BY <1>4, <2>4, HeldFirst
    <2>6. m_get_pos' = (g + b) % Capacity
      BY <1>5, <2>1, <2>3, <2>5, Advance, LayoutAssumption, SMTT(30)
    <2> QED BY <1>4, <2>1, <2>2, <2>3, <2>5, <2>6 DEF Stage
  <1> QED BY <1>7, <1>8, <1>9, <1>10 DEF Works

(* The ring holds the pending messages after every step of a thread.          *)
LEMMA ThreadRing ==
  ASSUME NoOverflow, Control, RingInv, NEW t \in Threads,
         ThreadStep(t) \/ Call(t) \/ wake_spuriously(t)
  PROVE  RingInv'
  <1>1. Typed /\ Owned /\ InCall
    BY DEF Control
  <1>2. Others(t) /\ Effect(t) /\ Typed'
    BY <1>1, Effects
  <1>3. CASE Begins(t) \/ Fails(t)
    <2>1. t \notin m_mutex
      BY <1>1, <1>3 DEF Begins, Fails, Owned, Critical
    <2> QED BY <1>1, <1>2, <1>3, <2>1, RingKept DEF Begins, Fails, Others, Typed
  <1>4. CASE Wakes(t)
    BY <1>4, RingKept DEF Wakes
  <1>5. CASE Locks(t)
    <2>1. m_mutex = {} /\ m_mutex' = {t} /\ RingSame /\ UNCHANGED mutex_state
      BY <1>5 DEF Locks
    <2>2. ASSUME mutex_state' = "consistent" PROVE Stage(t)'
      <3>1. Rest /\ pc'[t] = "locked"
        BY <1>5, <2>1, <2>2 DEF RingInv, Locks
      <3> QED BY <2>1, <3>1 DEF Stage, Rest, RingSame
    <2> QED BY <2>1, <2>2 DEF RingInv
  <1>6. CASE Leaves(t) \/ Waits(t) \/ Stops(t)
    <2>1. /\ RingSame /\ m_mutex' = {}
          /\ mutex_state' = "consistent" => mutex_state = "consistent"
          /\ t \in m_mutex /\ pc[t] \in {"locked", "unwind"}
      BY <1>1, <1>6 DEF Leaves, Waits, Stops, unlock, Owned, Critical
    <2>2. ASSUME mutex_state' = "consistent" PROVE Rest'
      <3>1. Stage(t) /\ pc[t] = "locked"
        BY <1>1, <2>1, <2>2 DEF RingInv, Owned
      <3> QED BY <2>1, <3>1 DEF Stage, Rest, RingSame
    <2> QED BY <2>1, <2>2 DEF RingInv
  <1>7. CASE Clears(t) \/ Recovers(t)
    <2>1. /\ m_size' = 0 /\ m_put_pos' = 0 /\ m_get_pos' = 0 /\ pending' = <<>>
          /\ m_mutex' = {} \/ (m_mutex' = m_mutex /\ pc'[t] = "locked")
          /\ t \in m_mutex
      BY <1>1, <1>7 DEF Clears, Recovers, clear_queue, unlock, Owned, Critical
    <2>2. (0 + 0) % Capacity = 0
      BY LayoutAssumption
    <2>3. Rest'
      BY <2>1, <2>2, HoldsNothing DEF Rest
    <2>4. m_mutex' \subseteq {t}
      BY <1>1, <2>1 DEF Owned
    <2>5. pc'[t] = "locked" => Stage(t)'
      BY <2>3 DEF Stage
    <2> QED BY <2>1, <2>3, <2>4, <2>5 DEF RingInv
  <1>8. CASE Works(t)
    BY <1>2, <1>8, WorkRing
  <1>9. CASE Counts(t)
    <2>1. /\ enqueue_count(t) /\ pc[t] = "placed" /\ m_mutex' = {} /\ t \in m_mutex
          /\ mutex_state = "consistent"
      BY <1>1, <1>9 DEF Counts, unlock, Owned, Critical, Typed
    <2>2. Stage(t) /\ sending(t)
      BY <1>1, <2>1 DEF RingInv, InCall
    <2>3. /\ its_message(t) \in Sendable /\ Len(its_message(t)) = arg[t]
      BY <1>1, <2>2, ItsMessage
    <2>4. Holds(memory, m_get_pos, m_size + estimate_block_count(arg[t]), Append(pending, its_message(t)))
      <3>1. /\ Holds(memory, m_get_pos, m_size, pending)
            /\ m_size + estimate_block_count(Len(its_message(t))) <= Capacity
            /\ Stored(memory, (m_get_pos + m_size) % Capacity, its_message(t))
        BY <2>1, <2>2, <2>3 DEF Stage
      <3>2. Holds(memory, m_get_pos, m_size + estimate_block_count(Len(its_message(t))),
                  Append(pending, its_message(t)))
        BY <2>3, <3>1, HoldsAppended
      <3> QED BY <2>3, <3>2
    <2>5. Rest'
      BY <2>1, <2>2, <2>4 DEF Stage, Rest, enqueue_count
    <2> QED BY <2>1, <2>5 DEF RingInv
  <1>10. CASE Frees(t)
    <2>1. /\ dequeue_count(t) /\ pc[t] = "freed" /\ m_mutex' = {} /\ t \in m_mutex
          /\ mutex_state = "consistent"
      BY <1>1, <1>10 DEF Frees, unlock, Owned, Critical, Typed
    <2>2. Stage(t)
      BY <2>1 DEF RingInv
    <2>3. Rest'
      BY <2>1, <2>2 DEF Stage, Rest, dequeue_count
    <2> QED BY <2>1, <2>3 DEF RingInv
  <1> QED BY <1>2, <1>3, <1>4, <1>5, <1>6, <1>7, <1>8, <1>9, <1>10 DEF Effect

(* A process that dies leaves the ring alone, or the mutex inconsistent.      *)
LEMMA ProcessRing ==
  ASSUME Control, RingInv, NEW p \in Processes, crash(p) \/ restart(p)
  PROVE  RingInv'
  <1>1. Typed /\ Owned
    BY DEF Control
  <1>2. RingSame
    BY DEF crash, restart, RingSame, ringVars, historyVars
  <1>3. CASE crash(p)
    <2>1. CASE m_mutex \cap ThreadsOf(p) = {}
      <3>1. UNCHANGED <<m_mutex, mutex_state>>
        BY <1>3, <2>1 DEF crash
      <3>2. \A t \in m_mutex : /\ pc'[t] = pc[t] /\ arg'[t] = arg[t]
                               /\ buffer'[t] = buffer[t] /\ calls'[t] = calls[t]
        BY <1>1, <1>3, <2>1 DEF crash, Typed
      <3> QED BY <1>2, <3>1, <3>2, RingKept
    <2>2. CASE m_mutex \cap ThreadsOf(p) # {}
      BY <1>3, <2>2 DEF crash, RingInv
    <2> QED BY <2>1, <2>2
  <1>4. CASE restart(p)
    <2>1. UNCHANGED <<m_mutex, mutex_state, arg, buffer, calls>>
      BY <1>4 DEF restart, mutexVars, countVars
    <2>2. \A t \in m_mutex : pc'[t] = pc[t]
      BY <1>1, <1>4, SMTT(30) DEF restart, Typed, Owned, Critical, ThreadsOf, Control, Deaths
    <2> QED BY <1>2, <2>1, <2>2, RingKept
  <1> QED BY <1>3, <1>4

(* Everything that holds of the queue, whatever the processes do.             *)
QueueInv == Control /\ RingInv

(* The queue starts in order.                                                 *)
LEMMA InitQueue ==
  ASSUME NoOverflow, Init
  PROVE  QueueInv
  <1>1. Control
    BY BoundsAssumption, SMTT(30) DEF Init, Control, Typed, ControlPoints, Methods, Owned,
       Critical, InCall,
       Admitted, sending, receiving, Deaths, Sleepers
  <1>2. (0 + 0) % Capacity = 0
    BY LayoutAssumption
  <1>3. RingInv
    BY <1>2, HoldsNothing DEF Init, RingInv, Rest
  <1> QED BY <1>1, <1>3 DEF QueueInv

(* Every step keeps it in order.                                              *)
LEMMA NextQueue ==
  ASSUME NoOverflow, QueueInv, [Next]_vars
  PROVE  QueueInv'
  <1>1. CASE Next
    BY <1>1, ThreadControl, ProcessControl, ThreadRing, ProcessRing DEF Next, QueueInv
  <1>2. CASE UNCHANGED vars
    <2> USE <1>2 DEF vars, ringVars, mutexVars, condVars, objectVars, countVars, historyVars
    <2>1. Control'
      BY DEF QueueInv, Control, Typed, Owned, InCall, Admitted, sending, receiving, Deaths,
             Sleepers, stopped
    <2>2. RingInv'
      BY RingKept DEF QueueInv, RingSame
    <2> QED BY <2>1, <2>2 DEF QueueInv
  <1> QED BY <1>1, <1>2

(* A queue that is in order holds the pending messages, each in its place.    *)
LEMMA QueueHolds ==
  ASSUME NoOverflow, QueueInv
  PROVE  RingHoldsPending
  <1> SUFFICES ASSUME Quiescent
               PROVE  LET place(i) == (m_get_pos + BlocksBefore(pending)[i - 1]) % Capacity
                      IN  /\ m_get_pos \in 0 .. Capacity - 1
                          /\ m_size = BlocksBefore(pending)[Len(pending)]
                          /\ m_size <= Capacity
                          /\ m_put_pos = (m_get_pos + m_size) % Capacity
                          /\ \A i \in 1 .. Len(pending) : copy_out(place(i)) = pending[i]
    BY DEF RingHoldsPending
  <1>1. Rest
    BY DEF Quiescent, QueueInv, RingInv, Stage
  <1>2. /\ Holds(memory, m_get_pos, m_size, pending)
        /\ m_put_pos = (m_get_pos + m_size) % Capacity
    BY <1>1 DEF Rest
  <1>3. ASSUME NEW i \in 1 .. Len(pending)
        PROVE  copy_out((m_get_pos + BlocksBefore(pending)[i - 1]) % Capacity) = pending[i]
    <2>1. /\ pending[i] \in Sendable
          /\ (m_get_pos + BlocksBefore(pending)[i - 1]) % Capacity \in 0 .. Capacity - 1
      BY <1>2, HeldPlaces
    <2>2. Stored(memory, (m_get_pos + BlocksBefore(pending)[i - 1]) % Capacity, pending[i])
      BY <1>2 DEF Holds
    <2> QED BY <2>1, <2>2, ReadBack
  <1> QED BY <1>2, <1>3 DEF Holds

(* The ring of blocks always describes the messages that were sent and not    *)
(* received: enqueue_message and dequeue_message agree on where each message  *)
(* lies, for every capacity, block size and mix of lengths, around the end of *)
(* the ring, when a handler throws, and after a process died anywhere in its  *)
(* critical section and the queue was recovered.                              *)
THEOREM RingIsConsistent ==
  ASSUME NoOverflow
  PROVE  Spec => []RingHoldsPending
  <1>1. Init => QueueInv
    BY InitQueue
  <1>2. QueueInv /\ [Next]_vars => QueueInv'
    BY NextQueue
  <1>3. QueueInv => RingHoldsPending
    BY QueueHolds
  <1> QED BY <1>1, <1>2, <1>3, PTL DEF Spec

-----------------------------------------------------------------------------
(* The queue implements a channel *)

(* A step of a thread sends one message, receives the first, gives up all of  *)
(* them, or changes none.                                                     *)
LEMMA ThreadChannel ==
  ASSUME NoOverflow, QueueInv, NEW t \in Threads, ThreadStep(t) \/ Call(t) \/ wake_spuriously(t)
  PROVE  Channel!Next \/ UNCHANGED <<pending, received>>
  <1>1. Typed /\ Owned /\ InCall /\ RingInv
    BY DEF QueueInv, Control
  <1>2. Effect(t)
    BY <1>1, Effects
  <1>3. CASE Counts(t)
    <2>1. sending(t)
      BY <1>1, <1>3 DEF Counts, InCall
    <2>2. its_message(t) \in AllMessages
      BY <1>1, <2>1, ItsMessage DEF Sendable
    <2>3. pending' = Append(pending, its_message(t)) /\ UNCHANGED received
      BY <1>3 DEF Counts, enqueue_count
    <2> QED BY <2>2, <2>3 DEF Channel!Next, Channel!Send
  <1>4. CASE Frees(t)
    <2>1. t \in m_mutex /\ mutex_state = "consistent" /\ pc[t] = "freed"
      BY <1>1, <1>4 DEF Frees, Owned, Critical, Typed
    <2>2. pending # <<>> /\ buffer[t] = pending[1]
      BY <1>1, <2>1 DEF RingInv, Stage
    <2>3. received' = Append(received, Head(pending)) /\ pending' = Tail(pending)
      BY <1>4, <2>2 DEF Frees, dequeue_count
    <2> QED BY <2>2, <2>3 DEF Channel!Next, Channel!Receive
  <1>5. CASE Clears(t) \/ Recovers(t)
    <2>1. \/ mutex_state = "owner_dead"
          \/ {u \in DOMAIN call : call[u] = "clear"} # {}
      BY <1>1, <1>5 DEF Clears, Recovers, Typed, Owned, Critical
    <2>2. pending' = <<>> /\ UNCHANGED received
      BY <1>5 DEF Clears, Recovers, clear_queue
    <2> QED BY <2>1, <2>2 DEF Channel!Next, Channel!Discard
  <1>6. CASE \/ Begins(t) \/ Locks(t) \/ Fails(t) \/ Leaves(t) \/ Waits(t) \/ Stops(t) \/ Works(t)
             \/ Wakes(t)
    BY <1>6 DEF Begins, Locks, Fails, Leaves, Waits, Stops, Works, Wakes, RingSame
  <1> QED BY <1>2, <1>3, <1>4, <1>5, <1>6 DEF Effect

(* reliable_message_queue is a channel: whatever its processes do and         *)
(* wherever they die, receive hands out messages that were sent, whole, once  *)
(* each and in the order of sending.  Messages are lost only all together,    *)
(* when a thread is in clear or a process died with the mutex in its hands.   *)
(* The mapping is the identity on pending and received: the ring, the mutex   *)
(* and the condition variables are what the implementation hides.             *)
THEOREM QueueIsChannel ==
  ASSUME NoOverflow
  PROVE  Spec => ImplementsChannel
  <1>1. Init => QueueInv
    BY InitQueue
  <1>2. QueueInv /\ [Next]_vars => QueueInv'
    BY NextQueue
  <1>3. Init => Channel!Init
    BY DEF Init, Channel!Init
  <1>4. QueueInv /\ [Next]_vars => [Channel!Next]_(Channel!channelVars)
    <2> SUFFICES ASSUME QueueInv, [Next]_vars
                 PROVE  Channel!Next \/ UNCHANGED <<pending, received>>
      BY DEF Channel!channelVars
    <2>1. ASSUME NEW p \in Processes, crash(p) \/ restart(p)
          PROVE  UNCHANGED <<pending, received>>
      BY <2>1 DEF crash, restart, historyVars
    <2>2. CASE UNCHANGED vars
      BY <2>2 DEF vars, historyVars
    <2> QED BY <2>1, <2>2, ThreadChannel DEF Next
  <1> QED BY <1>1, <1>2, <1>3, <1>4, PTL DEF Spec, ImplementsChannel, Channel!Spec

-----------------------------------------------------------------------------
(* No wake-up is lost *)

(* The queue has one reader, as its documentation asks for. *)
SingleReader == \A t, u \in Readers : t = u

(* Unless a dead owner left the queue to be recovered, a thread asleep has a  *)
(* reason to be, in the middle of a critical section too.                     *)
Asleep ==
  mutex_state = "consistent" =>
    /\ m_nonempty_queue # {} => m_size = 0
    /\ \A t \in m_nonfull_queue : ~ fits(t)

(* Fewer sleepers, the same ring.                                             *)
LEMMA AsleepKept ==
  ASSUME Asleep, UNCHANGED m_size, mutex_state' = "consistent" => mutex_state = "consistent",
         m_nonempty_queue' \subseteq m_nonempty_queue, m_nonfull_queue' \subseteq m_nonfull_queue,
         \A t \in m_nonfull_queue' : arg'[t] = arg[t]
  PROVE  Asleep'
  BY DEF Asleep, fits

(* Every step of a thread leaves asleep only those with a reason.  The writer *)
(* that fills an empty queue wakes one thread, which must be all there are.   *)
LEMMA ThreadAsleep ==
  ASSUME NoOverflow, SingleReader, QueueInv, Asleep, NEW t \in Threads,
         ThreadStep(t) \/ Call(t) \/ wake_spuriously(t)
  PROVE  Asleep'
  <1>1. Typed /\ Owned /\ InCall /\ Sleepers /\ RingInv
    BY DEF QueueInv, Control
  <1>2. Others(t) /\ Effect(t)
    BY <1>1, Effects
  <1>3. \A u, v \in m_nonempty_queue : u = v /\ pc[u] = "wait" /\ u \in Readers
    BY <1>1 DEF SingleReader, Sleepers, InCall, Admitted, receiving, Typed
  <1>4. CASE Begins(t) \/ Leaves(t) \/ Locks(t) \/ Fails(t) \/ Wakes(t) \/ Stops(t) \/ Works(t)
    <2>1. /\ UNCHANGED m_size /\ m_nonempty_queue' \subseteq m_nonempty_queue
          /\ m_nonfull_queue' \subseteq m_nonfull_queue
          /\ mutex_state' = "consistent" => mutex_state = "consistent"
      BY <1>4 DEF Begins, Leaves, Locks, Fails, Wakes, Stops, Works, unlock, RingSame
    <2>2. \A u \in m_nonfull_queue' : arg'[u] = arg[u]
      BY <1>1, <1>2, <1>4 DEF Begins, Leaves, Locks, Fails, Wakes, Stops, Works, Others, Same,
         Sleepers, Typed, awake
    <2> QED BY <2>1, <2>2, AsleepKept
  <1>5. CASE Waits(t)
    BY <1>1, <1>2, <1>5 DEF Waits, Others, Same, RingSame, unlock, Asleep, fits, Typed
  <1>6. CASE Clears(t) \/ Recovers(t)
    BY <1>6 DEF Clears, Recovers, clear_queue, Asleep
  <1>7. CASE Counts(t)
    <2>1. t \in m_mutex /\ mutex_state = "consistent" /\ pc[t] = "placed" /\ sending(t)
      BY <1>1, <1>7 DEF Counts, Owned, Critical, Typed, InCall
    <2>2. Holds(memory, m_get_pos, m_size, pending)
      BY <1>1, <2>1 DEF RingInv, Stage
    <2>3. m_size \in Nat
      BY <2>2, HeldPlaces
    <2>4. \A u \in Threads : sending(u) => estimate_block_count(arg[u]) \in 1 .. Capacity
      BY <1>1, ItsMessage, SendableMessage
    <2>5. m_size' = m_size + estimate_block_count(arg[t])
      BY <1>7 DEF Counts, enqueue_count
    <2>6. m_nonempty_queue' = {}
      BY <1>3, <1>7, <2>1 DEF Counts, enqueue_count, notify_nonempty, Asleep
    <2>7. ASSUME NEW u \in m_nonfull_queue PROVE ~ fits(u)' /\ u \in m_nonfull_queue
      <3>1. ~ fits(u) /\ arg'[u] = arg[u] /\ sending(u) /\ u \in Threads
        BY <1>1, <1>2, <2>1 DEF Asleep, Sleepers, Others, sending, Typed
      <3> QED BY <2>1, <2>3, <2>4, <2>5, <3>1, LayoutAssumption DEF fits
    <2>8. UNCHANGED m_nonfull_queue
      BY <1>7 DEF Counts
    <2> QED BY <2>6, <2>7, <2>8 DEF Asleep
  <1>8. CASE Frees(t)
    <2>1. t \in Readers /\ pc[t] = "freed"
      BY <1>1, <1>8 DEF Frees, InCall, Admitted
    <2>2. m_nonempty_queue = {}
      BY <1>3, <2>1 DEF SingleReader
    <2> QED BY <1>8, <2>2 DEF Frees, Asleep
  <1> QED BY <1>2, <1>4, <1>5, <1>6, <1>7, <1>8 DEF Effect

(* With one reader, no wake-up is lost: a reader never sleeps while there is  *)
(* a message, although enqueue_message notifies one thread, and only when it  *)
(* finds the queue empty; a writer never sleeps while its message fits; and   *)
(* stop_local wakes every thread of its object.  Spurious wake-ups, clear(),  *)
(* and processes that die, asleep or not, are included.                       *)
THEOREM NoLostWakeup ==
  ASSUME NoOverflow, SingleReader
  PROVE  Spec => []SleepersBlocked
  <1>1. Init => QueueInv /\ Asleep
    BY InitQueue DEF Init, Asleep
  <1>2. QueueInv /\ [Next]_vars => QueueInv'
    BY NextQueue
  <1>3. QueueInv /\ Asleep /\ [Next]_vars => Asleep'
    <2> SUFFICES ASSUME QueueInv, Asleep, [Next]_vars PROVE Asleep'
      OBVIOUS
    <2>1. ASSUME NEW p \in Processes, crash(p) \/ restart(p) PROVE Asleep'
      BY <2>1, AsleepKept DEF crash, restart, ringVars, mutexVars, condVars, QueueInv, Control,
         Typed
    <2>2. CASE UNCHANGED vars
      BY <2>2, AsleepKept DEF vars, ringVars, mutexVars, condVars
    <2> QED BY <2>1, <2>2, ThreadAsleep DEF Next
  <1>4. QueueInv /\ Asleep => SleepersBlocked
    BY DEF QueueInv, Control, Sleepers, Asleep, SleepersBlocked, Quiescent
  <1> QED BY <1>1, <1>2, <1>3, <1>4, PTL DEF Spec

=============================================================================
