-------------------------- MODULE LoggerSourcesProofs --------------------------
(***************************************************************************)
(* Proofs about LoggerSources, for any threads, loggers and requests, and  *)
(* statements inside of each other to any depth.                           *)
(*                                                                         *)
(* What a thread has on its stack depends on the thread alone: which       *)
(* statements evaluate their expressions (Nesting), the exceptions in      *)
(* flight (Unwinding), the level (Levelled), and the streams (Streamed).   *)
(* The channel of a record is shared.  It stays what the statement has set *)
(* until the core reads it (Channelled) because the statement holds the    *)
(* logger's lock alone (Locking), and because no other logger has the      *)
(* attribute, nor has a copy that is about to be assigned (Separate).      *)
(***************************************************************************)
EXTENDS LoggerSources, FiniteSetTheorems, TLAPS

(* The provers, with their limits in seconds, for the leaves that name none.  *)
USE ZenonT(10), SMTT(30)

(* Finitely many threads and loggers, which are numbered. *)
Numbered ==
  IsFiniteSet(Threads) /\ IsFiniteSet(Logs) /\ Logs = 1 .. Cardinality(Logs) /\ MaxDepth \in Nat

Phases == {"lock", "open", "core", "handle_open", "stream", "unwind", "push", "handle_push", "done"}
Opening == {"lock", "open", "core", "handle_open"}
Evaluating == {"stream", "unwind"}
Holding == {"open", "core", "handle_open"}
Levels == {request.severity : request \in Requests} \cup {0}
Names == {request.channel : request \in Requests} \cup Channels \cup {SomeChannel, NoChannel}

StatementType ==
  [phase : Phases, log : Logs, level : Levels, channel : Names, value : Names, seen : Levels,
   compound : Nat, exceptions : Int, nested : BOOLEAN, threw : BOOLEAN]

Swaps == [op : {"swap"}, this : Logs, that : Logs]
Assigns ==
  [op : {"assign"}, this : Logs, attr : AttributeObjects, registered : AttributeObjects,
   handler : {"none", "absorbs"}]

StackTyped == stack \in [Threads -> Seq(StatementType)]

ThreadTyped ==
  /\ StackTyped
  /\ uncaught \in [Threads -> Int]
  /\ g_Severity \in [Threads -> Levels]
  /\ streams \in [Threads -> Seq(Nat)]
  /\ m_Top \in [Threads -> Seq(Nat)]

SharedTyped ==
  /\ m_Mutex \in [Logs -> [writer : SUBSET Threads, readers : SUBSET Threads]]
  /\ m_Attributes \in [Logs -> AttributeObjects]
  /\ m_ChannelAttr \in [Logs -> AttributeObjects]
  /\ m_Value \in [AttributeObjects -> Names]
  /\ m_ExceptionHandler \in [Logs -> {"none", "absorbs"}]
  /\ call \in [Threads -> {NoCall} \cup Swaps \cup Assigns]

(* Only the innermost statement is not in its streaming expression. *)
Nesting(t) == \A i \in 1 .. depth(t) : i < depth(t) => stack[t][i].phase \in Evaluating

(* The exceptions in flight when statement i of t has evaluated its expression. *)
InFlight(t, i) == stack[t][i].exceptions + (IF stack[t][i].threw THEN 1 ELSE 0)

(* A statement has thrown while it is unwound.  The record_pump counted the   *)
(* exceptions of the statements around.                                       *)
Unwinding(t) ==
  /\ \A i \in 1 .. depth(t) : stack[t][i].threw <=> stack[t][i].phase = "unwind"
  /\ \A i \in 2 .. depth(t) :
       stack[t][i].phase \notin Opening => stack[t][i].exceptions = InFlight(t, i - 1)
  /\ \A i \in 1 .. depth(t) :
       /\ i = depth(t) /\ stack[t][i].phase \notin Opening => uncaught[t] = InFlight(t, i)
       /\ i = depth(t) - 1 /\ stack[t][depth(t)].phase \in Opening => uncaught[t] = InFlight(t, i)

(* The thread has the level of a statement, or the statement logged inside. *)
Levelled(t) ==
  \A i \in 1 .. depth(t) :
    LET s == stack[t][i]
    IN  /\ s.phase \notin {"lock", "open"} => g_Severity[t] = s.level \/ s.nested
        /\ s.phase = "done" => s.seen = s.level \/ s.nested

Valued(t) ==
  \A i \in 1 .. depth(t) : stack[t][i].phase \notin Opening => stack[t][i].value = stack[t][i].channel

(* A statement has a stream from when the core accepts its record. *)
Streamed(t) ==
  /\ \A i \in 1 .. depth(t) :
       LET s == stack[t][i]
       IN  IF s.phase \in Opening THEN s.compound = 0
           ELSE s.compound \in DOMAIN streams[t] /\ streams[t][s.compound] = i
  /\ Range(m_Top[t]) = {c \in DOMAIN streams[t] : streams[t][c] = 0}
  /\ IsInjective(m_Top[t])

(* Who holds the lock of a logger, and what the lock protects. *)
HoldsLock(t) == stack[t] # <<>> /\ top(t).phase \in Holding

Locking ==
  /\ \A t \in Threads : call[t] # NoCall => stack[t] = <<>>
  /\ \A t \in Threads : call[t].op = "swap" => m_Mutex[call[t].this].writer = {t}
  /\ "channel" \in Features =>
       \A t \in Threads : HoldsLock(t) => m_Mutex[top(t).log].writer = {t}

Channelled ==
  \A t \in Threads : At(t, "core") => m_Value[m_ChannelAttr[top(t).log]] = top(t).channel

Assigning(t) == call[t].op = "assign"

Separate ==
  /\ m_Attributes = m_ChannelAttr
  /\ \A l, k \in Logs : m_ChannelAttr[l] = m_ChannelAttr[k] => l = k
  /\ \A t \in Threads : Assigning(t) => call[t].registered = call[t].attr
  /\ \A t \in Threads : \A l \in Logs : Assigning(t) => call[t].attr # m_ChannelAttr[l]
  /\ \A t, u \in Threads : Assigning(t) /\ Assigning(u) /\ call[t].attr = call[u].attr => t = u

ThreadInv ==
  ThreadTyped /\ \A t \in Threads : Nesting(t) /\ Unwinding(t) /\ Levelled(t) /\ Streamed(t)

SharedInv == SharedTyped /\ Locking /\ Separate

ChannelInv == Channelled /\ \A t \in Threads : Valued(t)

-----------------------------------------------------------------------------
(* What the operations on a stack do to it, statement by statement *)

Others(t) == \A u \in Threads \ {t} : stack'[u] = stack[u]
Below(t, n) == \A i \in 1 .. n : stack'[t][i] = stack[t][i]

(* A statement begins.                                                        *)
LEMMA Appended ==
  ASSUME StackTyped, NEW t \in Threads, NEW s \in StatementType,
         stack' = [stack EXCEPT ![t] = Append(@, s)]
  PROVE  /\ StackTyped' /\ Others(t)
         /\ Len(stack'[t]) = depth(t) + 1 /\ stack'[t][depth(t) + 1] = s /\ Below(t, depth(t))
<1> DEFINE f == stack[t]
<1>1. f \in Seq(StatementType) /\ stack'[t] = Append(f, s)
  BY DEF StackTyped
<1>2. /\ Append(f, s) \in Seq(StatementType) /\ Len(Append(f, s)) = Len(f) + 1
      /\ \A i \in 1 .. Len(f) : Append(f, s)[i] = f[i]
      /\ Append(f, s)[Len(f) + 1] = s
  BY <1>1, SMTT(30)
<1>3. StackTyped' /\ Others(t)
  BY <1>1, <1>2 DEF StackTyped, Others
<1> QED BY <1>1, <1>2, <1>3 DEF depth, Below

(* The innermost statement changes.                                           *)
LEMMA Replaced ==
  ASSUME StackTyped, NEW t \in Threads, NEW s \in StatementType, stack[t] # <<>>, set_top(t, s)
  PROVE  /\ StackTyped' /\ Others(t)
         /\ Len(stack'[t]) = depth(t) /\ stack'[t][depth(t)] = s /\ Below(t, depth(t) - 1)
<1> DEFINE f == stack[t]
           g == [f EXCEPT ![Len(f)] = s]
<1>1. f \in Seq(StatementType) /\ stack'[t] = g
  BY DEF StackTyped, set_top, depth
<1>2. Len(f) \in Nat /\ Len(f) > 0
  BY <1>1, SMTT(30)
<1>3. g \in Seq(StatementType) /\ Len(g) = Len(f) /\ \A i \in 1 .. Len(f) : g[i] = IF i = Len(f) THEN s ELSE f[i]
  BY <1>1, <1>2, SMTT(30)
<1>4. StackTyped' /\ Others(t)
  BY <1>1, <1>3 DEF StackTyped, Others, set_top
<1>5. Len(f) \in 1 .. Len(f) /\ \A i \in 1 .. Len(f) - 1 : i \in 1 .. Len(f) /\ i # Len(f)
  BY <1>2, SMTT(30)
<1> QED BY <1>1, <1>3, <1>4, <1>5 DEF depth, Below

(* The innermost statement ends.                                              *)
LEMMA Dropped ==
  ASSUME StackTyped, NEW t \in Threads, stack[t] # <<>>, stack' = [stack EXCEPT ![t] = Outer(@)]
  PROVE  StackTyped' /\ Others(t) /\ Len(stack'[t]) = depth(t) - 1 /\ Below(t, depth(t) - 1)
<1> DEFINE f == stack[t]
           g == Outer(f)
<1>1. f \in Seq(StatementType) /\ stack'[t] = g
  BY DEF StackTyped
<1>2. Len(f) \in Nat /\ Len(f) > 0
  BY <1>1, SMTT(30)
<1>3. g \in Seq(StatementType) /\ Len(g) = Len(f) - 1 /\ \A i \in 1 .. Len(f) - 1 : g[i] = f[i]
  BY <1>1, <1>2, SMTT(30) DEF Outer
<1>4. StackTyped' /\ Others(t)
  BY <1>1, <1>3 DEF StackTyped, Others
<1> QED BY <1>1, <1>3, <1>4 DEF depth, Below

(* The innermost statement ends and interrupts the one around it.             *)
LEMMA Interrupted ==
  ASSUME StackTyped, NEW t \in Threads, depth(t) - 1 > 0,
         stack' = [stack EXCEPT ![t] = [Outer(@) EXCEPT ![depth(t) - 1].phase = "unwind",
                                                        ![depth(t) - 1].threw = TRUE]]
  PROVE  /\ StackTyped' /\ Others(t)
         /\ Len(stack'[t]) = depth(t) - 1 /\ Below(t, depth(t) - 2)
         /\ stack'[t][depth(t) - 1] =
              [stack[t][depth(t) - 1] EXCEPT !.phase = "unwind", !.threw = TRUE]
<1> DEFINE f == stack[t]
           n == Len(f) - 1
           r == [f[n] EXCEPT !.phase = "unwind", !.threw = TRUE]
           g == Outer(f)
           h == [g EXCEPT ![n].phase = "unwind", ![n].threw = TRUE]
<1>1. f \in Seq(StatementType) /\ stack'[t] = h
  BY DEF StackTyped, depth
<1>2. Len(f) \in Nat /\ n \in Nat /\ n > 0 /\ n \in 1 .. Len(f)
  BY <1>1, SMTT(30) DEF depth
<1>3. g \in Seq(StatementType) /\ Len(g) = n /\ \A i \in 1 .. n : g[i] = f[i]
  BY <1>1, <1>2, SMTT(30) DEF Outer
<1>4. f[n] \in StatementType /\ n \in 1 .. n
  BY <1>1, <1>2, SMTT(30)
<1>5. r \in StatementType
  BY <1>4 DEF StatementType, Phases
<1> HIDE DEF r
<1>6. h = [g EXCEPT ![n] = r]
  <2>1. DOMAIN g = 1 .. n
    BY <1>2, <1>3, SMTT(30)
  <2> DEFINE q == [f[n] EXCEPT !.phase = "unwind"]
             k == [g EXCEPT ![n] = q]
  <2>2. h = [[g EXCEPT ![n].phase = "unwind"] EXCEPT ![n].threw = TRUE]
    OBVIOUS
  <2>3. [g EXCEPT ![n].phase = "unwind"] = k /\ k[n] = q
    BY <1>3, <1>4, <2>1
  <2>4. r = [q EXCEPT !.threw = TRUE]
    BY DEF r
  <2> HIDE DEF q
  <2>5. [k EXCEPT ![n].threw = TRUE] = [k EXCEPT ![n] = r]
    BY <2>3, <2>4
  <2>6. [k EXCEPT ![n] = r] = [g EXCEPT ![n] = r]
    BY SMTT(30)
  <2> QED BY <2>2, <2>3, <2>5, <2>6
<1> HIDE DEF g, h
<1>7. /\ h \in Seq(StatementType) /\ Len(h) = n
      /\ \A i \in 1 .. n : h[i] = IF i = n THEN r ELSE f[i]
  BY <1>2, <1>3, <1>5, <1>6, SMTT(30)
<1>8. StackTyped' /\ Others(t)
  BY <1>1, <1>7 DEF StackTyped, Others, g, h
<1>9. \A i \in 1 .. n - 1 : i \in 1 .. n /\ i # n
  BY <1>2, SMTT(30)
<1>10. stack'[t][n] = r /\ Len(stack'[t]) = n /\ \A i \in 1 .. n - 1 : stack'[t][i] = f[i]
  BY <1>1, <1>4, <1>7, <1>9
<1>11. n = depth(t) - 1 /\ n - 1 = depth(t) - 2
  BY <1>2, SMTT(30) DEF depth
<1> QED BY <1>8, <1>10, <1>11 DEF Below, r

(* The innermost statement sets the level and the channel.                    *)
LEMMA Noted ==
  ASSUME StackTyped, NEW t \in Threads, stack[t] # <<>>, NEW s \in StatementType,
         stack' = [stack EXCEPT ![t] = [i \in DOMAIN @ |->
                     IF i < depth(t) THEN [@[i] EXCEPT !.nested = TRUE] ELSE s]]
  PROVE  /\ StackTyped' /\ Others(t)
         /\ Len(stack'[t]) = depth(t) /\ stack'[t][depth(t)] = s
         /\ \A i \in 1 .. depth(t) - 1 : stack'[t][i] = [stack[t][i] EXCEPT !.nested = TRUE]
<1> DEFINE f == stack[t]
           g == [i \in DOMAIN f |-> IF i < Len(f) THEN [f[i] EXCEPT !.nested = TRUE] ELSE s]
<1>1. f \in Seq(StatementType) /\ stack'[t] = g
  BY DEF StackTyped, depth
<1>2. Len(f) \in Nat /\ Len(f) > 0 /\ DOMAIN f = 1 .. Len(f)
  BY <1>1, SMTT(30)
<1>3. \A i \in 1 .. Len(f) : f[i] \in StatementType
  BY <1>1, SMTT(30)
<1>4. \A i \in 1 .. Len(f) : [f[i] EXCEPT !.nested = TRUE] \in StatementType
  BY <1>3 DEF StatementType
<1>5. g \in [1 .. Len(f) -> StatementType]
  BY <1>2, <1>4
<1>6. g \in Seq(StatementType) /\ Len(g) = Len(f)
  BY <1>2, <1>5, SMTT(30)
<1>7. StackTyped' /\ Others(t)
  BY <1>1, <1>6 DEF StackTyped, Others
<1>8. Len(f) \in 1 .. Len(f) /\ ~ (Len(f) < Len(f))
  BY <1>2, SMTT(30)
<1>9. \A i \in 1 .. Len(f) - 1 : i \in 1 .. Len(f) /\ i < Len(f)
  BY <1>2, SMTT(30)
<1> QED BY <1>1, <1>2, <1>6, <1>7, <1>8, <1>9 DEF depth

-----------------------------------------------------------------------------
(* What a step does to the stack of its thread *)

(* A statement that has logged inside, and one that is interrupted. *)
WithNested(s) == [s EXCEPT !.nested = TRUE]
Unwound(s) == [s EXCEPT !.phase = "unwind", !.threw = TRUE]

(* s goes on as r, which has the same logger and the same values to log. *)
GoesOn(s, r) == r.log = s.log /\ r.level = s.level /\ r.channel = s.channel /\ r.nested = s.nested

(* The record and its pump are the same. *)
SameRecord(s, r) ==
  GoesOn(s, r) /\ r.value = s.value /\ r.exceptions = s.exceptions /\ r.compound = s.compound

Tops(t) == depth(t) > 0 /\ Len(stack'[t]) = depth(t) /\ Below(t, depth(t) - 1)

Stays(t) == uncaught'[t] = uncaught[t] /\ g_Severity'[t] = g_Severity[t]
KeepsStreams(t) == streams'[t] = streams[t] /\ m_Top'[t] = m_Top[t]

Begins(t) ==
  /\ depth(t) > 0 => top(t).phase \in Evaluating
  /\ Len(stack'[t]) = depth(t) + 1 /\ Below(t, depth(t))
  /\ LET r == stack'[t][depth(t) + 1] IN r.phase = "lock" /\ ~r.threw /\ r.compound = 0
  /\ Stays(t) /\ KeepsStreams(t)

Opens(t) ==
  /\ Tops(t)
  /\ LET r == stack'[t][depth(t)]
     IN  /\ SameRecord(top(t), r) /\ r.threw = top(t).threw
         /\ <<top(t).phase, r.phase>> \in {<<"lock", "open">>, <<"core", "handle_open">>}
  /\ Stays(t) /\ KeepsStreams(t)

Values(t) ==
  /\ depth(t) > 0 /\ top(t).phase = "open" /\ Len(stack'[t]) = depth(t)
  /\ \A i \in 1 .. depth(t) - 1 : stack'[t][i] = WithNested(stack[t][i])
  /\ LET r == stack'[t][depth(t)]
     IN  /\ r.phase = "core" /\ r.log = top(t).log /\ r.level = top(t).level
         /\ r.threw = top(t).threw /\ r.compound = top(t).compound
  /\ g_Severity'[t] = top(t).level /\ uncaught'[t] = uncaught[t] /\ KeepsStreams(t)

Accepts(t) ==
  /\ Tops(t) /\ top(t).phase = "core"
  /\ LET r == stack'[t][depth(t)]
     IN  /\ GoesOn(top(t), r) /\ r.phase = "stream" /\ r.threw = top(t).threw
         /\ r.value = m_Value[m_Attributes[top(t).log]] /\ r.exceptions = uncaught[t]
         /\ allocate_compound(t, r.compound)
  /\ Stays(t)

Throws(t) ==
  /\ Tops(t) /\ top(t).phase = "stream"
  /\ LET r == stack'[t][depth(t)] IN SameRecord(top(t), r) /\ r.phase = "unwind" /\ r.threw
  /\ uncaught'[t] = uncaught[t] + 1 /\ g_Severity'[t] = g_Severity[t] /\ KeepsStreams(t)

Pushes(t) ==
  /\ Tops(t)
  /\ LET r == stack'[t][depth(t)]
     IN  /\ SameRecord(top(t), r) /\ r.threw = top(t).threw
         /\ \/ /\ top(t).phase \in Evaluating /\ top(t).exceptions >= uncaught[t]
               /\ r.phase = "push"
            \/ top(t).phase = "push" /\ r.phase \in {"handle_push", "done"}
         /\ r.phase = "done" => r.seen = g_Severity[t]
  /\ Stays(t) /\ KeepsStreams(t)

(* The statement ends before the core accepted a record, with an exception    *)
(* out of its expression, or after the push; the streams are given back.      *)
Leaves(t) ==
  \/ top(t).phase \in {"core", "handle_open"} /\ KeepsStreams(t)
  \/ /\ top(t).phase \in {"push", "handle_push", "done"} \/ top(t).exceptions < uncaught[t]
     /\ top(t).phase \notin Opening
     /\ release_compound(t, top(t).compound)

Remaining(t) == IF top(t).phase \in Evaluating THEN uncaught[t] - 1 ELSE uncaught[t]

Ends(t) ==
  /\ depth(t) > 0 /\ Leaves(t) /\ g_Severity'[t] = g_Severity[t]
  /\ Len(stack'[t]) = depth(t) - 1
  /\ \/ uncaught'[t] = Remaining(t) /\ Below(t, depth(t) - 1)
     \/ /\ depth(t) - 1 > 0 /\ stack[t][depth(t) - 1].phase = "stream"
        /\ uncaught'[t] = Remaining(t) + 1 /\ Below(t, depth(t) - 2)
        /\ stack'[t][depth(t) - 1] = Unwound(stack[t][depth(t) - 1])

(* The other threads have what they had. *)
OthersAlike(t) ==
  \A u \in Threads \ {t} :
    /\ stack'[u] = stack[u] /\ uncaught'[u] = uncaught[u] /\ g_Severity'[u] = g_Severity[u]
    /\ streams'[u] = streams[u] /\ m_Top'[u] = m_Top[u]

Effect(t) == Begins(t) \/ Opens(t) \/ Values(t) \/ Accepts(t) \/ Throws(t) \/ Pushes(t) \/ Ends(t)

threadVars == <<stack, uncaught, g_Severity, streams, m_Top>>

(* The statements around the innermost one are numbered below it.             *)
LEMMA Innermost ==
  ASSUME StackTyped, NEW t \in Threads
  PROVE  /\ depth(t) \in Nat
         /\ stack[t] # <<>> => depth(t) > 0 /\ top(t) \in StatementType /\ top(t) = stack[t][depth(t)]
         /\ stack[t] = <<>> => depth(t) = 0
         /\ \A i \in 1 .. depth(t) : stack[t][i] \in StatementType
<1>1. stack[t] \in Seq(StatementType)
  BY DEF StackTyped
<1> QED BY <1>1, SMTT(30) DEF depth, top

(* A record with another phase is a record.                                   *)
LEMMA Phased ==
  ASSUME NEW s \in StatementType, NEW p \in Phases
  PROVE  LET r == [s EXCEPT !.phase = p]
         IN  r \in StatementType /\ r.phase = p /\ r.threw = s.threw /\ SameRecord(s, r)
BY DEF StatementType, SameRecord, GoesOn

(* A stream is taken, or given back, by its own thread.                       *)
LEMMA StreamsOwn ==
  ASSUME ThreadTyped, NEW t \in Threads, NEW c \in Nat, allocate_compound(t, c) \/ release_compound(t, c)
  PROVE  /\ streams' \in [Threads -> Seq(Nat)] /\ m_Top' \in [Threads -> Seq(Nat)]
         /\ \A u \in Threads \ {t} : streams'[u] = streams[u] /\ m_Top'[u] = m_Top[u]
<1> DEFINE f == streams[t]
           m == m_Top[t]
<1>1. /\ streams \in [Threads -> Seq(Nat)] /\ m_Top \in [Threads -> Seq(Nat)]
      /\ f \in Seq(Nat) /\ m \in Seq(Nat) /\ depth(t) \in Nat
  BY Innermost DEF ThreadTyped
<1>2. Append(f, depth(t)) \in Seq(Nat) /\ \A x \in Nat : [f EXCEPT ![c] = x] \in Seq(Nat)
  <2>1. Append(f, depth(t)) \in Seq(Nat)
    BY <1>1, SMTT(30)
  <2>2. ASSUME NEW x \in Nat PROVE [f EXCEPT ![c] = x] \in Seq(Nat)
    <3>1. CASE c \in 1 .. Len(f)
      BY <1>1, <3>1, SMTT(30)
    <3>2. CASE c \notin 1 .. Len(f)
      <4>1. [f EXCEPT ![c] = x] = f
        BY <1>1, <3>2, SMTT(30)
      <4> QED BY <1>1, <4>1
    <3> QED BY <3>1, <3>2
  <2> QED BY <2>1, <2>2
<1>3. m # <<>> => Tail(m) \in Seq(Nat)
  BY <1>1, SMTT(30)
<1>4. <<c>> \o m \in Seq(Nat)
  BY <1>1, SMTT(30)
<1>5. CASE allocate_compound(t, c) /\ m = <<>>
  BY <1>1, <1>2, <1>5 DEF allocate_compound
<1>6. CASE allocate_compound(t, c) /\ m # <<>>
  BY <1>1, <1>2, <1>3, <1>6 DEF allocate_compound
<1>7. CASE release_compound(t, c)
  BY <1>1, <1>2, <1>4, <1>7 DEF release_compound
<1> QED BY <1>5, <1>6, <1>7

(* goto changes the phase of the innermost statement.                         *)
LEMMA Goes ==
  ASSUME StackTyped, NEW t \in Threads, stack[t] # <<>>, NEW p \in Phases, goto(t, p)
  PROVE  /\ StackTyped' /\ Others(t) /\ Tops(t)
         /\ stack'[t][depth(t)].phase = p /\ stack'[t][depth(t)].threw = top(t).threw
         /\ SameRecord(top(t), stack'[t][depth(t)])
<1> DEFINE r == [top(t) EXCEPT !.phase = p]
<1>1. top(t) \in StatementType /\ depth(t) > 0
  BY Innermost
<1>2. r \in StatementType /\ r.phase = p /\ r.threw = top(t).threw /\ SameRecord(top(t), r)
  BY <1>1, Phased
<1>3. set_top(t, r)
  BY DEF goto
<1> HIDE DEF r
<1>4. /\ StackTyped' /\ Others(t)
      /\ Len(stack'[t]) = depth(t) /\ stack'[t][depth(t)] = r /\ Below(t, depth(t) - 1)
  BY <1>2, <1>3, Replaced
<1> QED BY <1>1, <1>2, <1>4 DEF Tops

(* What raise does, and leave.                                                *)
LEMMA Raises ==
  ASSUME ThreadTyped, NEW t \in Threads, stack[t] # <<>>, NEW n \in Int, n = Remaining(t),
         raise(t, n) \/ (leave(t) /\ n = uncaught[t]),
         Leaves(t), g_Severity' = g_Severity
  PROVE  /\ StackTyped' /\ Others(t) /\ Ends(t)
         /\ uncaught' \in [Threads -> Int] /\ \A u \in Threads \ {t} : uncaught'[u] = uncaught[u]
<1>1. StackTyped /\ uncaught \in [Threads -> Int] /\ depth(t) > 0 /\ depth(t) \in Nat
  BY Innermost DEF ThreadTyped
<1>2. CASE stack' = [stack EXCEPT ![t] = Outer(@)] /\ uncaught' = [uncaught EXCEPT ![t] = n]
  <2>1. StackTyped' /\ Others(t) /\ Len(stack'[t]) = depth(t) - 1 /\ Below(t, depth(t) - 1)
    BY <1>1, <1>2, Dropped
  <2>2. uncaught'[t] = n /\ uncaught' \in [Threads -> Int]
    BY <1>1, <1>2
  <2> QED BY <1>1, <1>2, <2>1, <2>2 DEF Ends
<1>3. CASE leave(t) /\ n = uncaught[t]
  <2>1. StackTyped' /\ Others(t) /\ Len(stack'[t]) = depth(t) - 1 /\ Below(t, depth(t) - 1)
    BY <1>1, <1>3, Dropped DEF leave
  <2>2. uncaught' = uncaught
    BY <1>3 DEF leave
  <2> QED BY <1>1, <1>3, <2>1, <2>2 DEF Ends
<1>4. CASE /\ depth(t) - 1 > 0 /\ stack[t][depth(t) - 1].phase = "stream"
           /\ stack' = [stack EXCEPT ![t] = [Outer(@) EXCEPT ![depth(t) - 1].phase = "unwind",
                                                             ![depth(t) - 1].threw = TRUE]]
           /\ uncaught' = [uncaught EXCEPT ![t] = n + 1]
  <2>1. /\ StackTyped' /\ Others(t) /\ Len(stack'[t]) = depth(t) - 1 /\ Below(t, depth(t) - 2)
        /\ stack'[t][depth(t) - 1] =
             Unwound(stack[t][depth(t) - 1])
    BY <1>1, <1>4, Interrupted DEF Unwound
  <2>2. uncaught'[t] = n + 1 /\ uncaught' \in [Threads -> Int]
    BY <1>1, <1>4, SMTT(30)
  <2> QED BY <1>1, <1>4, <2>1, <2>2 DEF Ends
<1> QED BY <1>2, <1>3, <1>4 DEF raise

-----------------------------------------------------------------------------
(* Every step is one of these *)

Done(t) == ThreadTyped' /\ OthersAlike(t) /\ Effect(t)

(* What is left to show once the stack is known.                              *)
LEMMA StackAlone ==
  ASSUME ThreadTyped, NEW t \in Threads, StackTyped', Others(t), Effect(t),
         uncaught' \in [Threads -> Int], \A u \in Threads \ {t} : uncaught'[u] = uncaught[u],
         g_Severity' \in [Threads -> Levels],
         \A u \in Threads \ {t} : g_Severity'[u] = g_Severity[u],
         \/ UNCHANGED streamVars
         \/ \E c \in Nat : allocate_compound(t, c) \/ release_compound(t, c)
  PROVE  Done(t)
<1>1. /\ streams' \in [Threads -> Seq(Nat)] /\ m_Top' \in [Threads -> Seq(Nat)]
      /\ \A u \in Threads \ {t} : streams'[u] = streams[u] /\ m_Top'[u] = m_Top[u]
  <2>1. CASE UNCHANGED streamVars
    BY <2>1 DEF ThreadTyped, streamVars
  <2>2. CASE \E c \in Nat : allocate_compound(t, c) \/ release_compound(t, c)
    BY <2>2, StreamsOwn
  <2> QED BY <2>1, <2>2
<1> QED BY <1>1 DEF Done, ThreadTyped, OthersAlike, Others

(* A statement begins.                                                        *)
LEMMA OpenRecord ==
  ASSUME ThreadTyped, NEW t \in Threads, NEW l \in Logs, NEW request \in Requests,
         open_record(t, l, request)
  PROVE  Done(t)
<1> DEFINE s == [phase |-> "lock", log |-> l, level |-> request.severity, channel |-> request.channel,
                 value |-> NoChannel, seen |-> 0, compound |-> 0, exceptions |-> 0, nested |-> FALSE,
                 threw |-> FALSE]
<1>1. StackTyped /\ uncaught \in [Threads -> Int] /\ g_Severity \in [Threads -> Levels]
  BY DEF ThreadTyped
<1>2. /\ s \in StatementType
      /\ s.phase = "lock" /\ ~s.threw /\ s.compound = 0
  BY DEF StatementType, Phases, Levels, Names
<1>3. stack' = [stack EXCEPT ![t] = Append(@, s)]
  BY DEF open_record
<1> HIDE DEF s
<1>4. /\ StackTyped' /\ Others(t)
      /\ Len(stack'[t]) = depth(t) + 1 /\ stack'[t][depth(t) + 1] = s /\ Below(t, depth(t))
  BY <1>1, <1>2, <1>3, Appended
<1>5. depth(t) > 0 => top(t).phase \in Evaluating
  <2>1. CASE Idle(t)
    <3>1. ~ (depth(t) > 0)
      BY <1>1, <2>1, Innermost, SMTT(30) DEF Idle
    <3> QED BY <3>1
  <2>2. CASE At(t, "stream") \/ At(t, "unwind")
    BY <2>2 DEF At, Evaluating
  <2> QED BY <2>1, <2>2 DEF open_record
<1>6. Begins(t)
  BY <1>2, <1>4, <1>5 DEF Begins, Stays, KeepsStreams, open_record, streamVars
<1>7. UNCHANGED <<g_Severity, uncaught, streamVars>>
  BY DEF open_record
<1> QED BY <1>1, <1>4, <1>6, <1>7, StackAlone DEF Effect

(* A step within open_record, up to the core's answer.                        *)
LEMMA OpenSteps ==
  ASSUME ThreadTyped, NEW t \in Threads, \/ lock_logger(t)
                                         \/ core_throws(t) /\ "exception_handler" \in Features
  PROVE  Done(t)
<1>1. StackTyped /\ uncaught \in [Threads -> Int] /\ g_Severity \in [Threads -> Levels]
  BY DEF ThreadTyped
<1>2. UNCHANGED <<g_Severity, uncaught, streamVars>>
  BY DEF lock_logger, core_throws
<1>3. PICK p \in {"open", "handle_open"} :
        goto(t, p) /\ stack[t] # <<>> /\ <<top(t).phase, p>> \in {<<"lock", "open">>, <<"core", "handle_open">>}
  BY DEF lock_logger, core_throws, At
<1>4. p \in Phases
  BY DEF Phases
<1>5. /\ StackTyped' /\ Others(t) /\ Tops(t)
      /\ stack'[t][depth(t)].phase = p /\ stack'[t][depth(t)].threw = top(t).threw
      /\ SameRecord(top(t), stack'[t][depth(t)])
  BY <1>1, <1>3, <1>4, Goes
<1>6. Opens(t)
  BY <1>2, <1>3, <1>5 DEF Opens, Stays, KeepsStreams, streamVars
<1> QED BY <1>1, <1>2, <1>5, <1>6, StackAlone DEF Effect

(* The values are set.                                                        *)
LEMMA SetValues ==
  ASSUME ThreadTyped, SharedTyped, NEW t \in Threads, set_values(t)
  PROVE  Done(t) /\ Values(t) /\ stack'[t][depth(t)].channel = m_Value'[m_ChannelAttr[top(t).log]]
<1> DEFINE own == m_ChannelAttr[top(t).log]
           s == [top(t) EXCEPT !.phase = "core", !.channel = m_Value'[own]]
<1>1. StackTyped /\ uncaught \in [Threads -> Int] /\ g_Severity \in [Threads -> Levels]
  BY DEF ThreadTyped
<1>2. stack[t] # <<>> /\ top(t).phase = "open"
  BY DEF set_values, At
<1>3. top(t) \in StatementType /\ depth(t) > 0
  BY <1>1, <1>2, Innermost
<1>4. top(t).log \in Logs /\ top(t).level \in Levels /\ top(t).channel \in Names
  BY <1>3 DEF StatementType
<1>5. own \in AttributeObjects
  BY <1>4 DEF SharedTyped
<1>6. m_Value'[own] \in Names
  BY <1>4, <1>5 DEF SharedTyped, set_values
<1>7. /\ s \in StatementType /\ s.phase = "core" /\ s.log = top(t).log /\ s.level = top(t).level
      /\ s.threw = top(t).threw /\ s.compound = top(t).compound /\ s.channel = m_Value'[own]
  BY <1>3, <1>6 DEF StatementType, Phases
<1>8. stack' = [stack EXCEPT ![t] = [i \in DOMAIN @ |->
                     IF i < depth(t) THEN [@[i] EXCEPT !.nested = TRUE] ELSE s]]
  BY DEF set_values
<1> HIDE DEF s
<1>9. /\ StackTyped' /\ Others(t)
      /\ Len(stack'[t]) = depth(t) /\ stack'[t][depth(t)] = s
      /\ \A i \in 1 .. depth(t) - 1 : stack'[t][i] = WithNested(stack[t][i])
  BY <1>1, <1>2, <1>7, <1>8, Noted DEF WithNested
<1>10. /\ UNCHANGED <<uncaught, streamVars>> /\ g_Severity' = [g_Severity EXCEPT ![t] = top(t).level]
  BY DEF set_values
<1>11. /\ g_Severity' \in [Threads -> Levels] /\ g_Severity'[t] = top(t).level
       /\ \A u \in Threads \ {t} : g_Severity'[u] = g_Severity[u]
  BY <1>1, <1>4, <1>10
<1>12. Values(t)
  BY <1>2, <1>3, <1>7, <1>9, <1>10, <1>11 DEF Values, KeepsStreams, streamVars
<1> QED BY <1>1, <1>7, <1>9, <1>10, <1>11, <1>12, StackAlone DEF Effect

(* The core accepts the record, and it gets a stream.                         *)
LEMMA CoreAccepts ==
  ASSUME Numbered, ThreadTyped, SharedTyped, NEW t \in Threads, core_accepts(t)
  PROVE  Done(t) /\ Accepts(t)
<1>1. StackTyped /\ uncaught \in [Threads -> Int] /\ g_Severity \in [Threads -> Levels]
  BY DEF ThreadTyped
<1>2. stack[t] # <<>> /\ top(t).phase = "core"
  BY DEF core_accepts, At
<1>3. top(t) \in StatementType /\ depth(t) > 0
  BY <1>1, <1>2, Innermost
<1>4. m_Value[m_Attributes[top(t).log]] \in Names /\ uncaught[t] \in Int
  BY <1>1, <1>3 DEF StatementType, SharedTyped
<1> DEFINE s(c) == [top(t) EXCEPT !.phase = "stream", !.value = m_Value[m_Attributes[top(t).log]],
                                  !.compound = c, !.exceptions = uncaught[t]]
<1>5. PICK c \in 1 .. MaxDepth : allocate_compound(t, c) /\ set_top(t, s(c))
  BY DEF core_accepts
<1>6. c \in Nat
  BY <1>5, SMTT(30) DEF Numbered
<1>7. /\ s(c) \in StatementType /\ GoesOn(top(t), s(c)) /\ s(c).phase = "stream"
      /\ s(c).threw = top(t).threw /\ s(c).value = m_Value[m_Attributes[top(t).log]]
      /\ s(c).exceptions = uncaught[t] /\ s(c).compound = c
  BY <1>3, <1>4, <1>6 DEF StatementType, Phases, GoesOn
<1> HIDE DEF s
<1>8. /\ StackTyped' /\ Others(t)
      /\ Len(stack'[t]) = depth(t) /\ stack'[t][depth(t)] = s(c) /\ Below(t, depth(t) - 1)
  BY <1>1, <1>2, <1>5, <1>7, Replaced
<1>9. UNCHANGED <<g_Severity, uncaught>>
  BY DEF core_accepts
<1>10. Accepts(t)
  BY <1>2, <1>3, <1>5, <1>7, <1>8, <1>9 DEF Accepts, Tops, Stays
<1> QED BY <1>1, <1>5, <1>6, <1>8, <1>9, <1>10, StackAlone DEF Effect

(* The streaming expression throws.                                           *)
LEMMA ExpressionThrows ==
  ASSUME ThreadTyped, NEW t \in Threads, expression_throws(t)
  PROVE  Done(t)
<1> DEFINE s == [top(t) EXCEPT !.phase = "unwind", !.threw = TRUE]
<1>1. StackTyped /\ uncaught \in [Threads -> Int] /\ g_Severity \in [Threads -> Levels]
  BY DEF ThreadTyped
<1>2. stack[t] # <<>> /\ top(t).phase = "stream" /\ set_top(t, s)
  BY DEF expression_throws, At
<1>3. top(t) \in StatementType /\ depth(t) > 0
  BY <1>1, <1>2, Innermost
<1>4. s \in StatementType /\ SameRecord(top(t), s) /\ s.phase = "unwind" /\ s.threw
  BY <1>3 DEF StatementType, Phases, SameRecord, GoesOn
<1> HIDE DEF s
<1>5. /\ StackTyped' /\ Others(t)
      /\ Len(stack'[t]) = depth(t) /\ stack'[t][depth(t)] = s /\ Below(t, depth(t) - 1)
  BY <1>1, <1>2, <1>4, Replaced
<1>6. UNCHANGED <<g_Severity, streamVars>> /\ uncaught' = [uncaught EXCEPT ![t] = @ + 1]
  BY DEF expression_throws
<1>7. /\ uncaught' \in [Threads -> Int] /\ uncaught'[t] = uncaught[t] + 1
      /\ \A u \in Threads \ {t} : uncaught'[u] = uncaught[u]
  BY <1>1, <1>6, SMTT(30)
<1>8. Throws(t)
  BY <1>2, <1>3, <1>4, <1>5, <1>6, <1>7 DEF Throws, Tops, KeepsStreams, streamVars
<1> QED BY <1>1, <1>5, <1>6, <1>7, <1>8, StackAlone DEF Effect

(* The record is pushed.                                                      *)
LEMMA PushSteps ==
  ASSUME ThreadTyped, NEW t \in Threads,
         \/ destroy_pump(t) /\ top(t).exceptions >= uncaught[t]
         \/ push_record(t)
         \/ push_throws(t) /\ "exception_handler" \in Features
  PROVE  Done(t)
<1>1. StackTyped /\ uncaught \in [Threads -> Int] /\ g_Severity \in [Threads -> Levels]
  BY DEF ThreadTyped
<1>2. stack[t] # <<>> /\ UNCHANGED <<g_Severity, uncaught, streamVars>>
  BY DEF destroy_pump, push_record, push_throws, At, streamVars
<1>3. CASE push_record(t)
  <2> DEFINE s == [top(t) EXCEPT !.phase = "done", !.seen = g_Severity[t]]
  <2>1. top(t) \in StatementType /\ depth(t) > 0 /\ g_Severity[t] \in Levels
    BY <1>1, <1>2, Innermost
  <2>2. top(t).phase = "push" /\ set_top(t, s)
    BY <1>3 DEF push_record, At
  <2>3. /\ s \in StatementType /\ SameRecord(top(t), s) /\ s.phase = "done" /\ s.seen = g_Severity[t]
        /\ s.threw = top(t).threw
    BY <2>1 DEF StatementType, Phases, SameRecord, GoesOn
  <2> HIDE DEF s
  <2>4. /\ StackTyped' /\ Others(t)
        /\ Len(stack'[t]) = depth(t) /\ stack'[t][depth(t)] = s /\ Below(t, depth(t) - 1)
    BY <1>1, <1>2, <2>2, <2>3, Replaced
  <2>5. Pushes(t)
    BY <1>2, <2>1, <2>2, <2>3, <2>4 DEF Pushes, Tops, Stays, KeepsStreams, streamVars
  <2> QED BY <1>1, <1>2, <2>4, <2>5, StackAlone DEF Effect
<1>4. CASE ~ push_record(t)
  <2>1. PICK p \in {"push", "handle_push"} :
          /\ goto(t, p)
          /\ \/ top(t).phase \in Evaluating /\ top(t).exceptions >= uncaught[t] /\ p = "push"
             \/ top(t).phase = "push" /\ p = "handle_push"
    BY <1>4 DEF destroy_pump, push_throws, At, Evaluating
  <2>2. p \in Phases
    BY DEF Phases
  <2>3. /\ StackTyped' /\ Others(t) /\ Tops(t)
        /\ stack'[t][depth(t)].phase = p /\ stack'[t][depth(t)].threw = top(t).threw
        /\ SameRecord(top(t), stack'[t][depth(t)])
    BY <1>1, <1>2, <2>1, <2>2, Goes
  <2>4. Pushes(t)
    BY <1>2, <2>1, <2>3 DEF Pushes, Stays, KeepsStreams, streamVars
  <2> QED BY <1>1, <1>2, <2>3, <2>4, StackAlone DEF Effect
<1> QED BY <1>3, <1>4

(* The statement ends.                                                        *)
LEMMA StatementEnds ==
  ASSUME ThreadTyped, NEW t \in Threads,
         \/ core_rejects(t) \/ handle_open(t)
         \/ core_throws(t) /\ "exception_handler" \notin Features
         \/ destroy_pump(t) /\ ~ (top(t).exceptions >= uncaught[t])
         \/ push_throws(t) /\ "exception_handler" \notin Features
         \/ handle_push(t) \/ pushed(t)
  PROVE  Done(t) /\ Ends(t)
<1>1. StackTyped /\ uncaught \in [Threads -> Int] /\ g_Severity \in [Threads -> Levels]
  BY DEF ThreadTyped
<1>2. stack[t] # <<>> /\ g_Severity' = g_Severity
  BY DEF core_rejects, handle_open, core_throws, destroy_pump, push_throws, handle_push, pushed, At
<1>3. top(t) \in StatementType /\ uncaught[t] \in Int
  BY <1>1, <1>2, Innermost
<1>4. top(t).compound \in Nat /\ top(t).exceptions \in Int
  BY <1>3 DEF StatementType
<1>5. Leaves(t) /\ (UNCHANGED streamVars \/ release_compound(t, top(t).compound))
  <2>1. CASE core_rejects(t) \/ handle_open(t) \/ (core_throws(t) /\ "exception_handler" \notin Features)
    BY <2>1 DEF core_rejects, handle_open, core_throws, At, Leaves, KeepsStreams, streamVars
  <2>2. CASE destroy_pump(t) /\ ~ (top(t).exceptions >= uncaught[t])
    <3>1. top(t).exceptions < uncaught[t]
      BY <1>3, <1>4, <2>2, SMTT(30)
    <3>2. top(t).phase \notin Opening /\ release_compound(t, top(t).compound)
      BY <2>2 DEF destroy_pump, At, Opening
    <3> QED BY <3>1, <3>2 DEF Leaves
  <2>3. CASE \/ push_throws(t) /\ "exception_handler" \notin Features
             \/ handle_push(t) \/ pushed(t)
    BY <2>3 DEF push_throws, handle_push, pushed, At, Leaves, Opening
  <2> QED BY <2>1, <2>2, <2>3
<1>6. CASE destroy_pump(t) /\ ~ (top(t).exceptions >= uncaught[t])
  <2>1. raise(t, uncaught[t] - 1) /\ Remaining(t) = uncaught[t] - 1
    BY <1>6 DEF destroy_pump, At, Remaining, Evaluating
  <2>2. uncaught[t] - 1 \in Int
    BY <1>3, SMTT(30)
  <2>3. /\ StackTyped' /\ Others(t) /\ Ends(t)
        /\ uncaught' \in [Threads -> Int] /\ \A u \in Threads \ {t} : uncaught'[u] = uncaught[u]
    BY <1>2, <1>5, <2>1, <2>2, Raises
  <2> QED BY <1>1, <1>2, <1>4, <1>5, <2>3, StackAlone DEF Effect
<1>7. CASE ~ (destroy_pump(t) /\ ~ (top(t).exceptions >= uncaught[t]))
  <2>1. (raise(t, uncaught[t]) \/ leave(t)) /\ Remaining(t) = uncaught[t]
    BY <1>7 DEF core_rejects, handle_open, core_throws, push_throws, handle_push, pushed, At, Remaining,
       Evaluating
  <2>2. /\ StackTyped' /\ Others(t) /\ Ends(t)
        /\ uncaught' \in [Threads -> Int] /\ \A u \in Threads \ {t} : uncaught'[u] = uncaught[u]
    BY <1>2, <1>3, <1>5, <2>1, Raises
  <2> QED BY <1>1, <1>2, <1>4, <1>5, <2>2, StackAlone DEF Effect
<1> QED BY <1>6, <1>7

(* The steps of a statement, and the calls that work on loggers alone. *)
StatementStep(t) ==
  \/ \E l \in Logs, request \in Requests : open_record(t, l, request)
  \/ expression_throws(t) \/ OpenStep(t) \/ PushStep(t)

LoggerCall(t) ==
  \/ swap(t) \/ assign(t)
  \/ \E l \in Logs :
       \/ \E ch \in Channels : set_channel(t, l, ch)
       \/ \E handler \in {"none", "absorbs"} : set_exception_handler(t, l, handler)
       \/ \E k \in Logs \ {l} : swap_lock(t, l, k) \/ copy(t, l, k)

(* A step of a statement is one of the effects in its thread, and a call that *)
(* works on loggers leaves the statements alone.                              *)
LEMMA Effects ==
  ASSUME Numbered, ThreadTyped, SharedTyped, NEW t \in Threads, ThreadStep(t) \/ Call(t)
  PROVE  (StatementStep(t) /\ Done(t)) \/ (LoggerCall(t) /\ UNCHANGED threadVars)
<1>1. CASE \E l \in Logs, request \in Requests : open_record(t, l, request)
  BY <1>1, OpenRecord DEF StatementStep
<1>2. CASE expression_throws(t)
  BY <1>2, ExpressionThrows DEF StatementStep
<1>3. CASE lock_logger(t) \/ (core_throws(t) /\ "exception_handler" \in Features)
  BY <1>3, OpenSteps DEF StatementStep, OpenStep
<1>4. CASE set_values(t)
  BY <1>4, SetValues DEF StatementStep, OpenStep
<1>5. CASE core_accepts(t)
  BY <1>5, CoreAccepts DEF StatementStep, OpenStep
<1>6. CASE \/ destroy_pump(t) /\ top(t).exceptions >= uncaught[t]
           \/ push_record(t)
           \/ push_throws(t) /\ "exception_handler" \in Features
  BY <1>6, PushSteps DEF StatementStep, PushStep
<1>7. CASE \/ core_rejects(t) \/ handle_open(t)
           \/ core_throws(t) /\ "exception_handler" \notin Features
           \/ destroy_pump(t) /\ ~ (top(t).exceptions >= uncaught[t])
           \/ push_throws(t) /\ "exception_handler" \notin Features
           \/ handle_push(t) \/ pushed(t)
  BY <1>7, StatementEnds DEF StatementStep, OpenStep, PushStep
<1>8. CASE LoggerCall(t)
  BY <1>8 DEF LoggerCall, swap, assign, set_channel, set_exception_handler, swap_lock, copy, threadVars,
     streamVars
<1> QED BY <1>1, <1>2, <1>3, <1>4, <1>5, <1>6, <1>7, <1>8
        DEF ThreadStep, OpenStep, PushStep, Call, LoggerCall

-----------------------------------------------------------------------------
(* The invariants of a thread *)

(* Steps of other threads do not change them.                                 *)
LEMMA Undisturbed ==
  ASSUME NEW u, stack'[u] = stack[u], uncaught'[u] = uncaught[u], g_Severity'[u] = g_Severity[u],
         streams'[u] = streams[u], m_Top'[u] = m_Top[u]
  PROVE  /\ Nesting(u) => Nesting(u)'
         /\ Unwinding(u) => Unwinding(u)'
         /\ Levelled(u) => Levelled(u)'
         /\ Streamed(u) => Streamed(u)'
         /\ Valued(u) => Valued(u)'
BY SMTT(30) DEF Nesting, Unwinding, InFlight, Levelled, Streamed, Valued, depth

(* The fields that a statement inside of another one does not touch.          *)
LEMMA Around ==
  ASSUME NEW s \in StatementType
  PROVE  /\ WithNested(s).phase = s.phase /\ WithNested(s).threw = s.threw
         /\ WithNested(s).exceptions = s.exceptions /\ WithNested(s).compound = s.compound
         /\ WithNested(s).value = s.value /\ WithNested(s).channel = s.channel
         /\ WithNested(s).nested
         /\ Unwound(s).phase = "unwind" /\ Unwound(s).threw
         /\ Unwound(s).exceptions = s.exceptions /\ Unwound(s).compound = s.compound
         /\ Unwound(s).value = s.value /\ Unwound(s).channel = s.channel
         /\ Unwound(s).level = s.level /\ Unwound(s).nested = s.nested
BY DEF StatementType, WithNested, Unwound

(* Only the innermost statement is not in its streaming expression.           *)
LEMMA NestingStep ==
  ASSUME StackTyped, NEW t \in Threads, Nesting(t), Effect(t)
  PROVE  Nesting(t)'
<1> DEFINE D == depth(t)
<1>1. D \in Nat /\ (D > 0 => top(t) = stack[t][D]) /\ \A i \in 1 .. D : stack[t][i] \in StatementType
  BY Innermost, SMTT(30)
<1>2. depth(t)' = Len(stack'[t])
  BY DEF depth
<1>3. \A i \in 1 .. D : i < D => stack[t][i].phase \in Evaluating
  BY DEF Nesting
<1> HIDE DEF D
<1>4. CASE Begins(t)
  <2>1. /\ Len(stack'[t]) = D + 1 /\ \A i \in 1 .. D : stack'[t][i] = stack[t][i]
        /\ D > 0 => top(t).phase \in Evaluating
    BY <1>4 DEF Begins, Below, D
  <2>2. \A i \in 1 .. D + 1 : i < D + 1 => i \in 1 .. D /\ D > 0 /\ (i < D \/ i = D)
    BY <1>1, SMTT(30)
  <2> QED BY <1>1, <1>2, <1>3, <2>1, <2>2 DEF Nesting
<1>5. CASE Opens(t) \/ Accepts(t) \/ Throws(t) \/ Pushes(t)
  <2>1. Len(stack'[t]) = D /\ \A i \in 1 .. D - 1 : stack'[t][i] = stack[t][i]
    BY <1>5 DEF Opens, Accepts, Throws, Pushes, Tops, Below, D
  <2>2. \A i \in 1 .. D : i < D => i \in 1 .. D - 1
    BY <1>1, SMTT(30)
  <2> QED BY <1>2, <1>3, <2>1, <2>2 DEF Nesting
<1>6. CASE Values(t)
  <2>1. Len(stack'[t]) = D /\ \A i \in 1 .. D - 1 : stack'[t][i] = WithNested(stack[t][i])
    BY <1>6 DEF Values, D
  <2>2. \A i \in 1 .. D : i < D => i \in 1 .. D - 1
    BY <1>1, SMTT(30)
  <2>3. \A i \in 1 .. D : i < D => stack'[t][i].phase = stack[t][i].phase
    BY <1>1, <2>1, <2>2, Around
  <2> QED BY <1>2, <1>3, <2>1, <2>3 DEF Nesting
<1>7. CASE Ends(t)
  <2>1. Len(stack'[t]) = D - 1 /\ \A i \in 1 .. D - 2 : stack'[t][i] = stack[t][i]
    <3>1. \A i \in 1 .. D - 2 : i \in 1 .. D - 1
      BY <1>1, SMTT(30)
    <3> QED BY <1>7, <3>1 DEF Ends, Below, D
  <2>2. \A i \in 1 .. D - 1 : i < D - 1 => i \in 1 .. D - 2 /\ i \in 1 .. D /\ i < D
    BY <1>1, SMTT(30)
  <2> QED BY <1>2, <1>3, <2>1, <2>2 DEF Nesting
<1> QED BY <1>4, <1>5, <1>6, <1>7 DEF Effect

(* The level is that of the thread until a statement inside sets another.     *)
LEMMA LevelledStep ==
  ASSUME StackTyped, NEW t \in Threads, Nesting(t), Levelled(t), Effect(t)
  PROVE  Levelled(t)'
<1> DEFINE D == depth(t)
           Level(s, g) == /\ s.phase \notin {"lock", "open"} => g = s.level \/ s.nested
                          /\ s.phase = "done" => s.seen = s.level \/ s.nested
<1>1. D \in Nat /\ (D > 0 => top(t) = stack[t][D]) /\ \A i \in 1 .. D : stack[t][i] \in StatementType
  BY Innermost, SMTT(30)
<1>2. depth(t)' = Len(stack'[t])
  BY DEF depth
<1>3. \A i \in 1 .. D : Level(stack[t][i], g_Severity[t])
  BY DEF Levelled
<1>4. SUFFICES \A i \in 1 .. Len(stack'[t]) : Level(stack'[t][i], g_Severity'[t])
  BY <1>2 DEF Levelled
<1>5. \A i \in 1 .. D : i < D => stack[t][i].phase \in Evaluating
  BY DEF Nesting
<1> HIDE DEF D
<1>6. CASE Begins(t)
  <2>1. /\ Len(stack'[t]) = D + 1 /\ \A i \in 1 .. D : stack'[t][i] = stack[t][i]
        /\ stack'[t][D + 1].phase = "lock" /\ g_Severity'[t] = g_Severity[t]
    BY <1>6 DEF Begins, Below, Stays, D
  <2>2. \A i \in 1 .. D + 1 : i \in 1 .. D \/ i = D + 1
    BY <1>1, SMTT(30)
  <2> QED BY <1>3, <2>1, <2>2
<1>7. CASE Opens(t) \/ Accepts(t) \/ Throws(t) \/ Pushes(t)
  <2>1. /\ Len(stack'[t]) = D /\ \A i \in 1 .. D - 1 : stack'[t][i] = stack[t][i]
        /\ D > 0 /\ g_Severity'[t] = g_Severity[t]
    BY <1>7 DEF Opens, Accepts, Throws, Pushes, Tops, Below, Stays, D
  <2>2. \A i \in 1 .. D : i \in 1 .. D - 1 \/ i = D
    BY <1>1, SMTT(30)
  <2>3. D \in 1 .. D /\ \A i \in 1 .. D - 1 : i \in 1 .. D
    BY <1>1, <2>1, SMTT(30)
  <2>4. Level(stack'[t][D], g_Severity'[t])
    <3>1. LET s == stack[t][D]
              r == stack'[t][D]
          IN  /\ GoesOn(s, r)
              /\ s.phase \in {"lock", "open"} => r.phase = "open"
              /\ r.phase = "done" => r.seen = g_Severity[t] /\ s.phase = "push"
      BY <1>1, <1>7, <2>1 DEF Opens, Accepts, Throws, Pushes, SameRecord, Evaluating, D
    <3>2. Level(stack[t][D], g_Severity[t])
      BY <1>3, <2>3
    <3> QED BY <2>1, <3>1, <3>2 DEF GoesOn
  <2> QED BY <1>3, <2>1, <2>2, <2>3, <2>4
<1>8. CASE Values(t)
  <2>1. /\ Len(stack'[t]) = D /\ g_Severity'[t] = top(t).level
        /\ \A i \in 1 .. D - 1 : stack'[t][i] = WithNested(stack[t][i])
        /\ stack'[t][D].phase = "core" /\ stack'[t][D].level = top(t).level
    BY <1>8 DEF Values, D
  <2>2. \A i \in 1 .. D : i = D \/ i \in 1 .. D - 1
    BY <1>1, SMTT(30)
  <2>3. \A i \in 1 .. D - 1 : i \in 1 .. D
    BY <1>1, SMTT(30)
  <2>4. \A i \in 1 .. D - 1 : stack'[t][i].nested
    BY <1>1, <2>1, <2>3, Around, SMTT(30)
  <2> QED BY <2>1, <2>2, <2>4
<1>9. CASE Ends(t)
  <2>1. Len(stack'[t]) = D - 1 /\ g_Severity'[t] = g_Severity[t]
    BY <1>9 DEF Ends, D
  <2>2. \A i \in 1 .. D - 1 : i \in 1 .. D /\ (i \in 1 .. D - 2 \/ i = D - 1)
    BY <1>1, SMTT(30)
  <2>3. \A i \in 1 .. D - 1 : \/ stack'[t][i] = stack[t][i]
                              \/ /\ stack'[t][i] = Unwound(stack[t][i])
                                 /\ stack[t][i].phase = "stream"
    BY <1>9, <2>2 DEF Ends, Below, D
  <2>4. \A i \in 1 .. D - 1 : Level(stack'[t][i], g_Severity[t])
    BY <1>1, <1>3, <2>2, <2>3, Around, SMTT(30)
  <2> QED BY <2>1, <2>4
<1> QED BY <1>6, <1>7, <1>8, <1>9 DEF Effect

(* The exceptions in flight are counted.                                      *)
LEMMA UnwindingStep ==
  ASSUME ThreadTyped, NEW t \in Threads, Nesting(t), Unwinding(t), Effect(t), StackTyped'
  PROVE  Unwinding(t)'
<1> DEFINE D == depth(t)
           E == Len(stack'[t])
           Fl(s) == s.exceptions + (IF s.threw THEN 1 ELSE 0)
           Thrown(s) == s.threw <=> s.phase = "unwind"
           f == stack[t]
           g == stack'[t]
<1>1. /\ D \in Nat /\ (D > 0 => top(t) = f[D])
      /\ \A i \in 1 .. D : f[i] \in StatementType
      /\ \A i \in 1 .. D : f[i].exceptions \in Int /\ f[i].threw \in BOOLEAN
      /\ uncaught[t] \in Int
  <2>1. D \in Nat /\ (D > 0 => top(t) = f[D]) /\ \A i \in 1 .. D : f[i] \in StatementType
    BY Innermost, SMTT(30) DEF ThreadTyped
  <2> QED BY <2>1 DEF StatementType, ThreadTyped
<1>2. depth(t)' = E
  BY DEF depth
<1>3. \A i \in 1 .. D : i < D => f[i].phase \in Evaluating
  BY DEF Nesting
<1>4. /\ \A i \in 1 .. D : Thrown(f[i])
      /\ \A i \in 2 .. D : f[i].phase \notin Opening => f[i].exceptions = Fl(f[i - 1])
      /\ D > 0 /\ f[D].phase \notin Opening => uncaught[t] = Fl(f[D])
      /\ D > 1 /\ f[D].phase \in Opening => uncaught[t] = Fl(f[D - 1])
  <2>1. D > 0 => D \in 1 .. D
    BY <1>1, SMTT(30)
  <2>2. D > 1 => D - 1 \in 1 .. D
    BY <1>1, SMTT(30)
  <2> QED BY <2>1, <2>2 DEF Unwinding, InFlight
<1>5. SUFFICES /\ \A i \in 1 .. E : Thrown(g[i])
               /\ \A i \in 2 .. E : g[i].phase \notin Opening => g[i].exceptions = Fl(g[i - 1])
               /\ E > 0 /\ g[E].phase \notin Opening => uncaught'[t] = Fl(g[E])
               /\ E > 1 /\ g[E].phase \in Opening => uncaught'[t] = Fl(g[E - 1])
  <2>1. E \in Nat
    BY DEF StackTyped
  <2>2. ASSUME NEW i \in 1 .. E
        PROVE  (i = E => E > 0) /\ (i = E - 1 => E > 1)
    BY <2>1, SMTT(30)
  <2> QED BY <1>2, <1>5, <2>2 DEF Unwinding, InFlight
<1>6. Evaluating \cap Opening = {} /\ "lock" \in Opening
  BY DEF Evaluating, Opening
<1> HIDE DEF D, f, g, E
<1>7. CASE Begins(t)
  <2>1. /\ E = D + 1 /\ \A i \in 1 .. D : g[i] = f[i]
        /\ g[D + 1].phase = "lock" /\ ~g[D + 1].threw /\ uncaught'[t] = uncaught[t]
        /\ D > 0 => f[D].phase \in Evaluating
    BY <1>1, <1>7 DEF Begins, Below, Stays, D, E, f, g
  <2>2. \A i \in 1 .. D + 1 : i \in 1 .. D \/ i = D + 1
    BY <1>1, SMTT(30)
  <2>3. \A i \in 2 .. D + 1 : (i \in 2 .. D /\ i - 1 \in 1 .. D /\ i \in 1 .. D) \/ i = D + 1
    BY <1>1, SMTT(30)
  <2>4. D + 1 > 1 => D > 0 /\ D \in 1 .. D /\ (D + 1) - 1 = D
    BY <1>1, SMTT(30)
  <2>5. \A i \in 1 .. E : Thrown(g[i])
    BY <1>4, <2>1, <2>2
  <2>6. \A i \in 2 .. E : g[i].phase \notin Opening => g[i].exceptions = Fl(g[i - 1])
    BY <1>4, <1>6, <2>1, <2>3
  <2>7. E > 1 => uncaught'[t] = Fl(g[E - 1])
    BY <1>4, <1>6, <2>1, <2>4
  <2> QED BY <1>6, <2>1, <2>5, <2>6, <2>7
<1>8. CASE Opens(t) \/ Accepts(t) \/ Throws(t) \/ Pushes(t)
  <2>1. E = D /\ D > 0 /\ \A i \in 1 .. D - 1 : g[i] = f[i]
    BY <1>8 DEF Opens, Accepts, Throws, Pushes, Tops, Below, D, E, f, g
  <2>2. /\ \A i \in 1 .. D : i \in 1 .. D - 1 \/ i = D
        /\ \A i \in 1 .. D - 1 : i \in 1 .. D
        /\ \A i \in 2 .. D : i \in 1 .. D /\ i - 1 \in 1 .. D - 1
        /\ D > 1 => D \in 2 .. D /\ D - 1 \in 1 .. D - 1
        /\ D \in 1 .. D
    BY <1>1, <2>1, SMTT(30)
  <2>3. \A i \in 2 .. D : i # D => i \in 1 .. D - 1
    BY <1>1, SMTT(30)
  <2> DEFINE s == f[D]
             r == g[D]
  <2>4. CASE Opens(t)
    <3>1. /\ r.threw = s.threw /\ s.phase \in Opening /\ r.phase \in Opening
          /\ s.phase # "unwind" /\ r.phase # "unwind" /\ uncaught'[t] = uncaught[t]
      BY <1>1, <2>1, <2>4 DEF Opens, Stays, Opening, D, f, g
    <3>2. Thrown(r)
      BY <1>4, <2>2, <3>1
    <3> QED BY <1>4, <2>1, <2>2, <2>3, <3>1, <3>2
  <2>5. CASE Accepts(t)
    <3>1. /\ r.threw = s.threw /\ s.phase \in Opening /\ r.phase = "stream" /\ r.phase \notin Opening
          /\ s.phase # "unwind" /\ uncaught'[t] = uncaught[t] /\ r.exceptions = uncaught[t]
      BY <1>1, <2>1, <2>5 DEF Accepts, Stays, Opening, D, f, g
    <3>2. Thrown(r) /\ ~r.threw
      BY <1>4, <2>2, <3>1
    <3>3. uncaught'[t] = Fl(r)
      BY <1>1, <3>1, <3>2, SMTT(30)
    <3>4. D > 1 => r.exceptions = Fl(g[D - 1])
      BY <1>4, <2>1, <2>2, <3>1
    <3>5. \A i \in 2 .. D : g[i].phase \notin Opening => g[i].exceptions = Fl(g[i - 1])
      <4> TAKE i \in 2 .. D
      <4>1. CASE i = D
        <5>1. D > 1
          BY <4>1, SMTT(30)
        <5> QED BY <3>4, <4>1, <5>1
      <4>2. CASE i # D
        BY <1>4, <2>1, <2>2, <2>3, <4>2
      <4> QED BY <4>1, <4>2
    <3> QED BY <1>4, <2>1, <2>2, <3>1, <3>2, <3>3, <3>5, SMTT(30)
  <2>6. CASE Throws(t) \/ Pushes(t)
    <3>1. r.exceptions = s.exceptions /\ s.phase \notin Opening /\ r.phase \notin Opening
      BY <1>1, <2>1, <2>6 DEF Throws, Pushes, SameRecord, Opening, Evaluating, D, f, g
    <3>2. Thrown(s) /\ s.exceptions \in Int /\ s.threw \in BOOLEAN /\ uncaught[t] = Fl(s)
      BY <1>1, <1>4, <2>1, <2>2, <3>1
    <3>3. Thrown(r) /\ uncaught'[t] = Fl(r)
      <4>1. CASE Throws(t)
        <5>1. s.phase = "stream" /\ r.phase = "unwind" /\ r.threw /\ uncaught'[t] = uncaught[t] + 1
          BY <1>1, <2>1, <4>1 DEF Throws, D, f, g
        <5> QED BY <3>1, <3>2, <5>1, SMTT(30)
      <4>2. CASE Pushes(t)
        <5>1. /\ r.threw = s.threw /\ uncaught'[t] = uncaught[t] /\ r.phase # "unwind"
              /\ s.exceptions >= uncaught[t] \/ s.phase = "push"
          BY <1>1, <2>1, <4>2 DEF Pushes, Stays, D, f, g
        <5>2. ~s.threw
          BY <3>2, <5>1, SMTT(30)
        <5> QED BY <3>1, <3>2, <5>1, <5>2
      <4> QED BY <2>6, <4>1, <4>2
    <3>4. \A i \in 2 .. D : g[i].phase \notin Opening => g[i].exceptions = Fl(g[i - 1])
      BY <1>4, <2>1, <2>2, <2>3, <3>1
    <3> QED BY <1>4, <2>1, <2>2, <3>1, <3>3, <3>4, SMTT(30)
  <2> QED BY <1>8, <2>4, <2>5, <2>6
<1>9. CASE Values(t)
  <2>1. /\ E = D /\ D > 0 /\ f[D].phase = "open" /\ g[D].phase = "core" /\ g[D].threw = f[D].threw
        /\ \A i \in 1 .. D - 1 : g[i] = WithNested(f[i])
        /\ uncaught'[t] = uncaught[t]
    BY <1>1, <1>9 DEF Values, D, E, f, g
  <2>2. /\ \A i \in 1 .. D : i \in 1 .. D - 1 \/ i = D
        /\ \A i \in 1 .. D - 1 : i \in 1 .. D
        /\ \A i \in 2 .. D : i \in 1 .. D /\ i - 1 \in 1 .. D - 1
        /\ D > 1 => D \in 2 .. D /\ D - 1 \in 1 .. D - 1
        /\ D \in 1 .. D
    BY <1>1, <2>1, SMTT(30)
  <2>3. \A i \in 1 .. D - 1 : /\ g[i].phase = f[i].phase /\ g[i].threw = f[i].threw
                              /\ g[i].exceptions = f[i].exceptions
    BY <1>1, <2>1, <2>2, Around, SMTT(30)
  <2>4. "open" \in Opening /\ "core" \in Opening
    BY DEF Opening
  <2>5. Thrown(g[D])
    BY <1>4, <2>1, <2>2
  <2>6. \A i \in 1 .. E : Thrown(g[i])
    BY <1>4, <2>1, <2>2, <2>3, <2>5
  <2>7. \A i \in 2 .. E : g[i].phase \notin Opening => g[i].exceptions = Fl(g[i - 1])
    BY <1>4, <2>1, <2>2, <2>3, <2>4, SMTT(30)
  <2> QED BY <1>4, <2>1, <2>2, <2>3, <2>4, <2>6, <2>7, SMTT(30)
<1>10. CASE Ends(t)
  <2>1. E = D - 1 /\ D > 0 /\ Leaves(t)
    BY <1>10 DEF Ends, D, E
  <2>2. /\ \A i \in 1 .. D - 1 : i \in 1 .. D /\ i < D
        /\ \A i \in 2 .. D - 1 : i \in 2 .. D /\ i \in 1 .. D - 1 /\ i - 1 \in 1 .. D - 2 /\ i - 1 \in 1 .. D - 1
        /\ \A i \in 1 .. D - 2 : i \in 1 .. D - 1
        /\ \A i \in 1 .. D - 1 : i \in 1 .. D - 2 \/ i = D - 1
        /\ D \in 1 .. D
        /\ D - 1 > 0 => D > 1 /\ D \in 2 .. D /\ D - 1 \in 1 .. D - 1 /\ D - 1 \in 1 .. D /\ D - 1 < D
    BY <1>1, <2>1, SMTT(30)
  <2>3. D - 1 > 0 => Remaining(t) = Fl(f[D - 1])
    <3> SUFFICES ASSUME D - 1 > 0 PROVE Remaining(t) = Fl(f[D - 1])
      OBVIOUS
    <3> DEFINE s == f[D]
    <3>1. CASE s.phase \in Opening
      BY <1>1, <1>4, <1>6, <2>1, <2>2, <3>1 DEF Remaining
    <3>2. CASE s.phase \notin Opening
      <4>1. /\ s.exceptions = Fl(f[D - 1]) /\ uncaught[t] = Fl(s) /\ Thrown(s) /\ s.exceptions \in Int
        BY <1>1, <1>4, <2>1, <2>2, <3>2
      <4>2. CASE s.phase \in Evaluating
        <5>1. s.exceptions < uncaught[t] /\ Remaining(t) = uncaught[t] - 1
          BY <1>1, <1>6, <2>1, <4>2 DEF Leaves, Remaining, Evaluating
        <5> QED BY <4>1, <5>1, SMTT(30)
      <4>3. CASE s.phase \notin Evaluating
        <5>1. s.phase # "unwind" /\ Remaining(t) = uncaught[t]
          BY <1>1, <2>1, <4>3 DEF Remaining, Evaluating
        <5> QED BY <4>1, <5>1, SMTT(30)
      <4> QED BY <4>2, <4>3
    <3> QED BY <3>1, <3>2
  <2>4. CASE uncaught'[t] = Remaining(t) /\ Below(t, D - 1)
    <3>1. \A i \in 1 .. D - 1 : g[i] = f[i]
      BY <2>4 DEF Below, f, g
    <3>2. D - 1 > 0 => uncaught'[t] = Fl(g[D - 1]) /\ g[D - 1].phase \notin Opening
      BY <1>3, <1>6, <2>2, <2>3, <2>4, <3>1
    <3>3. \A i \in 1 .. E : Thrown(g[i])
      BY <1>4, <2>1, <2>2, <3>1
    <3>4. \A i \in 2 .. E : g[i].phase \notin Opening => g[i].exceptions = Fl(g[i - 1])
      BY <1>4, <2>1, <2>2, <3>1
    <3>5. E > 1 => E > 0
      BY <1>1, <2>1, SMTT(30)
    <3> QED BY <2>1, <3>2, <3>3, <3>4, <3>5
  <2>5. CASE /\ D - 1 > 0 /\ f[D - 1].phase = "stream" /\ uncaught'[t] = Remaining(t) + 1
             /\ Below(t, D - 2) /\ g[D - 1] = Unwound(f[D - 1])
    <3>1. \A i \in 1 .. D - 2 : g[i] = f[i]
      BY <2>5 DEF Below, f, g
    <3>2. /\ g[D - 1].phase = "unwind" /\ g[D - 1].threw /\ g[D - 1].exceptions = f[D - 1].exceptions
      BY <1>1, <2>2, <2>5, Around, SMTT(30)
    <3>3. ~f[D - 1].threw /\ f[D - 1].exceptions \in Int
      BY <1>1, <1>4, <2>2, <2>5
    <3>4. uncaught'[t] = Fl(g[D - 1]) /\ g[D - 1].phase \notin Opening
      <4>1. uncaught'[t] = Fl(g[D - 1])
        BY <2>3, <2>5, <3>2, <3>3, SMTT(30)
      <4> QED BY <3>2, <4>1 DEF Opening
    <3>5. \A i \in 1 .. E : Thrown(g[i])
      BY <1>4, <2>1, <2>2, <3>1, <3>2, SMTT(30)
    <3>6. \A i \in 1 .. D - 1 : g[i].exceptions = f[i].exceptions
      BY <2>2, <3>1, <3>2
    <3>7. \A i \in 1 .. D - 1 : f[i].phase \notin Opening
      BY <1>3, <1>6, <2>2
    <3>8. \A i \in 2 .. E : g[i].phase \notin Opening => g[i].exceptions = Fl(g[i - 1])
      BY <1>4, <2>1, <2>2, <3>1, <3>6, <3>7
    <3> QED BY <2>1, <3>4, <3>5, <3>8
  <2> QED BY <1>10, <2>4, <2>5 DEF Ends, D, f, g
<1> QED BY <1>7, <1>8, <1>9, <1>10 DEF Effect

(* The streams in the pool are those not attached, each once.                 *)
Pooled(f, m) == Range(m) = {c \in DOMAIN f : f[c] = 0} /\ IsInjective(m)

(* A new stream is attached.                                                  *)
LEMMA StreamMade ==
  ASSUME NEW f \in Seq(Nat), NEW m \in Seq(Nat), Pooled(f, m), m = <<>>, NEW d \in Nat, d # 0
  PROVE  LET g == Append(f, d)
         IN  /\ Pooled(g, m) /\ Len(f) + 1 \in DOMAIN g /\ g[Len(f) + 1] = d
             /\ \A x \in DOMAIN f : x \in DOMAIN g /\ g[x] = f[x]
<1> DEFINE g == Append(f, d)
<1>1. /\ DOMAIN f = 1 .. Len(f) /\ DOMAIN g = 1 .. Len(f) + 1 /\ Len(f) \in Nat
      /\ \A x \in 1 .. Len(f) : g[x] = f[x]
      /\ g[Len(f) + 1] = d
  BY SMTT(30)
<1>2. \A x \in 1 .. Len(f) + 1 : x \in 1 .. Len(f) \/ x = Len(f) + 1
  BY <1>1, SMTT(30)
<1>3. Len(f) + 1 \in 1 .. Len(f) + 1 /\ \A x \in 1 .. Len(f) : x \in 1 .. Len(f) + 1
  BY <1>1, SMTT(30)
<1>4. DOMAIN m = {}
  BY SMTT(30)
<1>5. \A x \in DOMAIN f : f[x] # 0
  BY <1>4 DEF Pooled, Range
<1> HIDE DEF g
<1>6. \A x \in DOMAIN g : g[x] # 0
  BY <1>1, <1>2, <1>5
<1>7. Pooled(g, m)
  BY <1>4, <1>6 DEF Pooled, Range, IsInjective
<1> QED BY <1>1, <1>3, <1>7 DEF g

(* A stream of the pool is attached.                                          *)
LEMMA StreamTaken ==
  ASSUME NEW f \in Seq(Nat), NEW m \in Seq(Nat), Pooled(f, m), m # <<>>, NEW d \in Nat, d # 0
  PROVE  LET c == Head(m)
             g == [f EXCEPT ![c] = d]
         IN  /\ Pooled(g, Tail(m)) /\ c \in DOMAIN g /\ g[c] = d /\ f[c] = 0
             /\ \A x \in DOMAIN f : x \in DOMAIN g /\ (x # c => g[x] = f[x])
<1> DEFINE c == Head(m)
           g == [f EXCEPT ![c] = d]
           n == Tail(m)
           N == Len(m)
<1>1. /\ N \in Nat /\ N > 0 /\ DOMAIN m = 1 .. N /\ c = m[1]
      /\ DOMAIN n = 1 .. N - 1 /\ \A i \in 1 .. N - 1 : n[i] = m[i + 1]
  BY SMTT(30)
<1>2. 1 \in 1 .. N /\ \A i \in 1 .. N - 1 : i + 1 \in 1 .. N /\ i + 1 # 1
  BY <1>1, SMTT(30)
<1>3. \A i \in 1 .. N : i # 1 => \E j \in 1 .. N - 1 : j + 1 = i
  <2> SUFFICES ASSUME NEW i \in 1 .. N, i # 1 PROVE \E j \in 1 .. N - 1 : j + 1 = i
    OBVIOUS
  <2>1. i - 1 \in 1 .. N - 1 /\ (i - 1) + 1 = i
    BY <1>1, SMTT(30)
  <2> QED BY <2>1
<1>4. \A i, j \in 1 .. N - 1 : i + 1 = j + 1 => i = j
  BY <1>1, SMTT(30)
<1>5. /\ \A i \in 1 .. N : m[i] \in DOMAIN f /\ f[m[i]] = 0
      /\ \A x \in DOMAIN f : f[x] = 0 => \E i \in 1 .. N : m[i] = x
      /\ \A i, j \in 1 .. N : m[i] = m[j] => i = j
  <2>1. \A i \in 1 .. N : m[i] \in Range(m)
    BY <1>1 DEF Range
  <2>2. \A x \in Range(m) : \E i \in 1 .. N : m[i] = x
    BY <1>1 DEF Range
  <2> QED BY <1>1, <2>1, <2>2 DEF Pooled, IsInjective
<1>6. c \in DOMAIN f /\ f[c] = 0
  BY <1>1, <1>2, <1>5, SMTT(30)
<1>7. DOMAIN g = DOMAIN f /\ g[c] = d /\ \A x \in DOMAIN f : x # c => g[x] = f[x]
  BY <1>6
<1> HIDE DEF g, n, c, N
<1>8. IsInjective(n)
  BY <1>1, <1>2, <1>4, <1>5, SMTT(30) DEF IsInjective
<1>9. ASSUME NEW i \in 1 .. N - 1 PROVE n[i] \in DOMAIN g /\ g[n[i]] = 0
  <2>1. n[i] = m[i + 1] /\ m[i + 1] # c
    BY <1>1, <1>2, <1>5
  <2> QED BY <1>2, <1>5, <1>7, <2>1, SMTT(30)
<1>10. ASSUME NEW x \in DOMAIN g, g[x] = 0 PROVE \E j \in 1 .. N - 1 : n[j] = x
  <2>1. x # c /\ f[x] = 0 /\ x \in DOMAIN f
    BY <1>7, <1>10
  <2>2. PICK i \in 1 .. N : m[i] = x
    BY <1>5, <2>1
  <2>3. i # 1
    BY <1>1, <2>1, <2>2
  <2>4. PICK j \in 1 .. N - 1 : j + 1 = i
    BY <1>3, <2>3
  <2> QED BY <1>1, <2>2, <2>4
<1>11. Range(n) = {x \in DOMAIN g : g[x] = 0}
  <2>1. DOMAIN n = 1 .. N - 1
    BY <1>1
  <2>2. \A x \in Range(n) : x \in DOMAIN g /\ g[x] = 0
    BY <1>9, <2>1 DEF Range
  <2>3. \A x \in DOMAIN g : g[x] = 0 => x \in Range(n)
    BY <1>10, <2>1 DEF Range
  <2> QED BY <2>2, <2>3
<1> QED BY <1>6, <1>7, <1>8, <1>11 DEF Pooled, c, g, n

(* A stream goes back to the pool.                                            *)
LEMMA StreamReleased ==
  ASSUME NEW f \in Seq(Nat), NEW m \in Seq(Nat), Pooled(f, m), NEW c \in DOMAIN f, f[c] # 0
  PROVE  LET g == [f EXCEPT ![c] = 0]
         IN  /\ Pooled(g, <<c>> \o m)
             /\ \A x \in DOMAIN f : x \in DOMAIN g /\ (x # c => g[x] = f[x])
<1> DEFINE g == [f EXCEPT ![c] = 0]
           n == <<c>> \o m
           N == Len(m)
<1>1. /\ N \in Nat /\ DOMAIN m = 1 .. N /\ DOMAIN n = 1 .. N + 1
      /\ n[1] = c /\ \A i \in 1 .. N : n[i + 1] = m[i]
  BY SMTT(30)
<1>2. 1 \in 1 .. N + 1 /\ \A i \in 1 .. N : i + 1 \in 1 .. N + 1
  BY <1>1, SMTT(30)
<1>3. \A i \in 1 .. N + 1 : i # 1 => \E j \in 1 .. N : j + 1 = i
  <2> SUFFICES ASSUME NEW i \in 1 .. N + 1, i # 1 PROVE \E j \in 1 .. N : j + 1 = i
    OBVIOUS
  <2>1. i - 1 \in 1 .. N /\ (i - 1) + 1 = i
    BY <1>1, SMTT(30)
  <2> QED BY <2>1
<1>4. /\ \A i \in 1 .. N : m[i] \in DOMAIN f /\ f[m[i]] = 0 /\ m[i] # c
      /\ \A x \in DOMAIN f : f[x] = 0 => \E i \in 1 .. N : m[i] = x
      /\ \A i, j \in 1 .. N : m[i] = m[j] => i = j
  <2>1. \A i \in 1 .. N : m[i] \in Range(m)
    BY <1>1 DEF Range
  <2>2. \A x \in Range(m) : \E i \in 1 .. N : m[i] = x
    BY <1>1 DEF Range
  <2> QED BY <1>1, <2>1, <2>2 DEF Pooled, IsInjective
<1>5. DOMAIN g = DOMAIN f /\ g[c] = 0 /\ \A x \in DOMAIN f : x # c => g[x] = f[x]
  OBVIOUS
<1> HIDE DEF g, n, N
<1>6. ASSUME NEW i \in 1 .. N + 1, NEW k \in 1 .. N + 1, n[i] = n[k] PROVE i = k
  <2>1. CASE i = 1 /\ k = 1
    BY <2>1
  <2>2. CASE i = 1 /\ k # 1
    <3>1. PICK q \in 1 .. N : q + 1 = k
      BY <1>3, <2>2
    <3>2. n[k] = m[q] /\ n[i] = c
      BY <1>1, <2>2, <3>1
    <3> QED BY <1>4, <1>6, <3>2
  <2>3. CASE i # 1 /\ k = 1
    <3>1. PICK p \in 1 .. N : p + 1 = i
      BY <1>3, <2>3
    <3>2. n[i] = m[p] /\ n[k] = c
      BY <1>1, <2>3, <3>1
    <3> QED BY <1>4, <1>6, <3>2
  <2>4. CASE i # 1 /\ k # 1
    <3>1. PICK p \in 1 .. N : p + 1 = i
      BY <1>3, <2>4
    <3>2. PICK q \in 1 .. N : q + 1 = k
      BY <1>3, <2>4
    <3>3. m[p] = m[q]
      BY <1>1, <1>6, <3>1, <3>2
    <3> QED BY <1>4, <3>1, <3>2, <3>3
  <2> QED BY <2>1, <2>2, <2>3, <2>4
<1>7. ASSUME NEW i \in 1 .. N + 1 PROVE n[i] \in DOMAIN g /\ g[n[i]] = 0
  <2>1. CASE i = 1
    BY <1>1, <1>5, <2>1
  <2>2. CASE i # 1
    <3>1. PICK j \in 1 .. N : j + 1 = i
      BY <1>3, <2>2
    <3>2. n[i] = m[j]
      BY <1>1, <3>1
    <3> QED BY <1>4, <1>5, <3>2, SMTT(30)
  <2> QED BY <2>1, <2>2
<1>8. ASSUME NEW x \in DOMAIN g, g[x] = 0 PROVE \E j \in 1 .. N + 1 : n[j] = x
  <2>1. CASE x = c
    BY <1>1, <1>2, <2>1
  <2>2. CASE x # c
    <3>1. PICK i \in 1 .. N : m[i] = x
      BY <1>4, <1>5, <1>8, <2>2
    <3> QED BY <1>1, <1>2, <3>1
  <2> QED BY <2>1, <2>2
<1>9. Range(n) = {x \in DOMAIN g : g[x] = 0} /\ IsInjective(n)
  <2>1. DOMAIN n = 1 .. N + 1
    BY <1>1
  <2>2. \A x \in Range(n) : x \in DOMAIN g /\ g[x] = 0
    BY <1>7, <2>1 DEF Range
  <2>3. \A x \in DOMAIN g : g[x] = 0 => x \in Range(n)
    BY <1>8, <2>1 DEF Range
  <2>4. IsInjective(n)
    BY <1>6, <2>1 DEF IsInjective
  <2> QED BY <2>2, <2>3, <2>4
<1> QED BY <1>5, <1>9 DEF Pooled, g, n

(* Every statement writes to a stream of its own.                             *)
LEMMA StreamedStep ==
  ASSUME ThreadTyped, NEW t \in Threads, Nesting(t), Streamed(t), Effect(t), StackTyped'
  PROVE  Streamed(t)'
<1> DEFINE D == depth(t)
           E == Len(stack'[t])
           f == stack[t]
           g == stack'[t]
           h == streams[t]
           k == streams'[t]
           Has(s, w, i) == IF s.phase \in Opening THEN s.compound = 0
                           ELSE s.compound \in DOMAIN w /\ w[s.compound] = i
<1>1. /\ D \in Nat /\ (D > 0 => top(t) = f[D])
      /\ \A i \in 1 .. D : f[i] \in StatementType
  BY Innermost, SMTT(30) DEF ThreadTyped
<1>2. h \in Seq(Nat) /\ m_Top[t] \in Seq(Nat)
  BY DEF ThreadTyped
<1>3. \A i \in 1 .. D : i < D => f[i].phase \in Evaluating
  BY DEF Nesting
<1>4. (\A i \in 1 .. D : Has(f[i], h, i)) /\ Pooled(h, m_Top[t])
  BY DEF Streamed, Pooled
<1>5. SUFFICES (\A i \in 1 .. E : Has(g[i], k, i)) /\ Pooled(k, m_Top'[t])
  BY DEF Streamed, Pooled, depth
<1>6. Evaluating \cap Opening = {} /\ "lock" \in Opening
  BY DEF Evaluating, Opening
<1> HIDE DEF D, f, g, E, h, k
<1>7. CASE Begins(t)
  <2>1. /\ E = D + 1 /\ \A i \in 1 .. D : g[i] = f[i]
        /\ g[D + 1].phase = "lock" /\ g[D + 1].compound = 0
        /\ k = h /\ m_Top'[t] = m_Top[t]
    BY <1>7 DEF Begins, Below, KeepsStreams, D, E, f, g, h, k
  <2>2. \A i \in 1 .. D + 1 : i \in 1 .. D \/ i = D + 1
    BY <1>1, SMTT(30)
  <2> QED BY <1>4, <1>6, <2>1, <2>2, SMTT(30)
<1>8. CASE Opens(t) \/ Throws(t) \/ Pushes(t)
  <2>1. /\ E = D /\ D > 0 /\ \A i \in 1 .. D - 1 : g[i] = f[i]
        /\ k = h /\ m_Top'[t] = m_Top[t]
    BY <1>8 DEF Opens, Throws, Pushes, Tops, Below, KeepsStreams, D, E, f, g, h, k
  <2>2. D \in 1 .. D /\ \A i \in 1 .. D : i \in 1 .. D - 1 \/ i = D
    BY <1>1, <2>1, SMTT(30)
  <2>3. g[D].compound = f[D].compound /\ (g[D].phase \in Opening <=> f[D].phase \in Opening)
    BY <1>1, <1>8, <2>1 DEF Opens, Throws, Pushes, SameRecord, Opening, Evaluating, D, f, g
  <2> QED BY <1>4, <2>1, <2>2, <2>3
<1>9. CASE Values(t)
  <2>1. /\ E = D /\ D > 0 /\ f[D].phase = "open" /\ g[D].phase = "core" /\ g[D].compound = f[D].compound
        /\ \A i \in 1 .. D - 1 : g[i] = WithNested(f[i])
        /\ k = h /\ m_Top'[t] = m_Top[t]
    BY <1>1, <1>9 DEF Values, KeepsStreams, D, E, f, g, h, k
  <2>2. /\ D \in 1 .. D /\ \A i \in 1 .. D : i \in 1 .. D - 1 \/ i = D
        /\ \A i \in 1 .. D - 1 : i \in 1 .. D
    BY <1>1, <2>1, SMTT(30)
  <2>3. \A i \in 1 .. D - 1 : g[i].phase = f[i].phase /\ g[i].compound = f[i].compound
    BY <1>1, <2>1, <2>2, Around, SMTT(30)
  <2>4. "open" \in Opening /\ "core" \in Opening
    BY DEF Opening
  <2> QED BY <1>4, <2>1, <2>2, <2>3, <2>4, SMTT(30)
<1>10. CASE Accepts(t)
  <2>1. /\ E = D /\ D > 0 /\ \A i \in 1 .. D - 1 : g[i] = f[i]
        /\ g[D].phase = "stream" /\ allocate_compound(t, g[D].compound)
    BY <1>10 DEF Accepts, Tops, Below, D, E, f, g
  <2>2. /\ \A i \in 1 .. D : i \in 1 .. D - 1 \/ i = D
        /\ \A i \in 1 .. D - 1 : i \in 1 .. D /\ i < D /\ i # 0
        /\ D # 0
    BY <1>1, <2>1, SMTT(30)
  <2> DEFINE c == g[D].compound
             m == m_Top[t]
  <2>3. /\ Pooled(k, m_Top'[t]) /\ c \in DOMAIN k /\ k[c] = D
        /\ \A x \in DOMAIN h : x \in DOMAIN k /\ (h[x] # 0 => k[x] = h[x])
    <3>1. CASE m = <<>>
      <4>1. c = Len(h) + 1 /\ k = Append(h, D) /\ m_Top'[t] = m
        BY <2>1, <3>1 DEF allocate_compound, h, k, D, ThreadTyped
      <4>2. LET w == Append(h, D)
            IN  /\ Pooled(w, m) /\ Len(h) + 1 \in DOMAIN w /\ w[Len(h) + 1] = D
                /\ \A x \in DOMAIN h : x \in DOMAIN w /\ w[x] = h[x]
        BY <1>1, <1>2, <1>4, <2>2, <3>1, StreamMade
      <4> QED BY <4>1, <4>2
    <3>2. CASE m # <<>>
      <4>1. c = Head(m) /\ k = [h EXCEPT ![c] = D] /\ m_Top'[t] = Tail(m)
        BY <2>1, <3>2 DEF allocate_compound, h, k, D, ThreadTyped
      <4>2. LET x == Head(m)
                w == [h EXCEPT ![x] = D]
            IN  /\ Pooled(w, Tail(m)) /\ x \in DOMAIN w /\ w[x] = D /\ h[x] = 0
                /\ \A y \in DOMAIN h : y \in DOMAIN w /\ (y # x => w[y] = h[y])
        BY <1>1, <1>2, <1>4, <2>2, <3>2, StreamTaken, SMTT(30)
      <4> QED BY <4>1, <4>2
    <3> QED BY <3>1, <3>2
  <2>4. "stream" \notin Opening
    BY DEF Opening
  <2>5. ASSUME NEW i \in 1 .. D - 1 PROVE Has(g[i], k, i)
    <3>1. f[i].compound \in DOMAIN h /\ h[f[i].compound] = i /\ f[i].phase \notin Opening
      BY <1>3, <1>4, <1>6, <2>2
    <3> QED BY <2>1, <2>2, <2>3, <3>1
  <2> QED BY <2>1, <2>2, <2>3, <2>4, <2>5, SMTT(30)
<1>11. CASE Ends(t)
  <2>1. E = D - 1 /\ D > 0 /\ Leaves(t)
    BY <1>11 DEF Ends, D, E
  <2>2. /\ \A i \in 1 .. D - 1 : i \in 1 .. D /\ i < D /\ i # D
        /\ \A i \in 1 .. D - 1 : i \in 1 .. D - 2 \/ i = D - 1
        /\ D \in 1 .. D /\ D # 0
    BY <1>1, <2>1, SMTT(30)
  <2>3. \A i \in 1 .. D - 1 : g[i].compound = f[i].compound /\ g[i].phase \in Evaluating
    <3>1. CASE Below(t, D - 1)
      BY <1>3, <2>2, <3>1 DEF Below, f, g
    <3>2. CASE D - 1 > 0 /\ Below(t, D - 2) /\ g[D - 1] = Unwound(f[D - 1])
      <4>1. \A i \in 1 .. D - 2 : g[i] = f[i]
        BY <3>2 DEF Below, f, g
      <4>2. D - 1 \in 1 .. D
        BY <1>1, <3>2, SMTT(30)
      <4>3. g[D - 1].compound = f[D - 1].compound /\ g[D - 1].phase = "unwind"
        BY <1>1, <3>2, <4>2, Around, SMTT(30)
      <4> QED BY <1>3, <2>2, <4>1, <4>3 DEF Evaluating
    <3> QED BY <1>11, <3>1, <3>2 DEF Ends, D, f, g
  <2>4. \A i \in 1 .. D - 1 : f[i].compound \in DOMAIN h /\ h[f[i].compound] = i
    BY <1>3, <1>4, <1>6, <2>2
  <2>5. CASE KeepsStreams(t)
    BY <1>4, <1>6, <2>1, <2>3, <2>4, <2>5 DEF KeepsStreams, h, k
  <2>6. CASE f[D].phase \notin Opening /\ release_compound(t, f[D].compound)
    <3> DEFINE c == f[D].compound
    <3>1. c \in DOMAIN h /\ h[c] = D
      BY <1>4, <2>2, <2>6
    <3>2. k = [h EXCEPT ![c] = 0] /\ m_Top'[t] = <<c>> \o m_Top[t]
      BY <2>6 DEF release_compound, h, k, ThreadTyped
    <3>3. /\ Pooled(k, m_Top'[t])
          /\ \A x \in DOMAIN h : x \in DOMAIN k /\ (x # c => k[x] = h[x])
      <4>1. LET w == [h EXCEPT ![c] = 0]
            IN  /\ Pooled(w, <<c>> \o m_Top[t])
                /\ \A x \in DOMAIN h : x \in DOMAIN w /\ (x # c => w[x] = h[x])
        BY <1>2, <1>4, <2>2, <3>1, StreamReleased
      <4> QED BY <3>2, <4>1
    <3>4. \A i \in 1 .. D - 1 : f[i].compound # c
      BY <2>2, <2>4, <3>1
    <3>5. \A i \in 1 .. D - 1 : g[i].compound \in DOMAIN k /\ k[g[i].compound] = i
      BY <2>3, <2>4, <3>3, <3>4
    <3> QED BY <1>6, <2>1, <2>3, <3>3, <3>5
  <2> QED BY <1>1, <2>1, <2>5, <2>6 DEF Leaves
<1> QED BY <1>7, <1>8, <1>9, <1>10, <1>11 DEF Effect

-----------------------------------------------------------------------------
(* The loggers *)

(* Min and Max of two numbers.                                                *)
LEMMA MinOfTwo ==
  ASSUME NEW a \in Nat, NEW b \in Nat, a # b
  PROVE  Min({a, b}) \in {a, b} /\ Max({a, b}) \in {a, b} /\ Min({a, b}) # Max({a, b})
<1>1. PICK x \in {a, b}, y \in {a, b} : (\A z \in {a, b} : x =< z) /\ (\A z \in {a, b} : y >= z) /\ x # y
  <2>1. CASE a < b
    <3>1. (a =< a /\ a =< b) /\ (b >= a /\ b >= b)
      BY <2>1, SMTT(30)
    <3> QED BY <3>1
  <2>2. CASE b < a
    <3>1. (b =< a /\ b =< b) /\ (a >= a /\ a >= b)
      BY <2>2, SMTT(30)
    <3> QED BY <3>1
  <2> QED BY <2>1, <2>2, SMTT(30)
<1>2. Min({a, b}) \in {a, b} /\ \A z \in {a, b} : Min({a, b}) =< z
  BY <1>1, Zenon DEF Min
<1>3. Max({a, b}) \in {a, b} /\ \A z \in {a, b} : Max({a, b}) >= z
  BY <1>1, Zenon DEF Max
<1>4. Min({a, b}) # Max({a, b})
  <2> DEFINE m == Min({a, b})
             M == Max({a, b})
  <2>1. m \in {a, b} /\ M \in {a, b} /\ m =< a /\ m =< b /\ M >= a /\ M >= b
    BY <1>2, <1>3
  <2> HIDE DEF m, M
  <2>2. m # M
    BY <2>1, SMTT(30)
  <2> QED BY <2>2 DEF m, M
<1> QED BY <1>2, <1>3, <1>4

(* Min of any set of natural numbers.                                         *)
LEMMA MinIn ==
  ASSUME NEW S, S \subseteq Nat, S # {}
  PROVE  Min(S) \in S
<1> DEFINE R == OpToRel(<, Nat)
<1>1. IsWellFoundedOn(R, Nat)
  BY NatLessThanWellFounded
<1>2. \A x, y \in Nat : y < x => <<y, x>> \in R
  BY DEF OpToRel
<1> HIDE DEF R
<1>3. PICK x \in S : \A y \in S : ~ (<<y, x>> \in R)
  BY <1>1, WFMin
<1>4. \A y \in S : ~ (y < x)
  BY <1>2, <1>3
<1>5. \A y \in S : x =< y
  BY <1>4, SMTT(30)
<1> QED BY <1>5, Zenon DEF Min

(* There is an attribute for the copy: no more are in use than there are      *)
(* loggers and other threads.                                                 *)
LEMMA FreshAttribute ==
  ASSUME Numbered, SharedTyped, Separate, NEW t \in Threads, ~Assigning(t)
  PROVE  Min(AttributeObjects \ AttributesInUse) \in AttributeObjects \ AttributesInUse
<1> DEFINE A == {m_ChannelAttr[l] : l \in Logs}
           U == {u \in Threads \ {t} : Assigning(u)}
           B == {call[u].attr : u \in U}
<1>1. AttributesInUse \subseteq A \cup B
  <2> SUFFICES ASSUME NEW x \in AttributesInUse PROVE x \in A \cup B
    OBVIOUS
  <2>1. CASE x \in {m_ChannelAttr[l] : l \in Logs} \cup {m_Attributes[l] : l \in Logs}
    BY <2>1 DEF Separate
  <2>2. CASE \E u \in Threads : x \in (IF call[u].op = "assign" THEN {call[u].attr, call[u].registered} ELSE {})
    <3>1. PICK u \in Threads : Assigning(u) /\ x \in {call[u].attr, call[u].registered}
      BY <2>2 DEF Assigning
    <3>2. x = call[u].attr /\ u \in U
      BY <3>1 DEF Separate
    <3> QED BY <3>2
  <2> QED BY <2>1, <2>2 DEF AttributesInUse
<1>2. IsFiniteSet(A) /\ Cardinality(A) <= Cardinality(Logs)
  <2>1. [l \in Logs |-> m_ChannelAttr[l]] \in Surjection(Logs, A)
    BY DEF Surjection
  <2> HIDE DEF A
  <2> QED BY <2>1, FS_Surjection DEF Numbered
<1>3. IsFiniteSet(U) /\ Cardinality(U) <= Cardinality(Threads) - 1
  <2>1. IsFiniteSet(Threads \ {t}) /\ Cardinality(Threads \ {t}) = Cardinality(Threads) - 1
    BY FS_RemoveElement DEF Numbered
  <2>2. U \in SUBSET (Threads \ {t})
    OBVIOUS
  <2> HIDE DEF U
  <2>3. IsFiniteSet(U) /\ Cardinality(U) <= Cardinality(Threads \ {t})
    BY <2>1, <2>2, FS_Subset
  <2> QED BY <2>1, <2>3
<1>4. IsFiniteSet(B) /\ Cardinality(B) <= Cardinality(U)
  <2>1. [u \in U |-> call[u].attr] \in Surjection(U, B)
    BY DEF Surjection
  <2> HIDE DEF B, U
  <2> QED BY <1>3, <2>1, FS_Surjection
<1>5. /\ Cardinality(A) \in Nat /\ Cardinality(B) \in Nat /\ Cardinality(U) \in Nat
      /\ Cardinality(A \cap B) \in Nat /\ Cardinality(Threads) \in Nat /\ Cardinality(Logs) \in Nat
      /\ IsFiniteSet(A \cup B) /\ Cardinality(A \cup B) = Cardinality(A) + Cardinality(B) - Cardinality(A \cap B)
  <2> HIDE DEF A, B, U
  <2>1. IsFiniteSet(A \cap B)
    BY <1>2, FS_Subset
  <2> QED BY <1>2, <1>3, <1>4, <2>1, FS_Union, FS_CardinalityType DEF Numbered
<1> HIDE DEF A, B, U
<1>6. Cardinality(A \cup B) < Cardinality(Logs) + Cardinality(Threads)
  BY <1>2, <1>3, <1>4, <1>5, SMTT(30)
<1>7. /\ Cardinality(AttributeObjects) = Cardinality(Logs) + Cardinality(Threads)
      /\ AttributeObjects \subseteq Nat
  <2> DEFINE n == Cardinality(Logs) + Cardinality(Threads)
  <2>1. n \in Nat /\ 1 \in Int
    BY <1>5, SMTT(30)
  <2> HIDE DEF n
  <2>2. Cardinality(1 .. n) = IF 1 > n THEN 0 ELSE n - 1 + 1
    BY <2>1, FS_Interval
  <2>3. Cardinality(1 .. n) = n /\ 1 .. n \subseteq Nat
    BY <2>1, <2>2, SMTT(30)
  <2> QED BY <2>3 DEF n, AttributeObjects
<1>8. ~ (AttributeObjects \subseteq A \cup B)
  <2> SUFFICES ASSUME AttributeObjects \subseteq A \cup B PROVE FALSE
    OBVIOUS
  <2>1. Cardinality(AttributeObjects) <= Cardinality(A \cup B)
    BY <1>5, FS_Subset
  <2>2. Cardinality(A \cup B) \in Nat
    BY <1>5, FS_CardinalityType
  <2> QED BY <1>5, <1>6, <1>7, <2>1, <2>2, SMTT(30)
<1>9. AttributeObjects \ AttributesInUse # {} /\ AttributeObjects \ AttributesInUse \subseteq Nat
  BY <1>1, <1>7, <1>8
<1> QED BY <1>9, MinIn

(* What is innermost after a step.                                            *)
LEMMA InnermostAfter ==
  ASSUME ThreadTyped, ThreadTyped', NEW t \in Threads, Nesting(t)
  PROVE  /\ Begins(t) \/ Accepts(t) \/ Throws(t) \/ Pushes(t) \/ Ends(t) =>
              ~HoldsLock(t)' /\ ~At(t, "core")'
         /\ Opens(t) => /\ top(t)'.log = top(t).log /\ ~At(t, "core")' /\ stack[t] # <<>>
                        /\ top(t).phase \in {"lock", "core"}
         /\ Values(t) => /\ top(t)' = stack'[t][depth(t)] /\ top(t)'.log = top(t).log
                         /\ stack[t] # <<>> /\ top(t).phase = "open"
<1> DEFINE D == depth(t)
           f == stack[t]
           g == stack'[t]
           E == Len(g)
<1>1. /\ D \in Nat /\ (f # <<>> => D > 0 /\ top(t) = f[D]) /\ (f = <<>> => D = 0)
      /\ \A i \in 1 .. D : f[i] \in StatementType
  BY Innermost DEF ThreadTyped
<1>2. E \in Nat /\ (g # <<>> => E > 0 /\ top(t)' = g[E])
  <2>1. g \in Seq(StatementType)
    BY DEF ThreadTyped, StackTyped
  <2> QED BY <2>1, SMTT(30) DEF top, depth
<1>3. \A i \in 1 .. D : i < D => f[i].phase \in Evaluating
  BY DEF Nesting
<1>4. D > 0 => f # <<>>
  BY <1>1, SMTT(30)
<1>5. /\ HoldsLock(t)' <=> g # <<>> /\ top(t)'.phase \in Holding
      /\ At(t, "core")' <=> g # <<>> /\ top(t)'.phase = "core"
  BY DEF HoldsLock, At
<1> HIDE DEF D, f, g, E
<1>6. ASSUME Begins(t) \/ Accepts(t) \/ Throws(t) \/ Pushes(t) \/ Ends(t), g # <<>>
      PROVE  top(t)'.phase \notin Holding /\ top(t)'.phase # "core"
  <2>1. CASE Begins(t)
    <3>1. top(t)'.phase = "lock"
      BY <1>2, <1>6, <2>1 DEF Begins, D, E, g
    <3> QED BY <3>1 DEF Holding
  <2>2. CASE Accepts(t) \/ Throws(t) \/ Pushes(t)
    <3>1. E = D
      BY <2>2 DEF Accepts, Throws, Pushes, Tops, D, E, g
    <3>2. g[D].phase \in {"stream", "unwind", "push", "handle_push", "done"}
      BY <2>2 DEF Accepts, Throws, Pushes, D, g
    <3> QED BY <1>2, <1>6, <3>1, <3>2 DEF Holding
  <2>3. CASE Ends(t)
    <3>1. E = D - 1 /\ E > 0 /\ top(t)' = g[E]
      BY <1>2, <1>6, <2>3 DEF Ends, D, E, g
    <3>2. E \in 1 .. D /\ E < D /\ E \in 1 .. E
      BY <1>1, <1>2, <3>1, SMTT(30)
    <3>3. f[E].phase \in Evaluating /\ f[E] \in StatementType
      BY <1>1, <1>3, <3>2
    <3>4. g[E] = f[E] \/ g[E] = Unwound(f[E])
      BY <2>3, <3>1, <3>2 DEF Ends, Below, D, f, g
    <3>5. g[E].phase \in Evaluating
      BY <3>3, <3>4, Around DEF Evaluating
    <3> QED BY <3>1, <3>5 DEF Evaluating, Holding
  <2> QED BY <1>6, <2>1, <2>2, <2>3
<1>7. ASSUME Opens(t)
      PROVE  /\ top(t)'.log = top(t).log /\ ~At(t, "core")' /\ stack[t] # <<>>
             /\ top(t).phase \in {"lock", "core"}
  <2>1. E = D /\ D > 0
    BY <1>7 DEF Opens, Tops, D, E, g
  <2>2. g # <<>> /\ top(t)' = g[D]
    <3>1. g # <<>>
      BY <1>1, <2>1, SMTT(30) DEF E
    <3> QED BY <1>2, <2>1, <3>1
  <2>3. g[D].log = top(t).log /\ g[D].phase # "core" /\ top(t).phase \in {"lock", "core"}
    BY <1>7 DEF Opens, SameRecord, GoesOn, D, g
  <2> QED BY <1>4, <1>5, <2>1, <2>2, <2>3 DEF f
<1>8. ASSUME Values(t)
      PROVE  /\ top(t)' = stack'[t][depth(t)] /\ top(t)'.log = top(t).log
             /\ stack[t] # <<>> /\ top(t).phase = "open"
  <2>1. E = D /\ D > 0 /\ g[D].log = top(t).log /\ top(t).phase = "open"
    BY <1>8 DEF Values, D, E, g
  <2>2. g # <<>> /\ top(t)' = g[D]
    <3>1. g # <<>>
      BY <1>1, <2>1, SMTT(30) DEF E
    <3> QED BY <1>2, <2>1, <3>1
  <2> QED BY <1>4, <2>1, <2>2 DEF D, f, g
<1> QED BY <1>5, <1>6, <1>7, <1>8

(* A lock that another thread holds alone stays held by it alone.             *)
LEMMA Mutexes ==
  ASSUME SharedTyped, NEW t \in Threads, NEW k \in Logs, NEW ls,
         lock(t, k) \/ lock_shared(t, k) \/ unlock(t, ls) \/ m_Mutex' = m_Mutex
  PROVE  /\ m_Mutex' \in [Logs -> [writer : SUBSET Threads, readers : SUBSET Threads]]
         /\ \A u \in Threads \ {t}, l \in Logs : m_Mutex[l].writer = {u} => m_Mutex'[l].writer = {u}
         /\ lock(t, k) => m_Mutex'[k].writer = {t}
<1> DEFINE M == [writer : SUBSET Threads, readers : SUBSET Threads]
<1>1. m_Mutex \in [Logs -> M] /\ m_Mutex[k] \in M
  BY DEF SharedTyped
<1>2. ASSUME lock(t, k)
      PROVE  /\ m_Mutex' \in [Logs -> M] /\ m_Mutex'[k].writer = {t}
             /\ \A u \in Threads \ {t}, l \in Logs : m_Mutex[l].writer = {u} => m_Mutex'[l].writer = {u}
  <2> DEFINE r == [m_Mutex[k] EXCEPT !.writer = {t}]
  <2>1. m_Mutex' = [m_Mutex EXCEPT ![k] = r] /\ m_Mutex[k].writer = {}
    BY <1>1, <1>2 DEF lock, can_lock
  <2>2. r \in M /\ r.writer = {t}
    BY <1>1
  <2> HIDE DEF r
  <2>3. m_Mutex' \in [Logs -> M] /\ m_Mutex'[k] = r /\ \A l \in Logs \ {k} : m_Mutex'[l] = m_Mutex[l]
    BY <1>1, <2>1, <2>2
  <2> QED BY <2>1, <2>2, <2>3
<1>3. ASSUME lock_shared(t, k)
      PROVE  /\ m_Mutex' \in [Logs -> M]
             /\ \A l \in Logs : m_Mutex'[l].writer = m_Mutex[l].writer
  <2> DEFINE r == [m_Mutex[k] EXCEPT !.readers = @ \cup {t}]
  <2>1. m_Mutex' = [m_Mutex EXCEPT ![k] = r]
    BY <1>1, <1>3 DEF lock_shared
  <2>2. r \in M /\ r.writer = m_Mutex[k].writer
    BY <1>1
  <2> HIDE DEF r
  <2>3. m_Mutex' \in [Logs -> M] /\ m_Mutex'[k] = r /\ \A l \in Logs \ {k} : m_Mutex'[l] = m_Mutex[l]
    BY <1>1, <2>1, <2>2
  <2> QED BY <2>2, <2>3
<1>4. ASSUME unlock(t, ls)
      PROVE  /\ m_Mutex' \in [Logs -> M]
             /\ \A l \in Logs : m_Mutex'[l].writer \in {m_Mutex[l].writer, m_Mutex[l].writer \ {t}}
  <2>1. \A l \in Logs : m_Mutex'[l] = IF l \in ls THEN [writer |-> m_Mutex[l].writer \ {t},
                                                       readers |-> m_Mutex[l].readers \ {t}]
                                      ELSE m_Mutex[l]
    BY <1>4 DEF unlock
  <2>2. \A l \in Logs : m_Mutex[l] \in M
    BY <1>1
  <2>3. \A l \in Logs : m_Mutex'[l] \in M
    <3> SUFFICES ASSUME NEW l \in Logs PROVE m_Mutex'[l] \in M
      OBVIOUS
    <3>1. m_Mutex[l].writer \ {t} \in SUBSET Threads /\ m_Mutex[l].readers \ {t} \in SUBSET Threads
      BY <2>2
    <3>2. [writer |-> m_Mutex[l].writer \ {t}, readers |-> m_Mutex[l].readers \ {t}] \in M
      BY <3>1
    <3> QED BY <2>1, <2>2, <3>2
  <2>4. m_Mutex' = [l \in Logs |-> m_Mutex'[l]]
    BY <1>4 DEF unlock
  <2>5. m_Mutex' \in [Logs -> M]
    BY <2>3, <2>4, Zenon
  <2>6. \A l \in Logs : m_Mutex'[l].writer \in {m_Mutex[l].writer, m_Mutex[l].writer \ {t}}
    <3> SUFFICES ASSUME NEW l \in Logs
                 PROVE  m_Mutex'[l].writer = m_Mutex[l].writer \/ m_Mutex'[l].writer = m_Mutex[l].writer \ {t}
      OBVIOUS
    <3>1. CASE l \in ls
      <4> DEFINE r == [writer |-> m_Mutex[l].writer \ {t}, readers |-> m_Mutex[l].readers \ {t}]
      <4>1. r.writer = m_Mutex[l].writer \ {t}
        OBVIOUS
      <4>2. m_Mutex'[l] = r
        BY <2>1, <3>1, Zenon
      <4> HIDE DEF r
      <4> QED BY <4>1, <4>2
    <3>2. CASE l \notin ls
      BY <2>1, <3>2, Zenon
    <3> QED BY <3>1, <3>2
  <2> QED BY <2>5, <2>6
<1>5. \A u \in Threads \ {t} : {u} \ {t} = {u}
  OBVIOUS
<1> HIDE DEF M
<1>6. CASE unlock(t, ls)
  BY <1>2, <1>4, <1>5, <1>6 DEF M
<1> QED BY <1>1, <1>2, <1>3, <1>6 DEF M

(* The calls that a thread may be in.                                         *)
LEMMA CallsTyped ==
  ASSUME SharedTyped, NEW t \in Threads
  PROVE  /\ call[t].op = "swap" => call[t].this \in Logs /\ call[t].that \in Logs /\ call[t] # NoCall
         /\ Assigning(t) => /\ call[t].this \in Logs /\ call[t].attr \in AttributeObjects /\ call[t] # NoCall
                            /\ call[t].registered \in AttributeObjects
                            /\ call[t].handler \in {"none", "absorbs"}
         /\ call[t] = NoCall => call[t].op = "none"
<1>1. call[t] \in {NoCall} \cup Swaps \cup Assigns
  BY DEF SharedTyped
<1>2. CASE call[t] = NoCall
  BY <1>2 DEF NoCall, Assigning
<1>3. CASE call[t] \in Swaps
  <2>1. call[t].op = "swap" /\ call[t].this \in Logs /\ call[t].that \in Logs
    BY <1>3 DEF Swaps
  <2>2. call[t] # NoCall
    BY <2>1 DEF NoCall
  <2> QED BY <2>1, <2>2 DEF Assigning
<1>4. CASE call[t] \in Assigns
  <2>1. /\ call[t].op = "assign" /\ call[t].this \in Logs /\ call[t].attr \in AttributeObjects
        /\ call[t].registered \in AttributeObjects /\ call[t].handler \in {"none", "absorbs"}
    BY <1>4 DEF Assigns
  <2>2. call[t] # NoCall
    BY <2>1 DEF NoCall
  <2> QED BY <2>1, <2>2 DEF Assigning
<1> QED BY <1>1, <1>2, <1>3, <1>4

(* A statement touches the mutex of its logger and the value of its channel   *)
(* attribute, and nothing else that loggers have.                             *)
LEMMA StatementShared ==
  ASSUME Numbered, ThreadTyped, SharedTyped, Locking, NEW t \in Threads, Nesting(t),
         StatementStep(t), Done(t)
  PROVE  SharedTyped' /\ Locking' /\ UNCHANGED <<m_Attributes, m_ChannelAttr, call>>
<1>1. ThreadTyped' /\ StackTyped /\ OthersAlike(t) /\ Effect(t)
  BY DEF Done, ThreadTyped
<1>2. UNCHANGED <<m_Attributes, m_ChannelAttr, m_ExceptionHandler, call>>
  BY DEF StatementStep, open_record, expression_throws, OpenStep, PushStep, lock_logger, set_values,
     core_accepts, core_rejects, core_throws, handle_open, destroy_pump, push_record, push_throws,
     handle_push, pushed, loggerVars
<1>3. call[t] = NoCall /\ call[t].op = "none"
  <2>1. stack[t] # <<>> \/ call[t] = NoCall
    BY DEF StatementStep, open_record, Idle, expression_throws, OpenStep, PushStep, lock_logger, set_values,
       core_accepts, core_rejects, core_throws, handle_open, destroy_pump, push_record, push_throws,
       handle_push, pushed, At
  <2>2. call[t] = NoCall
    BY <2>1 DEF Locking
  <2> QED BY <2>2, CallsTyped
<1>4. stack[t] # <<>> => top(t).log \in Logs /\ top(t).channel \in Names
  BY <1>1, Innermost DEF StatementType
<1>5. m_Value' \in [AttributeObjects -> Names]
  <2>1. CASE set_values(t)
    <3>1. /\ m_Value' \in {m_Value, [m_Value EXCEPT ![m_ChannelAttr[top(t).log]] = top(t).channel]}
          /\ stack[t] # <<>>
      BY <2>1 DEF set_values, At
    <3> QED BY <1>4, <3>1 DEF SharedTyped
  <2>2. CASE ~set_values(t)
    <3>1. m_Value' = m_Value
      BY <2>2 DEF StatementStep, open_record, expression_throws, OpenStep, PushStep, lock_logger,
         core_accepts, core_rejects, core_throws, handle_open, destroy_pump, push_record, push_throws,
         handle_push, pushed, loggerVars
    <3> QED BY <3>1 DEF SharedTyped
  <2> QED BY <2>1, <2>2
<1>6. \/ lock_logger(t)
      \/ unlock(t, {top(t).log}) /\ stack[t] # <<>> /\ (Accepts(t) \/ Ends(t))
      \/ m_Mutex' = m_Mutex /\ (stack[t] # <<>> => top(t).phase # "lock")
  <2>1. CASE core_accepts(t)
    BY <2>1, CoreAccepts DEF core_accepts, At
  <2>2. CASE core_rejects(t) \/ handle_open(t) \/ (core_throws(t) /\ "exception_handler" \notin Features)
    <3>1. Ends(t)
      BY <2>2, StatementEnds
    <3> QED BY <2>2, <3>1 DEF core_rejects, handle_open, core_throws, At
  <2>3. CASE core_throws(t) /\ "exception_handler" \in Features
    BY <2>3 DEF core_throws, At
  <2>4. CASE set_values(t) \/ expression_throws(t) \/ PushStep(t)
    BY <2>4 DEF set_values, expression_throws, PushStep, destroy_pump, push_record, push_throws, handle_push,
       pushed, At
  <2>5. CASE \E l \in Logs, request \in Requests : open_record(t, l, request)
    BY <2>5 DEF open_record, Idle, At
  <2> QED BY <2>1, <2>2, <2>3, <2>4, <2>5 DEF StatementStep, OpenStep
<1>7. lock_logger(t) => /\ stack[t] # <<>> /\ top(t).phase = "lock"
                        /\ lock(t, top(t).log) \/ lock_shared(t, top(t).log)
                        /\ "channel" \in Features => lock(t, top(t).log)
  BY DEF lock_logger, open_record_lock, At
<1>8. /\ m_Mutex' \in [Logs -> [writer : SUBSET Threads, readers : SUBSET Threads]]
      /\ \A u \in Threads \ {t}, l \in Logs : m_Mutex[l].writer = {u} => m_Mutex'[l].writer = {u}
  <2>1. CASE m_Mutex' = m_Mutex
    BY <2>1 DEF SharedTyped
  <2>2. CASE m_Mutex' # m_Mutex
    BY <1>4, <1>6, <1>7, <2>2, Mutexes
  <2> QED BY <2>1, <2>2
<1>9. lock_logger(t) /\ "channel" \in Features => m_Mutex'[top(t).log].writer = {t}
  BY <1>4, <1>7, Mutexes
<1>10. SharedTyped'
  BY <1>2, <1>5, <1>8 DEF SharedTyped
<1>11. ASSUME NEW u \in Threads, call'[u] # NoCall PROVE stack'[u] = <<>>
  BY <1>1, <1>2, <1>3, <1>11 DEF Locking, OthersAlike
<1>12. ASSUME NEW u \in Threads, call'[u].op = "swap" PROVE m_Mutex'[call'[u].this].writer = {u}
  <2>1. u # t /\ call'[u] = call[u] /\ call[u].op = "swap"
    BY <1>2, <1>3, <1>12
  <2>2. m_Mutex[call[u].this].writer = {u} /\ call[u].this \in Logs
    BY <2>1, CallsTyped DEF Locking
  <2> QED BY <1>8, <2>1, <2>2
<1>13. ASSUME "channel" \in Features, NEW u \in Threads, HoldsLock(u)'
       PROVE  m_Mutex'[top(u)'.log].writer = {u}
  <2>1. CASE u # t
    <3>1. stack'[u] = stack[u]
      BY <1>1, <2>1 DEF OthersAlike
    <3>2. HoldsLock(u) /\ top(u)' = top(u)
      BY <1>13, <3>1 DEF HoldsLock, top, depth
    <3>3. m_Mutex[top(u).log].writer = {u} /\ stack[u] # <<>>
      BY <1>13, <3>2 DEF Locking, HoldsLock
    <3>4. top(u).log \in Logs
      BY <1>1, <3>3, Innermost DEF StatementType
    <3> QED BY <1>8, <2>1, <3>2, <3>3, <3>4
  <2>2. CASE u = t
    <3>1. Opens(t) \/ Values(t)
      BY <1>1, <1>13, <2>2, InnermostAfter DEF Effect
    <3>2. /\ top(t)'.log = top(t).log /\ stack[t] # <<>> /\ top(t).phase \in {"lock", "core", "open"}
      BY <1>1, <3>1, InnermostAfter
    <3>3. CASE lock_logger(t)
      BY <1>9, <1>13, <2>2, <3>2, <3>3
    <3>4. CASE m_Mutex' = m_Mutex /\ (stack[t] # <<>> => top(t).phase # "lock")
      <4>1. HoldsLock(t)
        BY <3>2, <3>4 DEF HoldsLock, Holding
      <4> QED BY <1>13, <2>2, <3>2, <3>4, <4>1 DEF Locking
    <3>5. ~ (Accepts(t) \/ Ends(t))
      BY <1>1, <1>13, <2>2, InnermostAfter
    <3> QED BY <1>6, <3>3, <3>4, <3>5
  <2> QED BY <2>1, <2>2
<1> QED BY <1>2, <1>10, <1>11, <1>12, <1>13 DEF Locking

(* What a logger has while another thread holds its lock alone. *)
Kept(t) ==
  \A u \in Threads \ {t}, l \in Logs :
    m_Mutex[l].writer = {u} =>
      /\ m_ChannelAttr'[l] = m_ChannelAttr[l]
      /\ m_Value'[m_ChannelAttr[l]] = m_Value[m_ChannelAttr[l]]

(* What a call of a logger keeps. *)
Keeps(t) == SharedTyped' /\ Locking' /\ Separate' /\ Kept(t) /\ stack[t] = <<>>

(* What is left to show once the mutexes and the call are known.              *)
LEMMA CallLocks ==
  ASSUME SharedTyped, StackTyped, Locking, NEW t \in Threads, stack[t] = <<>>, stack' = stack,
         \A u \in Threads \ {t} : call'[u] = call[u],
         \A u \in Threads \ {t}, l \in Logs : m_Mutex[l].writer = {u} => m_Mutex'[l].writer = {u},
         call'[t].op = "swap" => m_Mutex'[call'[t].this].writer = {t}
  PROVE  Locking'
<1>1. ASSUME NEW u \in Threads, call'[u] # NoCall PROVE stack'[u] = <<>>
  BY <1>1 DEF Locking
<1>2. ASSUME NEW u \in Threads, call'[u].op = "swap" PROVE m_Mutex'[call'[u].this].writer = {u}
  <2>1. CASE u # t
    <3>1. m_Mutex[call[u].this].writer = {u} /\ call[u].this \in Logs /\ call'[u] = call[u]
      BY <1>2, <2>1, CallsTyped DEF Locking
    <3> QED BY <2>1, <3>1
  <2> QED BY <1>2, <2>1
<1>3. ASSUME "channel" \in Features, NEW u \in Threads, HoldsLock(u)'
      PROVE  m_Mutex'[top(u)'.log].writer = {u}
  <2>1. HoldsLock(u) /\ top(u)' = top(u) /\ stack[u] # <<>>
    BY <1>3 DEF HoldsLock, top, depth
  <2>2. u # t /\ m_Mutex[top(u).log].writer = {u}
    BY <1>3, <2>1 DEF Locking
  <2>3. top(u).log \in Logs
    BY <2>1, Innermost DEF StatementType
  <2> QED BY <2>1, <2>2, <2>3
<1> QED BY <1>1, <1>2, <1>3 DEF Locking

(* set_channel and set_exception_handler.                                     *)
LEMMA SetCalls ==
  ASSUME SharedTyped, StackTyped, Locking, Separate, NEW t \in Threads, NEW l \in Logs,
         \/ \E ch \in Channels : set_channel(t, l, ch)
         \/ \E handler \in {"none", "absorbs"} : set_exception_handler(t, l, handler)
  PROVE  Keeps(t)
<1>1. /\ stack[t] = <<>> /\ call[t] = NoCall /\ m_Mutex[l].writer = {}
      /\ UNCHANGED <<m_Mutex, m_Attributes, m_ChannelAttr, stack, call>>
  BY DEF set_channel, set_exception_handler, Idle, can_lock
<1>2. /\ m_ExceptionHandler' \in [Logs -> {"none", "absorbs"}] /\ m_Value' \in [AttributeObjects -> Names]
      /\ \A a \in AttributeObjects : a # m_ChannelAttr[l] => m_Value'[a] = m_Value[a]
  <2>1. CASE \E ch \in Channels : set_channel(t, l, ch)
    <3>1. PICK ch \in Channels : m_Value' = [m_Value EXCEPT ![m_ChannelAttr[l]] = ch] /\ UNCHANGED m_ExceptionHandler
      BY <2>1 DEF set_channel
    <3>2. ch \in Names
      BY DEF Names
    <3> QED BY <3>1, <3>2 DEF SharedTyped
  <2>2. CASE \E handler \in {"none", "absorbs"} : set_exception_handler(t, l, handler)
    <3>1. PICK handler \in {"none", "absorbs"} :
            m_ExceptionHandler' = [m_ExceptionHandler EXCEPT ![l] = handler] /\ UNCHANGED m_Value
      BY <2>2 DEF set_exception_handler
    <3> QED BY <3>1 DEF SharedTyped
  <2> QED BY <2>1, <2>2
<1>3. call[t].op # "swap"
  BY <1>1, CallsTyped
<1>4. Locking'
  BY <1>1, <1>3, CallLocks
<1>5. SharedTyped' /\ Separate'
  BY <1>1, <1>2 DEF SharedTyped, Separate, Assigning
<1>6. Kept(t)
  <2> SUFFICES ASSUME NEW u \in Threads \ {t}, NEW k \in Logs, m_Mutex[k].writer = {u}
               PROVE  m_Value'[m_ChannelAttr[k]] = m_Value[m_ChannelAttr[k]]
    BY <1>1 DEF Kept
  <2>1. m_ChannelAttr[k] # m_ChannelAttr[l]
    BY <1>1 DEF Separate
  <2> QED BY <1>2, <2>1 DEF SharedTyped
<1> QED BY <1>1, <1>4, <1>5, <1>6 DEF Keeps

(* swap takes the first lock.                                                 *)
LEMMA SwapLocks ==
  ASSUME Numbered, SharedTyped, StackTyped, Locking, Separate, NEW t \in Threads, NEW l \in Logs,
         NEW k \in Logs \ {l}, swap_lock(t, l, k)
  PROVE  Keeps(t)
<1> DEFINE c == [op |-> "swap", this |-> Min({l, k}), that |-> Max({l, k})]
<1>1. l \in Nat /\ k \in Nat
  <2>1. \A x \in 1 .. Cardinality(Logs) : x \in Nat
    BY FS_CardinalityType, SMTT(30) DEF Numbered
  <2> QED BY <2>1 DEF Numbered
<1>2. Min({l, k}) \in Logs /\ Max({l, k}) \in Logs
  BY <1>1, MinOfTwo
<1>3. /\ stack[t] = <<>> /\ call[t] = NoCall /\ lock(t, Min({l, k})) /\ call' = [call EXCEPT ![t] = c]
      /\ UNCHANGED <<m_Attributes, m_ChannelAttr, m_Value, m_ExceptionHandler, stack>>
  BY DEF swap_lock, Idle, loggerVars
<1>4. c \in Swaps /\ c.op = "swap" /\ c.this = Min({l, k})
  BY <1>2 DEF Swaps
<1> HIDE DEF c
<1>5. /\ call' \in [Threads -> {NoCall} \cup Swaps \cup Assigns] /\ call'[t] = c
      /\ \A u \in Threads \ {t} : call'[u] = call[u]
  BY <1>3, <1>4 DEF SharedTyped
<1>6. /\ m_Mutex' \in [Logs -> [writer : SUBSET Threads, readers : SUBSET Threads]]
      /\ \A u \in Threads \ {t}, x \in Logs : m_Mutex[x].writer = {u} => m_Mutex'[x].writer = {u}
      /\ m_Mutex'[Min({l, k})].writer = {t}
  BY <1>2, <1>3, Mutexes
<1>7. Locking'
  BY <1>3, <1>4, <1>5, <1>6, CallLocks
<1>8. SharedTyped'
  BY <1>3, <1>5, <1>6 DEF SharedTyped
<1>9. \A u \in Threads : Assigning(u)' => Assigning(u) /\ call'[u] = call[u]
  BY <1>4, <1>5 DEF Assigning
<1>10. Separate' /\ Kept(t)
  <2>1. Kept(t)
    BY <1>3 DEF Kept
  <2>2. Separate'
    BY <1>3, <1>9, SMTT(30) DEF Separate
  <2> QED BY <2>1, <2>2
<1> QED BY <1>3, <1>7, <1>8, <1>10 DEF Keeps

(* What swap does to the fields of the loggers.                               *)
LEMMA SwappedAt ==
  ASSUME NEW S, NEW f \in [Logs -> S], NEW l \in Logs, NEW k \in Logs
  PROVE  /\ Swapped(f, l, k) \in [Logs -> S]
         /\ \A x \in Logs : Swapped(f, l, k)[x] = IF x = k THEN f[l] ELSE IF x = l THEN f[k] ELSE f[x]
BY DEF Swapped

(* A thread with both locks swaps the loggers.                                *)
LEMMA SwapCalls ==
  ASSUME Numbered, SharedTyped, StackTyped, Locking, Separate, NEW t \in Threads,
         swap(t), UNCHANGED stack
  PROVE  Keeps(t)
<1> DEFINE l == call[t].this
           k == call[t].that
<1>1. /\ call[t].op = "swap" /\ m_Mutex[k].writer = {} /\ unlock(t, {l, k})
      /\ call' = [call EXCEPT ![t] = NoCall] /\ UNCHANGED m_Value
      /\ m_Attributes' = Swapped(m_Attributes, l, k)
      /\ m_ChannelAttr' = Swapped(m_ChannelAttr, l, k)
      /\ m_ExceptionHandler' = Swapped(m_ExceptionHandler, l, k)
  BY DEF swap, can_lock
<1>2. l \in Logs /\ k \in Logs /\ call[t] # NoCall /\ m_Mutex[l].writer = {t}
  BY <1>1, CallsTyped DEF Locking
<1>3. stack[t] = <<>>
  BY <1>2 DEF Locking
<1> HIDE DEF l, k
<1>4. /\ m_Attributes' \in [Logs -> AttributeObjects] /\ m_ChannelAttr' \in [Logs -> AttributeObjects]
      /\ m_ExceptionHandler' \in [Logs -> {"none", "absorbs"}]
  BY <1>1, <1>2, SwappedAt DEF SharedTyped
<1>5. \A x \in Logs : m_ChannelAttr'[x] = IF x = k THEN m_ChannelAttr[l] ELSE IF x = l THEN m_ChannelAttr[k]
                                          ELSE m_ChannelAttr[x]
  <2>1. m_ChannelAttr \in [Logs -> AttributeObjects]
    BY DEF SharedTyped
  <2> DEFINE f == Swapped(m_ChannelAttr, l, k)
  <2>2. \A x \in Logs : f[x] = IF x = k THEN m_ChannelAttr[l] ELSE IF x = l THEN m_ChannelAttr[k]
                                ELSE m_ChannelAttr[x]
    BY <1>2, <2>1, SMTT(30) DEF Swapped
  <2> HIDE DEF f
  <2>3. m_ChannelAttr' = f
    BY <1>1 DEF f
  <2> QED BY <2>2, <2>3, Zenon
<1>6. /\ call' \in [Threads -> {NoCall} \cup Swaps \cup Assigns] /\ call'[t] = NoCall
      /\ \A u \in Threads \ {t} : call'[u] = call[u]
  BY <1>1 DEF SharedTyped
<1>7. NoCall.op = "none"
  BY DEF NoCall
<1>8. /\ m_Mutex' \in [Logs -> [writer : SUBSET Threads, readers : SUBSET Threads]]
      /\ \A u \in Threads \ {t}, x \in Logs : m_Mutex[x].writer = {u} => m_Mutex'[x].writer = {u}
  BY <1>1, <1>2, Mutexes
<1>9. Locking'
  BY <1>3, <1>6, <1>7, <1>8, CallLocks
<1>10. SharedTyped'
  BY <1>1, <1>4, <1>6, <1>8 DEF SharedTyped
<1>11. Kept(t)
  <2> SUFFICES ASSUME NEW u \in Threads \ {t}, NEW x \in Logs, m_Mutex[x].writer = {u}
               PROVE  m_ChannelAttr'[x] = m_ChannelAttr[x]
    BY <1>1 DEF Kept
  <2>1. x # l /\ x # k
    BY <1>1, <1>2
  <2> QED BY <1>5, <2>1
<1>12. Separate'
  <2>1. m_Attributes' = m_ChannelAttr'
    BY <1>1 DEF Separate
  <2>2. \A x, y \in Logs : m_ChannelAttr[x] = m_ChannelAttr[y] => x = y
    BY DEF Separate
  <2>3. \A x, y \in Logs : m_ChannelAttr'[x] = m_ChannelAttr'[y] => x = y
    BY <1>2, <1>5, <2>2, SMTT(30)
  <2>4. \A u \in Threads : Assigning(u)' => u # t /\ Assigning(u) /\ call'[u] = call[u]
    BY <1>6, <1>7 DEF Assigning
  <2>5. \A x \in Logs : \E y \in Logs : m_ChannelAttr'[x] = m_ChannelAttr[y]
    BY <1>2, <1>5
  <2>6. ASSUME NEW u \in Threads, NEW x \in Logs, Assigning(u)' PROVE call'[u].attr # m_ChannelAttr'[x]
    <3>1. PICK y \in Logs : m_ChannelAttr'[x] = m_ChannelAttr[y]
      BY <2>5
    <3>2. Assigning(u) /\ call'[u] = call[u]
      BY <2>4, <2>6
    <3> QED BY <3>1, <3>2 DEF Separate
  <2>7. \A u \in Threads : Assigning(u)' => call'[u].registered = call'[u].attr
    BY <2>4 DEF Separate
  <2>8. \A u, v \in Threads : Assigning(u)' /\ Assigning(v)' /\ call'[u].attr = call'[v].attr => u = v
    BY <2>4 DEF Separate
  <2> QED BY <2>1, <2>3, <2>6, <2>7, <2>8 DEF Separate
<1> QED BY <1>3, <1>9, <1>10, <1>11, <1>12 DEF Keeps

(* A temporary copy gets an attribute that nothing else has.                  *)
LEMMA CopyCalls ==
  ASSUME Numbered, SharedTyped, StackTyped, Locking, Separate, NEW t \in Threads, NEW l \in Logs,
         NEW k \in Logs \ {l}, copy(t, l, k)
  PROVE  Keeps(t)
<1> DEFINE a == Min(AttributeObjects \ AttributesInUse)
           c == [op |-> "assign", this |-> l, attr |-> a, registered |-> a, handler |-> m_ExceptionHandler[k]]
<1>1. /\ stack[t] = <<>> /\ call[t] = NoCall /\ call' = [call EXCEPT ![t] = c]
      /\ m_Value' = [m_Value EXCEPT ![a] = m_Value[m_ChannelAttr[k]]]
      /\ UNCHANGED <<m_Mutex, m_Attributes, m_ChannelAttr, m_ExceptionHandler, stack>>
  BY DEF copy, Idle
<1>2. ~Assigning(t)
  BY <1>1, CallsTyped DEF Assigning
<1>3. a \in AttributeObjects \ AttributesInUse
  BY <1>2, FreshAttribute
<1> HIDE DEF a
<1>4. /\ \A x \in Logs : a # m_ChannelAttr[x]
      /\ \A u \in Threads : Assigning(u) => a # call[u].attr
  <2>1. \A x \in Logs : m_ChannelAttr[x] \in AttributesInUse
    BY DEF AttributesInUse
  <2>2. \A u \in Threads : Assigning(u) => call[u].attr \in AttributesInUse
    <3> SUFFICES ASSUME NEW u \in Threads, call[u].op = "assign" PROVE call[u].attr \in AttributesInUse
      BY DEF Assigning
    <3> DEFINE U(v) == IF call[v].op = "assign" THEN {call[v].attr, call[v].registered} ELSE {}
    <3>1. call[u].attr \in U(u)
      OBVIOUS
    <3>2. call[u].attr \in UNION {U(v) : v \in Threads}
      BY <3>1
    <3> QED BY <3>2 DEF AttributesInUse
  <2> QED BY <1>3, <2>1, <2>2
<1>5. c \in Assigns /\ c.op = "assign" /\ c.attr = a /\ c.registered = a
  BY <1>3 DEF Assigns, SharedTyped
<1> HIDE DEF c
<1>6. /\ call' \in [Threads -> {NoCall} \cup Swaps \cup Assigns] /\ call'[t] = c
      /\ \A u \in Threads \ {t} : call'[u] = call[u]
  BY <1>1, <1>5 DEF SharedTyped
<1>7. m_Value' \in [AttributeObjects -> Names] /\ \A x \in AttributeObjects : x # a => m_Value'[x] = m_Value[x]
  BY <1>1, <1>3 DEF SharedTyped
<1>8. Locking'
  BY <1>1, <1>5, <1>6, CallLocks
<1>9. SharedTyped'
  BY <1>1, <1>6, <1>7 DEF SharedTyped
<1>10. Kept(t)
  BY <1>1, <1>4, <1>7 DEF Kept, SharedTyped
<1>11. Separate'
  <2>1. \A u \in Threads : Assigning(u)' => u = t \/ (Assigning(u) /\ call'[u] = call[u])
    BY <1>6 DEF Assigning
  <2>2. call'[t].registered = a /\ call'[t].attr = a
    BY <1>5, <1>6
  <2>3. \A u \in Threads : Assigning(u)' => call'[u].registered = call'[u].attr
    BY <2>1, <2>2 DEF Separate
  <2>4. \A u \in Threads : \A x \in Logs : Assigning(u)' => call'[u].attr # m_ChannelAttr'[x]
    BY <1>1, <1>4, <2>1, <2>2, SMTT(30) DEF Separate
  <2>5. ASSUME NEW u \in Threads, NEW v \in Threads, Assigning(u)', Assigning(v)', call'[u].attr = call'[v].attr
        PROVE  u = v
    <3>1. CASE u # t /\ v # t
      BY <2>1, <2>5, <3>1 DEF Separate
    <3>2. CASE u # t /\ v = t
      BY <1>4, <2>1, <2>2, <2>5, <3>2
    <3>3. CASE u = t /\ v # t
      BY <1>4, <2>1, <2>2, <2>5, <3>3
    <3> QED BY <3>1, <3>2, <3>3
  <2> QED BY <1>1, <2>3, <2>4, <2>5 DEF Separate
<1> QED BY <1>1, <1>8, <1>9, <1>10, <1>11 DEF Keeps

(* The copy is assigned, with its attribute.                                  *)
LEMMA AssignCalls ==
  ASSUME Numbered, SharedTyped, StackTyped, Locking, Separate, NEW t \in Threads,
         assign(t), UNCHANGED stack
  PROVE  Keeps(t)
<1> DEFINE l == call[t].this
           a == call[t].attr
<1>1. /\ Assigning(t) /\ m_Mutex[l].writer = {}
      /\ call' = [call EXCEPT ![t] = NoCall] /\ UNCHANGED <<m_Mutex, m_Value>>
      /\ m_Attributes' = [m_Attributes EXCEPT ![l] = call[t].registered]
      /\ m_ChannelAttr' = [m_ChannelAttr EXCEPT ![l] = a]
      /\ m_ExceptionHandler' = [m_ExceptionHandler EXCEPT ![l] = call[t].handler]
  BY DEF assign, can_lock, Assigning
<1>2. /\ l \in Logs /\ a \in AttributeObjects /\ call[t].registered = a /\ call[t] # NoCall
      /\ call[t].handler \in {"none", "absorbs"}
  BY <1>1, CallsTyped DEF Separate
<1>3. stack[t] = <<>>
  BY <1>2 DEF Locking
<1> HIDE DEF l, a
<1>4. /\ m_Attributes' \in [Logs -> AttributeObjects] /\ m_ChannelAttr' \in [Logs -> AttributeObjects]
      /\ m_ExceptionHandler' \in [Logs -> {"none", "absorbs"}]
  BY <1>1, <1>2 DEF SharedTyped
<1>5. m_ChannelAttr'[l] = a /\ \A x \in Logs : x # l => m_ChannelAttr'[x] = m_ChannelAttr[x]
  BY <1>1, <1>2 DEF SharedTyped
<1>6. /\ call' \in [Threads -> {NoCall} \cup Swaps \cup Assigns] /\ call'[t] = NoCall
      /\ \A u \in Threads \ {t} : call'[u] = call[u]
  BY <1>1 DEF SharedTyped
<1>7. NoCall.op = "none"
  BY DEF NoCall
<1>8. Locking'
  BY <1>1, <1>3, <1>6, <1>7, CallLocks
<1>9. SharedTyped'
  BY <1>1, <1>4, <1>6 DEF SharedTyped
<1>10. Kept(t)
  BY <1>1, <1>2, <1>5 DEF Kept
<1>11. Separate'
  <2>1. m_Attributes' = m_ChannelAttr'
    BY <1>1, <1>2 DEF Separate
  <2>2. \A u \in Threads : Assigning(u)' => u # t /\ Assigning(u) /\ call'[u] = call[u]
    BY <1>6, <1>7 DEF Assigning
  <2>3. \A x \in Logs : a # m_ChannelAttr[x]
    BY <1>1 DEF Separate, a
  <2>4. \A u \in Threads : Assigning(u) /\ u # t => call[u].attr # a
    BY <1>1 DEF Separate, a
  <2>5. ASSUME NEW x \in Logs, NEW y \in Logs, m_ChannelAttr'[x] = m_ChannelAttr'[y] PROVE x = y
    <3>1. CASE x # l /\ y # l
      BY <1>5, <2>5, <3>1 DEF Separate
    <3>2. CASE x # l /\ y = l
      BY <1>5, <2>3, <2>5, <3>2
    <3>3. CASE x = l /\ y # l
      BY <1>5, <2>3, <2>5, <3>3
    <3> QED BY <3>1, <3>2, <3>3
  <2>6. ASSUME NEW u \in Threads, NEW x \in Logs, Assigning(u)' PROVE call'[u].attr # m_ChannelAttr'[x]
    <3>1. u # t /\ Assigning(u) /\ call'[u] = call[u]
      BY <2>2, <2>6
    <3>2. CASE x = l
      BY <1>5, <2>4, <3>1, <3>2
    <3>3. CASE x # l
      BY <1>5, <3>1, <3>3 DEF Separate
    <3> QED BY <3>2, <3>3
  <2>7. \A u \in Threads : Assigning(u)' => call'[u].registered = call'[u].attr
    BY <2>2 DEF Separate
  <2>8. \A u, v \in Threads : Assigning(u)' /\ Assigning(v)' /\ call'[u].attr = call'[v].attr => u = v
    BY <2>2 DEF Separate
  <2> QED BY <2>1, <2>5, <2>6, <2>7, <2>8 DEF Separate
<1> QED BY <1>3, <1>8, <1>9, <1>10, <1>11 DEF Keeps

(* Every call of a logger.                                                    *)
LEMMA LoggerCalls ==
  ASSUME Numbered, SharedTyped, StackTyped, Locking, Separate, NEW t \in Threads,
         LoggerCall(t), UNCHANGED stack
  PROVE  Keeps(t)
BY SetCalls, SwapLocks, SwapCalls, CopyCalls, AssignCalls DEF LoggerCall

-----------------------------------------------------------------------------
(* The channel of a record *)

(* A record has the channel of its statement.                                 *)
LEMMA ValuedStep ==
  ASSUME ThreadTyped, NEW t \in Threads, Nesting(t), Valued(t), Effect(t),
         At(t, "core") => m_Value[m_Attributes[top(t).log]] = top(t).channel
  PROVE  Valued(t)'
<1> DEFINE D == depth(t)
           E == Len(stack'[t])
           f == stack[t]
           g == stack'[t]
           True(s) == s.phase \notin Opening => s.value = s.channel
<1>1. /\ D \in Nat /\ (f # <<>> => D > 0 /\ top(t) = f[D]) /\ (f = <<>> => D = 0)
      /\ \A i \in 1 .. D : f[i] \in StatementType
  BY Innermost DEF ThreadTyped
<1>2. \A i \in 1 .. D : True(f[i])
  BY DEF Valued
<1>3. \A i \in 1 .. D : i < D => f[i].phase \in Evaluating
  BY DEF Nesting
<1>4. SUFFICES \A i \in 1 .. E : True(g[i])
  BY DEF Valued, depth
<1>5. D > 0 => f # <<>>
  BY <1>1, SMTT(30)
<1>6. Evaluating \cap Opening = {}
  BY DEF Evaluating, Opening
<1> HIDE DEF D, E, f, g
<1>7. CASE Begins(t)
  <2>1. E = D + 1 /\ g[D + 1].phase = "lock" /\ \A i \in 1 .. D : g[i] = f[i]
    BY <1>7 DEF Begins, Below, D, E, f, g
  <2>2. \A i \in 1 .. D + 1 : i \in 1 .. D \/ i = D + 1
    BY <1>1, SMTT(30)
  <2>3. "lock" \in Opening
    BY DEF Opening
  <2> QED BY <1>2, <2>1, <2>2, <2>3
<1>8. CASE Opens(t) \/ Accepts(t) \/ Throws(t) \/ Pushes(t)
  <2>1. E = D /\ D > 0 /\ \A i \in 1 .. D - 1 : g[i] = f[i]
    BY <1>8 DEF Opens, Accepts, Throws, Pushes, Tops, Below, D, E, f, g
  <2>2. /\ D \in 1 .. D /\ \A i \in 1 .. D : i \in 1 .. D - 1 \/ i = D
        /\ \A i \in 1 .. D - 1 : i \in 1 .. D
    BY <1>1, <2>1, SMTT(30)
  <2>3. True(g[D])
    <3>1. CASE Opens(t)
      BY <3>1 DEF Opens, Opening, D, g
    <3>2. CASE Accepts(t)
      <4>1. At(t, "core") /\ g[D].value = m_Value[m_Attributes[top(t).log]] /\ g[D].channel = top(t).channel
        BY <1>5, <2>1, <3>2 DEF Accepts, GoesOn, At, D, f, g
      <4> QED BY <4>1
    <3>3. CASE Throws(t) \/ Pushes(t)
      <4>1. top(t).phase \notin Opening /\ g[D].value = top(t).value /\ g[D].channel = top(t).channel
        BY <3>3 DEF Throws, Pushes, SameRecord, GoesOn, Opening, Evaluating, D, g
      <4> QED BY <1>1, <1>2, <1>5, <2>1, <2>2, <4>1
    <3> QED BY <1>8, <3>1, <3>2, <3>3
  <2> QED BY <1>2, <2>1, <2>2, <2>3
<1>9. CASE Values(t)
  <2>1. /\ E = D /\ D > 0 /\ g[D].phase = "core"
        /\ \A i \in 1 .. D - 1 : g[i] = WithNested(f[i])
    BY <1>9 DEF Values, D, E, f, g
  <2>2. /\ \A i \in 1 .. D : i \in 1 .. D - 1 \/ i = D
        /\ \A i \in 1 .. D - 1 : i \in 1 .. D
    BY <1>1, <2>1, SMTT(30)
  <2>3. \A i \in 1 .. D - 1 : /\ g[i].phase = f[i].phase /\ g[i].value = f[i].value
                              /\ g[i].channel = f[i].channel
    BY <1>1, <2>1, <2>2, Around, SMTT(30)
  <2>4. "core" \in Opening
    BY DEF Opening
  <2> QED BY <1>2, <2>1, <2>2, <2>3, <2>4
<1>10. CASE Ends(t)
  <2>1. E = D - 1 /\ D > 0
    BY <1>10 DEF Ends, D, E
  <2>2. /\ \A i \in 1 .. D - 1 : i \in 1 .. D /\ i < D
        /\ \A i \in 1 .. D - 1 : i \in 1 .. D - 2 \/ i = D - 1
    BY <1>1, <2>1, SMTT(30)
  <2>3. ASSUME NEW i \in 1 .. D - 1 PROVE g[i].value = f[i].value /\ g[i].channel = f[i].channel
    <3>1. g[i] = f[i] \/ g[i] = Unwound(f[i])
      BY <1>10, <2>2 DEF Ends, Below, D, f, g
    <3> QED BY <1>1, <2>2, <3>1, Around
  <2>4. \A i \in 1 .. D - 1 : f[i].value = f[i].channel
    BY <1>2, <1>3, <1>6, <2>2
  <2> QED BY <2>1, <2>3, <2>4
<1> QED BY <1>7, <1>8, <1>9, <1>10 DEF Effect

(* The channel that a statement has set is there when the core reads it.      *)
LEMMA ChannelledStep ==
  ASSUME Numbered, "channel" \in Features, ThreadTyped, SharedTyped, Locking, Separate, Channelled,
         NEW t \in Threads, Nesting(t),
         (StatementStep(t) /\ Done(t)) \/ (LoggerCall(t) /\ UNCHANGED threadVars)
  PROVE  Channelled'
<1>1. StackTyped
  BY DEF ThreadTyped
<1>2. ASSUME NEW u \in Threads, At(u, "core")
      PROVE  /\ top(u).log \in Logs /\ m_Mutex[top(u).log].writer = {u}
             /\ m_Value[m_ChannelAttr[top(u).log]] = top(u).channel
  <2>1. stack[u] # <<>> /\ HoldsLock(u)
    BY <1>2 DEF At, HoldsLock, Holding
  <2>2. top(u) \in StatementType
    BY <1>1, <2>1, Innermost
  <2>3. top(u).log \in Logs
    BY <2>2 DEF StatementType
  <2> QED BY <1>2, <2>1, <2>3 DEF Locking, Channelled
<1>3. CASE LoggerCall(t) /\ UNCHANGED threadVars
  <2>1. stack' = stack
    BY <1>3 DEF threadVars
  <2>2. Kept(t) /\ stack[t] = <<>>
    BY <1>1, <1>3, <2>1, LoggerCalls DEF Keeps
  <2>3. ASSUME NEW u \in Threads, At(u, "core")'
        PROVE  m_Value'[m_ChannelAttr'[top(u)'.log]] = top(u)'.channel
    <3>1. At(u, "core") /\ top(u)' = top(u) /\ u # t
      BY <2>1, <2>2, <2>3 DEF At, top, depth
    <3> QED BY <1>2, <2>2, <3>1, SMTT(30) DEF Kept
  <2> QED BY <2>3 DEF Channelled
<1>4. CASE StatementStep(t) /\ Done(t)
  <2>1. ThreadTyped' /\ OthersAlike(t) /\ Effect(t) /\ m_ChannelAttr' = m_ChannelAttr
    BY <1>4, StatementShared DEF Done
  <2>2. ASSUME NEW u \in Threads, At(u, "core")', u # t
        PROVE  m_Value'[m_ChannelAttr'[top(u)'.log]] = top(u)'.channel
    <3>1. At(u, "core") /\ top(u)' = top(u)
      BY <2>1, <2>2 DEF At, top, depth, OthersAlike
    <3> DEFINE l == top(u).log
    <3>2. l \in Logs /\ m_Mutex[l].writer = {u} /\ m_Value[m_ChannelAttr[l]] = top(u).channel
      BY <1>2, <3>1
    <3>3. m_Value'[m_ChannelAttr[l]] = m_Value[m_ChannelAttr[l]]
      <4>1. CASE set_values(t)
        <5>1. stack[t] # <<>> /\ HoldsLock(t)
          BY <4>1 DEF set_values, At, HoldsLock, Holding
        <5>2. top(t).log \in Logs /\ m_Mutex[top(t).log].writer = {t}
          BY <1>1, <5>1, Innermost DEF StatementType, Locking
        <5>3. m_ChannelAttr[top(t).log] # m_ChannelAttr[l]
          BY <2>2, <3>2, <5>2 DEF Separate
        <5>4. m_Value' \in {m_Value, [m_Value EXCEPT ![m_ChannelAttr[top(t).log]] = top(t).channel]}
          BY <4>1 DEF set_values
        <5>5. m_ChannelAttr[l] \in AttributeObjects /\ m_Value \in [AttributeObjects -> Names]
          BY <3>2 DEF SharedTyped
        <5> QED BY <5>3, <5>4, <5>5
      <4>2. CASE ~set_values(t)
        <5>1. m_Value' = m_Value
          BY <1>4, <4>2 DEF StatementStep, open_record, expression_throws, OpenStep, PushStep, lock_logger,
             core_accepts, core_rejects, core_throws, handle_open, destroy_pump, push_record, push_throws,
             handle_push, pushed, loggerVars
        <5> QED BY <5>1
      <4> QED BY <4>1, <4>2
    <3> QED BY <2>1, <3>1, <3>2, <3>3
  <2>3. ASSUME At(t, "core")'
        PROVE  m_Value'[m_ChannelAttr'[top(t)'.log]] = top(t)'.channel
    <3>1. Values(t)
      BY <2>1, <2>3, InnermostAfter DEF Effect
    <3>2. /\ top(t)' = stack'[t][depth(t)] /\ top(t)'.log = top(t).log
          /\ stack[t] # <<>> /\ top(t).phase = "open"
      BY <2>1, <3>1, InnermostAfter
    <3>3. set_values(t)
      BY <1>4, <3>2 DEF StatementStep, open_record, Idle, expression_throws, OpenStep, PushStep, lock_logger,
         core_accepts, core_rejects, core_throws, handle_open, destroy_pump, push_record, push_throws,
         handle_push, pushed, At
    <3>4. stack'[t][depth(t)].channel = m_Value'[m_ChannelAttr[top(t).log]]
      BY <3>3, SetValues
    <3> QED BY <2>1, <3>2, <3>4
  <2> QED BY <2>2, <2>3 DEF Channelled
<1> QED BY <1>3, <1>4

-----------------------------------------------------------------------------
(* The invariants *)

(* The invariants hold before the first call.                                 *)
LEMMA InvInit ==
  ASSUME Numbered, Init
  PROVE  ThreadInv /\ SharedInv /\ ChannelInv
<1>1. <<>> \in Seq(StatementType) /\ <<>> \in Seq(Nat) /\ Len(<<>>) = 0 /\ DOMAIN <<>> = {}
  BY SMTT(30)
<1>2. \A l \in Logs : l \in AttributeObjects
  <2>1. Cardinality(Logs) \in Nat /\ Cardinality(Threads) \in Nat
    BY FS_CardinalityType DEF Numbered
  <2>2. \A l \in 1 .. Cardinality(Logs) : l \in 1 .. Cardinality(Logs) + Cardinality(Threads)
    BY <2>1, SMTT(30)
  <2> QED BY <2>2 DEF Numbered, AttributeObjects
<1>3. \A t \in Threads : /\ stack[t] = <<>> /\ streams[t] = <<>> /\ m_Top[t] = <<>> /\ depth(t) = 0
                         /\ call[t] = NoCall /\ call[t].op = "none"
  BY <1>1 DEF Init, depth, NoCall
<1>4. ThreadTyped
  <2>1. 0 \in Int /\ 0 \in Levels
    BY SMTT(30) DEF Levels
  <2> QED BY <1>1, <2>1 DEF Init, ThreadTyped, StackTyped
<1>5. SharedTyped
  <2>1. SomeChannel \in Names
    BY DEF Names
  <2> QED BY <1>2, <2>1 DEF Init, SharedTyped
<1>6. 1 .. 0 = {} /\ 2 .. 0 = {}
  BY SMTT(30)
<1>7. \A t \in Threads : Nesting(t) /\ Unwinding(t) /\ Levelled(t) /\ Streamed(t) /\ Valued(t)
  <2> SUFFICES ASSUME NEW t \in Threads PROVE Nesting(t) /\ Unwinding(t) /\ Levelled(t) /\ Streamed(t) /\ Valued(t)
    OBVIOUS
  <2>1. Nesting(t) /\ Unwinding(t) /\ Levelled(t) /\ Valued(t)
    BY <1>3, <1>6 DEF Nesting, Unwinding, Levelled, Valued
  <2>2. Streamed(t)
    BY <1>1, <1>3, <1>6 DEF Streamed, Range, IsInjective
  <2> QED BY <2>1, <2>2
<1>8. Locking /\ Channelled
  BY <1>3 DEF Locking, Channelled, HoldsLock, At
<1>9. Separate
  BY <1>3 DEF Init, Separate, Assigning
<1> QED BY <1>4, <1>5, <1>7, <1>8, <1>9 DEF ThreadInv, SharedInv, ChannelInv

(* Every step of a thread is a step of a statement or a call of a logger.     *)
LEMMA EveryStep ==
  ASSUME Numbered, ThreadInv, SharedInv, Next
  PROVE  \E t \in Threads : (StatementStep(t) /\ Done(t)) \/ (LoggerCall(t) /\ UNCHANGED threadVars)
BY Effects DEF Next, ThreadInv, SharedInv

(* A step keeps the invariants.                                               *)
LEMMA InvStep ==
  ASSUME Numbered, ThreadInv, SharedInv, [Next]_vars
  PROVE  ThreadInv' /\ SharedInv' /\ ("channel" \in Features /\ ChannelInv => ChannelInv')
<1>1. CASE UNCHANGED vars
  <2>1. UNCHANGED <<m_Mutex, m_Attributes, m_ChannelAttr, m_Value, m_ExceptionHandler, g_Severity, stack,
                    uncaught, streams, m_Top, call>>
    BY <1>1 DEF vars, loggerVars, streamVars
  <2>2. ThreadInv'
    <3>1. ThreadTyped'
      BY <2>1 DEF ThreadInv, ThreadTyped, StackTyped
    <3> QED BY <2>1, <3>1, Undisturbed DEF ThreadInv
  <2>3. SharedInv'
    BY <2>1 DEF SharedInv, SharedTyped, Locking, HoldsLock, top, depth, Separate, Assigning
  <2>4. ChannelInv => ChannelInv'
    BY <2>1, Undisturbed DEF ChannelInv, Channelled, At, top, depth
  <2> QED BY <2>2, <2>3, <2>4
<1>2. CASE Next
  <2>1. PICK t \in Threads : (StatementStep(t) /\ Done(t)) \/ (LoggerCall(t) /\ UNCHANGED threadVars)
    BY <1>2, EveryStep
  <2>2. /\ ThreadTyped /\ StackTyped /\ SharedTyped /\ Locking /\ Separate
        /\ \A u \in Threads : Nesting(u) /\ Unwinding(u) /\ Levelled(u) /\ Streamed(u)
    BY DEF ThreadInv, ThreadTyped, SharedInv
  <2>3. "channel" \in Features /\ ChannelInv => Channelled'
    BY <2>1, <2>2, ChannelledStep DEF ChannelInv
  <2>4. CASE StatementStep(t) /\ Done(t)
    <3>1. ThreadTyped' /\ StackTyped' /\ OthersAlike(t) /\ Effect(t)
      BY <2>4 DEF Done, ThreadTyped
    <3>2. Nesting(t)' /\ Unwinding(t)' /\ Levelled(t)' /\ Streamed(t)'
      BY <2>2, <3>1, NestingStep, UnwindingStep, LevelledStep, StreamedStep
    <3>3. ASSUME NEW u \in Threads, u # t
          PROVE  Nesting(u)' /\ Unwinding(u)' /\ Levelled(u)' /\ Streamed(u)' /\ (Valued(u) => Valued(u)')
      BY <2>2, <3>1, <3>3, Undisturbed DEF OthersAlike
    <3>4. ThreadInv'
      BY <3>1, <3>2, <3>3 DEF ThreadInv
    <3>5. SharedTyped' /\ Locking' /\ UNCHANGED <<m_Attributes, m_ChannelAttr, call>>
      BY <2>2, <2>4, StatementShared
    <3>6. Separate'
      BY <2>2, <3>5 DEF Separate, Assigning
    <3>7. ChannelInv => Valued(t)'
      <4> SUFFICES ASSUME ChannelInv PROVE Valued(t)'
        OBVIOUS
      <4>1. At(t, "core") => m_Value[m_Attributes[top(t).log]] = top(t).channel
        BY <2>2 DEF ChannelInv, Channelled, Separate
      <4> QED BY <2>2, <3>1, <4>1, ValuedStep DEF ChannelInv
    <3>8. "channel" \in Features /\ ChannelInv => ChannelInv'
      BY <2>3, <3>3, <3>7 DEF ChannelInv
    <3> QED BY <3>4, <3>5, <3>6, <3>8 DEF SharedInv
  <2>5. CASE LoggerCall(t) /\ UNCHANGED threadVars
    <3>1. UNCHANGED <<stack, uncaught, g_Severity, streams, m_Top>>
      BY <2>5 DEF threadVars
    <3>2. ThreadTyped'
      BY <2>2, <3>1 DEF ThreadTyped, StackTyped
    <3>3. \A u \in Threads : Nesting(u)' /\ Unwinding(u)' /\ Levelled(u)' /\ Streamed(u)' /\ (Valued(u) => Valued(u)')
      BY <2>2, <3>1, Undisturbed
    <3>4. SharedTyped' /\ Locking' /\ Separate'
      BY <2>2, <2>5, <3>1, LoggerCalls DEF Keeps
    <3> QED BY <2>3, <3>2, <3>3, <3>4 DEF ThreadInv, SharedInv, ChannelInv
  <2> QED BY <2>1, <2>4, <2>5
<1> QED BY <1>1, <1>2

-----------------------------------------------------------------------------
(* Theorems *)

(* The invariants always hold.                                                *)
LEMMA InvHolds == ASSUME Numbered PROVE Spec => [](ThreadInv /\ SharedInv)
<1>1. Init => ThreadInv /\ SharedInv
  BY InvInit
<1>2. (ThreadInv /\ SharedInv) /\ [Next]_vars => (ThreadInv /\ SharedInv)'
  BY InvStep
<1> QED BY <1>1, <1>2, PTL DEF Spec

(* Loggers never share their channel attribute, and each has registered the   *)
(* one it owns, after any copies, assignments and swaps by any threads.       *)
THEOREM NoSharedAttribute == ASSUME Numbered PROVE Spec => []LoggersApart
<1>1. ThreadInv /\ SharedInv => LoggersApart
  <2> SUFFICES ASSUME SharedInv PROVE LoggersApart
    OBVIOUS
  <2>1. DOMAIN m_ChannelAttr = Logs
    BY DEF SharedInv, SharedTyped
  <2> QED BY <2>1 DEF SharedInv, Separate, LoggersApart, IsInjective
<1> QED BY <1>1, InvHolds, PTL

(* Statements inside of each other, to any depth, never write to the same     *)
(* stream of the thread's pool, whatever exceptions end them.                 *)
THEOREM StreamPoolSound == ASSUME Numbered PROVE Spec => []StreamsApart
<1>1. ThreadInv /\ SharedInv => StreamsApart
  <2> SUFFICES ASSUME ThreadInv, NEW t \in Threads
               PROVE  /\ \A i \in 1 .. depth(t) :
                           stack[t][i].compound # 0 => streams[t][stack[t][i].compound] = i
                      /\ Range(m_Top[t]) = {c \in DOMAIN streams[t] : streams[t][c] = 0}
                      /\ IsInjective(m_Top[t])
    BY DEF StreamsApart
  <2>1. Streamed(t)
    BY DEF ThreadInv
  <2> QED BY <2>1 DEF Streamed
<1> QED BY <1>1, InvHolds, PTL

(* record_pump compares the exceptions in flight with those at its            *)
(* construction.  For statements to any depth, also in destructors that run   *)
(* during unwinding, it drops the record if the expression of the statement   *)
(* itself has thrown, and never otherwise.                                    *)
THEOREM PumpKnowsItsException == ASSUME Numbered PROVE Spec => [][PushesUnlessThrown]_vars
<1>1. (ThreadInv /\ SharedInv) /\ [Next]_vars => [PushesUnlessThrown]_vars
  <2> SUFFICES ASSUME ThreadInv, SharedInv, Next, NEW u \in Threads, At(u, "stream") \/ At(u, "unwind")
               PROVE  /\ Len(stack'[u]) < depth(u) => top(u).threw
                      /\ Len(stack'[u]) = depth(u) /\ stack'[u][depth(u)].phase = "push" => ~top(u).threw
    BY DEF PushesUnlessThrown
  <2>1. PICK t \in Threads : (StatementStep(t) /\ Done(t)) \/ (LoggerCall(t) /\ UNCHANGED threadVars)
    BY EveryStep
  <2>2. /\ stack[u] # <<>> /\ top(u).phase \in Evaluating /\ depth(u) \in Nat /\ depth(u) > 0
        /\ top(u) = stack[u][depth(u)] /\ top(u) \in StatementType
    BY Innermost DEF At, Evaluating, ThreadInv, ThreadTyped
  <2>3. ~ (depth(u) < depth(u)) /\ ~ (depth(u) + 1 < depth(u)) /\ depth(u) + 1 # depth(u)
        /\ depth(u) - 1 # depth(u) /\ depth(u) \in 1 .. depth(u)
    BY <2>2, SMTT(30)
  <2>4. CASE stack'[u] = stack[u]
    <3>1. Len(stack'[u]) = depth(u) /\ stack'[u][depth(u)].phase # "push"
      BY <2>2, <2>4 DEF depth, Evaluating
    <3> QED BY <2>3, <3>1
  <2>5. CASE stack'[u] # stack[u]
    <3>1. u = t /\ Effect(u)
      BY <2>1, <2>5 DEF Done, OthersAlike, threadVars
    <3>2. top(u).threw \in BOOLEAN /\ top(u).exceptions \in Int
      BY <2>2 DEF StatementType
    <3>3. uncaught[u] = top(u).exceptions + (IF top(u).threw THEN 1 ELSE 0)
      BY <2>2, <2>3, SMTT(30) DEF ThreadInv, Unwinding, InFlight, Evaluating, Opening
    <3>4. CASE Ends(u)
      <4>1. Len(stack'[u]) = depth(u) - 1 /\ top(u).exceptions < uncaught[u]
        BY <2>2, <3>4 DEF Ends, Leaves, Evaluating
      <4>2. top(u).threw
        BY <3>2, <3>3, <4>1, SMTT(30)
      <4> QED BY <2>3, <4>1, <4>2
    <3>5. CASE Pushes(u)
      <4>1. Len(stack'[u]) = depth(u) /\ top(u).exceptions >= uncaught[u]
        BY <2>2, <3>5 DEF Pushes, Tops, Evaluating
      <4>2. ~top(u).threw
        BY <3>2, <3>3, <4>1, SMTT(30)
      <4> QED BY <2>3, <4>1, <4>2
    <3>6. CASE Throws(u)
      <4>1. Len(stack'[u]) = depth(u) /\ stack'[u][depth(u)].phase # "push"
        BY <3>6 DEF Throws, Tops
      <4> QED BY <2>3, <4>1
    <3>7. CASE Begins(u)
      <4>1. Len(stack'[u]) = depth(u) + 1
        BY <3>7 DEF Begins
      <4> QED BY <2>3, <4>1
    <3>8. ~ (Opens(u) \/ Values(u) \/ Accepts(u))
      BY <2>2 DEF Opens, Values, Accepts, Evaluating
    <3> QED BY <3>1, <3>4, <3>5, <3>6, <3>7, <3>8 DEF Effect
  <2> QED BY <2>4, <2>5
<1> QED BY <1>1, InvHolds, PTL DEF Spec

(* A record that reaches the sinks has the channel of its statement, whatever *)
(* other threads log, set, assign and swap meanwhile, if the loggers have the *)
(* channel feature and so lock exclusively in open_record; and it has the     *)
(* level of its statement unless the expression logged.                       *)
THEOREM RecordsTrueToStatements ==
  ASSUME Numbered, "channel" \in Features PROVE Spec => []RecordsTrue
<1> DEFINE Inv == (ThreadInv /\ SharedInv) /\ ChannelInv
<1>1. Init => Inv
  BY InvInit
<1>2. Inv /\ [Next]_vars => Inv'
  BY InvStep
<1>3. Inv => RecordsTrue
  <2> SUFFICES ASSUME ThreadInv, ChannelInv, NEW x \in Statements, Statement(x).phase = "done"
               PROVE  /\ Statement(x).value = Statement(x).channel
                      /\ Statement(x).seen = Statement(x).level \/ Statement(x).nested
    BY DEF RecordsTrue
  <2>1. PICK t \in Threads, i \in 1 .. MaxDepth : x = <<t, i>>
    BY DEF Statements
  <2>2. i <= depth(t) /\ depth(t) \in Nat
    BY <2>1, Innermost DEF Statements, ThreadInv, ThreadTyped
  <2>3. i \in 1 .. depth(t)
    BY <2>2, SMTT(30)
  <2>4. Statement(x) = stack[t][i]
    BY <2>1 DEF Statement
  <2>5. Levelled(t) /\ Valued(t) /\ "done" \notin Opening
    BY DEF ThreadInv, ChannelInv, Opening
  <2> QED BY <2>3, <2>4, <2>5 DEF Levelled, Valued
<1> QED BY <1>1, <1>2, <1>3, PTL DEF Spec
=============================================================================
