------------------------------ MODULE LoggerSources ------------------------------
(***************************************************************************)
(* Loggers with the severity, channel and exception_handler features, and  *)
(* the logging statements that threads execute with them.  A statement     *)
(* opens a record under the logger's lock, evaluates the streaming         *)
(* expression without it, and pushes the record when the record_pump is    *)
(* destroyed.  The expression may throw, and the functions that it calls,  *)
(* or destructors during unwinding, may log themselves.                    *)
(*                                                                         *)
(* A step is what a thread does between two accesses to a logger.  The     *)
(* core accepts a record, rejects it or throws; a disabled core answers    *)
(* the quick test of open_record with an empty record and changes nothing. *)
(***************************************************************************)
EXTENDS Integers, Sequences, FiniteSetsExt

CONSTANTS Threads,
          Logs,             \* loggers of one type: numbers in the order of their addresses
          Features,         \* of "channel" and "exception_handler"; severity is always there
          Channels,
          Requests,         \* severity and channel that statements name
          CoreThrows,       \* of "open" and "push": calls in which the core may throw
          MaxDepth,         \* bound: statements of one thread inside of each other
          MaxCalls          \* bound: calls of each thread

VARIABLES m_Mutex,          \* of each logger: the threads that hold it
          m_Attributes,     \* the attribute a logger has registered as "Channel"
          m_ChannelAttr,    \* its own channel attribute
          m_Value,          \* the channel in each attribute
          m_ExceptionHandler,
          g_Severity,       \* per thread
          stack,            \* the statements each thread executes, the innermost last
          uncaught,         \* uncaught_exceptions() of each thread
          streams,          \* per thread, the depth each compound is attached to, or 0
          m_Top,            \* per thread, the pool of compounds
          call,             \* the swap or the assignment a thread is in
          calls

loggerVars == <<m_Attributes, m_ChannelAttr, m_Value, m_ExceptionHandler>>
streamVars == <<streams, m_Top>>
vars == <<m_Mutex, loggerVars, g_Severity, stack, uncaught, streamVars, call, calls>>

NoCall == [op |-> "none", this |-> 0, that |-> 0]
NoChannel == "unset"
SomeChannel == CHOOSE ch \in Channels : TRUE

(* Each logger has an attribute, and each thread may hold one in a copy. *)
AttributeObjects == 1 .. Cardinality(Logs) + Cardinality(Threads)

Init ==
  /\ m_Mutex = [l \in Logs |-> [writer |-> {}, readers |-> {}]]
  /\ m_ChannelAttr = [l \in Logs |-> l]
  /\ m_Attributes = m_ChannelAttr
  /\ m_Value = [a \in AttributeObjects |-> SomeChannel]
  /\ m_ExceptionHandler = [l \in Logs |-> "none"]
  /\ g_Severity = [t \in Threads |-> 0]
  /\ stack = [t \in Threads |-> <<>>]
  /\ uncaught = [t \in Threads |-> 0]
  /\ streams = [t \in Threads |-> <<>>]
  /\ m_Top = [t \in Threads |-> <<>>]
  /\ call = [t \in Threads |-> NoCall]
  /\ calls = [t \in Threads |-> 0]

-----------------------------------------------------------------------------
(* The logger's mutex: readers together or one writer *)

can_lock(l) == m_Mutex[l].writer = {} /\ m_Mutex[l].readers = {}
can_lock_shared(l) == m_Mutex[l].writer = {}

lock(t, l) == can_lock(l) /\ m_Mutex' = [m_Mutex EXCEPT ![l].writer = {t}]
lock_shared(t, l) == can_lock_shared(l) /\ m_Mutex' = [m_Mutex EXCEPT ![l].readers = @ \cup {t}]

unlock(t, ls) ==
  m_Mutex' = [l \in Logs |->
                IF l \in ls THEN [writer |-> m_Mutex[l].writer \ {t}, readers |-> m_Mutex[l].readers \ {t}]
                ELSE m_Mutex[l]]

(* Faulty variant: the channel feature asks for no more than the others do. *)
open_record_lock_shared(t, l) == lock_shared(t, l)

(* The strictest of the locks that the features ask for. *)
open_record_lock(t, l) == IF "channel" \in Features THEN lock(t, l) ELSE lock_shared(t, l)

-----------------------------------------------------------------------------
(* Statements *)

depth(t) == Len(stack[t])
top(t) == stack[t][depth(t)]
At(t, phase) == stack[t] # <<>> /\ top(t).phase = phase

set_top(t, s) == stack' = [stack EXCEPT ![t][depth(t)] = s]
goto(t, phase) == set_top(t, [top(t) EXCEPT !.phase = phase])

Idle(t) == stack[t] = <<>> /\ call[t] = NoCall
Called(t) == calls[t] < MaxCalls[t] /\ calls' = [calls EXCEPT ![t] = @ + 1]

(* The statements around the innermost one. *)
Outer(statements) == SubSeq(statements, 1, Len(statements) - 1)

(* The statement ends, and the expression around it goes on. *)
leave(t) == stack' = [stack EXCEPT ![t] = Outer(@)] /\ UNCHANGED uncaught

(* The statement ends with an exception, with n others in flight.  It is      *)
(* caught, or it interrupts the streaming expression around, unless this is   *)
(* being unwound already.                                                     *)
raise(t, n) ==
  LET outer == depth(t) - 1
  IN  \/ /\ stack' = [stack EXCEPT ![t] = Outer(@)]
         /\ uncaught' = [uncaught EXCEPT ![t] = n]
      \/ /\ outer > 0 /\ stack[t][outer].phase = "stream"
         /\ stack' = [stack EXCEPT ![t] =
                        [Outer(@) EXCEPT ![outer].phase = "unwind", ![outer].threw = TRUE]]
         /\ uncaught' = [uncaught EXCEPT ![t] = n + 1]

(* A function called by the streaming expression may log, and so may the      *)
(* destructor of an object in it.                                             *)
open_record(t, l, request) ==
  /\ Idle(t) \/ At(t, "stream") \/ At(t, "unwind")
  /\ depth(t) < MaxDepth
  /\ Called(t)
  /\ stack' = [stack EXCEPT ![t] = Append(@,
       [phase |-> "lock", log |-> l, level |-> request.severity, channel |-> request.channel, value |-> NoChannel,
        seen |-> 0, compound |-> 0, exceptions |-> 0, nested |-> FALSE, threw |-> FALSE])]
  /\ UNCHANGED <<m_Mutex, loggerVars, g_Severity, uncaught, streamVars, call>>

lock_logger(t) ==
  /\ At(t, "lock")
  /\ open_record_lock(t, top(t).log)
  /\ goto(t, "open")
  /\ UNCHANGED <<loggerVars, g_Severity, uncaught, streamVars, call, calls>>

(* open_record_unlocked of the features.  The channel stays set afterwards. *)
set_values(t) ==
  LET s == top(t)
      own == m_ChannelAttr[s.log]
  IN  /\ At(t, "open")
      /\ g_Severity' = [g_Severity EXCEPT ![t] = s.level]
      /\ m_Value' = IF s.channel = NoChannel THEN m_Value ELSE [m_Value EXCEPT ![own] = s.channel]
      /\ stack' = [stack EXCEPT ![t] = [i \in DOMAIN @ |->
                     IF i < depth(t) THEN [@[i] EXCEPT !.nested = TRUE]
                     ELSE [s EXCEPT !.phase = "core", !.channel = m_Value'[own]]]]
      /\ UNCHANGED <<m_Mutex, m_Attributes, m_ChannelAttr, m_ExceptionHandler, uncaught, streamVars,
                     call, calls>>

(* allocate_compound, with attach_record. *)
allocate_compound(t, c) ==
  IF m_Top[t] = <<>>
  THEN /\ c = Len(streams[t]) + 1
       /\ streams' = [streams EXCEPT ![t] = Append(@, depth(t))]
       /\ UNCHANGED m_Top
  ELSE /\ c = Head(m_Top[t])
       /\ streams' = [streams EXCEPT ![t][c] = depth(t)]
       /\ m_Top' = [m_Top EXCEPT ![t] = Tail(@)]

release_compound(t, c) ==
  /\ streams' = [streams EXCEPT ![t][c] = 0]
  /\ m_Top' = [m_Top EXCEPT ![t] = <<c>> \o @]

(* core::open_record: the values of the attributes are acquired.  The         *)
(* channel is in its value; the severity remains the one of the thread.       *)
core_accepts(t) ==
  /\ At(t, "core")
  /\ unlock(t, {top(t).log})
  /\ \E c \in 1 .. MaxDepth :
       /\ allocate_compound(t, c)
       /\ set_top(t, [top(t) EXCEPT !.phase = "stream", !.value = m_Value[m_Attributes[top(t).log]],
                                    !.compound = c, !.exceptions = uncaught[t]])
  /\ UNCHANGED <<loggerVars, g_Severity, uncaught, call, calls>>

core_rejects(t) ==
  /\ At(t, "core")
  /\ unlock(t, {top(t).log})
  /\ leave(t)
  /\ UNCHANGED <<loggerVars, g_Severity, streamVars, call, calls>>

core_throws(t) ==
  /\ At(t, "core") /\ "open" \in CoreThrows
  /\ IF "exception_handler" \in Features
     THEN goto(t, "handle_open") /\ UNCHANGED <<m_Mutex, uncaught>>
     ELSE unlock(t, {top(t).log}) /\ raise(t, uncaught[t])
  /\ UNCHANGED <<loggerVars, g_Severity, streamVars, call, calls>>

(* handle_exception takes a shared lock, as no feature asks for a lock in     *)
(* push_record.  In open_record the lock is held already.                     *)
handle_open(t) ==
  LET l == top(t).log
  IN  /\ At(t, "handle_open")
      /\ can_lock_shared(l)
      /\ unlock(t, {l})
      /\ IF m_ExceptionHandler[l] = "none" THEN raise(t, uncaught[t]) ELSE leave(t)
      /\ UNCHANGED <<loggerVars, g_Severity, streamVars, call, calls>>

expression_throws(t) ==
  /\ At(t, "stream")
  /\ set_top(t, [top(t) EXCEPT !.phase = "unwind", !.threw = TRUE])
  /\ uncaught' = [uncaught EXCEPT ![t] = @ + 1]
  /\ UNCHANGED <<m_Mutex, loggerVars, g_Severity, streamVars, call, calls>>

(* Faulty variant: any exception in flight keeps the record from being        *)
(* pushed.                                                                    *)
destroy_pump_unless_unwinding(t) ==
  /\ At(t, "stream") \/ At(t, "unwind")
  /\ IF uncaught[t] = 0
     THEN goto(t, "push") /\ UNCHANGED <<uncaught, streamVars>>
     ELSE /\ release_compound(t, top(t).compound)
          /\ IF top(t).threw THEN raise(t, uncaught[t] - 1) ELSE leave(t)
  /\ UNCHANGED <<m_Mutex, loggerVars, g_Severity, call, calls>>

(* The destructor of record_pump: the record is pushed unless the expression  *)
(* has thrown.                                                                *)
destroy_pump(t) ==
  /\ At(t, "stream") \/ At(t, "unwind")
  /\ IF top(t).exceptions >= uncaught[t]
     THEN goto(t, "push") /\ UNCHANGED <<uncaught, streamVars>>
     ELSE release_compound(t, top(t).compound) /\ raise(t, uncaught[t] - 1)
  /\ UNCHANGED <<m_Mutex, loggerVars, g_Severity, call, calls>>

(* The sinks get the severity that the thread has now, as a copy if they      *)
(* consume the record in another thread (detach_from_thread).                 *)
push_record(t) ==
  /\ At(t, "push")
  /\ set_top(t, [top(t) EXCEPT !.phase = "done", !.seen = g_Severity[t]])
  /\ UNCHANGED <<m_Mutex, loggerVars, g_Severity, uncaught, streamVars, call, calls>>

push_throws(t) ==
  /\ At(t, "push") /\ "push" \in CoreThrows
  /\ IF "exception_handler" \in Features
     THEN goto(t, "handle_push") /\ UNCHANGED <<uncaught, streamVars>>
     ELSE release_compound(t, top(t).compound) /\ raise(t, uncaught[t])
  /\ UNCHANGED <<m_Mutex, loggerVars, g_Severity, call, calls>>

handle_push(t) ==
  /\ At(t, "handle_push")
  /\ can_lock_shared(top(t).log)
  /\ release_compound(t, top(t).compound)
  /\ IF m_ExceptionHandler[top(t).log] = "none" THEN raise(t, uncaught[t]) ELSE leave(t)
  /\ UNCHANGED <<m_Mutex, loggerVars, g_Severity, call, calls>>

(* auto_release. *)
pushed(t) ==
  /\ At(t, "done")
  /\ release_compound(t, top(t).compound)
  /\ leave(t)
  /\ UNCHANGED <<m_Mutex, loggerVars, g_Severity, call, calls>>

-----------------------------------------------------------------------------
(* Other calls: each is one critical section, but for swap and assignment *)

set_channel(t, l, ch) ==
  /\ Idle(t) /\ Called(t) /\ can_lock(l)
  /\ m_Value' = [m_Value EXCEPT ![m_ChannelAttr[l]] = ch]
  /\ UNCHANGED <<m_Mutex, m_Attributes, m_ChannelAttr, m_ExceptionHandler, g_Severity, stack, uncaught,
                 streamVars, call>>

set_exception_handler(t, l, handler) ==
  /\ Idle(t) /\ Called(t) /\ can_lock(l)
  /\ m_ExceptionHandler' = [m_ExceptionHandler EXCEPT ![l] = handler]
  /\ UNCHANGED <<m_Mutex, m_Attributes, m_ChannelAttr, m_Value, g_Severity, stack, uncaught, streamVars,
                 call>>

Swapped(f, l, k) == [f EXCEPT ![l] = f[k], ![k] = f[l]]

(* multiple_unique_lock2 locks the logger with the lower address first. *)
swap_lock(t, l, k) ==
  /\ Idle(t) /\ Called(t)
  /\ lock(t, Min({l, k}))
  /\ call' = [call EXCEPT ![t] = [op |-> "swap", this |-> Min({l, k}), that |-> Max({l, k})]]
  /\ UNCHANGED <<loggerVars, g_Severity, stack, uncaught, streamVars>>

swap(t) ==
  LET l == call[t].this
      k == call[t].that
  IN  /\ call[t].op = "swap" /\ can_lock(k)
      /\ m_Attributes' = Swapped(m_Attributes, l, k)
      /\ m_ChannelAttr' = Swapped(m_ChannelAttr, l, k)
      /\ m_ExceptionHandler' = Swapped(m_ExceptionHandler, l, k)
      /\ unlock(t, {l, k})
      /\ call' = [call EXCEPT ![t] = NoCall]
      /\ UNCHANGED <<m_Value, g_Severity, stack, uncaught, streamVars, calls>>

AttributesInUse ==
  {m_ChannelAttr[l] : l \in Logs} \cup {m_Attributes[l] : l \in Logs}
    \cup UNION {IF call[t].op = "assign" THEN {call[t].attr, call[t].registered} ELSE {} : t \in Threads}

(* assign copies the source under its lock to a temporary logger first, which *)
(* registers a channel attribute of its own.                                  *)
copy(t, l, k) ==
  LET attr == Min(AttributeObjects \ AttributesInUse)
  IN  /\ Idle(t) /\ Called(t) /\ l # k
      /\ can_lock_shared(k)
      /\ m_Value' = [m_Value EXCEPT ![attr] = m_Value[m_ChannelAttr[k]]]
      /\ call' = [call EXCEPT ![t] =
                    [op |-> "assign", this |-> l, attr |-> attr,
                     registered |-> attr,
                     handler |-> m_ExceptionHandler[k]]]
      /\ UNCHANGED <<m_Mutex, m_Attributes, m_ChannelAttr, m_ExceptionHandler, g_Severity, stack,
                     uncaught, streamVars>>

assign(t) ==
  LET l == call[t].this
  IN  /\ call[t].op = "assign" /\ can_lock(l)
      /\ m_Attributes' = [m_Attributes EXCEPT ![l] = call[t].registered]
      /\ m_ChannelAttr' = [m_ChannelAttr EXCEPT ![l] = call[t].attr]
      /\ m_ExceptionHandler' = [m_ExceptionHandler EXCEPT ![l] = call[t].handler]
      /\ call' = [call EXCEPT ![t] = NoCall]
      /\ UNCHANGED <<m_Mutex, m_Value, g_Severity, stack, uncaught, streamVars, calls>>

-----------------------------------------------------------------------------
OpenStep(t) == lock_logger(t) \/ set_values(t) \/ core_accepts(t) \/ core_rejects(t) \/ core_throws(t) \/ handle_open(t)
PushStep(t) == destroy_pump(t) \/ push_record(t) \/ push_throws(t) \/ handle_push(t) \/ pushed(t)
ThreadStep(t) == OpenStep(t) \/ PushStep(t) \/ swap(t) \/ assign(t)

Call(t) ==
  \/ \E l \in Logs, request \in Requests : open_record(t, l, request)
  \/ expression_throws(t)
  \/ \E l \in Logs :
       \/ \E ch \in Channels : set_channel(t, l, ch)
       \/ \E handler \in {"none", "absorbs"} : set_exception_handler(t, l, handler)
       \/ \E k \in Logs \ {l} : swap_lock(t, l, k) \/ copy(t, l, k)

Next == \E t \in Threads : ThreadStep(t) \/ Call(t)

Spec == Init /\ [][Next]_vars

FairSpec == Spec /\ \A t \in Threads : WF_vars(ThreadStep(t))

-----------------------------------------------------------------------------
(* Properties *)

Statements == {x \in Threads \X (1 .. MaxDepth) : x[2] <= depth(x[1])}
Statement(x) == stack[x[1]][x[2]]

(* A record that reaches the sinks has the channel that its statement named,  *)
(* or that its logger had, even when other threads log with the same logger   *)
(* and name other channels.  It has the level of its statement, unless the    *)
(* streaming expression logged, which sets the level of the thread anew.      *)
RecordsTrue ==
  \A x \in Statements :
    LET s == Statement(x)
    IN  s.phase = "done" => s.value = s.channel /\ (s.seen = s.level \/ s.nested)

(* A statement pushes its record if and only if its streaming expression did  *)
(* not throw, also when another exception was in flight before it began.      *)
PushesUnlessThrown ==
  \A t \in Threads :
    At(t, "stream") \/ At(t, "unwind") =>
      /\ Len(stack'[t]) < depth(t) => top(t).threw
      /\ Len(stack'[t]) = depth(t) /\ stack'[t][depth(t)].phase = "push" => ~top(t).threw

(* Statements inside of each other write to different streams, each attached  *)
(* to the record of its statement.  The pool holds the streams not in use.    *)
StreamsApart ==
  \A t \in Threads :
    /\ \A i \in 1 .. depth(t) :
         LET s == stack[t][i] IN s.compound # 0 => streams[t][s.compound] = i
    /\ Range(m_Top[t]) = {c \in DOMAIN streams[t] : streams[t][c] = 0}
    /\ IsInjective(m_Top[t])

(* A logger registers its own channel attribute, which it shares with no      *)
(* other logger, after any copies and swaps.                                  *)
LoggersApart ==
  /\ m_Attributes = m_ChannelAttr
  /\ IsInjective(m_ChannelAttr)

(* A thread in handle_exception does not wait for a lock that it holds: "If   *)
(* other features do require locking, the thread model is already locked by   *)
(* now, and we don't do locking at all".                                      *)
HandlerNotLockedOut ==
  \A t \in Threads : At(t, "handle_open") => t \notin m_Mutex[top(t).log].writer

(* No thread is in a call of a logger. *)
AllReturned == \A t \in Threads : call[t] = NoCall /\ (stack[t] = <<>> \/ At(t, "stream"))
=============================================================================
