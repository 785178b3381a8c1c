--------------------------- MODULE FormattingFrontend ---------------------------
(***************************************************************************)
(* basic_formatting_sink_frontend: threads format records with a context   *)
(* of their own, a copy of the formatter and the locale that is renewed    *)
(* when its version is not the one of the sink, and pass the text to the   *)
(* backend; meanwhile the formatter and the locale are replaced.           *)
(*                                                                         *)
(* A step is the load of the version, a critical section of the frontend   *)
(* mutex, the formatting of a record, which only uses the context of its   *)
(* thread, or the call of the backend.  try_feed_record holds the backend  *)
(* mutex from the start, feed_record for the call of the backend only.     *)
(***************************************************************************)
EXTENDS FormattingStream

CONSTANTS Threads,
          Formatters,       \* formatters the application may set
          Locales,
          VersionCount,     \* values of m_Version: 2^32 in the code
          MaxRecords,       \* bound: records of one thread
          MaxChanges        \* bound: calls of set_formatter, reset_formatter and imbue

VARIABLES m_Version, m_Formatter, m_Locale,
          backend_mutex,    \* the thread that holds it, as a set
          m_pContext,       \* the formatting_context of each thread, as a set
          pc, sent, changes,
          seen,             \* history: the settings in force since the call of each thread
          delivered         \* history: what the backend has got

settings == <<m_Version, m_Formatter, m_Locale>>
vars == <<settings, backend_mutex, m_pContext, pc, sent, changes, seen, delivered>>

(* The formatter after reset_formatter prints the message of the record. *)
DefaultFormatter == <<[op |-> "field", units |-> <<"message">>, width |-> 0, left |-> FALSE]>>

Init ==
  /\ m_Version = 0
  /\ m_Formatter = DefaultFormatter
  /\ m_Locale \in Locales
  /\ backend_mutex = {}
  /\ m_pContext = [t \in Threads |-> {}]
  /\ pc = [t \in Threads |-> "idle"]
  /\ sent = [t \in Threads |-> 0]
  /\ changes = 0
  /\ seen = [t \in Threads |-> {}]
  /\ delivered = {}

step(t, from, to) ==
  /\ pc[t] = from
  /\ pc' = [pc EXCEPT ![t] = to]

(* The record thread t is feeding, printed with locale l. *)
Call(t, l) == [thread |-> t, number |-> sent[t], locale |-> l]

Current == [formatter |-> m_Formatter, locale |-> m_Locale]

-----------------------------------------------------------------------------
(* Feeding a record *)

begin_call(t) ==
  /\ sent[t] < MaxRecords
  /\ step(t, "idle", "check")
  /\ sent' = [sent EXCEPT ![t] = @ + 1]
  /\ seen' = [seen EXCEPT ![t] = {Current}]
  /\ UNCHANGED <<settings, m_pContext, changes, delivered>>

feed_record(t) == begin_call(t) /\ UNCHANGED backend_mutex

(* With the mutex locked, try_feed_record returns and leaves all as it is. *)
try_feed_record(t) ==
  /\ backend_mutex = {}
  /\ backend_mutex' = {t}
  /\ begin_call(t)

(* The version is loaded without a lock. *)
check_version(t) ==
  /\ \/ step(t, "check", "format") /\ \E c \in m_pContext[t] : c.version = m_Version
     \/ step(t, "check", "renew") /\ \A c \in m_pContext[t] : c.version # m_Version
  /\ UNCHANGED <<settings, backend_mutex, m_pContext, sent, changes, seen, delivered>>

renew_context(t) ==
  /\ step(t, "renew", "format")
  /\ m_pContext' = [m_pContext EXCEPT ![t] =
       {[version |-> m_Version, settings |-> Current, stream |-> EmptyStream]}]
  /\ UNCHANGED <<settings, backend_mutex, sent, changes, seen, delivered>>

format_record(t) ==
  \E c \in m_pContext[t] :
    LET r == format(c.stream, c.settings.formatter, Call(t, c.settings.locale))
        flushed == IF r.threw THEN r.stream ELSE sync(r.stream)
    IN  /\ step(t, "format", IF r.threw THEN "catch" ELSE "consume")
        /\ m_pContext' = [m_pContext EXCEPT ![t] = {[c EXCEPT !.stream = flushed]}]
        /\ UNCHANGED <<settings, backend_mutex, sent, changes, seen, delivered>>

(* cleanup_guard: the put area stays as it is. *)
cleanup(b) ==
  [b EXCEPT !.storage = <<>>, !.max_size = StorageMax, !.overflow = FALSE, !.bad = FALSE]

return(t, from) ==
  /\ step(t, from, "idle")
  /\ m_pContext' = [m_pContext EXCEPT ![t] = {[c EXCEPT !.stream = cleanup(@)] : c \in @}]
  /\ backend_mutex' = backend_mutex \ {t}
  /\ seen' = [seen EXCEPT ![t] = {}]
  /\ UNCHANGED <<settings, sent, changes>>

consume(t) ==
  /\ backend_mutex \subseteq {t}
  /\ delivered' = delivered \cup
       {[thread |-> t, number |-> sent[t], text |-> c.stream.storage, seen |-> seen[t]] :
          c \in m_pContext[t]}
  /\ return(t, "consume")

consume_throws(t) ==
  /\ backend_mutex \subseteq {t}
  /\ step(t, "consume", "catch")
  /\ UNCHANGED <<settings, backend_mutex, m_pContext, sent, changes, seen, delivered>>

(* The exception goes to the handler of the sink or to the caller. *)
catch(t) == return(t, "catch") /\ UNCHANGED delivered

-----------------------------------------------------------------------------
(* Changing the settings *)

(* A thread that has not renewed its context yet may meet the new settings.   *)
change ==
  /\ changes < MaxChanges
  /\ changes' = changes + 1
  /\ seen' = [t \in Threads |->
       IF pc[t] \in {"check", "renew"} THEN seen[t] \cup {Current'} ELSE seen[t]]
  /\ UNCHANGED <<backend_mutex, m_pContext, pc, sent, delivered>>

next_version == m_Version' = (m_Version + 1) % VersionCount

set_formatter(f) == m_Formatter' = f /\ UNCHANGED m_Locale /\ next_version /\ change

reset_formatter ==
  m_Formatter' = DefaultFormatter /\ UNCHANGED m_Locale /\ next_version /\ change

(* Faulty variant: the contexts of the threads are not renewed. *)
imbue_unnoticed(l) == m_Locale' = l /\ UNCHANGED <<m_Formatter, m_Version>> /\ change

imbue(l) == m_Locale' = l /\ UNCHANGED m_Formatter /\ next_version /\ change

-----------------------------------------------------------------------------
ThreadStep(t) ==
  \/ check_version(t) \/ renew_context(t) \/ format_record(t)
  \/ consume(t) \/ consume_throws(t) \/ catch(t)

Next ==
  \/ \E t \in Threads : feed_record(t) \/ try_feed_record(t) \/ ThreadStep(t)
  \/ \E f \in Formatters : set_formatter(f)
  \/ reset_formatter
  \/ \E l \in Locales : imbue(l)

Spec == Init /\ [][Next]_vars

-----------------------------------------------------------------------------
(* Properties *)

TypeOK ==
  /\ m_Version \in 0 .. VersionCount - 1
  /\ m_Locale \in Locales
  /\ backend_mutex \subseteq Threads
  /\ \A t \in Threads : \A c, d \in m_pContext[t] : c = d /\ Len(c.stream.area) <= BufferSize
  /\ pc \in [Threads -> {"idle", "check", "renew", "format", "consume", "catch"}]

TextOf(d, setting) ==
  Text(setting.formatter, [thread |-> d.thread, number |-> d.number, locale |-> setting.locale])

(* The text the backend gets ends with that of its record, complete and within *)
(* the limits of its decorators, composed with a formatter and a locale that   *)
(* were in force together at some time during the call.                        *)
FormattedAsConfigured ==
  \A d \in delivered : \E setting \in d.seen : IsSuffix(TextOf(d, setting), d.text)

(* "This is the result of formatting": the text the backend gets is that of    *)
(* its record and nothing else.                                                *)
FormattedAlone ==
  \A d \in delivered : \E setting \in d.seen : d.text = TextOf(d, setting)
=============================================================================
