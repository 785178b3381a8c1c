------------------------------ MODULE MCFrontends ------------------------------
(***************************************************************************)
(* Instances for TLC of the path of a record, of which a behaviour runs    *)
(* the one chosen at the start (part).  Loggers and scopes:                *)
(*   handlers   two threads with two loggers that have every feature,      *)
(*              where sinks may throw;                                     *)
(*   nested     one thread with two loggers without exception handlers,    *)
(*              where filters may throw too, and statements three deep;    *)
(*   scopes     the stack of named scopes of a thread, with three copies.  *)
(* The core:                                                               *)
(*   core       LoggingCore as this module extends it: two logging threads *)
(*              and an administrator, with a sink that may throw and one   *)
(*              without a lock.                                            *)
(* The asynchronous frontend, whose properties hold in each of its parts:  *)
(*   dedicated  AsyncSink as this module extends it: two threads log       *)
(*              records and one flushes; the sink has a dedicated feeding  *)
(*              thread and blocks on overflow;                             *)
(*   stopped    the same with one thread that logs, one that flushes and   *)
(*              one that stops the sink;                                   *)
(*   user_fed   one thread each logs, flushes and stops, and two user      *)
(*              threads feed records to a backend that may throw; the sink *)
(*              drops records on overflow.                                 *)
(***************************************************************************)
EXTENDS AsyncSink, LoggingCore, TLC

CONSTANTS Parts, l1, l2, a1, d, f1, s1, u1, u2, sync, unlocked,
          CoreThrows   \* where the core may throw in handlers

VARIABLES part,
          log_mutex, m_Attributes, m_ChannelAttr, m_Value, log_handler, g_Severity, stack, uncaught,
          streams, m_Top, log_call, log_calls,
          prev, next, name, m_Size, m_fNeedToDeallocate, copies, block, contents

(* The logging threads of the core and of dedicated are alike, and so are the *)
(* user threads that feed records.                                            *)
Alike == Permutations({l1, l2}) \cup Permutations({u1, u2})

Stopped == INSTANCE AsyncSink
  WITH Producers <- {l1}, Stoppers <- {s1}

UserFed == INSTANCE AsyncSink
  WITH Dedicated <- {}, Producers <- {l1}, Stoppers <- {s1}, Feeders <- {u1, u2},
       OverflowStrategy <- "drop", BackendThrows <- TRUE

Requests == {[severity |-> 0, channel |-> "unset"], [severity |-> 1, channel |-> "y"]}

HandlerLog == INSTANCE LoggerSources
  WITH Threads <- {a1, f1}, Logs <- {1, 2}, Features <- {"channel", "exception_handler"},
       Channels <- {"x", "y"}, MaxDepth <- 2,
       MaxCalls <- [t \in {a1, f1} |-> IF t = a1 THEN 2 ELSE 1],
       m_Mutex <- log_mutex, m_ExceptionHandler <- log_handler, call <- log_call, calls <- log_calls

NestedLog == INSTANCE LoggerSources
  WITH Threads <- {a1}, Logs <- {1, 2}, Features <- {"channel"},
       Channels <- {"x", "y"}, CoreThrows <- {"open", "push"}, MaxDepth <- 3, MaxCalls <- [t \in {a1} |-> 4],
       m_Mutex <- log_mutex, m_ExceptionHandler <- log_handler, call <- log_call, calls <- log_calls

Scopes == INSTANCE NamedScopes
  WITH Names <- {"f", "g"}, Copies <- {"u", "v", "w"}, Blocks <- {"b1", "b2", "b3"}, MaxDepth <- 2,
       existing <- copies

sourceVars == <<log_mutex, m_Attributes, m_ChannelAttr, m_Value, log_handler, g_Severity, stack,
                uncaught, streams, m_Top, log_call, log_calls>>
scopeVars == <<prev, next, name, m_Size, m_fNeedToDeallocate, copies, block, contents>>
allVars == <<part, vars, loggingVars, sourceVars, scopeVars>>

PartInit ==
  /\ part \in Parts
  /\ CASE part = "stopped" -> Stopped!Init
       [] part = "user_fed" -> UserFed!Init
       [] OTHER -> Init
  /\ CoreInit /\ m_sinks = <<sync, unlocked>> /\ (part # "core" => m_exception_handler = "none")
  /\ Scopes!Init
  /\ IF part = "nested" THEN NestedLog!Init ELSE HandlerLog!Init

InAsync(p, A) == part = p /\ A /\ UNCHANGED <<part, loggingVars, sourceVars, scopeVars>>
InCore(A) == part = "core" /\ A /\ UNCHANGED <<part, vars, sourceVars, scopeVars>>
InLoggers(p, A) == part = p /\ A /\ UNCHANGED <<part, vars, loggingVars, scopeVars>>
InScopes(A) == part = "scopes" /\ A /\ UNCHANGED <<part, vars, loggingVars, sourceVars>>

PartNext ==
  \/ InAsync("dedicated", Next)
  \/ InAsync("stopped", Stopped!Next)
  \/ InAsync("user_fed", UserFed!Next)
  \/ InCore(CoreNext)
  \/ InLoggers("handlers", HandlerLog!Next)
  \/ InLoggers("nested", NestedLog!Next)
  \/ InScopes(Scopes!Next)

PartSpec == PartInit /\ [][PartNext]_allVars

-----------------------------------------------------------------------------
(* The properties of the parts *)

(* A flush that the caller carries out itself leaves no record behind that was *)
(* queued when it was called (with neither a stop nor an exception).           *)
FlushByCallerDrains == [][part = "dedicated" => CallerDrains]_vars

(* Loggers: a record has the channel of its statement, also while another     *)
(* thread names another one, and its level; no two statements share a stream, *)
(* and no two loggers a channel attribute.  Left out is the level of a        *)
(* statement that logged inside its own expression: the inner statement sets  *)
(* the level of the thread, which the outer record reads when a sink asks for *)
(* it, and nothing promises what it finds.                                    *)
RecordsTrue ==
  /\ part = "handlers" =>
       HandlerLog!RecordsTrue /\ HandlerLog!StreamsApart /\ HandlerLog!LoggersApart
  /\ part = "nested" =>
       NestedLog!RecordsTrue /\ NestedLog!StreamsApart /\ NestedLog!LoggersApart

(* Loggers: a record is pushed if and only if its expression did not throw. *)
PushedUnlessThrown ==
  [][/\ part = "handlers" => HandlerLog!PushesUnlessThrown
     /\ part = "nested" => NestedLog!PushesUnlessThrown]_allVars

(* Loggers: handle_exception does not wait for its own thread. *)
HandlerNotLockedOut == part = "handlers" => HandlerLog!HandlerNotLockedOut

(* Lists of named scopes hold what they should, and free what they own. *)
ScopesMatch == part = "scopes" => Scopes!ScopesMatch
=============================================================================
