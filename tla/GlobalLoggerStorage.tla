-------------------------- MODULE GlobalLoggerStorage --------------------------
(***************************************************************************)
(* Global loggers: sources::aux::logger_singleton and global_storage, over *)
(* the once blocks of lazy_singleton.  Every module of the process (an     *)
(* executable or a shared library) has a once block and an instance for    *)
(* each logger tag it uses; the repository of loggers, itself made in a    *)
(* once block, is common to all of them.                                   *)
(*                                                                         *)
(* A thread keeps a stack of the blocks it has entered: the block of the   *)
(* logger, in it the block of the repository, and, when the initializer of *)
(* a logger asks for another logger, the blocks of that one.               *)
(***************************************************************************)
EXTENDS Naturals, Sequences, FiniteSets, Functions

CONSTANTS GetThreads,   \* threads that ask for loggers
          Loggers,      \* the loggers, as pairs of a module of the process and a tag
          Requested,    \* those of them that the threads ask for
          LoggerType,   \* the type that the module gives each logger
          MaxGets,      \* bound: calls of get by one thread
          MaxThrows,    \* bound: exceptions thrown by initializers
          Nesting       \* the values nested may have

RepoBlock == <<"repository">>
Blocks == Loggers \cup {RepoBlock}

ASSUME LoggersAssumption == Requested \subseteq Loggers /\ RepoBlock \notin Loggers

VARIABLES status, waiters, g_pOnceBlockImpl, impl,   \* the once blocks
          m_Mutex,      \* the thread that holds loggers_repository::m_Mutex, as a set
          m_Loggers,    \* the repository: a set of holders
          instance,     \* logger_singleton: the holder of each logger, as a set
          nested,       \* whether an initializer may ask for another logger
          get_pc, stack, gets, throws

Once == INSTANCE OnceBlock WITH Flags <- Blocks, OnceThreads <- GetThreads

onceVars == <<status, waiters, g_pOnceBlockImpl, impl>>
repoVars == <<m_Mutex, m_Loggers, instance>>
threadVars == <<get_pc, stack, gets, throws>>
getVars == <<onceVars, repoVars, nested, threadVars>>

GetInit ==
  /\ Once!OnceInit
  /\ m_Mutex = {}
  /\ m_Loggers = {}
  /\ instance = [l \in Loggers |-> {}]
  /\ get_pc = [t \in GetThreads |-> "outside"]
  /\ stack = [t \in GetThreads |-> <<>>]
  /\ gets = [t \in GetThreads |-> 0]
  /\ throws = 0
  /\ nested \in Nesting

goto(t, to) == get_pc' = [get_pc EXCEPT ![t] = to]

Block(t) == Head(stack[t])

-----------------------------------------------------------------------------
(* lazy_singleton::get: the loop of BOOST_LOG_ONCE_BLOCK *)

(* A block is left, by the end of the loop or by an exception: the thread is *)
(* back in the block around it, or outside.                                  *)
leave(t, around) ==
  /\ stack' = [stack EXCEPT ![t] = Tail(@)]
  /\ goto(t, IF Len(stack[t]) = 1 THEN "outside" ELSE around)

(* The control point a thread has in the block around the one it leaves. *)
After(b) == IF b = RepoBlock THEN "lock_repository" ELSE "construct"

get(t, l) ==
  /\ get_pc[t] = "outside"
  /\ gets[t] < MaxGets
  /\ gets' = [gets EXCEPT ![t] = @ + 1]
  /\ stack' = [stack EXCEPT ![t] = <<l>>]
  /\ goto(t, "executed")
  /\ UNCHANGED <<onceVars, repoVars, throws, nested>>

(* once_block_sentry::executed: the status is read without the mutex. *)
executed(t) ==
  /\ get_pc[t] = "executed"
  /\ IF status[Block(t)] = "initialized"
       THEN leave(t, After(Block(t)))
       ELSE goto(t, "load_impl") /\ UNCHANGED stack
  /\ UNCHANGED <<onceVars, repoVars, gets, throws, nested>>

get_once_block_impl(t) ==
  /\ \/ get_pc[t] = "load_impl" /\ Once!load_impl(t) /\ goto(t, "enter")
     \/ get_pc[t] = "load_impl" /\ g_pOnceBlockImpl = {} /\ goto(t, "install_impl") /\ UNCHANGED onceVars
     \/ get_pc[t] = "install_impl" /\ Once!install_impl(t) /\ goto(t, "enter")
  /\ UNCHANGED <<repoVars, stack, gets, throws, nested>>

enter_once_block(t) ==
  /\ get_pc[t] = "enter"
  /\ \/ Once!enter_executed(t, Block(t)) /\ leave(t, After(Block(t)))
     \/ Once!enter_to_execute(t, Block(t)) /\ goto(t, "body") /\ UNCHANGED stack
     \/ Once!enter_sleeps(t, Block(t)) /\ UNCHANGED <<get_pc, stack>>
  /\ UNCHANGED <<repoVars, gets, throws, nested>>

commit_block(t) ==
  /\ get_pc[t] = "commit"
  /\ Once!commit(Block(t))
  /\ goto(t, "commit_wakes")
  /\ UNCHANGED <<repoVars, stack, gets, throws, nested>>

rollback_block(t) ==
  /\ get_pc[t] = "rollback"
  /\ Once!rollback(Block(t))
  /\ goto(t, "rollback_wakes")
  /\ UNCHANGED <<repoVars, stack, gets, throws, nested>>

(* The broadcast; then the loop looks at the status again, or the exception  *)
(* goes on, through the initializer of the logger around it if there is one. *)
wake(t) ==
  /\ \/ get_pc[t] = "commit_wakes" /\ goto(t, "executed") /\ UNCHANGED stack
     \/ get_pc[t] = "rollback_wakes" /\ leave(t, "construct_throws")
  /\ Once!wake_all
  /\ UNCHANGED <<repoVars, gets, throws, nested>>

-----------------------------------------------------------------------------
(* What the blocks do: init_instance of the repository and of a logger *)

body(t) ==
  /\ get_pc[t] = "body"
  /\ IF Block(t) = RepoBlock
       THEN goto(t, "commit") /\ UNCHANGED stack
       ELSE goto(t, "executed") /\ stack' = [stack EXCEPT ![t] = <<RepoBlock>> \o @]
  /\ UNCHANGED <<onceVars, repoVars, gets, throws, nested>>

Holder(l) == [tag |-> l[2], m_LoggerType |-> LoggerType[l], by |-> l[1]]

Registered(l) == {h \in m_Loggers : h.tag = l[2]}

(* global_storage::get_or_init, up to the call of the initializer. *)
lock_repository(t) ==
  /\ get_pc[t] = "lock_repository"
  /\ m_Mutex = {}
  /\ IF Registered(Block(t)) # {}
       THEN goto(t, "check_type") /\ UNCHANGED m_Mutex
       ELSE goto(t, "construct") /\ m_Mutex' = {t}
  /\ UNCHANGED <<onceVars, m_Loggers, instance, stack, gets, throws, nested>>

(* The initializer returns a logger, which is registered. *)
construct_logger(t) ==
  /\ get_pc[t] = "construct"
  /\ m_Loggers' = m_Loggers \cup {Holder(Block(t))}
  /\ m_Mutex' = m_Mutex \ {t}
  /\ goto(t, "check_type")
  /\ UNCHANGED <<onceVars, instance, stack, gets, throws, nested>>

construct_throws(t) ==
  /\ \/ get_pc[t] = "construct" /\ throws < MaxThrows /\ throws' = throws + 1
     \/ get_pc[t] = "construct_throws" /\ UNCHANGED throws
  /\ m_Mutex' = m_Mutex \ {t}
  /\ goto(t, "rollback")
  /\ UNCHANGED <<onceVars, m_Loggers, instance, stack, gets, nested>>

(* The initializer asks for a logger with another tag. *)
construct_gets_another(t, l) ==
  /\ nested
  /\ get_pc[t] = "construct"
  /\ Len(stack[t]) = 1 /\ l[1] = Block(t)[1] /\ l[2] # Block(t)[2]
  /\ stack' = [stack EXCEPT ![t] = <<l>> \o @]
  /\ goto(t, "executed")
  /\ UNCHANGED <<onceVars, repoVars, gets, throws, nested>>

(* logger_singleton::init_instance after get_or_init: odr_violation is thrown *)
(* when the registered logger has another type.                               *)
check_type(t) ==
  /\ get_pc[t] = "check_type"
  /\ \E h \in Registered(Block(t)) :
       IF h.m_LoggerType = LoggerType[Block(t)]
         THEN goto(t, "commit") /\ instance' = [instance EXCEPT ![Block(t)] = {h}]
         ELSE goto(t, "rollback") /\ UNCHANGED instance
  /\ UNCHANGED <<onceVars, m_Mutex, m_Loggers, stack, gets, throws, nested>>

GetStep(t) ==
  \/ executed(t) \/ get_once_block_impl(t) \/ enter_once_block(t)
  \/ commit_block(t) \/ rollback_block(t) \/ wake(t)
  \/ body(t) \/ lock_repository(t) \/ construct_logger(t) \/ construct_throws(t) \/ check_type(t)
  \/ \E l \in Loggers : construct_gets_another(t, l)

GetNext == \E t \in GetThreads : GetStep(t) \/ \E l \in Requested : get(t, l)

GetSpec == GetInit /\ [][GetNext]_getVars

(* Threads that can run do run: initializers return. *)
GetFairness == \A t \in GetThreads : WF_getVars(GetStep(t))

GetFairSpec == GetSpec /\ GetFairness

-----------------------------------------------------------------------------
(* What global loggers and once blocks promise *)

GetTypeOK ==
  /\ status \in [Blocks -> {"uninitialized", "being_initialized", "initialized"}]
  /\ waiters \subseteq GetThreads /\ m_Mutex \subseteq GetThreads
  /\ \A l \in Loggers : instance[l] \subseteq m_Loggers
  /\ nested \in Nesting
  /\ \A t \in GetThreads : stack[t] \in Seq(Blocks)

(* A thread that executes block b, from taking it to commit or rollback. *)
Executes(t, b) ==
  /\ b \in Range(stack[t])
  /\ b = Block(t) => get_pc[t] \in {"body", "lock_repository", "construct", "construct_throws",
                                "check_type", "commit", "rollback"}

(* One thread at a time executes a block, nobody executes a committed one,   *)
(* and a block that is marked as being executed has a thread to finish it.   *)
BlockExclusive ==
  \A b \in Blocks :
    LET executing == {t \in GetThreads : Executes(t, b)}
    IN  Cardinality(executing) = IF status[b] = "being_initialized" THEN 1 ELSE 0

(* Once a block is committed its logger can be used, and it is the same      *)
(* logger in every module of the process that agrees on its type: the        *)
(* repository never has two loggers of one tag, even if an initializer threw *)
(* in between or two modules initialize the tag at once.                     *)
OnePerTag ==
  /\ \A l \in Loggers : status[l] = "initialized" => instance[l] # {}
  /\ \A h, k \in m_Loggers : h.tag = k.tag => h = k

(* The threads synchronize on one mutex and one condition variable. *)
OneImpl ==
  \A t \in GetThreads :
    get_pc[t] \in {"enter", "body", "commit", "commit_wakes", "rollback", "rollback_wakes"}
      => impl[t] = g_pOnceBlockImpl

(* No wake-up is lost between the unlocking and the broadcast: a thread that *)
(* sleeps waits for a block that is being executed, or a broadcast follows.  *)
SleeperWoken ==
  \A t \in waiters :
    \/ status[Block(t)] = "being_initialized"
    \/ \E u \in GetThreads : get_pc[u] \in {"commit_wakes", "rollback_wakes"}

(* Global loggers: the threads agree on one mutex for the once blocks, one   *)
(* thread at a time executes a block, none sleeps through the end of one,    *)
(* and a tag has one logger in the process.                                  *)
OneLogger == OneImpl /\ BlockExclusive /\ SleeperWoken /\ OnePerTag

(* An initializer, which runs with the mutex of the repository held, has asked *)
(* for another logger that is not registered yet: the thread waits for itself. *)
WaitsForItself == \E t \in GetThreads : get_pc[t] = "lock_repository" /\ t \in m_Mutex

(* No request for a logger is under way.  The one way to hang is an initializer *)
(* that waits for itself: the mutex is not recursive, and get_or_init calls the *)
(* initializer while it holds it.                                               *)
GetsReturned == WaitsForItself \/ \A t \in GetThreads : get_pc[t] = "outside"
=============================================================================
