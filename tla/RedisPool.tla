-------------------------------- MODULE RedisPool --------------------------------
(* The Redis connection pool and the commands of RedisMgr, the same code in the      *)
(* ChatServer, the GateServer and the StatusServer (Incr and Decr exist only in the  *)
(* ChatServer).  Every command borrows a connection, sends one command on it and     *)
(* gives it back, but each writes that out for itself: what Incr and Decr do when    *)
(* there is no reply, or an error reply, differs from the others.                    *)
EXTENDS Naturals, FiniteSets

CONSTANTS Threads,    \* threads that call RedisMgr
          Conns,      \* the connections the constructor tries to make (poolSize)
          NoConn,     \* nullptr
          MaxCalls    \* bound: commands called in a behaviour

ASSUME ThreadsAssumption == IsFiniteSet(Threads)
ASSUME ConnsAssumption == IsFiniteSet(Conns) /\ NoConn \notin Conns
ASSUME CallsAssumption == MaxCalls \in Nat

VARIABLES created,       \* the connections the constructor did make
          connections,   \* _connections
          held,          \* the connection each thread has borrowed
          tpc,           \* where each thread is
          kind,          \* the command each thread runs
          b_stop,        \* _b_stop
          cpc,           \* where Close is
          broken,        \* contexts with err set: every command on them returns null
          crashed,       \* the process has aborted on a double free
          calls          \* commands called

pool == <<connections, held, tpc, kind>>
vars == <<created, connections, held, tpc, kind, b_stop, cpc, broken, crashed, calls>>

Kinds == {"query", "incr", "decr"}    \* query: Get, Set, Del and ExistsKey
ThreadPCs == {"idle", "get", "get_block", "get_wait", "command", "return"}

(* The constructor: a connection that cannot be made is left out.                    *)
Init ==
  /\ created \in SUBSET Conns
  /\ connections = created
  /\ held = [t \in Threads |-> NoConn]
  /\ tpc = [t \in Threads |-> "idle"]
  /\ kind = [t \in Threads |-> "query"]
  /\ b_stop = FALSE
  /\ cpc = "open"
  /\ broken = {}
  /\ crashed = FALSE
  /\ calls = 0

(* wait(lock, predicate) keeps the mutex from a test that fails to the wait.         *)
MutexFree == \A t \in Threads : tpc[t] # "get_block"

Call(t, k) ==
  /\ ~crashed /\ tpc[t] = "idle" /\ calls < MaxCalls
  /\ tpc' = [tpc EXCEPT ![t] = "get"]
  /\ kind' = [kind EXCEPT ![t] = k]
  /\ calls' = calls + 1
  /\ UNCHANGED <<created, connections, held, b_stop, cpc, broken, crashed>>

--------------------------------------------------------------------------------
(* getConnection.                                                                    *)

(* Stopped: nullptr, and the command answers false; else a connection.               *)
Get(t) ==
  /\ ~crashed /\ tpc[t] = "get" /\ MutexFree
  /\ \/ /\ b_stop
        /\ tpc' = [tpc EXCEPT ![t] = "idle"]
        /\ UNCHANGED <<connections, held>>
     \/ /\ ~b_stop
        /\ \E c \in connections : /\ connections' = connections \ {c}
                                  /\ held' = [held EXCEPT ![t] = c]
        /\ tpc' = [tpc EXCEPT ![t] = "command"]
  /\ UNCHANGED <<created, kind, b_stop, cpc, broken, crashed, calls>>

GetMustWait(t) ==
  /\ ~crashed /\ tpc[t] = "get" /\ MutexFree
  /\ ~b_stop /\ connections = {}
  /\ tpc' = [tpc EXCEPT ![t] = "get_block"]
  /\ UNCHANGED <<created, connections, held, kind, b_stop, cpc, broken, crashed, calls>>

Block(t) ==
  /\ ~crashed /\ tpc[t] = "get_block"
  /\ tpc' = [tpc EXCEPT ![t] = "get_wait"]
  /\ UNCHANGED <<created, connections, held, kind, b_stop, cpc, broken, crashed, calls>>

SpuriousWakeup(t) ==
  /\ ~crashed /\ tpc[t] = "get_wait"
  /\ tpc' = [tpc EXCEPT ![t] = "get"]
  /\ UNCHANGED <<created, connections, held, kind, b_stop, cpc, broken, crashed, calls>>

--------------------------------------------------------------------------------
(* redisCommand.                                                                     *)

Reply(t) ==
  /\ ~crashed /\ tpc[t] = "command" /\ held[t] \notin broken
  /\ tpc' = [tpc EXCEPT ![t] = "return"]
  /\ UNCHANGED <<created, connections, held, kind, b_stop, cpc, broken, crashed, calls>>

(* Redis answers with an error.  Incr and Decr free the reply and return, and their  *)
(* Defer frees it again: the allocator aborts the process, or does not notice (Reply). *)
ErrorReply(t) ==
  /\ ~crashed /\ tpc[t] = "command" /\ held[t] \notin broken
  /\ kind[t] \in {"incr", "decr"}
  /\ crashed' = TRUE
  /\ UNCHANGED <<created, pool, b_stop, cpc, broken, calls>>

(* Mutant of NoReply: Incr and the queries forget the connection as Decr does.       *)
NoReplyForgets(t) ==
  /\ ~crashed /\ tpc[t] = "command"
  /\ held' = [held EXCEPT ![t] = NoConn]
  /\ tpc' = [tpc EXCEPT ![t] = "idle"]
  /\ UNCHANGED <<created, connections, kind, b_stop, cpc, broken, crashed, calls>>

(* No reply: the command gives the connection back and answers false; Decr returns   *)
(* before it has set up the Defer, and the connection is destroyed.                  *)
NoReply(t) ==
  /\ ~crashed /\ tpc[t] = "command" /\ held[t] \in broken
  /\ \/ /\ kind[t] # "decr"
        /\ tpc' = [tpc EXCEPT ![t] = "return"]
        /\ held' = held
     \/ /\ kind[t] = "decr"
        /\ tpc' = [tpc EXCEPT ![t] = "idle"]
        /\ held' = [held EXCEPT ![t] = NoConn]
  /\ UNCHANGED <<created, connections, kind, b_stop, cpc, broken, crashed, calls>>

--------------------------------------------------------------------------------
(* returnConnection.                                                                 *)

(* Mutant of Return: no notify_one.                                                  *)
ReturnSilent(t) ==
  /\ ~crashed /\ tpc[t] = "return" /\ MutexFree
  /\ held' = [held EXCEPT ![t] = NoConn]
  /\ connections' = IF b_stop THEN connections ELSE connections \cup {held[t]}
  /\ tpc' = [tpc EXCEPT ![t] = "idle"]
  /\ UNCHANGED <<created, kind, b_stop, cpc, broken, crashed, calls>>

(* The connection is dropped if stopped, else pushed, broken or not, and one waiting  *)
(* thread is notified.                                                               *)
Return(t) ==
  /\ ~crashed /\ tpc[t] = "return" /\ MutexFree
  /\ held' = [held EXCEPT ![t] = NoConn]
  /\ \/ /\ b_stop
        /\ connections' = connections
        /\ tpc' = [tpc EXCEPT ![t] = "idle"]
     \/ /\ ~b_stop
        /\ connections' = connections \cup {held[t]}
        /\ \/ (\A w \in Threads : tpc[w] # "get_wait") /\ tpc' = [tpc EXCEPT ![t] = "idle"]
           \/ \E w \in Threads : /\ tpc[w] = "get_wait"
                                 /\ tpc' = [tpc EXCEPT ![t] = "idle", ![w] = "get"]
  /\ UNCHANGED <<created, kind, b_stop, cpc, broken, crashed, calls>>

--------------------------------------------------------------------------------
(* Close, called by the destructors of RedisMgr and of the pool.                     *)

CloseStop ==
  /\ ~crashed /\ cpc = "open"
  /\ b_stop' = TRUE
  /\ cpc' = "notify"
  /\ UNCHANGED <<created, pool, broken, crashed, calls>>

CloseNotify ==
  /\ ~crashed /\ cpc = "notify"
  /\ tpc' = [t \in Threads |-> IF tpc[t] = "get_wait" THEN "get" ELSE tpc[t]]
  /\ cpc' = "closed"
  /\ UNCHANGED <<created, connections, held, kind, b_stop, broken, crashed, calls>>

(* The connection to Redis is lost; hiredis does not open it again.                  *)
RedisDrops(c) ==
  /\ ~crashed /\ c \in created \ broken
  /\ broken' = broken \cup {c}
  /\ UNCHANGED <<created, pool, b_stop, cpc, crashed, calls>>

--------------------------------------------------------------------------------
Command(t) == \/ Get(t) \/ GetMustWait(t) \/ Block(t)
              \/ Reply(t) \/ NoReply(t) \/ Return(t)

Next == \/ \E t \in Threads : \/ \E k \in Kinds : Call(t, k)
                              \/ Command(t) \/ ErrorReply(t) \/ SpuriousWakeup(t)
        \/ CloseStop \/ CloseNotify
        \/ \E c \in Conns : RedisDrops(c)

Spec == Init /\ [][Next]_vars

--------------------------------------------------------------------------------
(* The connections lent; those lost, while the pool is running; who is in getConnection. *)
Lent == {held[t] : t \in {u \in Threads : held[u] # NoConn}}
Lost == created \ (connections \cup Lent)
Getting == {t \in Threads : tpc[t] = "get"}

TypeOK ==
  /\ created \subseteq Conns
  /\ connections \subseteq created
  /\ held \in [Threads -> created \cup {NoConn}]
  /\ tpc \in [Threads -> ThreadPCs]
  /\ kind \in [Threads -> Kinds]
  /\ b_stop \in BOOLEAN
  /\ cpc \in {"open", "notify", "closed"}
  /\ broken \subseteq created
  /\ crashed \in BOOLEAN
  /\ calls \in 0..MaxCalls

(* No connection is used by two commands at once, which would mix their replies.      *)
NoSharing ==
  /\ \A t, u \in Threads : t # u /\ held[t] # NoConn => held[t] # held[u]
  /\ \A t \in Threads : held[t] \notin connections

(* However the commands fail, a running pool loses no connection that still works:    *)
(* Decr's leak takes broken ones only.                                               *)
OnlyBrokenLost == ~b_stop => Lost \subseteq broken

(* No lost wake-up: while a thread sleeps there are at least as many awake in         *)
(* getConnection as there are connections to take.                                   *)
WakeupsCover ==
  (~b_stop /\ \E t \in Threads : tpc[t] \in {"get_block", "get_wait"})
    => Cardinality(connections) <= Cardinality(Getting)

(* Where a thread is tells whether it holds a connection; a thread between its test   *)
(* and its wait has seen an empty pool and nobody can have filled it since.           *)
HoldsInv == \A t \in Threads : held[t] # NoConn <=> tpc[t] \in {"command", "return"}
BlockInv == ~b_stop => \A t \in Threads : tpc[t] = "get_block" => connections = {}

IInv == /\ TypeOK /\ NoSharing /\ OnlyBrokenLost /\ WakeupsCover /\ HoldsInv /\ BlockInv
        /\ cpc = "open" <=> ~b_stop

================================================================================
