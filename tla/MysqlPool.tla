-------------------------------- MODULE MysqlPool --------------------------------
(* The MySQL connection pool of the ChatServer and the GateServer, and the way       *)
(* every operation of MysqlDao uses it: getConnection, statements, and a Defer that  *)
(* calls returnConnection on every way out.  Both getConnection and returnConnection *)
(* wait on the same condition variable for the same predicate, stopped or not empty; *)
(* close sets the flag and notifies without the mutex, so that the test of the       *)
(* predicate and the wait are two steps, with the mutex held in between.             *)
EXTENDS Naturals, FiniteSets

CONSTANTS Threads,   \* threads that call MysqlDao
          Conns,     \* the connections the constructor tries to make (poolSize)
          NoConn     \* nullptr

ASSUME ThreadsAssumption == IsFiniteSet(Threads)
ASSUME ConnsAssumption == IsFiniteSet(Conns) /\ NoConn \notin Conns

VARIABLES created,   \* the connections the constructor did make
          pool,      \* _pool
          held,      \* the connection each thread has borrowed
          tpc,       \* where each thread is
          b_stop,    \* _b_stop
          cpc        \* where close is

vars == <<created, pool, held, tpc, b_stop, cpc>>

ThreadPCs == {"idle", "get", "get_block", "get_wait", "use",
              "return", "return_block", "return_wait"}
Waiting == {"get_wait", "return_wait"}
Blocked == Waiting \cup {"get_block", "return_block"}

(* The constructor: a connection that cannot be made is logged and left out.         *)
Init ==
  /\ created \in SUBSET Conns
  /\ pool = created
  /\ held = [t \in Threads |-> NoConn]
  /\ tpc = [t \in Threads |-> "idle"]
  /\ b_stop = FALSE
  /\ cpc = "open"

(* wait(lock, predicate) keeps the mutex from a test that fails to the wait.         *)
MutexFree == \A t \in Threads : tpc[t] \notin {"get_block", "return_block"}
MayProceed == b_stop \/ pool # {}

(* A woken thread tests its predicate again.                                         *)
Awake(pc) == CASE pc = "get_wait" -> "get" [] pc = "return_wait" -> "return" [] OTHER -> pc

--------------------------------------------------------------------------------
(* An operation of MysqlDao.                                                         *)

Call(t) ==
  /\ tpc[t] = "idle"
  /\ tpc' = [tpc EXCEPT ![t] = "get"]
  /\ UNCHANGED <<created, pool, held, b_stop, cpc>>

(* Mutant of Get: the front is copied and not popped.                                *)
GetCopies(t) ==
  /\ tpc[t] = "get" /\ MutexFree /\ MayProceed
  /\ \E c \in pool : held' = [held EXCEPT ![t] = c]
  /\ tpc' = [tpc EXCEPT ![t] = "use"]
  /\ UNCHANGED <<created, pool, b_stop, cpc>>

(* getConnection, the predicate true: nullptr if stopped (the operation answers      *)
(* MysqlFailed), else a connection.                                                  *)
Get(t) ==
  /\ tpc[t] = "get" /\ MutexFree
  /\ \/ /\ b_stop
        /\ tpc' = [tpc EXCEPT ![t] = "idle"]
        /\ UNCHANGED <<pool, held>>
     \/ /\ ~b_stop
        /\ \E c \in pool : pool' = pool \ {c} /\ held' = [held EXCEPT ![t] = c]
        /\ tpc' = [tpc EXCEPT ![t] = "use"]
  /\ UNCHANGED <<created, b_stop, cpc>>

GetMustWait(t) ==
  /\ tpc[t] = "get" /\ MutexFree /\ ~MayProceed
  /\ tpc' = [tpc EXCEPT ![t] = "get_block"]
  /\ UNCHANGED <<created, pool, held, b_stop, cpc>>

(* Mutant of Use: a return before the Defer, the connection dies with its unique_ptr. *)
UseLeaks(t) ==
  /\ tpc[t] = "use"
  /\ tpc' = [tpc EXCEPT ![t] = "idle"]
  /\ held' = [held EXCEPT ![t] = NoConn]
  /\ UNCHANGED <<created, pool, b_stop, cpc>>

(* The statements; whatever their result, an exception included, Defer comes next.   *)
Use(t) ==
  /\ tpc[t] = "use"
  /\ tpc' = [tpc EXCEPT ![t] = "return"]
  /\ UNCHANGED <<created, pool, held, b_stop, cpc>>

(* returnConnection, the predicate true: the connection is dropped if stopped, else  *)
(* pushed, and one waiting thread notified, a borrower or another returner.          *)
Return(t) ==
  /\ tpc[t] = "return" /\ MutexFree /\ MayProceed
  /\ held' = [held EXCEPT ![t] = NoConn]
  /\ \/ /\ b_stop
        /\ pool' = pool
        /\ tpc' = [tpc EXCEPT ![t] = "idle"]
     \/ /\ ~b_stop
        /\ pool' = pool \cup {held[t]}
        /\ LET waiters == {w \in Threads : tpc[w] \in Waiting}
           IN \/ waiters = {} /\ tpc' = [tpc EXCEPT ![t] = "idle"]
              \/ \E w \in waiters : tpc' = [tpc EXCEPT ![t] = "idle", ![w] = Awake(tpc[w])]
  /\ UNCHANGED <<created, b_stop, cpc>>

(* returnConnection waits for the pool not to be empty before it pushes.             *)
ReturnMustWait(t) ==
  /\ tpc[t] = "return" /\ MutexFree /\ ~MayProceed
  /\ tpc' = [tpc EXCEPT ![t] = "return_block"]
  /\ UNCHANGED <<created, pool, held, b_stop, cpc>>

Block(t) ==
  /\ tpc[t] \in {"get_block", "return_block"}
  /\ tpc' = [tpc EXCEPT ![t] = IF tpc[t] = "get_block" THEN "get_wait" ELSE "return_wait"]
  /\ UNCHANGED <<created, pool, held, b_stop, cpc>>

SpuriousWakeup(t) ==
  /\ tpc[t] \in Waiting
  /\ tpc' = [tpc EXCEPT ![t] = Awake(tpc[t])]
  /\ UNCHANGED <<created, pool, held, b_stop, cpc>>

--------------------------------------------------------------------------------
(* close, called by the destructors of MysqlDao and of the pool.  There is no thread *)
(* to join: the constructor does not start _check_thread, checkConnection never runs. *)

CloseStop ==
  /\ cpc = "open"
  /\ b_stop' = TRUE
  /\ cpc' = "notify"
  /\ UNCHANGED <<created, pool, held, tpc>>

(* Mutant of CloseNotify: notify_one.                                                *)
CloseNotifyOne ==
  /\ cpc = "notify"
  /\ LET waiters == {w \in Threads : tpc[w] \in Waiting}
     IN \/ waiters = {} /\ UNCHANGED tpc
        \/ \E w \in waiters : tpc' = [tpc EXCEPT ![w] = Awake(tpc[w])]
  /\ cpc' = "closed"
  /\ UNCHANGED <<created, pool, held, b_stop>>

CloseNotify ==
  /\ cpc = "notify"
  /\ tpc' = [t \in Threads |-> Awake(tpc[t])]
  /\ cpc' = "closed"
  /\ UNCHANGED <<created, pool, held, b_stop>>

--------------------------------------------------------------------------------
Operation(t) == Get(t) \/ GetMustWait(t) \/ Use(t) \/ Return(t) \/ ReturnMustWait(t) \/ Block(t)
Close == CloseStop \/ CloseNotify

Next == \/ \E t \in Threads : Call(t) \/ Operation(t) \/ SpuriousWakeup(t)
        \/ Close

Spec == Init /\ [][Next]_vars

(* A thread that has begun an operation goes on with it, and gets the mutex in the   *)
(* end; close, once begun, finishes.                                                 *)
LiveSpec == Spec /\ (\A t \in Threads : SF_vars(Operation(t))) /\ WF_vars(CloseNotify)

--------------------------------------------------------------------------------
TypeOK ==
  /\ created \subseteq Conns
  /\ pool \subseteq Conns
  /\ held \in [Threads -> Conns \cup {NoConn}]
  /\ tpc \in [Threads -> ThreadPCs]
  /\ b_stop \in BOOLEAN
  /\ cpc \in {"open", "notify", "closed"}

(* No connection is used by two operations, or lent out while it is in the pool; a   *)
(* transaction (AuthFriendApply) and LAST_INSERT_ID (RegUser) depend on it.          *)
NoSharing ==
  /\ \A t, u \in Threads : t # u /\ held[t] # NoConn => held[t] # held[u]
  /\ \A t \in Threads : held[t] \notin pool

(* No connection is lost: until the pool is stopped each is lent or in the pool.      *)
Conserved == ~b_stop => created = pool \cup {held[t] : t \in {u \in Threads : held[u] # NoConn}}

(* A pool with a connection more than there are threads never makes one wait, to     *)
(* borrow or to return.                                                              *)
SpareNeverBlocks ==
  Cardinality(created) > Cardinality(Threads) => \A t \in Threads : tpc[t] \notin Blocked

(* Where a thread is tells whether it holds a connection; a thread waits only beside  *)
(* an empty pool or a stopped one.                                                   *)
HoldsInv ==
  \A t \in Threads : held[t] # NoConn <=> tpc[t] \in {"use", "return", "return_block", "return_wait"}
WaitInv == \A t \in Threads : tpc[t] \in Blocked => pool = {} \/ b_stop

IInv == /\ TypeOK /\ NoSharing /\ Conserved /\ SpareNeverBlocks /\ HoldsInv /\ WaitInv
        /\ cpc = "open" <=> ~b_stop
        /\ pool \subseteq created

(* MysqlPool.cc:69: a stop releases the operations that wait, to borrow or to return,  *)
(* in a pool that has run empty and would stay so for ever, and lets nobody begin to    *)
(* wait; only a thread that has tested before the flag was set, and is not yet asleep   *)
(* when the notification comes, may miss it.                                           *)
CloseReleases ==
  \A t \in Threads :
    (cpc = "notify" /\ tpc[t] \notin {"get_block", "return_block"}) ~> (tpc[t] = "idle")

(* With a connection to spare every operation of MysqlDao comes to its end.           *)
SpareCallsFinish ==
  \A t \in Threads :
    (tpc[t] = "get" /\ Cardinality(created) > Cardinality(Threads)) ~> (tpc[t] = "idle")

================================================================================
