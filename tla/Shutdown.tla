--------------------------------- MODULE Shutdown ---------------------------------
(* The ChatServer around LogicSystem's queue: the sessions CServer accepts and       *)
(* spreads over IOServicePool's io_contexts, the signal handler that stops the pool, *)
(* the end of main and of its local log, and the destruction of the singletons,      *)
(* which LogicSystem's worker outlives until its own turn comes.                     *)
(* A handler, and a Close, may wait for ever for a connection of a manager's pool.    *)
(* A Producer of LogicQueue is the io_context thread of that number.  LogicSystem is *)
(* made by the first post: that its worker waits before is of no effect.             *)
EXTENDS LogicQueue, FiniteSets

CONSTANTS Managers,     \* the singletons handlers use (UserMgr, RedisMgr, ...)
          Pools,        \* those with a pool of connections: RedisMgr, MysqlMgr
          Uses,         \* what the destructor of each may use: other Managers, the "log"
          MaxSessions   \* bound: CSession objects made

ASSUME PoolAssumption == /\ Producers # {} /\ IsFiniteSet(Producers)
                         /\ Producers = 0..(Cardinality(Producers) - 1)
ASSUME ManagersAssumption == /\ Pools \subseteq Managers /\ "handler" \notin Managers
                             /\ Uses \in [Managers -> SUBSET (Managers \cup {"log"})]
ASSUME SessionsAssumption == MaxSessions \in Nat \ {0}

VARIABLES session,   \* CSessions in the order made: their io_context and state
          nextIO,    \* _nextIOService
          guarded,   \* the work guards of _works are there
          ended,     \* threads whose io_context::run has returned
          stuck,     \* io_context threads whose Close waits for ever in RedisMgr's pool
          waitsIn,   \* the pool, if any, that the worker's handler waits in for ever
          mpc,       \* where the main thread is
          gone,      \* what has been destroyed: main's log, singletons
          left,      \* history: messages were not yet handled when run() returned
          dangling   \* history: who may have used what was gone, a "handler" or a manager

pool == <<session, nextIO, guarded, ended, stuck>>
end == <<mpc, gone, left, dangling, waitsIn>>
svars == <<vars, pool, end>>

(* GetIOService: the io_contexts are taken in turn.                                  *)
After(io) == (io + 1) % Cardinality(Producers)

(* StartAccept's session.                                                            *)
MakeSession(old, io) == Append(old, [at |-> io, state |-> "accepting"])

(* IOServicePool's constructor, and the first StartAccept.                           *)
PoolInit ==
  /\ session = MakeSession(<<>>, 0) /\ nextIO = After(0)
  /\ guarded = TRUE /\ ended = {} /\ stuck = {}

SInit ==
  /\ Init /\ PoolInit
  /\ mpc = "run" /\ gone = {} /\ left = FALSE /\ dangling = {} /\ waitsIn = {}

Connected(p) == \E s \in DOMAIN session : session[s] = [at |-> p, state |-> "open"]
NobodyConnected == \A p \in Producers : ~Connected(p)

--------------------------------------------------------------------------------
(* The main thread accepts.  HandleAccept starts the session, or drops it on an      *)
(* error, and StartAccept makes the next one on the next io_context.                 *)
HandleAccept(error) ==
  /\ mpc = "run" /\ Len(session) < MaxSessions
  /\ session' = MakeSession([session EXCEPT ![Len(session)].state = IF error THEN "closed" ELSE "open"],
                            nextIO)
  /\ nextIO' = After(nextIO)
  /\ UNCHANGED <<vars, guarded, ended, stuck, end>>

(* HandleReadBody on the session's thread.                                           *)
Post(p, m) ==
  /\ p \notin ended \cup stuck /\ Connected(p)
  /\ PostMsgToQue(p, m)
  /\ UNCHANGED <<pool, end>>

Notify(p) == PostNotify(p) /\ UNCHANGED <<pool, end>>

(* A read fails, because the client has left: Close.  Nothing is read again.  Its     *)
(* commands wait for ever when earlier ones have lost all of RedisMgr's connections. *)
Close(s, waits) ==
  /\ session[s].state = "open" /\ ppc[session[s].at] = "run" /\ session[s].at \notin stuck
  /\ session' = [session EXCEPT ![s].state = "closed"]
  /\ stuck' = IF waits THEN stuck \cup {session[s].at} ELSE stuck
  /\ UNCHANGED <<vars, nextIO, guarded, ended, end>>

(* run() returns when nothing keeps the io_context busy: no guard and no session.     *)
RunReturns(p) ==
  /\ p \notin ended \cup stuck /\ ~guarded
  /\ ppc[p] = "run" /\ ~Connected(p)
  /\ ended' = ended \cup {p}
  /\ UNCHANGED <<vars, session, nextIO, guarded, stuck, end>>

--------------------------------------------------------------------------------
(* Mutant of Signal: the guards stay.                                                *)
SignalKeepsGuards ==
  /\ mpc = "run"
  /\ mpc' = "joining"
  /\ UNCHANGED <<vars, pool, gone, left, dangling, waitsIn>>

(* The signal handler calls IOServicePool::stop, on the main thread: nobody accepts   *)
(* from here on, and a second signal finds no handler.                               *)
Signal ==
  /\ mpc = "run"
  /\ guarded' = FALSE
  /\ mpc' = "joining"
  /\ UNCHANGED <<vars, session, nextIO, ended, stuck, gone, left, dangling, waitsIn>>

(* Mutant of StopReturns: the threads are not joined.                                *)
StopReturnsAtOnce ==
  /\ mpc = "joining"
  /\ mpc' = "unwinding"
  /\ left' = (handled # posted)
  /\ UNCHANGED <<vars, pool, gone, dangling, waitsIn>>

(* All threads are joined: the handler ends with ioc.stop, and ioc.run returns.       *)
StopReturns ==
  /\ mpc = "joining" /\ ended = Producers
  /\ mpc' = "unwinding"
  /\ left' = (handled # posted)
  /\ UNCHANGED <<vars, pool, gone, dangling, waitsIn>>

(* main's locals end, the acceptor with its session first, asyncLog last; g_asyncLog  *)
(* goes on pointing at it.                                                           *)
MainReturns ==
  /\ mpc = "unwinding"
  /\ gone' = gone \cup {"log"}
  /\ mpc' = "statics"
  /\ UNCHANGED <<vars, pool, left, dangling, waitsIn>>

(* A singleton is destroyed.  In which order is left to the linker; ~LogicSystem is   *)
(* one call, and IOServicePool's finds its threads joined.  If the manager was ever   *)
(* made its destructor runs and may use what is gone (MysqlPool's close logs), and a  *)
(* handler that waits in its pool is woken, or goes on waiting for what is no more.   *)
Destroy(x) ==
  /\ mpc = "statics" /\ dpc \in {"alive", "joined"}
  /\ x \in Managers \ gone
  /\ gone' = gone \cup {x}
  /\ \E made \in BOOLEAN :
       dangling' = dangling \cup {y \in {x} : made /\ Uses[x] \cap gone # {}}
                            \cup {y \in {"handler"} : x \in waitsIn}
  /\ waitsIn' \in {waitsIn, waitsIn \ {x}}
  /\ UNCHANGED <<vars, pool, mpc, left>>

(* ~LogicSystem: as SetStop, but nothing here says that the producers have stopped.   *)
DestroyLogicSystem ==
  /\ mpc = "statics" /\ dpc = "alive" /\ posted # <<>>
  /\ b_stop' = TRUE
  /\ dpc' = "notify"
  /\ UNCHANGED <<msg_que, process_que, stopping, wpc, ppc, posted, handled, pool, end>>

JoinWorker == (StopNotify \/ Join) /\ UNCHANGED <<pool, end>>

Exit ==
  /\ mpc = "statics" /\ Managers \subseteq gone
  /\ dpc = "joined" \/ posted = <<>>
  /\ mpc' = "exited"
  /\ UNCHANGED <<vars, pool, gone, left, dangling, waitsIn>>

--------------------------------------------------------------------------------
(* The worker goes on to the end.  A handler logs and uses the singletons.            *)
WorkerHandles ==
  /\ waitsIn = {}
  /\ Handle
  /\ dangling' = dangling \cup {y \in {"handler"} : gone # {}}
  /\ UNCHANGED <<pool, mpc, gone, left, waitsIn>>

(* Or it waits for ever: for a connection when commands have lost all of RedisMgr's,  *)
(* and with one connection to MySQL, or none, in returning or borrowing it.           *)
HandlerWaits(x) ==
  /\ waitsIn = {} /\ x \in Pools \ gone
  /\ wpc = "process" /\ process_que # <<>>
  /\ waitsIn' = {x}
  /\ dangling' = dangling \cup {y \in {"handler"} : gone # {}}
  /\ UNCHANGED <<vars, pool, mpc, gone, left>>

WorkerWaits == (Lock \/ MustWait \/ Block \/ Swap \/ EndBatch) /\ UNCHANGED <<pool, end>>
WorkerWakes == SpuriousWakeup /\ UNCHANGED <<pool, end>>
Worker == WorkerHandles \/ WorkerWaits

IoThread(p) == (\E m \in Msgs : Post(p, m)) \/ Notify(p) \/ RunReturns(p)
Ending == StopReturns \/ MainReturns \/ DestroyLogicSystem \/ JoinWorker \/ Exit
          \/ \E x \in Managers : Destroy(x)

SNext ==
  \/ \E error \in BOOLEAN : HandleAccept(error)
  \/ \E s \in DOMAIN session : \E waits \in BOOLEAN : Close(s, waits)
  \/ \E p \in Producers : IoThread(p)
  \/ Signal \/ Ending
  \/ Worker \/ WorkerWakes \/ \E x \in Pools : HandlerWaits(x)

SSpec == SInit /\ [][SNext]_svars

(* Threads that can go on do; nothing makes clients come, send or leave, or a signal  *)
(* arrive.                                                                           *)
SLiveSpec ==
  /\ SSpec
  /\ WF_svars(Worker) /\ WF_svars(Ending)
  /\ \A p \in Producers : WF_svars(Notify(p)) /\ WF_svars(RunReturns(p))

--------------------------------------------------------------------------------
STypeOK ==
  /\ session \in Seq([at : Producers, state : {"accepting", "open", "closed"}])
  /\ nextIO \in Producers
  /\ guarded \in BOOLEAN
  /\ ended \subseteq Producers /\ stuck \subseteq Producers
  /\ mpc \in {"run", "joining", "unwinding", "statics", "exited"}
  /\ gone \subseteq Managers \cup {"log"}
  /\ left \in BOOLEAN /\ dangling \subseteq Managers \cup {"handler"}
  /\ waitsIn \subseteq Pools

(* The server keeps what LogicSystem relies on: its destructor runs when no thread    *)
(* will post any more (ChatServer.cc:31, IOServicePool.cpp:25), so that LogicQueue's  *)
(* proofs apply.                                                                     *)
ImplementsLogicQueue == Spec

(* Handlers use the log of main, ChatServer.cc:16, and the singletons after their end *)
(* only for messages that were not handled when the threads had been joined.  (Of     *)
(* destructors that use them, as MysqlPool.cc:71 does the log, nothing is claimed.)   *)
DanglingWasLeft == "handler" \in dangling => left

(* Every message a session posted is eventually given to its handler, whatever the    *)
(* interleaving of posts, notifications, batches and shutdown, unless an earlier      *)
(* handler waits for ever.                                                           *)
EveryPostHandled ==
  \A m \in Msgs : (m \in ToSet(posted)) ~> (m \in ToSet(handled) \/ waitsIn # {})

(* A stop ends once the last client has left, unless a Close or a handler waits for   *)
(* ever, or LogicSystem's destructor for a worker that has missed its notification.   *)
MissedStop == dpc = "join" /\ wpc = "waiting"
ShutdownEnds ==
  (mpc = "joining" /\ NobodyConnected)
    ~> (mpc = "exited" \/ MissedStop \/ stuck # {} \/ waitsIn # {})

================================================================================
