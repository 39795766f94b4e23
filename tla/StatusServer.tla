------------------------------- MODULE StatusServer -------------------------------
(* The three servers as users of their Redis pools.  Which commands a server has        *)
(* decides what its pool can lose.  The StatusServer is there as a whole: gRPC handlers  *)
(* that make a token for a user who logs in, Set it in Redis and answer, and main, which *)
(* a signal takes through Shutdown to the destruction of RedisMgr.                     *)
(* A Thread of the StatusServer is the handler of one GateServer's call: a GateServer    *)
(* has one thread, which waits for the answer.  A token is the number of its call.      *)
EXTENDS RedisPool, Sequences

CONSTANTS Users, NoRpc    \* NoRpc: the handler of a thread is not running

ASSUME RpcAssumption == NoRpc \notin [user: Users, token: Nat, is_ok: BOOLEAN]

VARIABLES server,   \* which server this is
          rpc,      \* the handler of each thread: its user, its token, what Set gave
          token,    \* utoken_<uid> in Redis, 0 if there is none
          late,     \* SETs whose connection was lost, and that Redis may yet execute
          mpc,      \* where main is
          told,     \* history: answers with Success
          newest,   \* history: the last token made for each user
          mixed,    \* history: tokens of calls that overlapped with another for their user
          doubted   \* history: users with a SET that Redis may have executed late

history == <<told, newest, mixed, doubted>>
service == <<rpc, token, late, history>>
svars == <<vars, server, service, mpc>>

GateCommands == {"query"}
StatusCommands == {"query"}
Commands == [ChatServer |-> Kinds, GateServer |-> GateCommands, StatusServer |-> StatusCommands]

SInit ==
  /\ Init
  /\ server \in DOMAIN Commands
  /\ rpc = [t \in Threads |-> NoRpc]
  /\ token = [u \in Users |-> 0] /\ late = {} /\ mpc = "run"
  /\ told = {} /\ newest = [u \in Users |-> 0] /\ mixed = {} /\ doubted = {}

Serving(u) == {t \in Threads : rpc[t] # NoRpc /\ rpc[t].user = u}
Written(u, k) == token' = [token EXCEPT ![u] = k]
Row(t) == [user |-> rpc[t].user, token |-> rpc[t].token]
Stored(t) == [user |-> rpc[t].user, token |-> rpc[t].token, is_ok |-> TRUE]

--------------------------------------------------------------------------------
(* A ChatServer or GateServer, with any commands it has.  A GateServer has one thread.    *)
OtherServer ==
  /\ server # "StatusServer"
  /\ \/ \E t \in Threads : \/ /\ server = "GateServer" => \A u \in Threads : tpc[u] = "idle"
                              /\ \E k \in Commands[server] : Call(t, k)
                           \/ Command(t) \/ ErrorReply(t) \/ SpuriousWakeup(t)
     \/ CloseStop \/ CloseNotify
     \/ \E c \in Conns : RedisDrops(c)
  /\ UNCHANGED <<server, service, mpc>>

--------------------------------------------------------------------------------
(* The StatusServer's GetChatServer.                                                   *)

(* A call for a user: the ChatServer is the configured one, the token new; Set begins.  *)
(* No call is taken once Shutdown has begun.                                           *)
GetChatServer(t, u) ==
  /\ mpc = "run" /\ rpc[t] = NoRpc
  /\ Call(t, "query")
  /\ rpc' = [rpc EXCEPT ![t] = [user |-> u, token |-> calls', is_ok |-> FALSE]]
  /\ newest' = [newest EXCEPT ![u] = calls']
  /\ mixed' = mixed \cup
       IF Serving(u) = {} THEN {} ELSE {calls'} \cup {rpc[s].token : s \in Serving(u)}
  /\ UNCHANGED <<token, late, told, doubted, mpc>>

(* Set: the connection, ...                                                           *)
SetBorrows(t) ==
  /\ rpc[t] # NoRpc
  /\ Get(t) \/ GetMustWait(t) \/ Block(t)
  /\ UNCHANGED <<service, mpc>>

(* ... a reply, "OK" or an error, ...                                                  *)
SetReplied(t) ==
  /\ rpc[t] # NoRpc
  /\ Reply(t)
  /\ \/ Written(rpc[t].user, rpc[t].token) /\ rpc' = [rpc EXCEPT ![t] = Stored(t)]
     \/ UNCHANGED <<token, rpc>>
  /\ UNCHANGED <<late, history, mpc>>

(* ... or none: the command was executed, is lost, or is on its way; ...                *)
SetUnanswered(t) ==
  /\ rpc[t] # NoRpc
  /\ NoReply(t)
  /\ \/ Written(rpc[t].user, rpc[t].token) /\ UNCHANGED <<late, doubted>>
     \/ UNCHANGED <<token, late, doubted>>
     \/ /\ late' = late \cup {Row(t)} /\ doubted' = doubted \cup {rpc[t].user}
        /\ UNCHANGED token
  /\ UNCHANGED <<rpc, told, newest, mixed, mpc>>

LateSet ==
  /\ \E r \in late : Written(r.user, r.token) /\ late' = late \ {r}
  /\ UNCHANGED <<vars, rpc, history, mpc>>

(* ... and the connection goes back.                                                   *)
SetReturns(t) ==
  /\ rpc[t] # NoRpc
  /\ Return(t)
  /\ UNCHANGED <<service, mpc>>

(* Mutant of Answer: what Set returned is not looked at.                               *)
AnswerIgnoresSet(t) ==
  /\ rpc[t] # NoRpc /\ tpc[t] = "idle"
  /\ told' = told \cup {Row(t)}
  /\ rpc' = [rpc EXCEPT ![t] = NoRpc]
  /\ UNCHANGED <<vars, token, late, newest, mixed, doubted, mpc>>

(* The answer: the token, or RedisFailed.                                             *)
Answer(t) ==
  /\ rpc[t] # NoRpc /\ tpc[t] = "idle"
  /\ told' = IF rpc[t].is_ok THEN told \cup {Row(t)} ELSE told
  /\ rpc' = [rpc EXCEPT ![t] = NoRpc]
  /\ UNCHANGED <<vars, token, late, newest, mixed, doubted, mpc>>

Handler(t) == \/ SetBorrows(t) \/ SetReplied(t) \/ SetUnanswered(t) \/ SetReturns(t) \/ Answer(t)

--------------------------------------------------------------------------------
(* main.                                                                             *)

(* SIGINT or SIGTERM: the handler calls Shutdown, ...                                  *)
Signal ==
  /\ mpc = "run" /\ mpc' = "shutdown"
  /\ UNCHANGED <<vars, service>>

(* ... which returns when no call is being handled; run and Wait return, and main.      *)
ShutdownReturns ==
  /\ mpc = "shutdown" /\ \A t \in Threads : rpc[t] = NoRpc
  /\ mpc' = "returned"
  /\ UNCHANGED <<vars, service>>

(* RedisMgr is destroyed, and its pool closed.                                         *)
DestroyRedisMgr ==
  /\ mpc = "returned"
  /\ CloseStop
  /\ UNCHANGED <<service, mpc>>

Exit ==
  /\ CloseNotify /\ mpc' = "exited"
  /\ UNCHANGED service

Main == ShutdownReturns \/ DestroyRedisMgr \/ Exit

(* The connection to Redis, whoever uses it.                                           *)
Environment ==
  /\ \/ \E c \in Conns : RedisDrops(c)
     \/ \E t \in Threads : SpuriousWakeup(t)
  /\ UNCHANGED <<service, mpc>>

StatusService ==
  /\ server = "StatusServer"
  /\ \/ \E t \in Threads : (\E u \in Users : GetChatServer(t, u)) \/ Handler(t)
     \/ Signal \/ Main \/ Environment \/ LateSet
  /\ UNCHANGED server

SNext == OtherServer \/ StatusService
SSpec == SInit /\ [][SNext]_svars

(* A thread that has begun a command goes on with it, and gets the mutex in the end;     *)
(* Close, once begun, finishes.  gRPC's threads run, and Shutdown has no deadline.        *)
SLiveSpec ==
  /\ SSpec
  /\ \A t \in Threads : /\ SF_svars(server # "StatusServer" /\ Command(t) /\ UNCHANGED <<server, service, mpc>>)
                        /\ SF_svars(server = "StatusServer" /\ Handler(t) /\ UNCHANGED server)
  /\ WF_svars(server # "StatusServer" /\ CloseNotify /\ UNCHANGED <<server, service, mpc>>)
  /\ WF_svars(server = "StatusServer" /\ Main /\ UNCHANGED server)

--------------------------------------------------------------------------------
(* StatusServiceImpl.cc:38: the newest token a user was told is the one the ChatServer   *)
(* will find in Redis, unless calls for that user overlapped (their SETs may come in     *)
(* either order) or an earlier SET may still have been on its way.                      *)
ToldIsStored ==
  \A r \in told :
    r.token = newest[r.user] /\ r.token \notin mixed /\ r.user \notin doubted
      => token[r.user] = r.token

(* Every command comes to its end while the pool is not being closed: in the ChatServer   *)
(* as long as a connection is left; the others lose none, broken or not, and need only   *)
(* to have made one when they began.                                                   *)
EveryCommandFinishes ==
  \A t \in Threads :
    (tpc[t] = "get") ~> (tpc[t] = "idle" \/ crashed \/ b_stop
                         \/ IF server = "ChatServer" THEN Lost = created ELSE created = {})

(* StatusServer.cc:46: Shutdown waits for the handlers and has no deadline; the process   *)
(* ends, with RedisMgr destroyed when no handler can use it any more, unless the pool     *)
(* never had a connection.                                                             *)
ServiceEnds ==
  (mpc = "shutdown") ~> (created = {} \/ (mpc = "exited" /\ \A t \in Threads : rpc[t] = NoRpc))

================================================================================
