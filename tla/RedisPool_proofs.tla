---------------------------- MODULE RedisPool_proofs ----------------------------
(* Proofs, for any number of threads, connections and calls, of the safety         *)
(* properties of the Redis connection pool, and of what the StatusServer, which     *)
(* uses it, stores and tells.                                                      *)
EXTENDS StatusServer, FiniteSetTheorems, TLAPS

USE DEF pool

(* Every step is one of these.                                                     *)
LEMMA Steps ==
  ASSUME [Next]_vars
  PROVE  \/ \E t \in Threads : \/ \E k \in Kinds : Call(t, k)
                               \/ Get(t) \/ GetMustWait(t) \/ Block(t) \/ SpuriousWakeup(t)
                               \/ Reply(t) \/ ErrorReply(t) \/ NoReply(t) \/ Return(t)
         \/ CloseStop \/ CloseNotify
         \/ \E c \in Conns : RedisDrops(c)
         \/ UNCHANGED vars
  BY DEF Next, Command

(* At start every connection is in the pool.                                       *)
LEMMA InitIInv == Init => IInv
<1> SUFFICES ASSUME Init PROVE IInv
  OBVIOUS
<1>1. TypeOK
  <2>1. calls \in 0..MaxCalls
    BY CallsAssumption DEF Init
  <2>2. crashed \in BOOLEAN /\ b_stop \in BOOLEAN
    BY DEF Init
  <2> QED
    BY <2>1, <2>2 DEF Init, TypeOK, ThreadPCs, Kinds
<1>2. NoSharing /\ HoldsInv /\ BlockInv
  BY ConnsAssumption DEF Init, NoSharing, HoldsInv, BlockInv
<1>3. OnlyBrokenLost
  BY DEF Init, OnlyBrokenLost, Lost
<1>4. WakeupsCover
  BY DEF Init, WakeupsCover
<1> QED
  BY <1>1, <1>2, <1>3, <1>4 DEF Init, IInv

(* Types.                                                                          *)
LEMMA TypeStep == IInv /\ [Next]_vars => TypeOK'
<1> SUFFICES ASSUME IInv, [Next]_vars PROVE TypeOK'
  OBVIOUS
<1> USE DEF IInv, TypeOK, ThreadPCs, Kinds
<1>1. ASSUME NEW t \in Threads, NEW k \in Kinds, Call(t, k) PROVE TypeOK'
  BY <1>1, CallsAssumption DEF Call
<1>2. ASSUME NEW t \in Threads, Get(t) PROVE TypeOK'
  BY <1>2 DEF Get
<1>3. ASSUME NEW t \in Threads, GetMustWait(t) PROVE TypeOK'
  BY <1>3 DEF GetMustWait
<1>4. ASSUME NEW t \in Threads, Block(t) PROVE TypeOK'
  BY <1>4 DEF Block
<1>5. ASSUME NEW t \in Threads, SpuriousWakeup(t) PROVE TypeOK'
  BY <1>5 DEF SpuriousWakeup
<1>6. ASSUME NEW t \in Threads, Reply(t) PROVE TypeOK'
  BY <1>6 DEF Reply
<1>7. ASSUME NEW t \in Threads, ErrorReply(t) PROVE TypeOK'
  BY <1>7 DEF ErrorReply
<1>8. ASSUME NEW t \in Threads, NoReply(t) PROVE TypeOK'
  BY <1>8 DEF NoReply
<1>9. ASSUME NEW t \in Threads, Return(t) PROVE TypeOK'
  BY <1>9 DEF Return, HoldsInv
<1>10. CASE CloseStop
  BY <1>10 DEF CloseStop
<1>11. CASE CloseNotify
  BY <1>11 DEF CloseNotify
<1>12. ASSUME NEW c \in Conns, RedisDrops(c) PROVE TypeOK'
  BY <1>12 DEF RedisDrops
<1>13. CASE UNCHANGED vars
  BY <1>13 DEF vars
<1> QED
  BY <1>1, <1>2, <1>3, <1>4, <1>5, <1>6, <1>7, <1>8, <1>9, <1>10, <1>11, <1>12, <1>13, Steps

(* What the program counters say: who holds a connection, and that a thread about  *)
(* to wait has an empty pool before it.                                            *)
LEMMA CounterStep ==
  IInv /\ [Next]_vars => HoldsInv' /\ BlockInv' /\ (cpc = "open" <=> ~b_stop)'
<1> DEFINE Goal == HoldsInv' /\ BlockInv' /\ (cpc = "open" <=> ~b_stop)'
<1> SUFFICES ASSUME IInv, [Next]_vars PROVE Goal
  OBVIOUS
<1> USE ConnsAssumption DEF IInv, TypeOK, HoldsInv, BlockInv, ThreadPCs, MutexFree
<1>1. ASSUME NEW t \in Threads, NEW k \in Kinds, Call(t, k) PROVE Goal
  BY <1>1 DEF Call
<1>2. ASSUME NEW t \in Threads, Get(t) PROVE Goal
  BY <1>2 DEF Get
<1>3. ASSUME NEW t \in Threads, GetMustWait(t) PROVE Goal
  BY <1>3 DEF GetMustWait
<1>4. ASSUME NEW t \in Threads, Block(t) PROVE Goal
  BY <1>4 DEF Block
<1>5. ASSUME NEW t \in Threads, SpuriousWakeup(t) PROVE Goal
  BY <1>5 DEF SpuriousWakeup
<1>6. ASSUME NEW t \in Threads, Reply(t) PROVE Goal
  BY <1>6 DEF Reply
<1>7. ASSUME NEW t \in Threads, ErrorReply(t) PROVE Goal
  BY <1>7 DEF ErrorReply
<1>8. ASSUME NEW t \in Threads, NoReply(t) PROVE Goal
  BY <1>8 DEF NoReply
<1>9. ASSUME NEW t \in Threads, Return(t) PROVE Goal
  BY <1>9 DEF Return
<1>10. CASE CloseStop
  BY <1>10 DEF CloseStop
<1>11. CASE CloseNotify
  BY <1>11 DEF CloseNotify
<1>12. ASSUME NEW c \in Conns, RedisDrops(c) PROVE Goal
  BY <1>12 DEF RedisDrops
<1>13. CASE UNCHANGED vars
  BY <1>13 DEF vars
<1> QED
  BY <1>1, <1>2, <1>3, <1>4, <1>5, <1>6, <1>7, <1>8, <1>9, <1>10, <1>11, <1>12, <1>13, Steps

(* The owners of the connections.                                                  *)
LEMMA OwnerStep == IInv /\ [Next]_vars => NoSharing' /\ OnlyBrokenLost'
<1> SUFFICES ASSUME IInv, [Next]_vars PROVE NoSharing' /\ OnlyBrokenLost'
  OBVIOUS
<1> USE ConnsAssumption DEF IInv, TypeOK, NoSharing
<1>1. ASSUME NEW t \in Threads, Get(t) PROVE NoSharing' /\ OnlyBrokenLost'
  <2>1. UNCHANGED <<created, b_stop, broken>> /\ held[t] = NoConn
    BY <1>1 DEF Get, HoldsInv
  <2>2. CASE UNCHANGED <<connections, held>>
    BY <2>1, <2>2 DEF OnlyBrokenLost, Lost, Lent
  <2>3. ASSUME NEW c \in connections,
               connections' = connections \ {c}, held' = [held EXCEPT ![t] = c]
        PROVE  NoSharing' /\ OnlyBrokenLost'
    <3>1. NoSharing'
      BY <2>1, <2>3
    <3>2. Lent' = Lent \cup {c}
      BY <2>1, <2>3 DEF Lent
    <3>3. OnlyBrokenLost'
      BY <2>1, <2>3, <3>2 DEF OnlyBrokenLost, Lost
    <3> QED
      BY <3>1, <3>3
  <2> QED
    BY <1>1, <2>2, <2>3 DEF Get
<1>2. ASSUME NEW t \in Threads, NoReply(t) PROVE NoSharing' /\ OnlyBrokenLost'
  <2>1. /\ UNCHANGED <<created, connections, b_stop, broken>>
        /\ held[t] # NoConn /\ held[t] \in broken
        /\ held' = held \/ held' = [held EXCEPT ![t] = NoConn]
    BY <1>2 DEF NoReply, HoldsInv
  <2>2. NoSharing'
    BY <2>1
  <2>3. Lent \subseteq Lent' \cup {held[t]}
    BY <2>1 DEF Lent
  <2>4. OnlyBrokenLost'
    BY <2>1, <2>3 DEF OnlyBrokenLost, Lost
  <2> QED
    BY <2>2, <2>4
<1>3. ASSUME NEW t \in Threads, Return(t) PROVE NoSharing' /\ OnlyBrokenLost'
  <2>1. /\ UNCHANGED <<created, b_stop, broken>>
        /\ held[t] # NoConn /\ held' = [held EXCEPT ![t] = NoConn]
        /\ \/ b_stop /\ connections' = connections
           \/ ~b_stop /\ connections' = connections \cup {held[t]}
    BY <1>3 DEF Return, HoldsInv
  <2>2. NoSharing'
    BY <2>1
  <2>3. Lent \subseteq Lent' \cup {held[t]}
    BY <2>1 DEF Lent
  <2>4. OnlyBrokenLost'
    BY <2>1, <2>3 DEF OnlyBrokenLost, Lost
  <2> QED
    BY <2>2, <2>4
<1>4. CASE CloseStop
  BY <1>4 DEF CloseStop, OnlyBrokenLost
<1>5. ASSUME NEW c \in Conns, RedisDrops(c) PROVE NoSharing' /\ OnlyBrokenLost'
  BY <1>5 DEF RedisDrops, OnlyBrokenLost, Lost, Lent
<1>6. CASE UNCHANGED <<created, connections, held, b_stop, broken>>
  BY <1>6 DEF OnlyBrokenLost, Lost, Lent
<1>7. \/ \E t \in Threads : Get(t) \/ NoReply(t) \/ Return(t)
      \/ CloseStop
      \/ \E c \in Conns : RedisDrops(c)
      \/ UNCHANGED <<created, connections, held, b_stop, broken>>
  BY Steps DEF Call, GetMustWait, Block, SpuriousWakeup, Reply, ErrorReply, CloseNotify, vars
<1> QED
  BY <1>1, <1>2, <1>3, <1>4, <1>5, <1>6, <1>7

(* The sets whose sizes the wake-ups compare are finite.                           *)
LEMMA Sizes ==
  ASSUME connections \subseteq Conns
  PROVE  /\ IsFiniteSet(connections) /\ Cardinality(connections) \in Nat
         /\ IsFiniteSet(Getting) /\ Cardinality(Getting) \in Nat
<1>1. IsFiniteSet(connections)
  BY ConnsAssumption, FS_Subset
<1>2. IsFiniteSet(Getting)
  BY ThreadsAssumption, FS_Subset DEF Getting
<1> QED
  BY <1>1, <1>2, FS_CardinalityType

(* Who is asleep, or about to be.                                                  *)
Asleep == \E t \in Threads : tpc[t] \in {"get_block", "get_wait"}

(* A step that takes no connection away from getConnection's threads keeps the     *)
(* comparison, whoever else enters getConnection.                                  *)
LEMMA GettingGrows ==
  ASSUME IInv, TypeOK', UNCHANGED <<connections, b_stop>>, Getting \subseteq Getting', Asleep' => Asleep
  PROVE  WakeupsCover'
<1> USE DEF IInv
<1>1. IsFiniteSet(Getting')
  BY ThreadsAssumption, FS_Subset DEF Getting
<1>2. Cardinality(Getting) <= Cardinality(Getting') /\ Cardinality(Getting') \in Nat
  BY <1>1, FS_Subset, FS_CardinalityType
<1>3. Cardinality(connections) \in Nat /\ Cardinality(Getting) \in Nat
  BY Sizes DEF TypeOK
<1>4. ~b_stop /\ Asleep => Cardinality(connections) <= Cardinality(Getting)
  BY DEF WakeupsCover, Asleep
<1>5. ~b_stop' /\ Asleep' => Cardinality(connections') <= Cardinality(Getting')
  BY <1>2, <1>3, <1>4
<1> QED
  BY <1>5 DEF WakeupsCover, Asleep

(* notify_one under the mutex, one for every connection returned, is enough.       *)
LEMMA WakeupStep == IInv /\ [Next]_vars => WakeupsCover'
<1> SUFFICES ASSUME IInv, [Next]_vars PROVE WakeupsCover'
  OBVIOUS
<1>0. TypeOK /\ TypeOK' /\ connections \subseteq Conns
  BY TypeStep DEF IInv, TypeOK
<1>1. ASSUME NEW t \in Threads, Get(t), ~b_stop PROVE WakeupsCover'
  <2>1. PICK c \in connections : connections' = connections \ {c}
    BY <1>1 DEF Get
  <2>2. Getting' = Getting \ {t} /\ t \in Getting /\ b_stop' = b_stop
    BY <1>0, <1>1 DEF Get, Getting, TypeOK
  <2>3. Asleep' => Asleep
    BY <1>0, <1>1 DEF Get, Asleep, TypeOK
  <2>4. /\ Cardinality(connections') = Cardinality(connections) - 1
        /\ Cardinality(Getting') = Cardinality(Getting) - 1
    BY <1>0, <2>1, <2>2, Sizes, FS_RemoveElement
  <2>5. ~b_stop /\ Asleep => Cardinality(connections) <= Cardinality(Getting)
    BY DEF IInv, WakeupsCover, Asleep
  <2>6. Cardinality(connections) \in Nat /\ Cardinality(Getting) \in Nat
    BY <1>0, Sizes
  <2>7. ~b_stop' /\ Asleep' => Cardinality(connections') <= Cardinality(Getting')
    BY <2>2, <2>3, <2>4, <2>5, <2>6
  <2> QED
    BY <2>7 DEF WakeupsCover, Asleep
<1>2. ASSUME NEW t \in Threads, GetMustWait(t) PROVE WakeupsCover'
  <2>1. Cardinality(connections') = 0
    BY <1>2, FS_EmptySet DEF GetMustWait
  <2>2. IsFiniteSet(Getting')
    BY ThreadsAssumption, FS_Subset DEF Getting
  <2>3. Cardinality(Getting') \in Nat
    BY <2>2, FS_CardinalityType
  <2> QED
    BY <2>1, <2>3 DEF WakeupsCover
<1>3. ASSUME NEW t \in Threads, Return(t), ~b_stop PROVE WakeupsCover'
  <2>1. connections' = connections \cup {held[t]}
    BY <1>3 DEF Return
  <2>2. /\ held[t] \notin connections
        /\ Cardinality(connections \cup {held[t]}) = Cardinality(connections) + 1
    BY <1>0, Sizes, FS_AddElement DEF IInv, NoSharing
  <2>3. CASE \A w \in Threads : tpc[w] # "get_wait"
    BY <1>0, <1>3, <2>3 DEF Return, MutexFree, WakeupsCover, TypeOK
  <2>4. ASSUME NEW w \in Threads, tpc[w] = "get_wait", tpc' = [tpc EXCEPT ![t] = "idle", ![w] = "get"]
        PROVE  WakeupsCover'
    <3>1. tpc[t] = "return"
      BY <1>3 DEF Return
    <3>2. Getting' = Getting \cup {w} /\ w \notin Getting
      BY <1>0, <2>4, <3>1 DEF Getting, TypeOK
    <3>3. Cardinality(Getting') = Cardinality(Getting) + 1
      BY <1>0, <3>2, Sizes, FS_AddElement
    <3>4. Cardinality(connections) <= Cardinality(Getting)
      BY <1>3, <2>4 DEF IInv, WakeupsCover
    <3>5. Cardinality(connections) \in Nat /\ Cardinality(Getting) \in Nat
      BY <1>0, Sizes
    <3>6. Cardinality(connections') <= Cardinality(Getting')
      BY <2>1, <2>2, <3>3, <3>4, <3>5
    <3> QED
      BY <3>6 DEF WakeupsCover
  <2> QED
    BY <1>3, <2>3, <2>4 DEF Return
<1>4. ASSUME b_stop' PROVE WakeupsCover'
  BY <1>4 DEF WakeupsCover
<1>5. b_stop => b_stop'
  BY Steps DEF Call, Get, GetMustWait, Block, SpuriousWakeup, Reply, ErrorReply, NoReply, Return,
     CloseStop, CloseNotify, RedisDrops, vars
<1>6. ASSUME NEW t \in Threads, ~b_stop,
             (\E k \in Kinds : Call(t, k)) \/ Block(t) \/ SpuriousWakeup(t) \/ Reply(t)
               \/ ErrorReply(t) \/ NoReply(t)
      PROVE  WakeupsCover'
  <2>1. UNCHANGED <<connections, b_stop>> /\ Getting \subseteq Getting' /\ (Asleep' => Asleep)
    BY <1>0, <1>6 DEF Call, Block, SpuriousWakeup, Reply, ErrorReply, NoReply, Getting, Asleep, TypeOK
  <2> QED
    BY <1>0, <2>1, GettingGrows
<1>7. CASE CloseStop
  BY <1>4, <1>7 DEF CloseStop
<1>8. CASE CloseNotify
  BY <1>4, <1>5, <1>8 DEF CloseNotify, IInv
<1>9. CASE (\E c \in Conns : RedisDrops(c)) \/ UNCHANGED vars
  BY <1>9 DEF RedisDrops, vars, WakeupsCover, IInv, Getting
<1> QED
  BY <1>1, <1>2, <1>3, <1>4, <1>5, <1>6, <1>7, <1>8, <1>9, Steps

(* The pool's inductive invariant.                                                 *)
LEMMA StepIInv == IInv /\ [Next]_vars => IInv'
  BY TypeStep, CounterStep, OwnerStep, WakeupStep DEF IInv

(* The inductive invariant holds of every reachable state.                         *)
THEOREM Invariant == Spec => []IInv
<1>1. Init => IInv
  BY InitIInv
<1>2. IInv /\ [Next]_vars => IInv'
  BY StepIInv
<1> QED
  BY <1>1, <1>2, PTL DEF Spec

(* No two commands ever share a connection.                                        *)
THEOREM SharingCorrect == Spec => []NoSharing
<1>1. IInv => NoSharing
  BY DEF IInv
<1> QED
  BY <1>1, Invariant, PTL

(* The failures of commands lose broken connections only.                          *)
THEOREM LossCorrect == Spec => []OnlyBrokenLost
<1>1. IInv => OnlyBrokenLost
  BY DEF IInv
<1> QED
  BY <1>1, Invariant, PTL

(* No command sleeps beside a connection without one awake to take it.             *)
THEOREM WakeupCorrect == Spec => []WakeupsCover
<1>1. IInv => WakeupsCover
  BY DEF IInv
<1> QED
  BY <1>1, Invariant, PTL

--------------------------------------------------------------------------------
(* The servers.  What a server does with its pool is a step of the pool.             *)
LEMMA ServerStepsPool ==
  ASSUME server \in DOMAIN Commands, [SNext]_svars
  PROVE  [Next]_vars /\ server' = server
<1>1. CASE OtherServer
  <2>1. Commands[server] \subseteq Kinds
    BY DEF Commands, GateCommands, StatusCommands, Kinds
  <2> QED
    BY <1>1, <2>1 DEF OtherServer, Next
<1>2. CASE StatusService
  <2>1. ASSUME NEW t \in Threads, NEW u \in Users, GetChatServer(t, u) PROVE Next
    BY <2>1 DEF GetChatServer, Next, Kinds
  <2>2. ASSUME NEW t \in Threads, Handler(t) PROVE [Next]_vars
    BY <2>2 DEF Handler, SetBorrows, SetReplied, SetUnanswered, SetReturns, Answer, Next, Command
  <2>3. ASSUME Signal \/ ShutdownReturns \/ LateSet PROVE UNCHANGED vars
    BY <2>3 DEF Signal, ShutdownReturns, LateSet
  <2>4. ASSUME DestroyRedisMgr \/ Exit PROVE Next
    BY <2>4 DEF DestroyRedisMgr, Exit, Next
  <2>5. ASSUME Environment PROVE Next
    BY <2>5 DEF Environment, Next
  <2>6. server' = server
    BY <1>2 DEF StatusService
  <2> QED
    BY <1>2, <2>1, <2>2, <2>3, <2>4, <2>5, <2>6 DEF StatusService, Main
<1>3. CASE UNCHANGED svars
  BY <1>3 DEF svars
<1> QED
  BY <1>1, <1>2, <1>3 DEF SNext

(* No step takes a call back.                                                       *)
LEMMA CallsGrow ==
  ASSUME calls \in Nat, [Next]_vars
  PROVE  calls' \in Nat /\ calls' >= calls
<1>1. ASSUME NEW t \in Threads, NEW k \in Kinds, Call(t, k) PROVE calls' = calls + 1
  BY <1>1 DEF Call
<1>2. ASSUME NEW t \in Threads,
             Command(t) \/ ErrorReply(t) \/ SpuriousWakeup(t)
      PROVE  calls' = calls
  BY <1>2 DEF Command, Get, GetMustWait, Block, SpuriousWakeup, Reply, ErrorReply, NoReply, Return
<1>3. CASE CloseStop \/ CloseNotify \/ UNCHANGED vars
  BY <1>3 DEF CloseStop, CloseNotify, vars
<1>4. ASSUME NEW c \in Conns, RedisDrops(c) PROVE calls' = calls
  BY <1>4 DEF RedisDrops
<1>5. calls' = calls \/ calls' = calls + 1
  BY <1>1, <1>2, <1>3, <1>4 DEF Next, CloseStop, CloseNotify, vars
<1> QED
  BY <1>5

(* The StatusServer: tokens are numbers of calls; a handler whose token is not the   *)
(* newest of its user overlapped with the newest; and what Set gave a handler, or a   *)
(* user was told, is in Redis under the conditions of ToldIsStored.                 *)
Answered == [user : Users, token : Nat]
ServiceTypes ==
  /\ server \in DOMAIN Commands /\ calls \in Nat
  /\ rpc \in [Threads -> [user : Users, token : Nat, is_ok : BOOLEAN] \cup {NoRpc}]
  /\ token \in [Users -> Nat] /\ newest \in [Users -> Nat]
  /\ told \subseteq Answered /\ late \subseteq Answered
Numbered == /\ \A t \in Threads : rpc[t] # NoRpc => rpc[t].token <= calls
            /\ \A r \in told : r.token <= calls
LateDoubted == \A r \in late : r.user \in doubted
OlderMixed == \A t \in Threads : rpc[t] # NoRpc =>
                rpc[t].token = newest[rpc[t].user] \/ newest[rpc[t].user] \in mixed
Sure(u, k) == k = newest[u] /\ k \notin mixed /\ u \notin doubted
OkIsStored == \A t \in Threads :
  rpc[t] # NoRpc /\ rpc[t].is_ok /\ Sure(rpc[t].user, rpc[t].token)
    => token[rpc[t].user] = rpc[t].token
ServiceInv == ServiceTypes /\ Numbered /\ LateDoubted /\ OlderMixed /\ OkIsStored /\ ToldIsStored

(* A step that leaves the service alone.                                            *)
LEMMA ServiceIdle ==
  ASSUME ServiceInv, UNCHANGED <<server, service>>, [Next]_vars
  PROVE  ServiceInv'
<1>1. calls' \in Nat /\ calls' >= calls
  BY CallsGrow DEF ServiceInv, ServiceTypes
<1> QED
  BY <1>1 DEF ServiceInv, ServiceTypes, Numbered, LateDoubted, OlderMixed, OkIsStored, Sure,
              ToldIsStored, service, history, Answered

(* A call begins: its token is newer than any, and a handler that is still at work    *)
(* for its user makes it, and its own, mixed.                                        *)
LEMMA ServiceCall ==
  ASSUME ServiceInv, NEW t \in Threads, NEW u \in Users, GetChatServer(t, u), server' = server
  PROVE  ServiceInv'
<1> DEFINE k == calls + 1
<1>1. /\ calls' = k /\ k \in Nat
      /\ rpc' = [rpc EXCEPT ![t] = [user |-> u, token |-> k, is_ok |-> FALSE]]
      /\ newest' = [newest EXCEPT ![u] = k]
      /\ mixed \subseteq mixed' /\ (Serving(u) # {} => k \in mixed')
      /\ UNCHANGED <<token, late, told, doubted>> /\ rpc[t] = NoRpc
  BY DEF GetChatServer, Call, ServiceInv, ServiceTypes
<1> HIDE DEF k
<1>2. ServiceTypes'
  BY <1>1 DEF ServiceInv, ServiceTypes
<1>3. /\ rpc'[t] # NoRpc /\ rpc'[t] = [user |-> u, token |-> k, is_ok |-> FALSE]
      /\ rpc'[t].user = u /\ rpc'[t].token = k /\ ~rpc'[t].is_ok
  <2>1. [user |-> u, token |-> k, is_ok |-> FALSE] \in [user : Users, token : Nat, is_ok : BOOLEAN]
    BY <1>1
  <2>2. [user |-> u, token |-> k, is_ok |-> FALSE] # NoRpc
    BY <2>1, RpcAssumption
  <2>3. rpc'[t] = [user |-> u, token |-> k, is_ok |-> FALSE]
    BY <1>1 DEF ServiceInv, ServiceTypes
  <2> QED
    BY <2>2, <2>3
<1>4. \A s \in Threads \ {t} : rpc'[s] = rpc[s]
  BY <1>1 DEF ServiceInv, ServiceTypes
<1>5. /\ \A s \in Threads : rpc[s] # NoRpc => rpc[s].user \in Users /\ rpc[s].token \in Nat /\ rpc[s].token < k
      /\ \A r \in told : r.user \in Users /\ r.token \in Nat /\ r.token < k
  BY DEF k, ServiceInv, ServiceTypes, Numbered, Answered
<1>6. Numbered'
  BY <1>1, <1>3, <1>4, <1>5 DEF Numbered
<1>7. OlderMixed'
  <2>1. ASSUME NEW s \in Threads, s # t, rpc[s] # NoRpc
        PROVE  rpc[s].token = newest'[rpc[s].user] \/ newest'[rpc[s].user] \in mixed'
    <3>1. CASE rpc[s].user = u
      BY <1>1, <2>1, <3>1 DEF Serving, ServiceInv, ServiceTypes
    <3>2. CASE rpc[s].user # u
      BY <1>1, <1>5, <2>1, <3>2 DEF ServiceInv, ServiceTypes, OlderMixed
    <3> QED
      BY <3>1, <3>2
  <2> QED
    BY <1>1, <1>3, <1>4, <2>1 DEF OlderMixed, ServiceInv, ServiceTypes
<1>8. OkIsStored'
  BY <1>1, <1>3, <1>4, <1>5 DEF OkIsStored, Sure, ServiceInv, ServiceTypes
<1>9. ToldIsStored'
  BY <1>1, <1>5 DEF ToldIsStored, ServiceInv, ServiceTypes
<1> QED
  BY <1>1, <1>2, <1>6, <1>7, <1>8, <1>9 DEF ServiceInv, LateDoubted

(* What Set gives a handler changes neither its user nor its token.                  *)
SameCalls(t) ==
  \A s \in Threads :
    /\ rpc'[s] # NoRpc <=> rpc[s] # NoRpc
    /\ rpc[s] # NoRpc => rpc'[s].user = rpc[s].user /\ rpc'[s].token = rpc[s].token
    /\ s # t => rpc'[s] = rpc[s]
RpcTypes == [Threads -> [user : Users, token : Nat, is_ok : BOOLEAN] \cup {NoRpc}]
LEMMA SetGives ==
  ASSUME ServiceTypes, NEW t \in Threads, rpc[t] # NoRpc, rpc' = [rpc EXCEPT ![t] = Stored(t)]
  PROVE  SameCalls(t) /\ rpc' \in RpcTypes
<1> DEFINE r == Stored(t)
<1>1. rpc[t] \in [user : Users, token : Nat, is_ok : BOOLEAN]
  BY DEF ServiceTypes
<1>2. r \in [user : Users, token : Nat, is_ok : BOOLEAN] /\ r.user = rpc[t].user /\ r.token = rpc[t].token
  BY <1>1 DEF Stored
<1>4. rpc' = [rpc EXCEPT ![t] = r]
  OBVIOUS
<1>5. r # NoRpc
  BY <1>2, RpcAssumption
<1> HIDE DEF r
<1>6. \A s \in Threads : rpc'[s] = IF s = t THEN r ELSE rpc[s]
  BY <1>4 DEF ServiceTypes
<1>7. rpc' \in RpcTypes
  BY <1>2, <1>4 DEF ServiceTypes, RpcTypes
<1> QED
  BY <1>2, <1>5, <1>6, <1>7 DEF SameCalls

(* A SET is executed for a handler: if its token is not the newest of its user, the    *)
(* newest is mixed, and nothing is sure of that user.                                *)
LEMMA ServiceWritten ==
  ASSUME ServiceInv, NEW t \in Threads, rpc[t] # NoRpc, Written(rpc[t].user, rpc[t].token),
         SameCalls(t), rpc' \in RpcTypes, UNCHANGED <<server, calls, late, history>>
  PROVE  ServiceInv'
<1>1. rpc[t] \in [user : Users, token : Nat, is_ok : BOOLEAN]
  BY DEF ServiceInv, ServiceTypes
<1>2. ASSUME NEW s \in Threads, rpc'[s] # NoRpc
      PROVE  /\ rpc[s] # NoRpc /\ rpc'[s].user = rpc[s].user /\ rpc'[s].token = rpc[s].token
             /\ s # t => rpc'[s] = rpc[s]
  BY <1>2 DEF SameCalls
<1>0. calls' = calls /\ late' = late /\ told' = told /\ newest' = newest /\ mixed' = mixed /\ doubted' = doubted
  BY DEF history
<1>3. ServiceTypes'
  BY <1>1 DEF ServiceInv, ServiceTypes, Written, history, RpcTypes
<1>4. token' = [token EXCEPT ![rpc[t].user] = rpc[t].token]
  BY DEF Written
<1>5. \A u \in Users : \A k \in Nat : Sure(u, k) /\ token[u] = k => token'[u] = k
  BY <1>1, <1>4 DEF Sure, ServiceInv, ServiceTypes, OlderMixed
<1>6. Numbered' /\ LateDoubted' /\ OlderMixed'
  <2>1. Numbered'
    BY <1>0, <1>2 DEF ServiceInv, Numbered
  <2>2. LateDoubted'
    BY <1>0 DEF ServiceInv, LateDoubted
  <2>3. OlderMixed'
    BY <1>0, <1>2 DEF ServiceInv, OlderMixed
  <2> QED
    BY <2>1, <2>2, <2>3
<1>7. ToldIsStored'
  BY <1>5 DEF ServiceInv, ServiceTypes, Answered, ToldIsStored, Sure, history
<1>8. OkIsStored'
  <2>1. token'[rpc[t].user] = rpc[t].token
    BY <1>1, <1>4 DEF ServiceInv, ServiceTypes
  <2>2. ASSUME NEW s \in Threads, s # t, rpc[s] # NoRpc, rpc[s].is_ok, Sure(rpc[s].user, rpc[s].token)
        PROVE  token'[rpc[s].user] = rpc[s].token
    <3>1. rpc[s].user \in Users /\ rpc[s].token \in Nat
      BY <2>2 DEF ServiceInv, ServiceTypes
    <3>2. token[rpc[s].user] = rpc[s].token
      BY <2>2 DEF ServiceInv, OkIsStored
    <3> QED
      BY <1>5, <2>2, <3>1, <3>2
  <2>4. ASSUME NEW s \in Threads, rpc'[s] # NoRpc, rpc'[s].is_ok, Sure(rpc[s].user, rpc[s].token)'
        PROVE  token'[rpc'[s].user] = rpc'[s].token
    <3>1. CASE s = t
      BY <1>2, <2>1, <2>4, <3>1
    <3>2. CASE s # t
      <4>1. rpc[s] # NoRpc /\ rpc'[s] = rpc[s]
        BY <1>2, <2>4, <3>2
      <4>2. rpc[s].is_ok /\ Sure(rpc[s].user, rpc[s].token)
        BY <1>0, <2>4, <4>1 DEF Sure
      <4> QED
        BY <2>2, <3>2, <4>1, <4>2
    <3> QED
      BY <3>1, <3>2
  <2> QED
    BY <2>4 DEF OkIsStored
<1> QED
  BY <1>3, <1>6, <1>7, <1>8 DEF ServiceInv

(* What users are told, through every step of a server.                             *)
LEMMA ServiceStep == ServiceInv /\ [SNext]_svars => ServiceInv'
<1> SUFFICES ASSUME ServiceInv, [SNext]_svars PROVE ServiceInv'
  OBVIOUS
<1>0. [Next]_vars /\ server' = server
  BY ServerStepsPool DEF ServiceInv, ServiceTypes
<1>1. ASSUME NEW t \in Threads, NEW u \in Users, GetChatServer(t, u) PROVE ServiceInv'
  BY <1>0, <1>1, ServiceCall
<1>2. ASSUME NEW t \in Threads, SetReplied(t) PROVE ServiceInv'
  <2>1. calls' = calls /\ rpc[t] # NoRpc /\ UNCHANGED <<late, history>>
    BY <1>2 DEF SetReplied, Reply
  <2>2. CASE Written(rpc[t].user, rpc[t].token) /\ rpc' = [rpc EXCEPT ![t] = Stored(t)]
    <3>1. SameCalls(t) /\ rpc' \in RpcTypes
      BY <2>1, <2>2, SetGives DEF ServiceInv
    <3> QED
      BY <1>0, <2>1, <2>2, <3>1, ServiceWritten
  <2>3. CASE UNCHANGED <<token, rpc>>
    BY <1>0, <2>1, <2>3, ServiceIdle DEF service
  <2> QED
    BY <1>2, <2>2, <2>3 DEF SetReplied
<1>3. ASSUME NEW t \in Threads, SetUnanswered(t) PROVE ServiceInv'
  <2>1. calls' = calls /\ rpc[t] # NoRpc
    BY <1>3 DEF SetUnanswered, NoReply
  <2>2. CASE UNCHANGED <<late, doubted>>
    <3>1. UNCHANGED <<rpc, late, history>>
      BY <1>3, <2>2 DEF SetUnanswered, history
    <3>2. CASE UNCHANGED token
      BY <1>0, <3>1, <3>2, ServiceIdle DEF service
    <3>3. CASE Written(rpc[t].user, rpc[t].token)
      <4>1. SameCalls(t) /\ rpc' \in RpcTypes
        BY <3>1 DEF SameCalls, RpcTypes, ServiceInv, ServiceTypes
      <4> QED
        BY <1>0, <2>1, <3>1, <3>3, <4>1, ServiceWritten
    <3> QED
      BY <1>3, <3>2, <3>3 DEF SetUnanswered
  <2>3. CASE /\ late' = late \cup {Row(t)} /\ doubted' = doubted \cup {rpc[t].user}
             /\ UNCHANGED token
    <3>1. Row(t) \in Answered /\ Row(t).user = rpc[t].user
      BY <2>1 DEF Row, Answered, ServiceInv, ServiceTypes
    <3> QED
      BY <1>0, <1>3, <2>1, <2>3, <3>1
      DEF SetUnanswered, ServiceInv, ServiceTypes, Numbered, LateDoubted, OlderMixed, OkIsStored,
          Sure, ToldIsStored
  <2> QED
    BY <1>3, <2>2, <2>3 DEF SetUnanswered
<1>4. CASE LateSet
  <2> PICK r \in late : Written(r.user, r.token) /\ late' = late \ {r}
    BY <1>4 DEF LateSet
  <2>1. r \in Answered /\ r.user \in doubted /\ calls' = calls
    BY <1>4 DEF ServiceInv, ServiceTypes, LateDoubted, LateSet, vars
  <2>2. /\ token' \in [Users -> Nat]
        /\ \A u \in Users : u \notin doubted => token'[u] = token[u]
    BY <2>1 DEF Written, Answered, ServiceInv, ServiceTypes
  <2> QED
    BY <1>0, <1>4, <2>1, <2>2
    DEF LateSet, history, ServiceInv, ServiceTypes, Answered, Numbered, LateDoubted, OlderMixed,
        OkIsStored, Sure, ToldIsStored
<1>5. ASSUME NEW t \in Threads, Answer(t) PROVE ServiceInv'
  <2>1. /\ calls' = calls /\ rpc[t] # NoRpc /\ rpc' = [rpc EXCEPT ![t] = NoRpc]
        /\ UNCHANGED <<token, late, newest, mixed, doubted>>
    BY <1>5 DEF Answer, vars
  <2>2. rpc[t] \in [user : Users, token : Nat, is_ok : BOOLEAN]
    BY <2>1 DEF ServiceInv, ServiceTypes
  <2>3. /\ told' \subseteq Answered
        /\ \A r \in told' : r \in told \/ (rpc[t].is_ok /\ r.user = rpc[t].user /\ r.token = rpc[t].token)
    BY <1>5, <2>2 DEF Answer, Row, Answered, ServiceInv, ServiceTypes
  <2>4. ServiceTypes' /\ Numbered' /\ LateDoubted'
    BY <1>0, <2>1, <2>2, <2>3 DEF ServiceInv, ServiceTypes, Numbered, LateDoubted
  <2>5. OlderMixed' /\ OkIsStored'
    BY <2>1 DEF ServiceInv, ServiceTypes, OlderMixed, OkIsStored, Sure
  <2>6. ToldIsStored'
    BY <2>1, <2>3 DEF ServiceInv, ToldIsStored, OkIsStored, Sure
  <2> QED
    BY <2>4, <2>5, <2>6 DEF ServiceInv
<1>6. CASE UNCHANGED service
  BY <1>0, <1>6, ServiceIdle
<1> QED
  BY <1>1, <1>2, <1>3, <1>4, <1>5, <1>6
  DEF SNext, OtherServer, StatusService, Handler, SetBorrows, SetReturns, Signal, Main,
      ShutdownReturns, DestroyRedisMgr, Exit, Environment, svars

(* Both hold in the ChatServer, the GateServer and the StatusServer.                 *)
LEMMA ServiceInvariant == SSpec => []ServiceInv
<1>1. SInit => ServiceInv
  BY DEF SInit, Init, ServiceInv, ServiceTypes, Answered, Numbered, LateDoubted, OlderMixed,
         OkIsStored, ToldIsStored
<1> QED
  BY <1>1, ServiceStep, PTL DEF SSpec

(* Each server uses its pool as RedisPool has it, so that all of the above is true of  *)
(* each of them: broken connections only are lost.                                   *)
THEOREM ServersUsePool == SSpec => Spec /\ []OnlyBrokenLost
<1>1. SInit => Init
  BY DEF SInit
<1>2. ServiceInv /\ [SNext]_svars => [Next]_vars
  BY ServerStepsPool DEF ServiceInv, ServiceTypes
<1>3. SSpec => Spec
  BY <1>1, <1>2, ServiceInvariant, PTL DEF SSpec, Spec
<1> QED
  BY <1>3, LossCorrect, PTL

(* The newest token a user was told is the one in Redis, but for overlapping calls    *)
(* and late SETs.                                                                    *)
THEOREM TokenCorrect == SSpec => []ToldIsStored
<1>1. ServiceInv => ToldIsStored
  BY DEF ServiceInv
<1> QED
  BY <1>1, ServiceInvariant, PTL

================================================================================
