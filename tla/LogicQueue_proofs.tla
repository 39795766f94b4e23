---------------------------- MODULE LogicQueue_proofs ----------------------------
(* Proofs, for any number of io_context threads and any set of messages, of the   *)
(* safety properties of LogicSystem's queue and of its refinement of Fifo, and    *)
(* then that the server around it keeps what they rest on.                        *)
EXTENDS Shutdown, SequenceTheorems, FiniteSetTheorems, TLAPS

USE DEF WorkerPCs, DtorPCs

(* The initial state of LogicSystem satisfies the inductive invariant.            *)
LEMMA InitIInv == Init => IInv
<1>1. Init => TypeOK
  BY EmptySeq DEF Init, TypeOK
<1>2. Init => OrderInv
  <2>1. << >> = << >> \o (<< >> \o << >>)
    OBVIOUS
  <2> QED
    BY <2>1 DEF Init, OrderInv
<1> QED
  BY <1>1, <1>2 DEF Init, IInv, NoLostWakeup, SleepInv, StopInv

(* Types: every step of a producer, of DealMsg or of the destructor keeps queues   *)
(* and batches sequences of posted messages.                                       *)
LEMMA TypeStep == TypeOK /\ [Next]_vars => TypeOK'
<1> SUFFICES ASSUME TypeOK, [Next]_vars PROVE TypeOK'
  OBVIOUS
<1> USE DEF TypeOK
<1>1. ASSUME NEW p \in Producers, NEW m \in Msgs, PostMsgToQue(p, m) PROVE TypeOK'
  BY <1>1 DEF PostMsgToQue
<1>2. ASSUME NEW p \in Producers, PostNotify(p) PROVE TypeOK'
  BY <1>2 DEF PostNotify, NotifyOne
<1>3. CASE Lock \/ MustWait \/ Block \/ SpuriousWakeup
  BY <1>3 DEF Lock, MustWait, Block, SpuriousWakeup
<1>4. CASE Swap
  BY <1>4 DEF Swap
<1>5. CASE Handle
  BY <1>5 DEF Handle
<1>6. CASE EndBatch
  BY <1>6 DEF EndBatch
<1>7. CASE SetStop \/ StopNotify \/ Join
  BY <1>7 DEF SetStop, StopNotify, Join, NotifyOne
<1>8. CASE UNCHANGED vars
  BY <1>8 DEF vars
<1> QED
  BY <1>1, <1>2, <1>3, <1>4, <1>5, <1>6, <1>7, <1>8
  DEF Next, Producer, DealMsg, Destructor

(* A message is in exactly one place, in the order of posting: what was handled,   *)
(* then the worker's batch, then the shared queue.                                 *)
LEMMA OrderStep == TypeOK /\ OrderInv /\ [Next]_vars => OrderInv'
<1> SUFFICES ASSUME TypeOK, OrderInv, [Next]_vars PROVE OrderInv'
  OBVIOUS
<1> USE DEF TypeOK, OrderInv
<1>1. ASSUME NEW p \in Producers, NEW m \in Msgs, PostMsgToQue(p, m) PROVE OrderInv'
  <2>1. posted' = posted \o <<m>> /\ msg_que' = msg_que \o <<m>>
    BY <1>1, AppendIsConcat DEF PostMsgToQue
  <2>2. handled' = handled /\ process_que' = process_que /\ wpc' = wpc
    BY <1>1 DEF PostMsgToQue
  <2>3. (handled \o (process_que \o msg_que)) \o <<m>>
          = handled \o (process_que \o (msg_que \o <<m>>))
    OBVIOUS
  <2> QED
    BY <2>1, <2>2, <2>3
<1>2. CASE Swap
  <2>1. process_que = << >>
    BY <1>2 DEF Swap
  <2>2. << >> \o msg_que = msg_que \o << >>
    OBVIOUS
  <2> QED
    BY <1>2, <2>1, <2>2 DEF Swap
<1>3. CASE Handle
  <2>1. process_que = <<Head(process_que)>> \o Tail(process_que)
    BY <1>3 DEF Handle
  <2>2. handled' = handled \o <<Head(process_que)>>
    BY <1>3 DEF Handle
  <2>3. Head(process_que) \in Msgs /\ Tail(process_que) \in Seq(Msgs)
    BY <1>3 DEF Handle
  <2>4. \A h, t, q \in Seq(Msgs) : \A x \in Msgs :
          h \o ((<<x>> \o t) \o q) = (h \o <<x>>) \o (t \o q)
    BY SMTT(40)
  <2>5. handled \o ((<<Head(process_que)>> \o Tail(process_que)) \o msg_que)
          = (handled \o <<Head(process_que)>>) \o (Tail(process_que) \o msg_que)
    BY SMTT(40), <2>3, <2>4
  <2>6. posted' = posted /\ msg_que' = msg_que /\ process_que' = Tail(process_que)
        /\ wpc' = "process"
    BY <1>3 DEF Handle
  <2>7. posted' = handled' \o (process_que' \o msg_que')
    BY <2>1, <2>2, <2>5, <2>6
  <2> QED
    BY <2>6, <2>7
<1>4. CASE EndBatch
  BY <1>4 DEF EndBatch
<1>5. CASE UNCHANGED <<msg_que, process_que, posted, handled>> /\ (wpc' = "process" <=> wpc = "process")
  BY <1>5
<1>6. ASSUME NEW p \in Producers, PostNotify(p) PROVE OrderInv'
  BY <1>5, <1>6 DEF PostNotify, NotifyOne
<1> QED
  BY <1>1, <1>2, <1>3, <1>4, <1>5, <1>6
  DEF Next, Producer, DealMsg, Destructor, Lock, MustWait, Block, SpuriousWakeup,
      SetStop, StopNotify, Join, NotifyOne, vars

(* The wake-up protocol: the notify of the post that filled the queue is still to   *)
(* come whenever the worker sleeps on a non-empty queue.                           *)
LEMMA WakeupStep ==
  TypeOK /\ NoLostWakeup /\ SleepInv /\ [Next]_vars => NoLostWakeup' /\ SleepInv'
<1> SUFFICES ASSUME TypeOK, NoLostWakeup, SleepInv, [Next]_vars
             PROVE  NoLostWakeup' /\ SleepInv'
  OBVIOUS
<1> USE DEF TypeOK, NoLostWakeup, SleepInv
<1>1. ASSUME NEW p \in Producers, NEW m \in Msgs, PostMsgToQue(p, m)
      PROVE  NoLostWakeup' /\ SleepInv'
  <2>1. SleepInv'
    BY <1>1 DEF PostMsgToQue, MutexFree
  <2>2. CASE msg_que = << >>
    <3>1. Len(msg_que') = 1
      BY <1>1, <2>2 DEF PostMsgToQue
    <3>2. ppc'[p] = "notify"
      BY <1>1, <3>1 DEF PostMsgToQue
    <3> QED
      BY <2>1, <3>2
  <2>3. CASE msg_que # << >>
    <3>1. \A q \in Producers : ppc[q] = "notify" => ppc'[q] = "notify"
      BY <1>1 DEF PostMsgToQue
    <3> QED
      BY <1>1, <2>1, <2>3, <3>1 DEF PostMsgToQue
  <2> QED
    BY <2>2, <2>3
<1>2. ASSUME NEW p \in Producers, PostNotify(p) PROVE NoLostWakeup' /\ SleepInv'
  BY <1>2 DEF PostNotify, NotifyOne
<1>3. CASE Lock \/ SpuriousWakeup \/ MustWait \/ Swap
  BY <1>3 DEF Lock, SpuriousWakeup, MustWait, Swap
<1>4. CASE Block
  BY <1>4 DEF Block
<1>5. CASE Handle \/ EndBatch
  BY <1>5 DEF Handle, EndBatch
<1>6. CASE SetStop \/ StopNotify \/ Join
  BY <1>6 DEF SetStop, StopNotify, Join, NotifyOne
<1>7. CASE UNCHANGED vars
  BY <1>7 DEF vars
<1> QED
  BY <1>1, <1>2, <1>3, <1>4, <1>5, <1>6, <1>7
  DEF Next, Producer, DealMsg, Destructor

(* The stop flag: once ~LogicSystem has set it nobody posts, so a batch swapped out *)
(* with the flag set is the last one and leaves the queue empty.                   *)
LEMMA StopStep == TypeOK /\ StopInv /\ [Next]_vars => StopInv'
<1> SUFFICES ASSUME TypeOK, StopInv, [Next]_vars PROVE StopInv'
  OBVIOUS
<1> USE DEF TypeOK, StopInv
<1>1. ASSUME NEW p \in Producers, NEW m \in Msgs, PostMsgToQue(p, m) PROVE StopInv'
  BY <1>1 DEF PostMsgToQue
<1>2. ASSUME NEW p \in Producers, PostNotify(p) PROVE StopInv'
  BY <1>2 DEF PostNotify, NotifyOne
<1>3. CASE Lock \/ MustWait \/ Block \/ SpuriousWakeup
  BY <1>3 DEF Lock, MustWait, Block, SpuriousWakeup
<1>4. CASE Swap
  BY <1>4 DEF Swap
<1>5. CASE Handle \/ EndBatch
  BY <1>5 DEF Handle, EndBatch
<1>6. CASE SetStop
  BY <1>6 DEF SetStop
<1>7. CASE StopNotify \/ Join
  BY <1>7 DEF StopNotify, Join, NotifyOne
<1>8. CASE UNCHANGED vars
  BY <1>8 DEF vars
<1> QED
  BY <1>1, <1>2, <1>3, <1>4, <1>5, <1>6, <1>7, <1>8
  DEF Next, Producer, DealMsg, Destructor

(* The four together.                                                              *)
LEMMA StepIInv == IInv /\ [Next]_vars => IInv'
  BY TypeStep, OrderStep, WakeupStep, StopStep DEF IInv

(* The inductive invariant of LogicSystem's queue, under every interleaving of      *)
(* PostMsgToQue, DealMsg and ~LogicSystem.                                         *)
THEOREM Invariant == Spec => []IInv
  BY InitIInv, StepIInv, PTL DEF Spec

(* PostMsgToQue's notify on size() == 1 never leaves the worker asleep on a         *)
(* non-empty queue with nobody about to notify.                                    *)
THEOREM WakeupCorrect == Spec => []NoLostWakeup
  BY Invariant, PTL DEF IInv

(* When DealMsg has returned, every message ever posted has been handled.           *)
THEOREM DrainCorrect == Spec => []DrainedAtExit
<1>1. IInv => DrainedAtExit
  <2> SUFFICES ASSUME IInv, wpc = "done" PROVE handled = posted
    BY DEF DrainedAtExit
  <2>1. process_que = << >> /\ msg_que = << >>
    BY DEF IInv, OrderInv, StopInv
  <2>2. handled \o (<< >> \o << >>) = handled
    BY DEF IInv, TypeOK
  <2> QED
    BY <2>1, <2>2 DEF IInv, OrderInv
<1> QED
  BY Invariant, <1>1, PTL

(* LogicSystem's queue implements the abstract FIFO: a post is a Put, the call of a  *)
(* handler a Get, every other step a stutter.                                      *)
THEOREM QueueRefinesFifo == Spec => Queue!Spec
<1>1. Init => Queue!Init
  BY DEF Init, Queue!Init
<1>2. IInv /\ [Next]_vars => [Queue!Next]_<<posted, handled>>
  <2> SUFFICES ASSUME IInv, [Next]_vars PROVE [Queue!Next]_<<posted, handled>>
    OBVIOUS
  <2>1. ASSUME NEW p \in Producers, NEW m \in Msgs, PostMsgToQue(p, m) PROVE Queue!Put
    BY <2>1 DEF PostMsgToQue, Queue!Put
  <2>2. CASE Handle
    <3>1. process_que \in Seq(Msgs) /\ process_que # << >> /\ msg_que \in Seq(Msgs)
          /\ handled \in Seq(Msgs)
      BY <2>2 DEF Handle, IInv, TypeOK
    <3>2. posted = handled \o (process_que \o msg_que)
      BY DEF IInv, OrderInv
    <3>3. Len(handled) < Len(posted) /\ posted[Len(handled) + 1] = Head(process_que)
      BY <3>1, <3>2
    <3>4. Queue!Get
      BY <2>2, <3>3 DEF Handle, Queue!Get
    <3> QED
      BY <3>4 DEF Queue!Next
  <2>3. CASE UNCHANGED <<posted, handled>>
    BY <2>3
  <2> QED
    BY <2>1, <2>2, <2>3
    DEF Next, Producer, DealMsg, Destructor, PostNotify, Lock, MustWait, Block, Swap,
        EndBatch, SpuriousWakeup, SetStop, StopNotify, Join, vars, Queue!Next
<1> QED
  BY <1>1, <1>2, Invariant, PTL DEF Spec, Queue!Spec

--------------------------------------------------------------------------------
(* The server.  Once stop has joined them the threads have ended, and a thread that *)
(* has ended is in no PostMsgToQue; messages were left over if any is still to be   *)
(* handled, as one is while its handler waits in a pool; and only then has a handler *)
(* used what was gone.                                                              *)
Unwinding == mpc \in {"unwinding", "statics", "exited"}
ServerInv ==
  /\ \A p \in ended : ppc[p] = "run"
  /\ Unwinding => ended = Producers
  /\ Unwinding /\ ~left => handled = posted
  /\ gone # {} => Unwinding
  /\ "handler" \in dangling => left /\ gone # {}
  /\ waitsIn # {} => process_que # <<>>

(* The server's steps as steps of the queue: the destructor runs when all threads   *)
(* have ended (LogicSystem.cc:15, IOServicePool.cpp:23).                            *)
LEMMA ServerStepsQueue == ServerInv /\ [SNext]_svars => [Next]_vars
<1> SUFFICES ASSUME ServerInv, [SNext]_svars PROVE [Next]_vars
  OBVIOUS
<1>1. CASE DestroyLogicSystem
  <2>1. \A p \in Producers : ppc[p] = "run"
    BY <1>1 DEF DestroyLogicSystem, ServerInv, Unwinding
  <2>2. SetStop
    BY <1>1, <2>1 DEF DestroyLogicSystem, SetStop
  <2> QED
    BY <2>2 DEF Next, Destructor
<1>2. ASSUME NEW p \in Producers, IoThread(p) PROVE [Next]_vars
  BY <1>2 DEF IoThread, Post, Notify, RunReturns, Next, Producer
<1>3. CASE Worker \/ WorkerWakes \/ JoinWorker
  BY <1>3 DEF Worker, WorkerHandles, WorkerWaits, WorkerWakes, JoinWorker, Next, DealMsg, Destructor
<1>4. CASE \/ \E error \in BOOLEAN : HandleAccept(error)
           \/ \E s \in DOMAIN session : \E waits \in BOOLEAN : Close(s, waits)
           \/ Signal \/ StopReturns \/ MainReturns \/ Exit
           \/ \E x \in Managers : Destroy(x)
           \/ \E x \in Pools : HandlerWaits(x)
           \/ UNCHANGED svars
  BY <1>4 DEF HandleAccept, Close, Signal, StopReturns, MainReturns, Exit, Destroy,
              HandlerWaits, svars
<1> QED
  BY <1>1, <1>2, <1>3, <1>4 DEF SNext, Ending

(* A message whose handler is still to run is not among those handled.               *)
LEMMA BatchIsUnhandled == IInv /\ process_que # <<>> => handled # posted
<1> SUFFICES ASSUME IInv, process_que # <<>> PROVE handled # posted
  OBVIOUS
<1>1. /\ handled \in Seq(Msgs) /\ process_que \in Seq(Msgs) /\ msg_que \in Seq(Msgs)
      /\ posted = handled \o (process_que \o msg_que)
  BY DEF IInv, TypeOK, OrderInv
<1>2. Len(posted) > Len(handled)
  BY <1>1
<1> QED
  BY <1>2

(* The server's invariant: threads post only while they run, so what was handled    *)
(* when they had been joined stays everything; a handler runs, waits, or is woken in *)
(* a pool that is destroyed, only for a message of the batch.                        *)
LEMMA ServerStep == IInv /\ ServerInv /\ [SNext]_svars => ServerInv'
<1> SUFFICES ASSUME IInv, ServerInv, [SNext]_svars PROVE ServerInv'
  OBVIOUS
<1> USE DEF ServerInv, Unwinding
<1>1. ASSUME NEW p \in Producers, NEW m \in Msgs, Post(p, m) PROVE ServerInv'
  <2>1. p \notin ended /\ ~Unwinding
    BY <1>1 DEF Post
  <2>2. \A q \in ended : ppc'[q] = "run"
    BY <1>1, <2>1 DEF Post, PostMsgToQue, pool, IInv, TypeOK
  <2> QED
    BY <1>1, <2>1, <2>2 DEF Post, PostMsgToQue, pool, end
<1>2. ASSUME NEW p \in Producers, Notify(p) PROVE ServerInv'
  BY <1>2 DEF Notify, PostNotify, pool, end, IInv, TypeOK
<1>3. ASSUME NEW p \in Producers, RunReturns(p) PROVE ServerInv'
  BY <1>3 DEF RunReturns, vars, end
<1>4. CASE WorkerHandles
  <2>1. handled # posted
    BY <1>4, BatchIsUnhandled DEF WorkerHandles, Handle
  <2> QED
    BY <1>4, <2>1 DEF WorkerHandles, Handle, pool
<1>5. ASSUME NEW x \in Pools, HandlerWaits(x) PROVE ServerInv'
  <2>1. handled # posted
    BY <1>5, BatchIsUnhandled DEF HandlerWaits
  <2> QED
    BY <1>5, <2>1 DEF HandlerWaits, vars, pool
<1>6. CASE WorkerWaits
  <2>1. wpc \in {"lock", "woken", "test", "block"} \/ process_que = <<>>
    BY <1>6 DEF WorkerWaits, Lock, MustWait, Block, Swap, EndBatch
  <2>2. process_que = <<>>
    BY <2>1 DEF IInv, OrderInv
  <2> QED
    BY <1>6, <2>2 DEF WorkerWaits, Lock, MustWait, Block, Swap, EndBatch, pool, end
<1>7. CASE WorkerWakes \/ JoinWorker \/ DestroyLogicSystem
  BY <1>7 DEF WorkerWakes, JoinWorker, DestroyLogicSystem, SpuriousWakeup, StopNotify, Join,
              NotifyOne, pool, end
<1>8. CASE UNCHANGED <<vars, ended, end>>
  BY <1>8 DEF vars, end
<1>9. CASE Signal \/ MainReturns \/ Exit
  BY <1>9 DEF Signal, MainReturns, Exit, vars, pool
<1>10. ASSUME NEW x \in Managers, Destroy(x) PROVE ServerInv'
  <2>1. UNCHANGED vars /\ UNCHANGED <<ended, mpc, left>> /\ waitsIn' \subseteq waitsIn
    BY <1>10 DEF Destroy, pool
  <2>2. Unwinding
    BY <1>10 DEF Destroy
  <2>3. "handler" \in dangling' => left /\ gone' # {}
    <3>1. ASSUME "handler" \in dangling' PROVE "handler" \in dangling \/ x \in waitsIn
      BY <1>10, <3>1, ManagersAssumption DEF Destroy
    <3>2. x \in waitsIn => left
      BY <2>2, BatchIsUnhandled
    <3>3. gone' # {}
      BY <1>10 DEF Destroy
    <3> QED
      BY <3>1, <3>2, <3>3
  <2> QED
    BY <2>1, <2>2, <2>3 DEF vars
<1>11. CASE StopReturns
  <2>1. ended = Producers /\ left' = (handled # posted) /\ ~Unwinding
    BY <1>11 DEF StopReturns
  <2>2. UNCHANGED <<ended, ppc, handled, posted, process_que, gone, dangling, waitsIn>>
    BY <1>11 DEF StopReturns, vars, pool
  <2>3. gone = {}
    BY <2>1
  <2>4. "handler" \notin dangling
    BY <2>3
  <2> QED
    BY <2>1, <2>2, <2>3, <2>4
<1> QED
  BY <1>1, <1>2, <1>3, <1>4, <1>5, <1>6, <1>7, <1>8, <1>9, <1>10, <1>11
  DEF SNext, Ending, IoThread, Worker, HandleAccept, Close, svars, pool

(* What the queue's proofs need holds all through the server's life and end.         *)
LEMMA ServerInvariant == SSpec => [](IInv /\ ServerInv)
<1>1. SInit => IInv /\ ServerInv
  BY InitIInv DEF SInit, PoolInit, Init, ServerInv, Unwinding
<1>2. IInv /\ ServerInv /\ [SNext]_svars => (IInv /\ ServerInv)'
  BY ServerStep, ServerStepsQueue, StepIInv
<1> QED
  BY <1>1, <1>2, PTL DEF SSpec

(* The server implements LogicQueue: ~LogicSystem runs when nobody will post.        *)
THEOREM ServerImplementsQueue == SSpec => ImplementsLogicQueue
<1>1. SInit => Init
  BY DEF SInit
<1> QED
  BY <1>1, ServerStepsQueue, ServerInvariant, PTL DEF SSpec, ImplementsLogicQueue, Spec

(* So the server's messages are handled in the order in which they were posted, each  *)
(* once, across the end of main and of the singletons (LogicSystem.cc:62).           *)
THEOREM ServerRefinesFifo == SSpec => ImplementsFifo
  BY ServerImplementsQueue, QueueRefinesFifo DEF ImplementsLogicQueue, ImplementsFifo

(* And its worker ends only when it has handled all of them (LogicSystem.cc:45).      *)
THEOREM ServerDrains == SSpec => [](DrainedAtExit /\ NoLostWakeup)
  BY ServerImplementsQueue, DrainCorrect, WakeupCorrect, PTL DEF ImplementsLogicQueue

(* The io_contexts are taken in turn, and there is always one to take               *)
(* (IOServicePool.cpp:12).                                                           *)
LEMMA NextTakesOne ==
  ASSUME NEW io \in Producers
  PROVE  After(io) \in Producers
<1>1. PICK n : n = Cardinality(Producers)
  OBVIOUS
<1>2. n \in Nat /\ Producers = 0..(n - 1) /\ Producers # {}
  BY <1>1, PoolAssumption, FS_CardinalityType
<1>3. n \in Nat \ {0} /\ io \in Nat
  BY <1>2
<1>4. (io + 1) % n \in 0..(n - 1)
  BY <1>3
<1> QED
  BY <1>1, <1>2, <1>4 DEF After

(* A session once made is there, on its io_context, to the end.                     *)
SessionRec == [at : Producers, state : {"accepting", "open", "closed"}]
PoolInv == STypeOK /\ session # <<>>

LEMMA SessionMade ==
  ASSUME NEW old \in Seq(SessionRec), NEW io \in Producers
  PROVE  MakeSession(old, io) \in Seq(SessionRec) /\ MakeSession(old, io) # <<>>
<1>1. [at |-> io, state |-> "accepting"] \in SessionRec
  BY DEF SessionRec
<1> QED
  BY <1>1, AppendProperties DEF MakeSession

LEMMA SessionSet ==
  ASSUME PoolInv, NEW s \in DOMAIN session, NEW to \in {"open", "closed"}
  PROVE  /\ [session EXCEPT ![s].state = to] \in Seq(SessionRec)
         /\ [session EXCEPT ![s].state = to] # <<>>
<1>1. session \in Seq(SessionRec) /\ session # <<>> /\ s \in 1..Len(session)
  BY LenProperties DEF PoolInv, STypeOK, SessionRec
<1>2. [session[s] EXCEPT !.state = to] \in SessionRec
  <2>1. session[s] \in SessionRec
    BY <1>1, ElementOfSeq
  <2> QED
    BY <2>1 DEF SessionRec
<1> DEFINE new == [session EXCEPT ![s] = [session[s] EXCEPT !.state = to]]
<1>3. new \in Seq(SessionRec) /\ Len(new) = Len(session)
  BY <1>1, <1>2, ExceptSeq
<1>4. Len(session) # 0
  BY <1>1, EmptySeq
<1>5. new # <<>>
  <2> HIDE DEF new
  <2> QED
    BY <1>3, <1>4, EmptySeq
<1>6. [session EXCEPT ![s].state = to] = new
  OBVIOUS
<1> QED
  BY <1>3, <1>5, <1>6

(* The server's state keeps its types for any number of io_contexts and sessions.     *)
THEOREM ServerTypes == SSpec => []STypeOK
<1>1. SInit => PoolInv
  <2> SUFFICES ASSUME SInit PROVE PoolInv
    OBVIOUS
  <2>1. 0 \in Producers
    <3>1. PICK n : n = Cardinality(Producers)
      OBVIOUS
    <3>2. n \in Nat /\ Producers = 0..(n - 1) /\ Producers # {}
      BY <3>1, PoolAssumption, FS_CardinalityType
    <3> QED
      BY <3>2
  <2>2. session \in Seq(SessionRec) /\ session # <<>>
    BY <2>1, EmptySeq, SessionMade DEF SInit, PoolInit
  <2> QED
    BY <2>1, <2>2, NextTakesOne DEF SInit, PoolInit, PoolInv, STypeOK, SessionRec
<1>2. PoolInv /\ [SNext]_svars => PoolInv'
  <2> SUFFICES ASSUME PoolInv, [SNext]_svars PROVE PoolInv'
    OBVIOUS
  <2>1. ASSUME NEW error \in BOOLEAN, HandleAccept(error) PROVE PoolInv'
    <3> DEFINE to == IF error THEN "closed" ELSE "open"
               set == [session EXCEPT ![Len(session)].state = to]
    <3>1. Len(session) \in DOMAIN session /\ to \in {"open", "closed"}
      BY EmptySeq, LenProperties DEF PoolInv, STypeOK
    <3>2. set \in Seq(SessionRec)
      BY <3>1, SessionSet
    <3>3. session' = MakeSession(set, nextIO) /\ nextIO' = After(nextIO)
          /\ UNCHANGED <<guarded, ended, stuck, end>>
      BY <2>1 DEF HandleAccept
    <3>4. nextIO \in Producers
      BY DEF PoolInv, STypeOK
    <3>5. session' \in Seq(SessionRec) /\ session' # <<>> /\ nextIO' \in Producers
      <4> HIDE DEF set
      <4> QED
        BY <3>2, <3>3, <3>4, SessionMade, NextTakesOne
    <3> QED
      BY <3>3, <3>5 DEF PoolInv, STypeOK, SessionRec, end
  <2>2. ASSUME NEW s \in DOMAIN session, NEW waits \in BOOLEAN, Close(s, waits) PROVE PoolInv'
    <3>1. session' \in Seq(SessionRec) /\ session' # <<>>
      BY <2>2, SessionSet DEF Close
    <3>2. session[s].at \in Producers
      <4>1. session \in Seq(SessionRec) /\ s \in 1..Len(session)
        BY LenProperties DEF PoolInv, STypeOK, SessionRec
      <4>2. session[s] \in SessionRec
        BY <4>1, ElementOfSeq
      <4> QED
        BY <4>2 DEF SessionRec
    <3>3. stuck' \subseteq Producers
      BY <2>2, <3>2 DEF Close, PoolInv, STypeOK
    <3> QED
      BY <2>2, <3>1, <3>3 DEF Close, PoolInv, STypeOK, SessionRec, end
  <2>3. ASSUME NEW p \in Producers, IoThread(p) PROVE PoolInv'
    BY <2>3 DEF IoThread, Post, Notify, RunReturns, PoolInv, STypeOK, pool, end
  <2>4. CASE Worker \/ WorkerWakes \/ JoinWorker
    BY <2>4 DEF Worker, WorkerHandles, WorkerWaits, WorkerWakes, JoinWorker, PoolInv, STypeOK,
                pool, end
  <2>5. CASE Signal \/ StopReturns \/ MainReturns \/ DestroyLogicSystem \/ Exit \/ UNCHANGED svars
    BY <2>5 DEF Signal, StopReturns, MainReturns, DestroyLogicSystem, Exit, svars, PoolInv,
                STypeOK, pool, end
  <2>6. ASSUME NEW x \in Managers, Destroy(x) PROVE PoolInv'
    BY <2>6 DEF Destroy, PoolInv, STypeOK, pool
  <2>7. ASSUME NEW x \in Pools, HandlerWaits(x) PROVE PoolInv'
    BY <2>7 DEF HandlerWaits, PoolInv, STypeOK, pool
  <2> QED
    BY <2>1, <2>2, <2>3, <2>4, <2>5, <2>6, <2>7 DEF SNext, Ending
<1>3. PoolInv => STypeOK
  BY DEF PoolInv
<1> QED
  BY <1>1, <1>2, <1>3, PTL DEF SSpec

(* A handler has used main's log or a singleton after its end (ChatServer.cc:16) only *)
(* if messages were not handled when the threads had been joined, wherever handlers  *)
(* and sessions wait for ever.                                                       *)
THEOREM DanglingCorrect == SSpec => []DanglingWasLeft
<1>1. ServerInv => DanglingWasLeft
  BY DEF ServerInv, DanglingWasLeft
<1> QED
  BY <1>1, ServerInvariant, PTL

================================================================================
