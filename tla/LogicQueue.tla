-------------------------------- MODULE LogicQueue --------------------------------
(* ChatServer's LogicSystem: the io_context threads post messages with            *)
(* PostMsgToQue, one worker thread runs DealMsg, which swaps the whole queue out  *)
(* under the lock and handles the batch without it, and the destructor stops the  *)
(* worker.  The mutex, the condition variable and the plain bool _b_stop are      *)
(* modelled at the granularity at which other threads can see them:               *)
(*   - PostMsgToQue's critical section touches only the queue, which is always    *)
(*     accessed under the mutex, so it is one step; its notify_one, made after    *)
(*     the unlock, is another;                                                    *)
(*   - the worker's test of its wait condition and its falling asleep are two     *)
(*     steps with the mutex held between them, because the destructor writes      *)
(*     _b_stop and notifies without the mutex.                                    *)
EXTENDS Naturals, Sequences, SequencesExt

CONSTANTS Producers,   \* io_context threads (IOServicePool)
          Msgs         \* the LogicNodes they post, each a distinct object

VARIABLES msg_que,     \* _msg_que
          process_que, \* DealMsg's local batch
          b_stop,      \* _b_stop
          stopping,    \* DealMsg's local copy of _b_stop, read under the lock
          wpc,         \* where the worker is in DealMsg
          ppc,         \* where each producer is in PostMsgToQue
          dpc,         \* where the destructor is
          posted,      \* history: messages pushed, in order
          handled      \* history: messages whose handler was run, in order

vars == <<msg_que, process_que, b_stop, stopping, wpc, ppc, dpc, posted, handled>>

WorkerPCs == {"lock", "test", "block", "waiting", "woken", "process", "done"}
DtorPCs   == {"alive", "notify", "join", "joined"}

Init ==
  /\ msg_que = << >>
  /\ process_que = << >>
  /\ b_stop = FALSE
  /\ stopping = FALSE
  /\ wpc = "lock"
  /\ ppc = [p \in Producers |-> "run"]
  /\ dpc = "alive"
  /\ posted = << >>
  /\ handled = << >>

(* The worker holds _mutex from the test of its condition to the swap or the wait. *)
MutexFree == wpc \notin {"test", "block"}

(* notify_one: wakes the worker if it is in the condition variable's wait set and  *)
(* is lost otherwise.                                                              *)
NotifyOne == wpc' = IF wpc = "waiting" THEN "woken" ELSE wpc

--------------------------------------------------------------------------------
(* Producers.  They stop before the destructor starts: main returns only after     *)
(* IOServicePool::stop has joined every io_context thread (ChatServer.cc).         *)

(* Mutant of PostMsgToQue: the size is tested before the push.                     *)
PostTestsBeforePush(p, m) ==
  /\ dpc = "alive" /\ ppc[p] = "run" /\ MutexFree /\ m \notin ToSet(posted)
  /\ msg_que' = Append(msg_que, m)
  /\ posted' = Append(posted, m)
  /\ ppc' = [ppc EXCEPT ![p] = IF Len(msg_que) = 1 THEN "notify" ELSE "run"]
  /\ UNCHANGED <<process_que, b_stop, stopping, wpc, dpc, handled>>

PostMsgToQue(p, m) ==
  /\ dpc = "alive"
  /\ ppc[p] = "run"
  /\ MutexFree
  /\ m \notin ToSet(posted)
  /\ msg_que' = Append(msg_que, m)
  /\ posted' = Append(posted, m)
  /\ ppc' = [ppc EXCEPT ![p] = IF Len(msg_que') = 1 THEN "notify" ELSE "run"]
  /\ UNCHANGED <<process_que, b_stop, stopping, wpc, dpc, handled>>

PostNotify(p) ==
  /\ ppc[p] = "notify"
  /\ ppc' = [ppc EXCEPT ![p] = "run"]
  /\ NotifyOne
  /\ UNCHANGED <<msg_que, process_que, b_stop, stopping, dpc, posted, handled>>

--------------------------------------------------------------------------------
(* The worker thread, DealMsg.                                                     *)

Lock ==
  /\ wpc \in {"lock", "woken"}
  /\ wpc' = "test"
  /\ UNCHANGED <<msg_que, process_que, b_stop, stopping, ppc, dpc, posted, handled>>

(* while (_msg_que.empty() && !_b_stop): the condition holds, the worker will wait. *)
MustWait ==
  /\ wpc = "test"
  /\ msg_que = << >>
  /\ ~b_stop
  /\ wpc' = "block"
  /\ UNCHANGED <<msg_que, process_que, b_stop, stopping, ppc, dpc, posted, handled>>

(* _consume.wait(lock): releases the mutex and joins the wait set in one step.     *)
Block ==
  /\ wpc = "block"
  /\ wpc' = "waiting"
  /\ UNCHANGED <<msg_que, process_que, b_stop, stopping, ppc, dpc, posted, handled>>

SpuriousWakeup ==
  /\ wpc = "waiting"
  /\ wpc' = "woken"
  /\ UNCHANGED <<msg_que, process_que, b_stop, stopping, ppc, dpc, posted, handled>>

(* Mutant of Swap: the queue is copied instead of swapped.                        *)
SwapCopies ==
  /\ wpc = "test"
  /\ msg_que # << >> \/ b_stop
  /\ process_que' = msg_que
  /\ stopping' = b_stop
  /\ wpc' = "process"
  /\ UNCHANGED <<msg_que, b_stop, ppc, dpc, posted, handled>>

(* The condition fails: swap the queue out, read _b_stop, unlock.                  *)
Swap ==
  /\ wpc = "test"
  /\ msg_que # << >> \/ b_stop
  /\ process_que' = msg_que
  /\ msg_que' = << >>
  /\ stopping' = b_stop
  /\ wpc' = "process"
  /\ UNCHANGED <<b_stop, ppc, dpc, posted, handled>>

Handle ==
  /\ wpc = "process"
  /\ process_que # << >>
  /\ handled' = Append(handled, Head(process_que))
  /\ process_que' = Tail(process_que)
  /\ UNCHANGED <<msg_que, b_stop, stopping, wpc, ppc, dpc, posted>>

(* Mutant of EndBatch: _b_stop itself is tested after the batch, not the copy      *)
(* taken with the batch under the lock.                                            *)
EndBatchReadsStopLate ==
  /\ wpc = "process"
  /\ process_que = << >>
  /\ wpc' = IF b_stop THEN "done" ELSE "lock"
  /\ UNCHANGED <<msg_que, process_que, b_stop, stopping, ppc, dpc, posted, handled>>

EndBatch ==
  /\ wpc = "process"
  /\ process_que = << >>
  /\ wpc' = IF stopping THEN "done" ELSE "lock"
  /\ UNCHANGED <<msg_que, process_que, b_stop, stopping, ppc, dpc, posted, handled>>

--------------------------------------------------------------------------------
(* ~LogicSystem, run by the main thread during static destruction.                 *)

SetStop ==
  /\ dpc = "alive"
  /\ \A p \in Producers : ppc[p] = "run"
  /\ b_stop' = TRUE
  /\ dpc' = "notify"
  /\ UNCHANGED <<msg_que, process_que, stopping, wpc, ppc, posted, handled>>

StopNotify ==
  /\ dpc = "notify"
  /\ dpc' = "join"
  /\ NotifyOne
  /\ UNCHANGED <<msg_que, process_que, b_stop, stopping, ppc, posted, handled>>

Join ==
  /\ dpc = "join"
  /\ wpc = "done"
  /\ dpc' = "joined"
  /\ UNCHANGED <<msg_que, process_que, b_stop, stopping, wpc, ppc, posted, handled>>

--------------------------------------------------------------------------------
Producer(p) == (\E m \in Msgs : PostMsgToQue(p, m)) \/ PostNotify(p)
DealMsg == Lock \/ MustWait \/ Block \/ Swap \/ Handle \/ EndBatch
Destructor == SetStop \/ StopNotify \/ Join

Next == (\E p \in Producers : Producer(p)) \/ DealMsg \/ SpuriousWakeup \/ Destructor

Spec == Init /\ [][Next]_vars

--------------------------------------------------------------------------------
TypeOK ==
  /\ msg_que \in Seq(Msgs)
  /\ process_que \in Seq(Msgs)
  /\ b_stop \in BOOLEAN
  /\ stopping \in BOOLEAN
  /\ wpc \in WorkerPCs
  /\ ppc \in [Producers -> {"run", "notify"}]
  /\ dpc \in DtorPCs
  /\ posted \in Seq(Msgs)
  /\ handled \in Seq(Msgs)

(* PostMsgToQue notifies only when it made the queue non-empty (size() == 1).      *)
(* That is enough: the worker never sleeps on a non-empty queue unless the notify  *)
(* of the post that made it non-empty is still on its way.                         *)
NoLostWakeup ==
  wpc = "waiting" /\ msg_que # << >> => \E p \in Producers : ppc[p] = "notify"

(* The destructor's contract: when the worker has left its loop every message that *)
(* was ever posted has been handled, none is left in the queue or in the batch.    *)
DrainedAtExit == wpc = "done" => handled = posted

(* The inductive invariant behind the three properties: where each message is,     *)
(* what the worker may assume at each point, and what the stop flag tells.         *)
OrderInv == /\ posted = handled \o (process_que \o msg_que)
            /\ wpc # "process" => process_que = << >>
SleepInv == wpc = "block" => msg_que = << >>
StopInv  == /\ b_stop <=> dpc # "alive"
            /\ b_stop => \A p \in Producers : ppc[p] = "run"
            /\ stopping => b_stop /\ msg_que = << >>
            /\ wpc = "done" => stopping
IInv == TypeOK /\ NoLostWakeup /\ OrderInv /\ SleepInv /\ StopInv

(* Messages are handled in the order in which they were posted, each exactly once, *)
(* whatever the batches: the queue implements Fifo.                                *)
Queue == INSTANCE Fifo WITH put <- posted, got <- handled
ImplementsFifo == Queue!Spec

================================================================================
