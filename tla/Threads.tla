--------------------------------- MODULE Threads ---------------------------------
(* The thread classes of the base library, as AsyncLogging's start and stop use      *)
(* them: main makes threads, starts each, waits until all have counted a             *)
(* CountDownLatch down, and joins them.  MutexLock notes its holder's tid beside the  *)
(* pthread mutex, in steps of its own; Condition puts the note aside while it waits.  *)
(* A thread is its kernel tid.                                                       *)
EXTENDS Integers, FiniteSets

CONSTANTS Main, Workers

ASSUME ThreadsAssumption ==
  /\ IsFiniteSet(Workers) /\ Workers \subseteq Nat \ {0} /\ Main \in Nat \ {0}
  /\ Main \notin Workers

Nobody == 0
Threads == Workers \cup {Main}

VARIABLES pc,         \* where each thread is
          lk,         \* how far each is in lock, unlock or wait of the mutex
          cachedTid,  \* t_cachedTid of each thread
          tid,        \* tid_ of the Thread of each worker
          sem,        \* workers that have posted the semaphore of their start
          lockedBy,   \* the thread that has the pthread mutex
          holder,     \* holder_
          prev,       \* preHolder of each thread's wait
          latchCount  \* count_

mutex == <<lk, lockedBy, holder, prev>>
tvars == <<pc, cachedTid, tid, sem, mutex, latchCount>>

TInit ==
  /\ pc = [t \in Threads |-> IF t = Main THEN "start" ELSE "none"]
  /\ lk = [t \in Threads |-> "out"]
  /\ cachedTid = [t \in Threads |-> 0] /\ tid = [w \in Workers |-> 0]
  /\ sem = {}
  /\ lockedBy = Nobody /\ holder = 0 /\ prev = [t \in Threads |-> 0]
  /\ latchCount = Cardinality(Workers)

(* tid: cacheTid asks the kernel the first time.                                      *)
CacheTid(t) == cachedTid' = [cachedTid EXCEPT ![t] = t]

Goto(t, l) == pc' = [pc EXCEPT ![t] = l]
LockGoes(t, l) == lk' = [lk EXCEPT ![t] = l]

--------------------------------------------------------------------------------
(* MutexLock and Condition: a thread at one of these labels is in its guarded block.  *)
Guarded == {"wait", "countDown", "output"}

Acquire(t) ==
  /\ pc[t] \in Guarded /\ lk[t] = "out" /\ lockedBy = Nobody
  /\ lockedBy' = t /\ LockGoes(t, "acquired")
  /\ UNCHANGED <<pc, cachedTid, tid, sem, holder, prev, latchCount>>

NoteHolder(t) ==
  /\ lk[t] = "acquired"
  /\ CacheTid(t) /\ holder' = t /\ LockGoes(t, "in")
  /\ UNCHANGED <<pc, tid, sem, lockedBy, prev, latchCount>>

(* unlock: the note first, the mutex then.                                            *)
ForgetHolder(t) ==
  /\ lk[t] = "leaving"
  /\ holder' = 0 /\ LockGoes(t, "forgotten")
  /\ UNCHANGED <<pc, cachedTid, tid, sem, lockedBy, prev, latchCount>>

(* Where each guarded block leads.                                                    *)
After == [wait |-> "log", countDown |-> "log", output |-> "end"]

Release(t) ==
  /\ lk[t] = "forgotten"
  /\ lockedBy' = Nobody /\ LockGoes(t, "out") /\ Goto(t, After[pc[t]])
  /\ UNCHANGED <<cachedTid, tid, sem, holder, prev, latchCount>>

(* Condition::wait sets the note aside, gives the mutex up as it blocks, ...            *)
SetAside(t) ==
  /\ lk[t] = "waiting"
  /\ prev' = [prev EXCEPT ![t] = holder] /\ holder' = 0 /\ LockGoes(t, "aside")
  /\ UNCHANGED <<pc, cachedTid, tid, sem, lockedBy, latchCount>>

Block(t) ==
  /\ lk[t] = "aside"
  /\ lockedBy' = Nobody /\ LockGoes(t, "blocked")
  /\ UNCHANGED <<pc, cachedTid, tid, sem, holder, prev, latchCount>>

SpuriousWakeup(t) ==
  /\ lk[t] = "blocked" /\ LockGoes(t, "woken")
  /\ UNCHANGED <<pc, cachedTid, tid, sem, lockedBy, holder, prev, latchCount>>

(* ... has the mutex again when it returns, and puts the note back.                     *)
Reacquire(t) ==
  /\ lk[t] = "woken" /\ lockedBy = Nobody
  /\ lockedBy' = t /\ LockGoes(t, "again")
  /\ UNCHANGED <<pc, cachedTid, tid, sem, holder, prev, latchCount>>

(* Mutant of PutBack: the note is not put back.                                        *)
PutBackNothing(t) ==
  /\ lk[t] = "again" /\ LockGoes(t, "in")
  /\ UNCHANGED <<pc, cachedTid, tid, sem, lockedBy, holder, prev, latchCount>>

PutBack(t) ==
  /\ lk[t] = "again"
  /\ holder' = prev[t] /\ LockGoes(t, "in")
  /\ UNCHANGED <<pc, cachedTid, tid, sem, lockedBy, prev, latchCount>>

MutexSteps(t) ==
  \/ NoteHolder(t) \/ ForgetHolder(t) \/ Release(t) \/ SetAside(t) \/ Block(t) \/ PutBack(t)

--------------------------------------------------------------------------------
(* CountDownLatch, in its guarded blocks.                                              *)

LatchWait ==
  /\ pc[Main] = "wait" /\ lk[Main] = "in"
  /\ LockGoes(Main, IF latchCount > 0 THEN "waiting" ELSE "leaving")
  /\ UNCHANGED <<pc, cachedTid, tid, sem, lockedBy, holder, prev, latchCount>>

(* Mutant of CountDown: the test is made before the count goes down.                   *)
CountDownTestsFirst(w) ==
  /\ pc[w] = "countDown" /\ lk[w] = "in"
  /\ latchCount' = latchCount - 1
  /\ lk' = [t \in Threads |-> IF t = w THEN "leaving"
                              ELSE IF latchCount = 0 /\ lk[t] = "blocked" THEN "woken" ELSE lk[t]]
  /\ UNCHANGED <<pc, cachedTid, tid, sem, lockedBy, holder, prev>>

(* The last one notifies all.                                                          *)
CountDown(w) ==
  /\ pc[w] = "countDown" /\ lk[w] = "in"
  /\ latchCount' = latchCount - 1
  /\ lk' = [t \in Threads |-> IF t = w THEN "leaving"
                              ELSE IF latchCount' = 0 /\ lk[t] = "blocked" THEN "woken" ELSE lk[t]]
  /\ UNCHANGED <<pc, cachedTid, tid, sem, lockedBy, holder, prev>>

--------------------------------------------------------------------------------
(* Thread.                                                                            *)

(* start: the new thread, and sem_wait, one worker after the other.                     *)
StartThread(w) ==
  /\ pc[Main] = "start" /\ pc[w] = "none"
  /\ pc' = [pc EXCEPT ![Main] = "semWait", ![w] = "born"]
  /\ UNCHANGED <<cachedTid, tid, sem, mutex, latchCount>>

StartReturns(w) ==
  /\ pc[Main] = "semWait" /\ w \in sem
  /\ sem' = sem \ {w}
  /\ Goto(Main, IF \E v \in Workers : pc[v] = "none" THEN "start" ELSE "wait")
  /\ UNCHANGED <<cachedTid, tid, mutex, latchCount>>

(* In the new thread: tid_, then the semaphore, then func_.                             *)
NoteTid(w) ==
  /\ pc[w] = "born"
  /\ CacheTid(w) /\ tid' = [tid EXCEPT ![w] = w]
  /\ Goto(w, "post")
  /\ UNCHANGED <<sem, mutex, latchCount>>

SemPost(w) ==
  /\ pc[w] = "post"
  /\ sem' = sem \cup {w} /\ Goto(w, "countDown")
  /\ UNCHANGED <<cachedTid, tid, mutex, latchCount>>

(* join, when main has nothing more to do.                                              *)
JoinThreads ==
  /\ pc[Main] = "end" /\ \A w \in Workers : pc[w] = "end"
  /\ Goto(Main, "joined")
  /\ UNCHANGED <<cachedTid, tid, sem, mutex, latchCount>>

ThreadSteps(t) ==
  \/ t \in Workers /\ (StartThread(t) \/ StartReturns(t) \/ NoteTid(t) \/ SemPost(t) \/ CountDown(t))
  \/ t = Main /\ (LatchWait \/ JoinThreads)
  \/ MutexSteps(t)

--------------------------------------------------------------------------------
(* MutexLock.h:27: isLockedByThisThread is true for the thread in its guarded block,     *)
(* through every wait, and for no thread that does not have the mutex; so assertLocked   *)
(* and the destructor's assert mean what they say.  And Thread.cc:42: the tid of a         *)
(* thread can be read when its start has returned.                                      *)
HolderTruth ==
  /\ \A w \in Workers : pc[w] # "none" /\ pc[Main] # "semWait" => tid[w] = w
  /\ \A t \in Threads : lk[t] = "in" => holder = t
  /\ holder # 0 => lockedBy = holder
  /\ pc[Main] = "joined" => holder = 0

(* CountDownLatch.h: wait returns, spurious wakeups and all, only when every thread has    *)
(* counted the latch down; a late one is never left behind.                              *)
Uncounted ==
  {w \in Workers : \/ pc[w] \in {"none", "born", "post"}
                   \/ pc[w] = "countDown" /\ lk[w] \notin {"leaving", "forgotten"}}

PastLatch ==
  \/ pc[Main] \in {"log", "output", "end", "joined"}
  \/ pc[Main] = "wait" /\ lk[Main] \in {"leaving", "forgotten"}

LatchHolds == PastLatch => Uncounted = {}

(* The inductive invariant that HolderTruth and LatchHolds rest on: the note is there      *)
(* exactly while the holder is between its two steps, a wait keeps it in prev, and at      *)
(* most one thread is being started, while main waits for the semaphore.                 *)
PCs == {"none", "born", "post", "countDown", "start", "semWait", "wait", "log", "output",
        "end", "joined"}
Noted == {"in", "leaving", "waiting"}
Bare == {"acquired", "forgotten", "aside", "again"}
Waiting == {"aside", "blocked", "woken", "again"}

ThreadTypeOK ==
  /\ pc \in [Threads -> PCs] /\ lk \in [Threads -> {"out"} \cup Noted \cup Bare \cup Waiting]
  /\ prev \in [Threads -> Threads \cup {0}]
  /\ cachedTid \in [Threads -> Threads \cup {0}] /\ tid \in [Workers -> Workers \cup {0}]
  /\ lockedBy \in Threads \cup {Nobody} /\ holder \in Threads \cup {0}
  /\ sem \subseteq Workers

MutexInv ==
  /\ \A t \in Threads : lk[t] \in Noted \cup Bare <=> lockedBy = t
  /\ \A t \in Threads : lk[t] \in Noted => holder = t
  /\ holder # 0 => lockedBy = holder /\ lk[holder] \in Noted
  /\ \A t \in Threads : lk[t] \in Waiting => prev[t] = t
  /\ \A t \in Threads : lk[t] # "out" => pc[t] \in Guarded

Starting == {w \in Workers : pc[w] \in {"born", "post"}}

StartInv ==
  /\ \A w \in Workers : pc[w] \notin {"start", "semWait", "wait", "joined"}
  /\ pc[Main] \notin {"none", "born", "post", "countDown"}
  /\ \A w \in Workers : pc[w] \notin {"none", "born"} => tid[w] = w
  /\ pc[Main] # "semWait" => Starting = {} /\ sem = {}
  /\ \A v, w \in Starting \cup sem : v = w
  /\ Starting \cap sem = {}
  /\ pc[Main] = "joined" => \A w \in Workers : pc[w] = "end"

LatchInv == latchCount = Cardinality(Uncounted) /\ LatchHolds

ThreadInv == ThreadTypeOK /\ MutexInv /\ StartInv /\ LatchInv

(* AsyncLogging.h:39: start returns from the latch when every thread has started.         *)
LatchOpens == (pc[Main] = "wait") ~> (pc[Main] \notin {"wait", "start", "semWait"})

================================================================================
