---------------------------- MODULE MysqlPool_proofs ----------------------------
(* Proofs, for any number of threads and connections, of the safety properties of  *)
(* the MySQL connection pool.                                                      *)
EXTENDS MysqlPool, FunctionTheorems, FiniteSetTheorems, TLAPS

(* The connections lent are those the borrowing threads hold.                      *)
Lent == {held[t] : t \in {u \in Threads : held[u] # NoConn}}

(* Every step is one of these.                                                     *)
LEMMA Steps ==
  ASSUME [Next]_vars
  PROVE  \/ \E t \in Threads : \/ Call(t) \/ Get(t) \/ GetMustWait(t) \/ Use(t) \/ Return(t)
                               \/ ReturnMustWait(t) \/ Block(t) \/ SpuriousWakeup(t)
         \/ CloseStop \/ CloseNotify
         \/ UNCHANGED vars
  BY DEF Next, Operation, Close

(* There are never more connections lent than threads.                             *)
LEMMA LentBound == IsFiniteSet(Lent) /\ Cardinality(Lent) <= Cardinality(Threads)
<1> DEFINE H == {u \in Threads : held[u] # NoConn}
           f == [u \in H |-> held[u]]
<1>1. IsFiniteSet(H) /\ Cardinality(H) <= Cardinality(Threads)
  BY ThreadsAssumption, FS_Subset
<1>2. f \in Surjection(H, Lent)
  BY DEF Surjection, Lent
<1>3. IsFiniteSet(Lent) /\ Cardinality(Lent) <= Cardinality(H)
  <2> HIDE DEF f, H
  <2> QED BY <1>1, <1>2, FS_Surjection
<1>4. Cardinality(Lent) \in Nat /\ Cardinality(H) \in Nat /\ Cardinality(Threads) \in Nat
  BY <1>1, <1>3, ThreadsAssumption, FS_CardinalityType
<1> HIDE DEF H
<1> QED
  BY <1>1, <1>3, <1>4

(* So a running pool that is empty has no more connections than there are threads. *)
LEMMA EmptyBound ==
  ASSUME TypeOK, Conserved, ~b_stop, pool = {}
  PROVE  ~(Cardinality(created) > Cardinality(Threads))
<1>1. created = Lent
  BY DEF Conserved, Lent
<1>2. Cardinality(Lent) \in Nat /\ Cardinality(Threads) \in Nat
  BY LentBound, ThreadsAssumption, FS_CardinalityType
<1> QED
  BY <1>1, <1>2, LentBound

(* At start every connection is in the pool.                                       *)
LEMMA InitIInv == Init => IInv
  BY ConnsAssumption
  DEF Init, IInv, TypeOK, NoSharing, Conserved, SpareNeverBlocks, HoldsInv, WaitInv,
      ThreadPCs, Blocked, Waiting

(* Types.                                                                          *)
LEMMA TypeStep == TypeOK /\ HoldsInv /\ [Next]_vars => TypeOK'
<1> SUFFICES ASSUME TypeOK, HoldsInv, [Next]_vars PROVE TypeOK'
  OBVIOUS
<1> USE DEF TypeOK, ThreadPCs
<1>1. ASSUME NEW t \in Threads, Call(t) PROVE TypeOK'
  BY <1>1 DEF Call
<1>2. ASSUME NEW t \in Threads, Get(t) PROVE TypeOK'
  BY <1>2 DEF Get
<1>3. ASSUME NEW t \in Threads, GetMustWait(t) PROVE TypeOK'
  BY <1>3 DEF GetMustWait
<1>4. ASSUME NEW t \in Threads, Use(t) PROVE TypeOK'
  BY <1>4 DEF Use
<1>5. ASSUME NEW t \in Threads, Return(t) PROVE TypeOK'
  BY <1>5 DEF Return, HoldsInv, Awake
<1>6. ASSUME NEW t \in Threads, ReturnMustWait(t) PROVE TypeOK'
  BY <1>6 DEF ReturnMustWait
<1>7. ASSUME NEW t \in Threads, Block(t) PROVE TypeOK'
  BY <1>7 DEF Block
<1>8. ASSUME NEW t \in Threads, SpuriousWakeup(t) PROVE TypeOK'
  BY <1>8 DEF SpuriousWakeup, Awake
<1>9. CASE CloseStop
  BY <1>9 DEF CloseStop
<1>10. CASE CloseNotify
  BY <1>10 DEF CloseNotify, Awake
<1>11. CASE UNCHANGED vars
  BY <1>11 DEF vars
<1> QED
  BY <1>1, <1>2, <1>3, <1>4, <1>5, <1>6, <1>7, <1>8, <1>9, <1>10, <1>11, Steps

(* Holding is what the program counter says.                                       *)
LEMMA HoldsStep == IInv /\ [Next]_vars => HoldsInv'
<1> SUFFICES ASSUME IInv, [Next]_vars PROVE HoldsInv'
  OBVIOUS
<1> USE ConnsAssumption DEF IInv, TypeOK, HoldsInv, ThreadPCs
<1>1. ASSUME NEW t \in Threads, Call(t) PROVE HoldsInv'
  BY <1>1 DEF Call
<1>2. ASSUME NEW t \in Threads, Get(t) PROVE HoldsInv'
  BY <1>2 DEF Get
<1>3. ASSUME NEW t \in Threads, GetMustWait(t) PROVE HoldsInv'
  BY <1>3 DEF GetMustWait
<1>4. ASSUME NEW t \in Threads, Use(t) PROVE HoldsInv'
  BY <1>4 DEF Use
<1>5. ASSUME NEW t \in Threads, Return(t) PROVE HoldsInv'
  BY <1>5 DEF Return, Awake, Waiting
<1>6. ASSUME NEW t \in Threads, ReturnMustWait(t) PROVE HoldsInv'
  BY <1>6 DEF ReturnMustWait
<1>7. ASSUME NEW t \in Threads, Block(t) PROVE HoldsInv'
  BY <1>7 DEF Block
<1>8. ASSUME NEW t \in Threads, SpuriousWakeup(t) PROVE HoldsInv'
  BY <1>8 DEF SpuriousWakeup, Awake, Waiting
<1>9. CASE CloseStop
  BY <1>9 DEF CloseStop
<1>10. CASE CloseNotify
  BY <1>10 DEF CloseNotify, Awake
<1>11. CASE UNCHANGED vars
  BY <1>11 DEF vars
<1> QED
  BY <1>1, <1>2, <1>3, <1>4, <1>5, <1>6, <1>7, <1>8, <1>9, <1>10, <1>11, Steps

(* Only Get and Return move connections; the flag of close moves with its counter. *)
LEMMA Frame ==
  ASSUME IInv, [Next]_vars
  PROVE  \/ \E t \in Threads : Get(t) \/ Return(t)
         \/ UNCHANGED <<created, pool, held>>
  BY Steps DEF Call, GetMustWait, Use, ReturnMustWait, Block, SpuriousWakeup, CloseStop, CloseNotify,
     vars

(* The owners of the connections.                                                  *)
LEMMA OwnerStep ==
  IInv /\ [Next]_vars => NoSharing' /\ Conserved' /\ (pool \subseteq created)'
<1> SUFFICES ASSUME IInv, [Next]_vars PROVE NoSharing' /\ Conserved' /\ (pool \subseteq created)'
  OBVIOUS
<1> USE ConnsAssumption DEF IInv, TypeOK, NoSharing
<1>0. b_stop => b_stop'
  BY Steps DEF Call, Get, GetMustWait, Use, Return, ReturnMustWait, Block, SpuriousWakeup, CloseStop,
     CloseNotify, vars
<1>1. ASSUME NEW t \in Threads, Get(t) PROVE NoSharing' /\ Conserved' /\ (pool \subseteq created)'
  <2>1. CASE UNCHANGED <<pool, held>>
    BY <2>1, <1>1 DEF Get, Conserved
  <2>2. ASSUME NEW c \in pool, ~b_stop, pool' = pool \ {c}, held' = [held EXCEPT ![t] = c]
        PROVE NoSharing' /\ Conserved' /\ (pool \subseteq created)'
    <3>1. held[t] = NoConn /\ c # NoConn /\ UNCHANGED <<created, b_stop>>
      BY <1>1 DEF Get, HoldsInv
    <3>2. NoSharing' /\ (pool \subseteq created)'
      BY <2>2, <3>1
    <3>3. {held'[u] : u \in {w \in Threads : held'[w] # NoConn}}
            = {c} \cup {held[u] : u \in {w \in Threads : held[w] # NoConn}}
      BY <2>2, <3>1
    <3>4. Conserved'
      BY <2>2, <3>1, <3>3 DEF Conserved
    <3> QED
      BY <3>2, <3>4
  <2> QED
    BY <1>1, <2>1, <2>2 DEF Get
<1>2. ASSUME NEW t \in Threads, Return(t) PROVE NoSharing' /\ Conserved' /\ (pool \subseteq created)'
  <2>1. held' = [held EXCEPT ![t] = NoConn] /\ UNCHANGED <<created, b_stop>> /\ held[t] # NoConn
    BY <1>2 DEF Return, HoldsInv
  <2>2. CASE b_stop
    <3>1. pool' = pool
      BY <1>2, <2>2 DEF Return
    <3>2. NoSharing' /\ (pool \subseteq created)'
      BY <2>1, <3>1
    <3> QED
      BY <2>1, <2>2, <3>2 DEF Conserved
  <2>3. CASE ~b_stop
    <3>1. pool' = pool \cup {held[t]}
      BY <1>2, <2>3 DEF Return
    <3>2. {held[u] : u \in {w \in Threads : held[w] # NoConn}}
            = {held[t]} \cup {held'[u] : u \in {w \in Threads : held'[w] # NoConn}}
      BY <2>1
    <3>3. held[t] \in created
      BY <2>1, <2>3, <3>2 DEF Conserved
    <3>4. NoSharing' /\ (pool \subseteq created)'
      BY <2>1, <3>1, <3>3
    <3>5. Conserved'
      BY <2>1, <2>3, <3>1, <3>2 DEF Conserved
    <3> QED
      BY <3>4, <3>5
  <2> QED
    BY <2>2, <2>3
<1>3. CASE UNCHANGED <<created, pool, held>>
  BY <1>0, <1>3 DEF Conserved
<1> QED
  BY <1>1, <1>2, <1>3, Frame

(* A thread waits beside an empty pool; nothing but a stop refills it for the others. *)
LEMMA WaitStep == IInv /\ [Next]_vars => WaitInv' /\ (cpc = "open" <=> ~b_stop)'
<1> SUFFICES ASSUME IInv, [Next]_vars PROVE WaitInv' /\ (cpc = "open" <=> ~b_stop)'
  OBVIOUS
<1> USE DEF IInv, TypeOK, WaitInv, Blocked, Waiting, ThreadPCs
<1>1. ASSUME NEW t \in Threads, Call(t) PROVE WaitInv' /\ (cpc = "open" <=> ~b_stop)'
  BY <1>1 DEF Call
<1>2. ASSUME NEW t \in Threads, Get(t) PROVE WaitInv' /\ (cpc = "open" <=> ~b_stop)'
  BY <1>2 DEF Get
<1>3. ASSUME NEW t \in Threads, GetMustWait(t) PROVE WaitInv' /\ (cpc = "open" <=> ~b_stop)'
  BY <1>3 DEF GetMustWait, MayProceed
<1>4. ASSUME NEW t \in Threads, Use(t) PROVE WaitInv' /\ (cpc = "open" <=> ~b_stop)'
  BY <1>4 DEF Use
<1>5. ASSUME NEW t \in Threads, Return(t) PROVE WaitInv' /\ (cpc = "open" <=> ~b_stop)'
  BY <1>5 DEF Return, Awake, MayProceed
<1>6. ASSUME NEW t \in Threads, ReturnMustWait(t) PROVE WaitInv' /\ (cpc = "open" <=> ~b_stop)'
  BY <1>6 DEF ReturnMustWait, MayProceed
<1>7. ASSUME NEW t \in Threads, Block(t) PROVE WaitInv' /\ (cpc = "open" <=> ~b_stop)'
  BY <1>7 DEF Block
<1>8. ASSUME NEW t \in Threads, SpuriousWakeup(t) PROVE WaitInv' /\ (cpc = "open" <=> ~b_stop)'
  BY <1>8 DEF SpuriousWakeup, Awake
<1>9. CASE CloseStop
  BY <1>9 DEF CloseStop
<1>10. CASE CloseNotify
  BY <1>10 DEF CloseNotify, Awake
<1>11. CASE UNCHANGED vars
  BY <1>11 DEF vars
<1> QED
  BY <1>1, <1>2, <1>3, <1>4, <1>5, <1>6, <1>7, <1>8, <1>9, <1>10, <1>11, Steps

(* With a connection to spare nobody starts to wait.                               *)
LEMMA SpareStep == IInv /\ [Next]_vars => SpareNeverBlocks'
<1> SUFFICES ASSUME IInv, [Next]_vars, Cardinality(created') > Cardinality(Threads), NEW t \in Threads
             PROVE  tpc'[t] \notin Blocked
  BY DEF SpareNeverBlocks
<1>1. created' = created
  BY Steps DEF Call, Get, GetMustWait, Use, Return, ReturnMustWait, Block, SpuriousWakeup, CloseStop,
     CloseNotify, vars
<1>2. \A u \in Threads : tpc[u] \notin Blocked
  BY <1>1 DEF IInv, SpareNeverBlocks
<1>3. MayProceed
  BY <1>1, EmptyBound DEF IInv, MayProceed
<1> USE <1>2, <1>3 DEF IInv, TypeOK, Blocked, Waiting
<1>4. ASSUME NEW u \in Threads, \/ Call(u) \/ Get(u) \/ GetMustWait(u) \/ Use(u) \/ Return(u)
                                \/ ReturnMustWait(u) \/ Block(u) \/ SpuriousWakeup(u)
      PROVE  tpc'[t] \notin Blocked
  BY <1>4 DEF Call, Get, GetMustWait, Use, Return, ReturnMustWait, Block, SpuriousWakeup, Awake
<1>5. CASE CloseStop \/ UNCHANGED vars
  BY <1>5 DEF CloseStop, vars
<1>6. CASE CloseNotify
  BY <1>6 DEF CloseNotify, Awake
<1> QED
  BY <1>4, <1>5, <1>6, Steps

(* The pool's inductive invariant.                                                 *)
LEMMA StepIInv == IInv /\ [Next]_vars => IInv'
  BY TypeStep, HoldsStep, OwnerStep, WaitStep, SpareStep DEF IInv

(* The inductive invariant holds of every reachable state.                         *)
THEOREM Invariant == Spec => []IInv
<1>1. Init => IInv
  BY InitIInv
<1>2. IInv /\ [Next]_vars => IInv'
  BY StepIInv
<1> QED
  BY <1>1, <1>2, PTL DEF Spec

(* No two operations of MysqlDao ever hold the same connection, and none holds one *)
(* that the pool could lend to another.                                            *)
THEOREM SharingCorrect == Spec => []NoSharing
<1>1. IInv => NoSharing
  BY DEF IInv
<1> QED
  BY <1>1, Invariant, PTL

(* A running pool loses no connection.                                             *)
THEOREM ConservationCorrect == Spec => []Conserved
<1>1. IInv => Conserved
  BY DEF IInv
<1> QED
  BY <1>1, Invariant, PTL

(* More connections than threads: nobody ever waits, so that the wait in           *)
(* returnConnection does no harm.                                                  *)
THEOREM SpareCorrect == Spec => []SpareNeverBlocks
<1>1. IInv => SpareNeverBlocks
  BY DEF IInv
<1> QED
  BY <1>1, Invariant, PTL

================================================================================
