----------------------------- MODULE Friends_proofs -----------------------------
(* Proofs, for any number of servers, connections and users and whatever statements *)
(* MySQL accepts, of the safety properties of the friend functions.                 *)
EXTENDS Friends, TLAPS

(* Every step is one of these.                                                      *)
LEMMA Steps ==
  ASSUME [Next]_vars
  PROVE  \/ \E s \in Servers : \/ Receive(s, {"search"}) \/ Receive(s, {"apply"})
                               \/ Receive(s, {"apply_list"}) \/ Receive(s, Decisions)
                               \/ Receive(s, {"friend_list"})
                               \/ Get(s) \/ Select(s, "search") \/ Select(s, "apply_list")
                               \/ Select(s, "friend_list") \/ AddFriendApply(s)
                               \/ Begin(s) \/ Update(s) \/ Insert(s) \/ Commit(s)
                               \/ Restore(s) \/ Catch(s) \/ Answer(s) \/ Notify(s)
                               \/ Restart(s)
         \/ Drop
         \/ UNCHANGED vars
  BY DEF Next, Take, Work, AuthFriendApply, SearchUserCallBack, AddFriendApplyHandler,
     GetApplyListHandler, AuthFriendApplyHandler, GetFriendListHandler, SearchUser,
     GetApplyList, GetFriendList

(* A pair turned round twice is itself.                                             *)
LEMMA FlipType == \A p \in Pairs : Flip(p) \in Pairs /\ Flip(Flip(p)) = p
  BY DEF Flip, Pairs

(* The row of a request is a pair of users.                                         *)
LEMMA RowType == \A r \in Requests : Row(r) \in Pairs
  BY DEF Row, Requests, Pairs

(* Two writes are equal only if they are of one kind and pair.                      *)
LEMMA WEqual == \A k, j, p, q : W(k, p) = W(j, q) => k = j /\ p = q
<1> SUFFICES ASSUME NEW k, NEW j, NEW p, NEW q, W(k, p) = W(j, q) PROVE k = j /\ p = q
  OBVIOUS
<1>1. W(k, p).kind = k /\ W(j, q).kind = j /\ W(k, p).pair = p /\ W(j, q).pair = q
  BY DEF W
<1> QED
  BY <1>1

(* Storing writes in which nobody agrees without befriending keeps the tables sound: *)
(* rows never go, and the two tables still agree.                                   *)
LEMMA StoreSound ==
  ASSUME TypeOK, AcceptedAreFriends, NEW ws, Store(ws),
         \A p \in Pairs : W("agree", p) \in ws => W("befriend", p) \in ws
  PROVE  /\ apply' \in [Pairs -> SUBSET (0..2)] /\ friend' \subseteq Pairs
         /\ friend \subseteq friend'
         /\ \A p \in Pairs : apply[p] # {} => apply'[p] # {}
         /\ AcceptedAreFriends'
         /\ \A p \in Pairs : W("befriend", p) \in ws => p \in friend' /\ Flip(p) \in friend'
         /\ \A p \in Pairs : W("apply", p) \in ws => apply'[p] # {}
<1>1. apply' = [p \in Pairs |-> StatusAfter(p, ws)] /\ friend' = friend \cup FriendRows(ws)
  BY DEF Store
<1>2. ASSUME NEW p \in Pairs
      PROVE  /\ StatusAfter(p, ws) \in SUBSET (0..2)
             /\ apply[p] # {} \/ W("apply", p) \in ws => StatusAfter(p, ws) # {}
             /\ 1 \in StatusAfter(p, ws) => 1 \in apply[p] \/ W("agree", p) \in ws
  <2>1. apply[p] \in SUBSET (0..2)
    BY DEF TypeOK
  <2> QED
    BY <2>1 DEF StatusAfter
<1>3. FriendRows(ws) \subseteq Pairs
  BY DEF FriendRows
<1>4. ASSUME NEW p \in Pairs, W("befriend", p) \in ws PROVE p \in friend' /\ Flip(p) \in friend'
  BY <1>1, <1>4, FlipType DEF FriendRows
<1>5. AcceptedAreFriends'
  <2> SUFFICES ASSUME NEW p \in Pairs, 1 \in apply'[p] PROVE p \in friend' /\ Flip(p) \in friend'
    BY DEF AcceptedAreFriends
  <2>1. 1 \in apply[p] \/ W("agree", p) \in ws
    BY <1>1, <1>2
  <2>2. CASE 1 \in apply[p]
    BY <1>1, <2>2 DEF AcceptedAreFriends
  <2>3. CASE W("agree", p) \in ws
    BY <1>4, <2>3
  <2> QED
    BY <2>1, <2>2, <2>3
<1>6. apply' \in [Pairs -> SUBSET (0..2)] /\ friend' \subseteq Pairs
  BY <1>1, <1>2, <1>3 DEF TypeOK
<1>7. \A p \in Pairs : apply[p] # {} \/ W("apply", p) \in ws => apply'[p] # {}
  BY <1>1, <1>2
<1> QED
  BY <1>1, <1>4, <1>5, <1>6, <1>7

(* The writes a worker can store never agree without befriending.                   *)
LEMMA StoredWrites ==
  /\ \A q : \A p \in Pairs : W("agree", p) \in {W("apply", q)} => W("befriend", p) \in {W("apply", q)}
  /\ \A r \in Requests : r.kind \in Decisions =>
       \A p \in Pairs :
         W("agree", p) \in (IF r.kind = "agree" THEN {W(r.kind, Row(r)), W("befriend", Row(r))}
                                                ELSE {W(r.kind, Row(r))})
         => W("befriend", p) \in (IF r.kind = "agree" THEN {W(r.kind, Row(r)), W("befriend", Row(r))}
                                                     ELSE {W(r.kind, Row(r))})
  BY WEqual DEF Decisions

(* At start the invariant holds.                                                    *)
LEMMA InitIInv == Init => IInv
  BY BoundAssumption
  DEF Init, IInv, TypeOK, AcceptedAreFriends, AcksAreStored, PooledClean, WorkerInv, DeadInv,
      LinkOK, TxOK, DoneOK, Borrowed, PCs

(* A worker in MysqlDao that has a live connection; what it may store.              *)
LEMMA InDao ==
  ASSUME IInv, NEW s \in Servers, pc[s] \in Borrowed
  PROVE  /\ link[s] \in Links /\ link[s] \in {s} \X Conns /\ req[s] \in Requests
         /\ TxOK(s)
  BY DEF IInv, WorkerInv, LinkOK, Borrowed, Links

(* What a step does to the tables: rows stay, and the tables agree.                 *)
LEMMA TableStep ==
  ASSUME IInv, [Next]_vars
  PROVE  /\ apply' \in [Pairs -> SUBSET (0..2)] /\ friend' \subseteq Pairs
         /\ friend \subseteq friend'
         /\ \A p \in Pairs : apply[p] # {} => apply'[p] # {}
         /\ AcceptedAreFriends'
<1> DEFINE Sound == /\ apply' \in [Pairs -> SUBSET (0..2)] /\ friend' \subseteq Pairs
                    /\ friend \subseteq friend'
                    /\ \A p \in Pairs : apply[p] # {} => apply'[p] # {}
                    /\ AcceptedAreFriends'
<1>0. TypeOK /\ AcceptedAreFriends
  BY DEF IInv
<1>1. CASE UNCHANGED <<apply, friend>>
  BY <1>0, <1>1 DEF TypeOK, AcceptedAreFriends
<1>2. CASE Store({})
  BY <1>0, <1>2, StoreSound
<1>3. ASSUME NEW s \in Servers, AddFriendApply(s) PROVE Sound
  <2> DEFINE w == W("apply", Row(req[s]))
  <2>1. Store({w}) \/ UNCHANGED <<apply, friend>>
    <3>1. pc[s] \in Borrowed
      BY <1>3 DEF AddFriendApply, Borrowed
    <3>2. CASE link[s] \in alive
      <4>1. link[s] \notin manual
        BY <1>3, <3>1, <3>2, InDao DEF AddFriendApply, TxOK
      <4> QED
        BY <1>3, <4>1 DEF AddFriendApply, Execute, tables
    <3>3. CASE link[s] \notin alive
      BY <1>3, <3>3 DEF AddFriendApply
    <3> QED
      BY <3>2, <3>3
  <2>2. CASE Store({w})
    BY <1>0, <2>2, StoreSound, StoredWrites
  <2> QED
    BY <1>1, <2>1, <2>2
<1>4. ASSUME NEW s \in Servers, Update(s) \/ Insert(s) PROVE UNCHANGED <<apply, friend>>
  <2>1. pc[s] \in {"update", "insert"} /\ pc[s] \in Borrowed
    BY <1>4 DEF Update, Insert, Borrowed
  <2>2. link[s] \in alive => link[s] \in manual
    BY <2>1, InDao DEF TxOK
  <2> QED
    BY <1>4, <2>2 DEF Update, Insert, Execute, Throw, tables
<1>5. ASSUME NEW s \in Servers, Commit(s) PROVE Sound
  <2>1. pc[s] = "commit" /\ pc[s] \in Borrowed
    BY <1>5 DEF Commit, Borrowed
  <2>2. CASE link[s] \in alive /\ Store(tx[link[s]])
    <3>1. /\ req[s] \in Requests /\ req[s].kind \in Decisions
          /\ tx[link[s]] = IF req[s].kind = "agree"
                            THEN {W(req[s].kind, Row(req[s])), W("befriend", Row(req[s]))}
                            ELSE {W(req[s].kind, Row(req[s]))}
      BY <2>1, <2>2, InDao DEF TxOK
    <3> QED
      BY <1>0, <2>2, <3>1, StoreSound, StoredWrites
  <2>3. (link[s] \in alive /\ Store(tx[link[s]])) \/ UNCHANGED <<apply, friend>>
    BY <1>5 DEF Commit, Throw
  <2> QED
    BY <1>1, <2>2, <2>3
<1>6. ASSUME NEW s \in Servers, Restore(s) PROVE Store({}) \/ UNCHANGED <<apply, friend>>
  <2>1. pc[s] = "restore" /\ pc[s] \in Borrowed
    BY <1>6 DEF Restore, Borrowed
  <2>2. link[s] \in alive => tx[link[s]] = {}
    BY <2>1, InDao DEF TxOK
  <2> QED
    BY <1>6, <2>2 DEF Restore, AutoCommitOn, Throw
<1>7. ASSUME NEW s \in Servers, Catch(s) PROVE Store({}) \/ UNCHANGED <<apply, friend>>
  BY <1>7 DEF Catch, AutoCommitOn
<1>8. \/ \E s \in Servers : \/ AddFriendApply(s) \/ Update(s) \/ Insert(s) \/ Commit(s)
                             \/ Restore(s) \/ Catch(s)
      \/ UNCHANGED <<apply, friend>>
  BY Steps DEF Receive, Get, Select, Begin, Throw, Answer, Notify, Restart, Drop, vars
<1> QED
  BY <1>1, <1>2, <1>3, <1>4, <1>5, <1>6, <1>7, <1>8

(* Types.                                                                           *)
LEMMA WriteType == \A r \in Requests :
  /\ W("apply", Row(r)) \in Writes /\ W("befriend", Row(r)) \in Writes
  /\ r.kind \in Decisions => W(r.kind, Row(r)) \in Writes
  BY RowType DEF W, Writes, Decisions

LEMMA TypeStep == IInv /\ [Next]_vars => TypeOK'
<1> SUFFICES ASSUME IInv, [Next]_vars PROVE TypeOK'
  OBVIOUS
<1>0. TypeOK
  BY DEF IInv
<1>1. apply' \in [Pairs -> SUBSET (0..2)] /\ friend' \subseteq Pairs
  BY TableStep
<1>2. ASSUME NEW s \in Servers, NEW kinds, Receive(s, kinds) PROVE TypeOK'
  BY <1>0, <1>1, <1>2, BoundAssumption DEF TypeOK, Receive, Goto, PCs
<1>3. ASSUME NEW s \in Servers, Get(s) PROVE TypeOK'
  BY <1>0, <1>1, <1>3 DEF TypeOK, Get, Goto, PCs, Links
<1>4. ASSUME NEW s \in Servers, NEW st, Select(s, st) PROVE TypeOK'
  BY <1>0, <1>1, <1>4 DEF TypeOK, Select, Leave, Goto, PCs
<1>5. ASSUME NEW s \in Servers, AddFriendApply(s) PROVE TypeOK'
  <2>1. link[s] \in Links /\ req[s] \in Requests
    BY <1>5, InDao DEF AddFriendApply, Borrowed
  <2>2. tx' \in [Links -> SUBSET Writes]
    <3>1. W("apply", Row(req[s])) \in Writes
      BY <2>1, WriteType
    <3> QED
      BY <1>0, <1>5, <2>1, <3>1 DEF TypeOK, AddFriendApply, Execute, DropLink
  <2>3. alive' \subseteq Links /\ drops' \in 0..MaxDrops
    BY <1>0, <1>5, BoundAssumption DEF TypeOK, AddFriendApply, DropLink
  <2> QED
    BY <1>0, <1>1, <1>5, <2>2, <2>3 DEF TypeOK, AddFriendApply, Leave, Goto, PCs
<1>6. ASSUME NEW s \in Servers, Begin(s) PROVE TypeOK'
  <2>1. link[s] \in Links
    BY <1>6, InDao DEF Begin, Borrowed
  <2> QED
    BY <1>0, <1>1, <1>6, <2>1 DEF TypeOK, Begin, Throw, Goto, PCs
<1>7. ASSUME NEW s \in Servers, Update(s) \/ Insert(s) PROVE TypeOK'
  <2>1. link[s] \in Links /\ req[s] \in Requests /\ req[s].kind \in Decisions
    BY <1>7, InDao DEF Update, Insert, Borrowed, TxOK
  <2>2. W(req[s].kind, Row(req[s])) \in Writes /\ W("befriend", Row(req[s])) \in Writes
    BY <2>1, WriteType
  <2>3. tx' \in [Links -> SUBSET Writes]
    BY <1>0, <1>7, <2>1, <2>2 DEF TypeOK, Update, Insert, Execute, Throw
  <2> QED
    BY <1>0, <1>1, <1>7, <2>3 DEF TypeOK, Update, Insert, Throw, Goto, PCs
<1>8. ASSUME NEW s \in Servers, Commit(s) PROVE TypeOK'
  <2>1. link[s] \in Links
    BY <1>8, InDao DEF Commit, Borrowed
  <2>2. tx' \in [Links -> SUBSET Writes] /\ alive' \subseteq Links /\ drops' \in 0..MaxDrops
    BY <1>0, <1>8, <2>1, BoundAssumption DEF TypeOK, Commit, DropLink, Throw
  <2> QED
    BY <1>0, <1>1, <1>8, <2>2 DEF TypeOK, Commit, Throw, Goto, PCs
<1>9. ASSUME NEW s \in Servers, Restore(s) PROVE TypeOK'
  <2>1. link[s] \in Links
    BY <1>9, InDao DEF Restore, Borrowed
  <2> QED
    BY <1>0, <1>1, <1>9, <2>1 DEF TypeOK, Restore, AutoCommitOn, Throw, Leave, Goto, PCs
<1>10. ASSUME NEW s \in Servers, Catch(s) PROVE TypeOK'
  <2>1. link[s] \in Links
    BY <1>10, InDao DEF Catch, Borrowed
  <2> QED
    BY <1>0, <1>1, <1>10, <2>1 DEF TypeOK, Catch, AutoCommitOn, Leave, Goto, PCs
<1>11. ASSUME NEW s \in Servers, Answer(s) PROVE TypeOK'
  <2>1. req[s] \in Requests
    BY <1>11 DEF Answer, IInv, WorkerInv, LinkOK
  <2>2. Row(req[s]) \in Pairs /\ <<req[s].me, req[s].other>> \in Pairs
    BY <2>1, RowType DEF Requests, Pairs
  <2> QED
    BY <1>0, <1>1, <1>11, <2>2 DEF TypeOK, Answer, Finish, Goto, PCs
<1>12. ASSUME NEW s \in Servers, Notify(s) PROVE TypeOK'
  <2>1. req[s] \in Requests
    BY <1>12 DEF Notify, IInv, WorkerInv, LinkOK
  <2>2. <<req[s].other, req[s].me>> \in Pairs
    BY <2>1 DEF Requests, Pairs
  <2> QED
    BY <1>0, <1>1, <1>12, <2>2 DEF TypeOK, Notify, Finish, Goto, PCs
<1>13. ASSUME NEW s \in Servers, Restart(s) PROVE TypeOK'
  <2>1. alive' \subseteq Links /\ drops' \in 0..MaxDrops
    BY <1>0, <1>13, BoundAssumption DEF TypeOK, Restart, Links
  <2> QED
    BY <1>0, <1>1, <1>13, <2>1 DEF TypeOK, Restart, Finish, Goto, PCs
<1>14. CASE Drop
  BY <1>0, <1>1, <1>14, BoundAssumption DEF TypeOK, Drop, DropLink
<1>15. CASE UNCHANGED vars
  BY <1>0, <1>15 DEF TypeOK, vars
<1> QED
  BY <1>2, <1>3, <1>4, <1>5, <1>6, <1>7, <1>8, <1>9, <1>10, <1>11, <1>12, <1>13, <1>14, <1>15, Steps

(* A server's step touches nothing of the other servers' workers and connections.   *)
Others(s) ==
  /\ \A t \in Servers \ {s} : /\ pc'[t] = pc[t] /\ req'[t] = req[t]
                             /\ link'[t] = link[t] /\ ret'[t] = ret[t]
  /\ \A l \in Links : l[1] # s => /\ (l \in alive') = (l \in alive)
                                 /\ (l \in manual') = (l \in manual)
                                 /\ tx'[l] = tx[l]

LEMMA Local ==
  ASSUME IInv, NEW s \in Servers,
         \/ \E k : Receive(s, k)
         \/ \E k : Select(s, k)
         \/ Get(s) \/ AddFriendApply(s) \/ Begin(s) \/ Update(s) \/ Insert(s) \/ Commit(s)
         \/ Restore(s) \/ Catch(s) \/ Answer(s) \/ Notify(s) \/ Restart(s)
  PROVE  Others(s)
<1>0. TypeOK
  BY DEF IInv
<1> DEFINE Workers == \A t \in Servers \ {s} : /\ pc'[t] = pc[t] /\ req'[t] = req[t]
                                             /\ link'[t] = link[t] /\ ret'[t] = ret[t]
           Lines == \A l \in Links : l[1] # s => /\ (l \in alive') = (l \in alive)
                                               /\ (l \in manual') = (l \in manual)
                                               /\ tx'[l] = tx[l]
<1>1. Workers
  BY <1>0 DEF TypeOK, Receive, Select, Get, AddFriendApply, Begin, Update, Insert, Commit, Restore, Catch,
     Answer, Notify, Restart, Throw, Leave, Finish, Goto
<1>2. Lines
  <2>1. CASE UNCHANGED <<alive, manual, tx>>
    BY <2>1
  <2>2. CASE Restart(s)
    BY <1>0, <2>2 DEF TypeOK, Restart, Links
  <2>3. CASE AddFriendApply(s) \/ Begin(s) \/ Update(s) \/ Insert(s) \/ Commit(s) \/ Restore(s) \/ Catch(s)
    <3>1. link[s] \in {s} \X Conns
      BY <2>3, InDao DEF AddFriendApply, Begin, Update, Insert, Commit, Restore, Catch, Borrowed
    <3>2. \A l \in Links : l[1] # s => l # link[s]
      BY <3>1
    <3>3. CASE AddFriendApply(s)
      BY <1>0, <3>2, <3>3 DEF TypeOK, AddFriendApply, Execute, DropLink
    <3>4. CASE Begin(s)
      BY <1>0, <3>2, <3>4 DEF TypeOK, Begin, Throw
    <3>5. CASE Update(s) \/ Insert(s)
      BY <1>0, <3>2, <3>5 DEF TypeOK, Update, Insert, Execute, Throw
    <3>6. CASE Commit(s)
      BY <1>0, <3>2, <3>6 DEF TypeOK, Commit, DropLink, Throw
    <3>7. CASE Restore(s) \/ Catch(s)
      BY <1>0, <3>2, <3>7 DEF TypeOK, Restore, Catch, AutoCommitOn, Throw
    <3> QED
      BY <2>3, <3>3, <3>4, <3>5, <3>6, <3>7
  <2>4. \/ UNCHANGED <<alive, manual, tx>>
        \/ Restart(s) \/ AddFriendApply(s) \/ Begin(s) \/ Update(s) \/ Insert(s) \/ Commit(s)
        \/ Restore(s) \/ Catch(s)
    BY DEF Receive, Select, Get, Answer, Notify
  <2> QED
    BY <2>1, <2>2, <2>3, <2>4
<1> QED
  BY <1>1, <1>2 DEF Others

(* What the other servers' workers know stays true: rows only come.                 *)
LEMMA OthersKeep ==
  ASSUME IInv, [Next]_vars, NEW s \in Servers, Others(s), NEW t \in Servers \ {s}
  PROVE  LinkOK(t)' /\ TxOK(t)' /\ DoneOK(t)'
<1>0. LinkOK(t) /\ TxOK(t) /\ DoneOK(t)
  BY DEF IInv, WorkerInv
<1>1. pc'[t] = pc[t] /\ req'[t] = req[t] /\ link'[t] = link[t] /\ ret'[t] = ret[t]
  BY DEF Others
<1>2. LinkOK(t)'
  BY <1>0, <1>1 DEF LinkOK
<1>3. TxOK(t)'
  <2>1. CASE pc[t] \in Borrowed
    <3>1. link[t] \in Links /\ link[t][1] # s
      BY <2>1, InDao
    <3>2. /\ (link[t] \in alive') = (link[t] \in alive) /\ (link[t] \in manual') = (link[t] \in manual)
          /\ tx'[link[t]] = tx[link[t]]
      BY <3>1 DEF Others
    <3> QED
      BY <1>0, <1>1, <3>2 DEF TxOK
  <2>2. CASE pc[t] \notin Borrowed
    BY <1>1, <2>2 DEF TxOK, Borrowed
  <2> QED
    BY <2>1, <2>2
<1>4. DoneOK(t)'
  <2>1. CASE pc[t] = "idle"
    BY <1>1, <2>1 DEF DoneOK
  <2>2. CASE pc[t] # "idle"
    <3>1. Row(req[t]) \in Pairs
      BY <1>0, <2>2, RowType DEF LinkOK
    <3>2. friend \subseteq friend' /\ (apply[Row(req[t])] # {} => apply'[Row(req[t])] # {})
      BY <3>1, TableStep
    <3>3. Row(req'[t]) = Row(req[t]) /\ Flip(Row(req'[t])) = Flip(Row(req[t]))
      BY <1>1
    <3> QED
      BY <1>0, <1>1, <3>2, <3>3 DEF DoneOK
  <2> QED
    BY <2>1, <2>2
<1> QED
  BY <1>2, <1>3, <1>4

(* A worker's own step.                                                             *)
LEMMA LinkStep ==
  ASSUME IInv, NEW s \in Servers,
         \/ \E k : Receive(s, k)
         \/ \E k : Select(s, k)
         \/ Get(s) \/ AddFriendApply(s) \/ Begin(s) \/ Update(s) \/ Insert(s) \/ Commit(s)
         \/ Restore(s) \/ Catch(s) \/ Answer(s) \/ Notify(s) \/ Restart(s)
  PROVE  LinkOK(s)'
<1>0. TypeOK /\ LinkOK(s)
  BY DEF IInv, WorkerInv
<1>1. ASSUME NEW k, Receive(s, k) PROVE LinkOK(s)'
  BY <1>0, <1>1 DEF TypeOK, LinkOK, Borrowed, Receive, Goto
<1>2. ASSUME NEW k, Select(s, k) PROVE LinkOK(s)'
  BY <1>0, <1>2 DEF TypeOK, LinkOK, Borrowed, Select, Leave, Goto
<1>3. CASE Get(s)
  BY <1>0, <1>3 DEF TypeOK, LinkOK, Borrowed, Get, Goto
<1>4. CASE AddFriendApply(s)
  BY <1>0, <1>4 DEF TypeOK, LinkOK, Borrowed, AddFriendApply, Leave, Goto
<1>5. CASE Begin(s) \/ Update(s) \/ Insert(s) \/ Commit(s)
  BY <1>0, <1>5 DEF TypeOK, LinkOK, Borrowed, Begin, Update, Insert, Commit, Throw, Goto
<1>6. CASE Restore(s) \/ Catch(s)
  BY <1>0, <1>6 DEF TypeOK, LinkOK, Borrowed, Restore, Catch, Throw, Leave, Goto
<1>7. CASE Answer(s) \/ Notify(s)
  BY <1>0, <1>7 DEF TypeOK, LinkOK, Borrowed, Answer, Notify, Finish, Goto
<1>8. CASE Restart(s)
  BY <1>0, <1>8 DEF TypeOK, LinkOK, Borrowed, Restart, Finish, Goto
<1> QED
  BY <1>1, <1>2, <1>3, <1>4, <1>5, <1>6, <1>7, <1>8

LEMMA TxStep ==
  ASSUME IInv, NEW s \in Servers,
         \/ \E k : Receive(s, k)
         \/ \E k : Select(s, k)
         \/ Get(s) \/ AddFriendApply(s) \/ Begin(s) \/ Update(s) \/ Insert(s) \/ Commit(s)
         \/ Restore(s) \/ Catch(s) \/ Answer(s) \/ Notify(s) \/ Restart(s)
  PROVE  TxOK(s)'
<1>0. TypeOK /\ LinkOK(s) /\ TxOK(s)
  BY DEF IInv, WorkerInv
<1> DEFINE k1 == req[s].kind
<1>1. CASE pc'[s] \notin Borrowed
  BY <1>1 DEF TxOK, Borrowed
<1>2. CASE Get(s)
  <2>1. PICK c \in Conns : link'[s] = <<s, c>>
    BY <1>0, <1>2 DEF Get, TypeOK
  <2>2. <<s, c>> \in alive => <<s, c>> \notin manual /\ tx[<<s, c>>] = {}
    <3>1. \A t \in Servers : link[t] # <<s, c>>
      <4>1. link[s] = NoLink /\ <<s, c>> \in Links
        BY <1>0, <1>2 DEF Get, LinkOK, Borrowed, Links
      <4>2. ASSUME NEW t \in Servers \ {s} PROVE link[t] # <<s, c>>
        <5>1. link[t] = NoLink \/ link[t] \in {t} \X Conns
          BY DEF IInv, WorkerInv, LinkOK
        <5> QED
          BY <4>1, <5>1, LinkAssumption
      <4> QED
        BY <4>1, <4>2, LinkAssumption
    <3> QED
      BY <3>1 DEF IInv, PooledClean
  <2>3. /\ pc'[s] \in {"statement", "begin"} /\ UNCHANGED <<req, alive, manual, tx>>
        /\ (pc'[s] = "begin" <=> req[s].kind \in Decisions)
    BY <1>0, <1>2 DEF Get, Goto, TypeOK
  <2> QED
    BY <2>1, <2>2, <2>3 DEF TxOK, Borrowed
<1>3. CASE Begin(s)
  <2>1. pc[s] = "begin" /\ link[s] \in Links
    BY <1>3, InDao DEF Begin, Borrowed
  <2>2. UNCHANGED <<req, link, alive, tx>>
    BY <1>3 DEF Begin, Throw
  <2>3. \/ link[s] \in manual' /\ pc'[s] = "update"
        \/ pc'[s] = "catch"
    BY <1>0, <1>3, <2>1 DEF Begin, Throw, Goto, TypeOK
  <2> QED
    BY <1>0, <2>1, <2>2, <2>3 DEF TxOK, Borrowed
<1>4. CASE Update(s)
  <2>1. pc[s] = "update" /\ link[s] \in Links
    BY <1>4, InDao DEF Update, Borrowed
  <2>2. UNCHANGED <<req, link, alive, manual>>
    BY <1>4 DEF Update, Throw
  <2>3. \/ pc'[s] = "catch"
        \/ /\ link[s] \in manual /\ tx[link[s]] = {}
           /\ tx'[link[s]] = {W(k1, Row(req[s]))}
           /\ pc'[s] = IF k1 = "agree" THEN "insert" ELSE "commit"
    BY <1>0, <1>4, <2>1 DEF Update, Throw, Goto, TypeOK, Execute, TxOK
  <2> QED
    BY <1>0, <2>1, <2>2, <2>3 DEF TxOK, Borrowed
<1>5. CASE Insert(s)
  <2>1. pc[s] = "insert" /\ link[s] \in Links
    BY <1>5, InDao DEF Insert, Borrowed
  <2>2. UNCHANGED <<req, link, alive, manual>> /\ k1 = "agree" /\ k1 \in Decisions
    BY <1>0, <1>5 DEF Insert, Throw, TxOK, Decisions
  <2>3. \/ pc'[s] = "catch"
        \/ /\ link[s] \in manual /\ tx[link[s]] = {W(k1, Row(req[s]))}
           /\ tx'[link[s]] = {W(k1, Row(req[s])), W("befriend", Row(req[s]))}
           /\ pc'[s] = "commit"
    BY <1>0, <1>5, <2>1 DEF Insert, Throw, Goto, TypeOK, Execute, TxOK
  <2> QED
    BY <1>0, <2>1, <2>2, <2>3 DEF TxOK, Borrowed
<1>6. CASE Commit(s)
  <2>1. pc[s] = "commit" /\ link[s] \in Links
    BY <1>6, InDao DEF Commit, Borrowed
  <2>2. UNCHANGED <<req, link, manual>> /\ k1 \in Decisions
    BY <1>0, <1>6 DEF Commit, Throw, TxOK, Borrowed
  <2>3. \/ pc'[s] = "catch"
        \/ link[s] \in manual /\ tx'[link[s]] = {} /\ pc'[s] = "restore"
    BY <1>0, <1>6, <2>1 DEF Commit, Throw, Goto, TypeOK, TxOK
  <2> QED
    BY <1>0, <2>1, <2>2, <2>3 DEF TxOK, Borrowed
<1>7. CASE Restore(s)
  <2>1. pc'[s] = "answer" \/ (pc'[s] = "catch" /\ UNCHANGED req)
    BY <1>0, <1>7 DEF Restore, Throw, Leave, Goto, TypeOK
  <2> QED
    BY <1>0, <1>1, <1>7, <2>1 DEF Restore, TxOK, Borrowed
<1>8. \/ pc'[s] \notin Borrowed \/ Get(s) \/ Begin(s) \/ Update(s) \/ Insert(s) \/ Commit(s) \/ Restore(s)
  BY <1>0 DEF TypeOK, Borrowed, Receive, Select, AddFriendApply, Catch, Answer, Notify, Restart, Leave,
     Finish, Goto, LinkOK
<1> QED
  BY <1>1, <1>2, <1>3, <1>4, <1>5, <1>6, <1>7, <1>8

LEMMA DoneStep ==
  ASSUME IInv, [Next]_vars, NEW s \in Servers,
         \/ \E k \in {{"search"}, {"apply"}, {"apply_list"}, Decisions, {"friend_list"}} : Receive(s, k)
         \/ \E k \in {"search", "apply_list", "friend_list"} : Select(s, k)
         \/ Get(s) \/ AddFriendApply(s) \/ Begin(s) \/ Update(s) \/ Insert(s) \/ Commit(s)
         \/ Restore(s) \/ Catch(s) \/ Answer(s) \/ Notify(s) \/ Restart(s)
  PROVE  DoneOK(s)'
<1>0. TypeOK /\ AcceptedAreFriends /\ LinkOK(s) /\ TxOK(s) /\ DoneOK(s)
  BY DEF IInv, WorkerInv
<1>1. CASE pc'[s] \notin {"restore", "answer", "notify"}
  BY <1>1 DEF DoneOK
<1>2. ASSUME NEW k \in {"search", "apply_list", "friend_list"}, Select(s, k) PROVE DoneOK(s)'
  BY <1>2 DEF Select, DoneOK
<1>3. CASE AddFriendApply(s)
  <2>1. pc[s] = "statement" /\ req[s] \in Requests /\ Row(req[s]) \in Pairs
    BY <1>3, InDao, RowType DEF AddFriendApply, Borrowed
  <2>2. CASE ret'[s] = "MysqlFailed"
    BY <1>0, <1>3, <2>2 DEF AddFriendApply, DoneOK, Leave, Goto, TypeOK
  <2>3. CASE Store({W("apply", Row(req[s]))})
    <3>1. apply'[Row(req[s])] # {}
      BY <1>0, <2>1, <2>3, StoreSound, StoredWrites
    <3> QED
      BY <1>3, <3>1 DEF AddFriendApply, DoneOK
  <2>4. ret'[s] = "MysqlFailed" \/ Store({W("apply", Row(req[s]))})
    <3>1. link[s] \in alive => link[s] \notin manual
      BY <1>0, <2>1 DEF TxOK
    <3> QED
      BY <1>0, <1>3, <3>1 DEF AddFriendApply, Execute, Leave, TypeOK
  <2> QED
    BY <2>2, <2>3, <2>4
<1>4. CASE Commit(s)
  <2>1. pc[s] = "commit" /\ req[s] \in Requests /\ Row(req[s]) \in Pairs /\ req[s].kind \in Decisions
    BY <1>4, InDao, RowType DEF Commit, Borrowed, TxOK
  <2>2. CASE link[s] \in alive /\ Store(tx[link[s]])
    <3>1. tx[link[s]] = IF req[s].kind = "agree"
                        THEN {W(req[s].kind, Row(req[s])), W("befriend", Row(req[s]))}
                        ELSE {W(req[s].kind, Row(req[s]))}
      BY <1>0, <2>1, <2>2 DEF TxOK
    <3>2. req[s].kind = "agree" => Row(req[s]) \in friend' /\ Flip(Row(req[s])) \in friend'
      BY <1>0, <2>1, <2>2, <3>1, StoreSound, StoredWrites
    <3> QED
      BY <1>4, <2>1, <3>2 DEF Commit, Throw, DoneOK, Decisions
  <2>3. (link[s] \in alive /\ Store(tx[link[s]])) \/ pc'[s] = "catch"
    BY <1>0, <1>4 DEF Commit, Throw, Goto, TypeOK
  <2> QED
    BY <1>1, <2>2, <2>3
<1>5. CASE Restore(s)
  <2>1. pc[s] = "restore" /\ req[s].kind \in Decisions
    BY <1>0, <1>5 DEF Restore, TxOK, Borrowed
  <2>2. friend \subseteq friend' /\ UNCHANGED req
    BY <1>5, TableStep DEF Restore
  <2>3. Row(req'[s]) = Row(req[s]) /\ Flip(Row(req'[s])) = Flip(Row(req[s]))
    BY <2>2
  <2> QED
    BY <1>0, <2>1, <2>2, <2>3 DEF DoneOK, Decisions
<1>6. CASE Catch(s)
  BY <1>0, <1>6 DEF Catch, Leave, Goto, TypeOK, DoneOK
<1>7. CASE Answer(s)
  <2>1. pc[s] = "answer" /\ (pc'[s] = "idle" \/ (pc'[s] = "notify" /\ UNCHANGED <<req, ret>>))
    BY <1>0, <1>7 DEF Answer, Finish, Goto, TypeOK
  <2>2. pc'[s] = "notify" /\ req[s].kind = "agree" => ret[s] = "Success"
    BY <1>0, <1>7 DEF Answer, Finish, Goto, TypeOK
  <2>3. UNCHANGED friend
    BY <1>7 DEF Answer
  <2>4. (Row(req'[s]) = Row(req[s]) /\ Flip(Row(req'[s])) = Flip(Row(req[s]))) \/ pc'[s] = "idle"
    BY <2>1
  <2> QED
    BY <1>0, <2>1, <2>2, <2>3, <2>4 DEF DoneOK
<1>8. \/ pc'[s] \notin {"restore", "answer", "notify"}
      \/ AddFriendApply(s) \/ Commit(s) \/ Restore(s) \/ Catch(s) \/ Answer(s)
      \/ \E k \in {"search", "apply_list", "friend_list"} : Select(s, k)
  BY <1>0 DEF TypeOK, Receive, Get, Begin, Update, Insert, Throw, Notify, Restart, Finish, Goto
<1> QED
  BY <1>1, <1>2, <1>3, <1>4, <1>5, <1>6, <1>7, <1>8

(* A lost connection takes its transaction with it and disturbs nobody else.        *)
LEMMA DropKeeps ==
  ASSUME IInv, Drop
  PROVE  WorkerInv' /\ DeadInv' /\ PooledClean'
<1>0. TypeOK /\ WorkerInv /\ DeadInv /\ PooledClean
  BY DEF IInv
<1>1. PICK d \in alive : DropLink(d)
  BY DEF Drop
<1>2. UNCHANGED <<apply, friend, manual, pc, req, link, ret>>
  BY DEF Drop
<1>3. alive' = alive \ {d} /\ tx' = [tx EXCEPT ![d] = {}]
  BY <1>1 DEF DropLink
<1>4. \A l \in alive' : l \in alive /\ tx'[l] = tx[l]
  BY <1>0, <1>3 DEF TypeOK
<1>5. ASSUME NEW s \in Servers PROVE LinkOK(s)' /\ TxOK(s)' /\ DoneOK(s)'
  <2>1. LinkOK(s) /\ TxOK(s) /\ DoneOK(s)
    BY <1>0 DEF WorkerInv
  <2>2. LinkOK(s)' /\ DoneOK(s)'
    BY <1>2, <2>1 DEF LinkOK, DoneOK, Row, Flip
  <2>3. TxOK(s)'
    BY <1>2, <1>4, <2>1 DEF TxOK, Row
  <2> QED
    BY <2>2, <2>3
<1>6. DeadInv'
  BY <1>0, <1>3 DEF DeadInv, TypeOK
<1>7. PooledClean'
  BY <1>0, <1>2, <1>4 DEF PooledClean
<1> QED
  BY <1>5, <1>6, <1>7 DEF WorkerInv

(* A connection that is given back is clean, and the others stay as they were.      *)
LEMMA CleanStep ==
  ASSUME IInv, NEW s \in Servers, Others(s),
         \/ \E k : Receive(s, k)
         \/ \E k : Select(s, k)
         \/ Get(s) \/ AddFriendApply(s) \/ Begin(s) \/ Update(s) \/ Insert(s) \/ Commit(s)
         \/ Restore(s) \/ Catch(s) \/ Answer(s) \/ Notify(s) \/ Restart(s)
  PROVE  PooledClean' /\ DeadInv'
<1> DEFINE Fit(l) == l \notin manual' /\ tx'[l] = {}
<1>0. TypeOK /\ LinkOK(s) /\ TxOK(s) /\ PooledClean /\ DeadInv
  BY DEF IInv, WorkerInv
<1>1. \A l \in Links : l[1] # s /\ l \in alive' /\ (\A t \in Servers : link'[t] # l) => Fit(l)
  <2> SUFFICES ASSUME NEW l \in Links, l[1] # s, l \in alive', \A t \in Servers : link'[t] # l
               PROVE  Fit(l)
    OBVIOUS
  <2>1. (l \in alive) /\ (l \in manual') = (l \in manual) /\ tx'[l] = tx[l]
    BY DEF Others
  <2>2. link[s] # l
    BY <1>0, LinkAssumption DEF LinkOK
  <2>3. \A t \in Servers : link[t] # l
    BY <2>2 DEF Others
  <2> QED
    BY <1>0, <2>1, <2>3 DEF PooledClean
<1>2. \A l \in Links : l[1] # s /\ l \notin alive' => tx'[l] = {}
  BY <1>0 DEF Others, DeadInv
<1> DEFINE Own == \A l \in Links : l[1] = s =>
                    /\ l \in alive' /\ (\A t \in Servers : link'[t] # l) => Fit(l)
                    /\ l \notin alive' => tx'[l] = {}
<1>3. CASE UNCHANGED <<alive, manual, tx>> /\ UNCHANGED link
  BY <1>0, <1>3 DEF PooledClean, DeadInv
<1>4. ASSUME NEW l \in Links, l[1] = s, l # link[s], \A t \in Servers : link'[t] # l
      PROVE  \A t \in Servers : link[t] # l
  <2>1. ASSUME NEW t \in Servers \ {s} PROVE link[t] # l
    <3>1. link[t] = NoLink \/ link[t] \in {t} \X Conns
      BY DEF IInv, WorkerInv, LinkOK
    <3> QED
      BY <1>4, <3>1, LinkAssumption
  <2> QED
    BY <1>4, <2>1
<1>5. ASSUME Get(s) PROVE Own
  <2>1. UNCHANGED <<alive, manual, tx>> /\ link[s] = NoLink
    BY <1>0, <1>5 DEF Get, LinkOK, Borrowed
  <2>2. \A l \in Links : l # link[s]
    BY <2>1, LinkAssumption
  <2> QED
    BY <1>0, <1>4, <2>1, <2>2 DEF PooledClean, DeadInv
<1>6. ASSUME \/ \E k : Select(s, k)
             \/ AddFriendApply(s) \/ Begin(s) \/ Update(s) \/ Insert(s) \/ Commit(s)
             \/ Restore(s) \/ Catch(s)
      PROVE  Own
  <2>1. link[s] \in Links
    BY <1>6, InDao DEF Select, AddFriendApply, Begin, Update, Insert, Commit, Restore, Catch, Borrowed
  <2>2. \A l \in Links : l # link[s] => /\ (l \in alive') = (l \in alive)
                                      /\ (l \in manual') = (l \in manual)
                                      /\ tx'[l] = tx[l]
    <3>1. CASE \/ \E k : Select(s, k)
               \/ AddFriendApply(s) \/ Begin(s)
      BY <1>0, <2>1, <3>1 DEF Select, AddFriendApply, Begin, Throw, Execute, DropLink, TypeOK
    <3>2. CASE Update(s) \/ Insert(s) \/ Commit(s)
      BY <1>0, <2>1, <3>2 DEF Update, Insert, Commit, Throw, Execute, DropLink, TypeOK
    <3>3. CASE Restore(s) \/ Catch(s)
      BY <1>0, <2>1, <3>3 DEF Restore, Catch, AutoCommitOn, Throw, TypeOK
    <3> QED
      BY <1>6, <3>1, <3>2, <3>3
  <2>3. \A l \in Links : l[1] = s /\ l # link[s] =>
          /\ l \in alive' /\ (\A t \in Servers : link'[t] # l) => Fit(l)
          /\ l \notin alive' => tx'[l] = {}
    BY <1>0, <1>4, <2>2 DEF PooledClean, DeadInv
  <2>4. link[s] \notin alive' => tx'[link[s]] = {}
    <3>1. CASE \/ \E k : Select(s, k)
               \/ AddFriendApply(s) \/ Begin(s)
      BY <1>0, <2>1, <3>1 DEF Select, AddFriendApply, Begin, Throw, Execute, DropLink, TypeOK, DeadInv
    <3>2. CASE Update(s) \/ Insert(s) \/ Commit(s)
      BY <1>0, <2>1, <3>2 DEF Update, Insert, Commit, Throw, Execute, DropLink, TypeOK, DeadInv
    <3>3. CASE Restore(s) \/ Catch(s)
      BY <1>0, <2>1, <3>3 DEF Restore, Catch, AutoCommitOn, Throw, TypeOK, DeadInv
    <3> QED
      BY <1>6, <3>1, <3>2, <3>3
  <2>5. link'[s] # link[s] /\ link[s] \in alive' => Fit(link[s])
    <3>1. CASE \E k : Select(s, k)
      BY <1>0, <3>1 DEF Select, TxOK
    <3>2. CASE AddFriendApply(s)
      <4>1. link[s] \in alive => link[s] \notin manual /\ tx[link[s]] = {}
        BY <1>0, <3>2 DEF AddFriendApply, TxOK
      <4>2. alive' \subseteq alive /\ UNCHANGED manual
        BY <3>2 DEF AddFriendApply, DropLink
      <4>3. link[s] \in alive /\ link[s] \notin manual => tx'[link[s]] = {}
        BY <1>0, <2>1, <3>2, <4>1 DEF AddFriendApply, Execute, DropLink, TypeOK
      <4> QED
        BY <4>1, <4>2, <4>3
    <3>3. CASE Begin(s) \/ Update(s) \/ Insert(s) \/ Commit(s)
      BY <3>3 DEF Begin, Update, Insert, Commit, Throw
    <3>4. CASE Restore(s) \/ Catch(s)
      BY <1>0, <2>1, <3>4 DEF Restore, Catch, AutoCommitOn, Throw, TypeOK
    <3> QED
      BY <1>6, <3>1, <3>2, <3>3, <3>4
  <2>6. (\A t \in Servers : link'[t] # link[s]) => link'[s] # link[s]
    OBVIOUS
  <2> HIDE DEF Fit
  <2>7. ASSUME NEW l \in Links, l[1] = s
        PROVE  /\ l \in alive' /\ (\A t \in Servers : link'[t] # l) => Fit(l)
               /\ l \notin alive' => tx'[l] = {}
    <3>1. CASE l = link[s]
      BY <2>4, <2>5, <2>6, <3>1
    <3>2. CASE l # link[s]
      BY <2>3, <2>7, <3>2
    <3> QED
      BY <3>1, <3>2
  <2> QED
    BY <2>7
<1>7. ASSUME Restart(s) PROVE Own
  BY <1>7 DEF Restart, Links
<1>8. CASE (\E k : Receive(s, k)) \/ Answer(s) \/ Notify(s)
  BY <1>3, <1>8 DEF Receive, Answer, Notify
<1>9. alive' \subseteq Links
  BY <1>0 DEF TypeOK, Receive, Select, Get, AddFriendApply, Begin, Update, Insert, Commit, Restore, Catch,
     Answer, Notify, Restart, Throw, DropLink, Links
<1>10. CASE Own
  BY <1>1, <1>2, <1>9, <1>10 DEF PooledClean, DeadInv
<1> HIDE DEF Own
<1> QED
  BY <1>5, <1>6, <1>7, <1>8, <1>10

(* What a user is told about friends: nothing, or the truth.                        *)
LEMMA TellStep ==
  ASSUME IInv, NEW s \in Servers, Answer(s) \/ Notify(s)
  PROVE  /\ UNCHANGED <<apply, friend>>
         /\ \/ UNCHANGED toldFriends
            \/ \E u, v \in Uids : <<u, v>> \in friend /\ toldFriends' = toldFriends \cup {<<u, v>>}
         /\ \/ UNCHANGED toldApplied
            \/ \E p \in Pairs : apply[p] # {} /\ toldApplied' = toldApplied \cup {p}
<1>1. DoneOK(s) /\ req[s] \in Requests
  BY DEF IInv, WorkerInv, LinkOK, Answer, Notify
<1>2. /\ req[s].me \in Uids /\ req[s].other \in Uids /\ Row(req[s]) \in Pairs
      /\ req[s].kind = "agree" => /\ Row(req[s]) = <<req[s].other, req[s].me>>
                                 /\ Flip(Row(req[s])) = <<req[s].me, req[s].other>>
  BY <1>1, RowType DEF Requests, Row, Flip
<1>3. CASE Answer(s)
  BY <1>1, <1>2, <1>3 DEF Answer, DoneOK
<1>4. CASE Notify(s)
  BY <1>1, <1>2, <1>4 DEF Notify, DoneOK
<1> QED
  BY <1>3, <1>4

LEMMA AckStep == IInv /\ [Next]_vars => AcksAreStored'
<1> SUFFICES ASSUME IInv, [Next]_vars PROVE AcksAreStored'
  OBVIOUS
<1>1. TypeOK /\ AcksAreStored
  BY DEF IInv
<1>2. friend \subseteq friend' /\ \A p \in Pairs : apply[p] # {} => apply'[p] # {}
  BY TableStep
<1>3. CASE UNCHANGED <<toldApplied, toldFriends>>
  BY <1>1, <1>2, <1>3 DEF AcksAreStored, TypeOK
<1>4. ASSUME NEW s \in Servers, Answer(s) \/ Notify(s) PROVE AcksAreStored'
  <2>1. /\ UNCHANGED <<apply, friend>>
        /\ toldFriends' \subseteq friend
        /\ \A p \in toldApplied' : p \in toldApplied \/ apply[p] # {}
    BY <1>1, <1>4, TellStep DEF AcksAreStored
  <2> QED
    BY <1>1, <2>1 DEF AcksAreStored
<1>5. (\E s \in Servers : Answer(s) \/ Notify(s)) \/ UNCHANGED <<toldApplied, toldFriends>>
  BY Steps DEF Receive, Get, Select, AddFriendApply, Begin, Update, Insert, Commit, Restore, Catch,
     Restart, Drop, vars
<1> QED
  BY <1>3, <1>4, <1>5

(* The invariant is inductive.                                                      *)
LEMMA NextIInv == IInv /\ [Next]_vars => IInv'
<1> SUFFICES ASSUME IInv, [Next]_vars PROVE IInv'
  OBVIOUS
<1>1. TypeOK' /\ AcceptedAreFriends' /\ AcksAreStored'
  BY TypeStep, TableStep, AckStep
<1>2. ASSUME NEW s \in Servers,
             \/ \E k \in {{"search"}, {"apply"}, {"apply_list"}, Decisions, {"friend_list"}} : Receive(s, k)
             \/ \E k \in {"search", "apply_list", "friend_list"} : Select(s, k)
             \/ Get(s) \/ AddFriendApply(s) \/ Begin(s) \/ Update(s) \/ Insert(s) \/ Commit(s)
             \/ Restore(s) \/ Catch(s) \/ Answer(s) \/ Notify(s) \/ Restart(s)
      PROVE  WorkerInv' /\ DeadInv' /\ PooledClean'
  <2>1. Others(s)
    BY <1>2, Local
  <2>2. LinkOK(s)' /\ TxOK(s)' /\ DoneOK(s)'
    BY <1>2, LinkStep, TxStep, DoneStep
  <2>3. \A t \in Servers \ {s} : LinkOK(t)' /\ TxOK(t)' /\ DoneOK(t)'
    BY <2>1, OthersKeep
  <2>4. PooledClean' /\ DeadInv'
    BY <1>2, <2>1, CleanStep
  <2> QED
    BY <2>2, <2>3, <2>4 DEF WorkerInv
<1>3. ASSUME Drop PROVE WorkerInv' /\ DeadInv' /\ PooledClean'
  BY <1>3, DropKeeps
<1>4. ASSUME UNCHANGED vars PROVE WorkerInv' /\ DeadInv' /\ PooledClean'
  <2>1. WorkerInv /\ DeadInv /\ PooledClean
    BY DEF IInv
  <2>2. ASSUME NEW s \in Servers PROVE LinkOK(s)' /\ TxOK(s)' /\ DoneOK(s)'
    BY <1>4, <2>1 DEF vars, WorkerInv, LinkOK, TxOK, DoneOK, Row, Flip
  <2>3. DeadInv' /\ PooledClean'
    BY <1>4, <2>1 DEF vars, DeadInv, PooledClean
  <2> QED
    BY <2>2, <2>3 DEF WorkerInv
<1>5. WorkerInv' /\ DeadInv' /\ PooledClean'
  BY <1>2, <1>3, <1>4, Steps
<1> QED
  BY <1>1, <1>5 DEF IInv

(* The inductive invariant of the friend functions.                                 *)
THEOREM Invariant == Spec => []IInv
BY InitIInv, NextIInv, PTL DEF Spec

(* An application marked as accepted (MysqlDao::AuthFriendApply) has both rows in   *)
(* friend, whatever fails, for any number of servers on the database.               *)
THEOREM TablesAgree == Spec => []AcceptedAreFriends
<1>1. IInv => AcceptedAreFriends
  BY DEF IInv
<1> QED
  BY <1>1, Invariant, PTL

(* What the handlers tell the users is in the tables.                               *)
THEOREM AcksCorrect == Spec => []AcksAreStored
<1>1. IInv => AcksAreStored
  BY DEF IInv
<1> QED
  BY <1>1, Invariant, PTL

(* A live connection in the pool is in autocommit mode with nothing open.           *)
THEOREM PoolCorrect == Spec => []PooledClean
<1>1. IInv => PooledClean
  BY DEF IInv
<1> QED
  BY <1>1, Invariant, PTL

(* Only whole pairs ever enter friend.                                              *)
LEMMA FriendStep ==
  ASSUME IInv, [Next]_vars
  PROVE  \/ UNCHANGED friend
         \/ /\ \E u, v \in Uids : friend' = friend \cup {<<u, v>>, <<v, u>>}
            /\ UNCHANGED toldFriends
<1>1. ASSUME NEW s \in Servers, Commit(s), ~UNCHANGED friend
      PROVE  /\ \E u, v \in Uids : friend' = friend \cup {<<u, v>>, <<v, u>>}
             /\ UNCHANGED toldFriends
  <2>1. pc[s] = "commit" /\ req[s] \in Requests /\ TxOK(s)
    BY <1>1, InDao DEF Commit, Borrowed
  <2>2. link[s] \in alive /\ friend' = friend \cup FriendRows(tx[link[s]])
    BY <1>1 DEF Commit, Throw, Store
  <2>3. /\ req[s].me \in Uids /\ req[s].other \in Uids /\ Row(req[s]) \in Pairs
        /\ req[s].kind = "agree" => Row(req[s]) = <<req[s].other, req[s].me>>
    BY <2>1, RowType DEF Requests, Row
  <2>4. CASE req[s].kind = "agree"
    <3>1. tx[link[s]] = {W("agree", Row(req[s])), W("befriend", Row(req[s]))}
      BY <2>1, <2>2, <2>4 DEF TxOK
    <3>2. FriendRows(tx[link[s]]) = {p \in Pairs : p = Row(req[s]) \/ Flip(p) = Row(req[s])}
      BY <3>1, WEqual DEF FriendRows
    <3>3. FriendRows(tx[link[s]]) = {Row(req[s]), Flip(Row(req[s]))}
      BY <2>3, <3>2, FlipType
    <3> QED
      BY <1>1, <2>2, <2>3, <2>4, <3>3 DEF Commit, Flip
  <2>5. CASE req[s].kind # "agree"
    <3>1. tx[link[s]] = {W(req[s].kind, Row(req[s]))} /\ req[s].kind \in Decisions
      BY <2>1, <2>2, <2>5 DEF TxOK, Borrowed
    <3>2. FriendRows(tx[link[s]]) = {}
      BY <3>1, WEqual DEF FriendRows, Decisions
    <3> QED
      BY <1>1, <2>2, <3>2
  <2> QED
    BY <2>4, <2>5
<1>2. FriendRows({}) = {} /\ \A p : FriendRows({W("apply", p)}) = {}
  BY WEqual DEF FriendRows
<1>3. ASSUME NEW s \in Servers, AddFriendApply(s) PROVE UNCHANGED friend
  <2>1. Store({W("apply", Row(req[s]))}) \/ UNCHANGED friend
    BY <1>3 DEF AddFriendApply, Execute, tables
  <2> QED
    BY <1>2, <2>1 DEF Store
<1>4. ASSUME NEW s \in Servers, Update(s) \/ Insert(s) PROVE UNCHANGED friend
  <2>1. pc[s] \in {"update", "insert"} /\ TxOK(s)
    BY <1>4, InDao DEF Update, Insert, Borrowed
  <2>2. link[s] \in alive => link[s] \in manual
    BY <2>1 DEF TxOK
  <2> QED
    BY <1>4, <2>2 DEF Update, Insert, Execute, Throw, tables
<1>5. ASSUME NEW s \in Servers, Restore(s) \/ Catch(s) PROVE UNCHANGED friend
  <2>1. TxOK(s) /\ (Restore(s) => pc[s] = "restore")
    BY <1>5, InDao DEF Restore, Catch, Borrowed
  <2>2. Restore(s) /\ link[s] \in alive => tx[link[s]] = {}
    BY <2>1 DEF TxOK
  <2> QED
    BY <1>2, <1>5, <2>2 DEF Restore, Catch, AutoCommitOn, Throw, Store
<1>6. \/ \E s \in Servers : \/ AddFriendApply(s) \/ Update(s) \/ Insert(s) \/ Commit(s)
                             \/ Restore(s) \/ Catch(s)
      \/ UNCHANGED friend
  BY Steps DEF Receive, Get, Select, Begin, Throw, Answer, Notify, Restart, Drop, vars
<1> QED
  BY <1>1, <1>3, <1>4, <1>5, <1>6

(* The friend functions of any number of servers implement Friendship.              *)
THEOREM FriendsImplementFriendship == Spec => ImplementsFriendship
<1>1. Init => Abstract!Init
  BY DEF Init, Abstract!Init
<1>2. ASSUME IInv, [Next]_vars PROVE [Abstract!Next]_<<friend, toldFriends>>
  <2>1. CASE UNCHANGED friend
    <3>1. \/ UNCHANGED toldFriends
          \/ \E s \in Servers : Answer(s) \/ Notify(s)
      BY <1>2, Steps DEF Receive, Get, Select, AddFriendApply, Begin, Update, Insert, Commit,
         Restore, Catch, Restart, Drop, vars
    <3> QED
      BY <1>2, <2>1, <3>1, TellStep DEF Abstract!Next, Abstract!Tell
  <2>2. CASE /\ \E u, v \in Uids : friend' = friend \cup {<<u, v>>, <<v, u>>}
             /\ UNCHANGED toldFriends
    BY <2>2 DEF Abstract!Next, Abstract!Befriend
  <2> QED
    BY <1>2, <2>1, <2>2, FriendStep
<1> QED
  BY <1>1, <1>2, Invariant, PTL DEF Spec, ImplementsFriendship, Abstract!Spec

================================================================================
