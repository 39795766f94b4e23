---------------------------- MODULE Presence_proofs ----------------------------
(* Proofs, for any sessions, users, tokens, failures and crashes, of the safety    *)
(* properties of the ChatServer's registries of who is online.                     *)
EXTENDS Presence, SequenceTheorems, FiniteSetTheorems, TLAPS

USE DEF session, worker, redis, bounds, history

(* Every step is one of these.                                                     *)
LEMMA Steps ==
  ASSUME [Next]_vars
  PROVE  \/ \E u \in Uids : IssueToken(u)
         \/ \E s \in Sessions : \/ Accept(s) \/ Read(s) \/ CloseBegin(s) \/ CloseRemove(s)
                                \/ CloseDecr(s) \/ CloseDel(s) \/ CloseSocket(s)
         \/ Take \/ Verify \/ SetUid \/ SetUserSession \/ LoginIncr \/ SetServer \/ LoginReply
         \/ Lookup \/ Push \/ Crash
         \/ UNCHANGED vars
  BY DEF Next, Close, LoginCallBack, AddFriendApplyHandler

--------------------------------------------------------------------------------
(* At start nobody is connected.                                                   *)
LEMMA InitIInv == Init => IInv
<1> SUFFICES ASSUME Init PROVE IInv
  OBVIOUS
<1>1. TypeOK
  BY EmptySeq DEF Init, TypeOK, SessionPCs, WorkerPCs
<1>2. Counted = {}
  BY DEF Init, Counted
<1>3. NoUndercount
  BY <1>2, FS_EmptySet DEF Init, NoUndercount, InProgress
<1>4. RegistryClean /\ AckMeansRegistered /\ PushRightUser /\ BindInv /\ UnbornInv
  BY DEF Init, RegistryClean, AckMeansRegistered, LoggingIn, PushRightUser, BindInv, UnbornInv
<1> QED
  BY <1>1, <1>3, <1>4 DEF IInv

(* Types.                                                                          *)
LEMMA TypeStep == TypeOK /\ BindInv /\ [Next]_vars => TypeOK'
<1> SUFFICES ASSUME TypeOK, BindInv, [Next]_vars PROVE TypeOK'
  OBVIOUS
<1> USE UidsAssumption, SessionsAssumption
    DEF TypeOK, SessionPCs, WorkerPCs, Message, NoMessage, CommandSucceeds, CommandFails, Finish, Goto
<1>1. ASSUME NEW u \in Uids, IssueToken(u) PROVE TypeOK'
  BY <1>1, BoundsAssumption DEF IssueToken
<1>2. ASSUME NEW s \in Sessions, Accept(s) PROVE TypeOK'
  BY <1>2 DEF Accept
<1>3. ASSUME NEW s \in Sessions, Read(s) PROVE TypeOK'
  <2>1. PICK u \in Uids :
          \/ \E t \in 0..token[u] :
               inbox' = Append(inbox, [kind |-> "login", session |-> s, uid |-> u, token |-> t])
          \/ inbox' = Append(inbox, [kind |-> "apply", session |-> s, uid |-> u, token |-> 0])
    BY <1>3 DEF Read
  <2>2. token[u] \in Nat /\ \A t \in 0..token[u] : t \in Nat
    OBVIOUS
  <2>3. \E m \in Message : inbox' = Append(inbox, m)
    BY <2>1, <2>2
  <2>4. inbox' \in Seq(Message)
    BY <2>3, AppendProperties
  <2>5. messages' \in Nat
        /\ UNCHANGED <<session, wpc, cur, to_session, um, redis, errors, crashes, history>>
    BY <1>3 DEF Read
  <2> QED
    BY <2>4, <2>5
<1>4. ASSUME NEW s \in Sessions, CloseBegin(s) PROVE TypeOK'
  BY <1>4 DEF CloseBegin
<1>5. ASSUME NEW s \in Sessions, CloseRemove(s) PROVE TypeOK'
  BY <1>5 DEF CloseRemove
<1>6. ASSUME NEW s \in Sessions, CloseDecr(s) PROVE TypeOK'
  BY <1>6, BoundsAssumption DEF CloseDecr
<1>7. ASSUME NEW s \in Sessions, CloseDel(s) PROVE TypeOK'
  <2>1. userserver' \in [Uids -> BOOLEAN]
    BY <1>7 DEF CloseDel
  <2>2. errors' \in Nat
    BY <1>7 DEF CloseDel
  <2> QED
    BY <1>7, <2>1, <2>2 DEF CloseDel
<1>8. ASSUME NEW s \in Sessions, CloseSocket(s) PROVE TypeOK'
  BY <1>8 DEF CloseSocket
<1>9. CASE Take
  BY <1>9, HeadTailProperties DEF Take
<1>10. CASE Verify
  BY <1>10, BoundsAssumption DEF Verify
<1>11. CASE SetUid
  BY <1>11 DEF SetUid
<1>12. CASE SetUserSession
  BY <1>12 DEF SetUserSession
<1>13. CASE LoginIncr
  BY <1>13, BoundsAssumption DEF LoginIncr
<1>14. CASE SetServer
  <2>1. userserver' \in [Uids -> BOOLEAN]
    BY <1>14 DEF SetServer
  <2>2. errors' \in Nat
    BY <1>14 DEF SetServer
  <2> QED
    BY <1>14, <2>1, <2>2 DEF SetServer
<1>15. CASE LoginReply \/ Push
  BY <1>15 DEF LoginReply, Push
<1>16. CASE Lookup
  BY <1>16 DEF Lookup
<1>17. CASE Crash
  BY <1>17, EmptySeq, BoundsAssumption DEF Crash
<1>18. CASE UNCHANGED vars
  BY <1>18 DEF vars
<1> QED
  BY <1>1, <1>2, <1>3, <1>4, <1>5, <1>6, <1>7, <1>8, <1>9, <1>10, <1>11, <1>12, <1>13,
     <1>14, <1>15, <1>16, <1>17, <1>18, Steps

--------------------------------------------------------------------------------
(* The registry: UserMgr's entries, what a login in progress and a push rely on.     *)
RegistryInv == RegistryClean /\ AckMeansRegistered /\ PushRightUser /\ BindInv

(* Steps that touch neither a session's uid nor UserMgr, nor the worker's handler.   *)
LEMMA RegistryUnchanged ==
  ASSUME TypeOK, RegistryInv, UNCHANGED <<session, wpc, cur, to_session, um, late, rebound, acked>>
  PROVE  RegistryInv'
BY DEF RegistryInv, RegistryClean, AckMeansRegistered, LoggingIn, PushRightUser, BindInv

(* The registry under Close: it removes only its own session's entry, and leaves one *)
(* only for a session that was bound to another user since, or late.                *)
LEMMA RegistryCloseStep ==
  ASSUME TypeOK, RegistryInv, NEW s \in Sessions,
         \/ Accept(s) \/ CloseBegin(s) \/ CloseRemove(s) \/ CloseDecr(s)
         \/ CloseDel(s) \/ CloseSocket(s)
  PROVE  RegistryInv'
<1> USE UidsAssumption, SessionsAssumption
    DEF TypeOK, RegistryInv, RegistryClean, AckMeansRegistered, LoggingIn, PushRightUser, BindInv, Gone,
        SessionPCs, WorkerPCs, Message
<1>1. CASE Accept(s)
  BY <1>1 DEF Accept
<1>2. CASE CloseBegin(s)
  BY <1>2 DEF CloseBegin
<1>3. CASE CloseRemove(s)
  <2>1. spc[s] = "remove" /\ closing_uid[s] \in Uids /\ spc' = [spc EXCEPT ![s] = "decr"]
        /\ UNCHANGED <<uid, closing_uid, worker, late, rebound, acked>>
    BY <1>3 DEF CloseRemove
  <2>2. \A u \in Uids : um'[u] = IF u = closing_uid[s] /\ um[u] = s THEN NoSession ELSE um[u]
    BY <1>3, <2>1 DEF CloseRemove
  <2>3. RegistryClean'
    BY <2>1, <2>2
  <2>4. AckMeansRegistered'
    BY <2>1, <2>2
  <2>5. PushRightUser' /\ BindInv'
    BY <2>1
  <2> QED
    BY <2>3, <2>4, <2>5
<1>4. CASE CloseDecr(s)
  BY <1>4 DEF CloseDecr
<1>5. CASE CloseDel(s)
  BY <1>5 DEF CloseDel
<1>6. CASE CloseSocket(s)
  BY <1>6 DEF CloseSocket
<1> QED
  BY <1>1, <1>2, <1>3, <1>4, <1>5, <1>6

(* The registry under LogicSystem's worker.                                          *)
LEMMA RegistryWorkerStep ==
  ASSUME TypeOK, RegistryInv,
         \/ Take \/ Verify \/ SetUid \/ SetUserSession \/ LoginIncr \/ SetServer \/ LoginReply
         \/ Lookup \/ Push
  PROVE  RegistryInv'
<1> USE UidsAssumption, SessionsAssumption
    DEF TypeOK, RegistryInv, RegistryClean, AckMeansRegistered, LoggingIn, PushRightUser, BindInv, Gone,
        SessionPCs, WorkerPCs, Message, Goto, Finish
<1>1. CASE Take
  <2>1. wpc = "idle" /\ wpc' \in {"verify", "lookup"} /\ UNCHANGED <<session, um, late, rebound, acked>>
    BY <1>1 DEF Take
  <2> QED
    BY <2>1
<1>2. CASE Verify
  <2>1. wpc = "verify" /\ wpc' \in {"setuid", "idle"} /\ UNCHANGED <<session, um, late, rebound, acked>>
    BY <1>2 DEF Verify
  <2> QED
    BY <2>1
<1>3. CASE SetUid
  <2>1. cur.session \in Sessions /\ cur.uid \in Uids /\ wpc = "setuid" /\ wpc' = "setsession"
        /\ uid' = [uid EXCEPT ![cur.session] = cur.uid]
        /\ UNCHANGED <<spc, closing_uid, um, cur, late, acked>>
    BY <1>3 DEF SetUid
  <2>2. rebound' = IF uid[cur.session] \in {NoUid, cur.uid} THEN rebound
                   ELSE rebound \cup {cur.session}
    BY <1>3 DEF SetUid
  <2>3. RegistryClean'
    BY <2>1, <2>2
  <2>4. BindInv'
    BY <2>1, <2>2
  <2> QED
    BY <2>1, <2>3, <2>4
<1>4. CASE SetUserSession
  <2>1. cur.session \in Sessions /\ cur.uid \in Uids /\ wpc = "setsession" /\ wpc' = "incr"
        /\ um' = [um EXCEPT ![cur.uid] = cur.session]
        /\ UNCHANGED <<spc, uid, closing_uid, cur, rebound, acked>>
    BY <1>4 DEF SetUserSession
  <2>2. late' = IF spc[cur.session] \in {"reading", "remove"} THEN late
                ELSE late \cup {cur.session}
    BY <1>4 DEF SetUserSession
  <2>3. RegistryClean'
    BY <2>1, <2>2
  <2> QED
    BY <2>1, <2>3
<1>5. CASE LoginIncr
  <2>1. wpc = "incr" /\ wpc' = "setserver" /\ UNCHANGED <<session, cur, um, late, rebound, acked>>
    BY <1>5 DEF LoginIncr
  <2> QED
    BY <2>1
<1>6. CASE SetServer
  <2>1. wpc = "setserver" /\ wpc' = "reply" /\ UNCHANGED <<session, cur, um, late, rebound, acked>>
    BY <1>6 DEF SetServer
  <2> QED
    BY <2>1
<1>7. CASE LoginReply
  <2>1. wpc = "reply" /\ wpc' = "idle" /\ UNCHANGED <<session, um, late, rebound>>
        /\ cur.session \in Sessions /\ cur.uid \in Uids
        /\ acked' = [acked EXCEPT ![cur.uid] = cur.session]
    BY <1>7 DEF LoginReply
  <2> QED
    BY <2>1
<1>8. CASE Lookup
  <2>1. UNCHANGED <<session, um, late, rebound, acked>>
        /\ wpc = "lookup"
        /\ \/ wpc' = "idle"
           \/ wpc' = "push" /\ cur' = cur /\ to_session' = um[cur.uid]
              /\ um[cur.uid] # NoSession
    BY <1>8 DEF Lookup
  <2> QED
    BY <2>1
<1>9. CASE Push
  <2>1. wpc = "push" /\ wpc' = "idle" /\ UNCHANGED <<session, um, late, rebound, acked>>
    BY <1>9 DEF Push
  <2> QED
    BY <2>1
<1> QED
  BY <1>1, <1>2, <1>3, <1>4, <1>5, <1>6, <1>7, <1>8, <1>9

(* The registry under every step of the server, of its clients and of a crash.       *)
LEMMA RegistryStep == TypeOK /\ RegistryInv /\ [Next]_vars => RegistryInv'
<1> SUFFICES ASSUME TypeOK, RegistryInv, [Next]_vars PROVE RegistryInv'
  OBVIOUS
<1>1. ASSUME NEW u \in Uids, IssueToken(u) PROVE RegistryInv'
  BY <1>1, RegistryUnchanged DEF IssueToken
<1>2. ASSUME NEW s \in Sessions, Read(s) PROVE RegistryInv'
  BY <1>2, RegistryUnchanged DEF Read
<1>3. CASE UNCHANGED vars
  BY <1>3, RegistryUnchanged DEF vars
<1>4. CASE Crash
  BY <1>4, SessionsAssumption
  DEF Crash, RegistryInv, RegistryClean, AckMeansRegistered, LoggingIn, PushRightUser, BindInv,
      TypeOK, SessionPCs
<1> QED
  BY <1>1, <1>2, <1>3, <1>4, Steps, RegistryCloseStep, RegistryWorkerStep

(* A connection not yet accepted sends nothing, so no login is handled for it.       *)
LEMMA UnbornStep == TypeOK /\ UnbornInv /\ [Next]_vars => UnbornInv'
<1> SUFFICES ASSUME TypeOK, UnbornInv, [Next]_vars PROVE UnbornInv'
  OBVIOUS
<1> USE UidsAssumption DEF TypeOK, SessionPCs, WorkerPCs, Message, UnbornInv, Goto, Finish
<1>1. ASSUME NEW u \in Uids, IssueToken(u) PROVE UnbornInv'
  BY <1>1 DEF IssueToken
<1>2. ASSUME NEW s \in Sessions,
             Accept(s) \/ CloseBegin(s) \/ CloseRemove(s) \/ CloseDecr(s) \/ CloseDel(s)
             \/ CloseSocket(s)
      PROVE  UnbornInv'
  <2>1. UNCHANGED <<uid, worker>> /\ spc'[s] # "unborn"
        /\ \A t \in Sessions : t # s => spc'[t] = spc[t]
    BY <1>2 DEF Accept, CloseBegin, CloseRemove, CloseDecr, CloseDel, CloseSocket
  <2>2. \A i \in 1..Len(inbox) : inbox[i].session \in Sessions
    <3>1. \A m \in Message : m.session \in Sessions
      OBVIOUS
    <3> HIDE DEF Message
    <3>2. \A i \in 1..Len(inbox) : inbox[i] \in Message
      BY ElementOfSeq
    <3> QED
      BY <3>1, <3>2
  <2> QED
    BY <2>1, <2>2
<1>3. ASSUME NEW s \in Sessions, Read(s) PROVE UnbornInv'
  <2>1. PICK u \in Uids :
          \/ \E t \in 0..token[u] :
               inbox' = Append(inbox, [kind |-> "login", session |-> s, uid |-> u, token |-> t])
          \/ inbox' = Append(inbox, [kind |-> "apply", session |-> s, uid |-> u, token |-> 0])
    BY <1>3 DEF Read
  <2>2. token[u] \in Nat /\ \A t \in 0..token[u] : t \in Nat
    OBVIOUS
  <2>3. \E m \in Message : inbox' = Append(inbox, m) /\ m.session = s
    <3> DEFINE Msg(k, t) == [kind |-> k, session |-> s, uid |-> u, token |-> t]
    <3>1. \A k \in {"login", "apply"}, t \in Nat : Msg(k, t) \in Message /\ Msg(k, t).session = s
      OBVIOUS
    <3>2. \/ \E t \in Nat : inbox' = Append(inbox, Msg("login", t))
          \/ inbox' = Append(inbox, Msg("apply", 0))
      BY <2>1, <2>2
    <3>3. 0 \in Nat /\ "login" \in {"login", "apply"} /\ "apply" \in {"login", "apply"}
      OBVIOUS
    <3> HIDE DEF Msg
    <3> QED
      BY <3>1, <3>2, <3>3
  <2> PICK m \in Message : inbox' = Append(inbox, m) /\ m.session = s
    BY <2>3
  <2>4. UNCHANGED <<session, wpc, cur>> /\ spc[s] = "reading"
    BY <1>3 DEF Read
  <2>5. \A i \in 1..Len(inbox') : inbox'[i] = m \/ (i \in 1..Len(inbox) /\ inbox'[i] = inbox[i])
    BY AppendProperties
  <2>6. \A i \in 1..Len(inbox') : spc[inbox'[i].session] # "unborn"
    BY <2>4, <2>5
  <2> QED
    BY <2>4, <2>6
<1>4. CASE Take
  <2>1. Head(inbox) = inbox[1] /\ 1 \in 1..Len(inbox)
        /\ \A i \in 1..Len(inbox') : inbox'[i] = inbox[i + 1] /\ i + 1 \in 1..Len(inbox)
    BY <1>4, HeadTailProperties DEF Take
  <2> QED
    BY <1>4, <2>1 DEF Take
<1>5. CASE SetUid
  BY <1>5 DEF SetUid
<1>6. CASE Verify \/ SetUserSession \/ LoginIncr \/ SetServer \/ LoginReply \/ Lookup \/ Push
  <2>1. UNCHANGED <<spc, uid, inbox>> /\ (wpc' = "idle" \/ (wpc # "idle" /\ cur' = cur))
    BY <1>6 DEF Verify, SetUserSession, LoginIncr, SetServer, LoginReply, Lookup, Push
  <2> QED
    BY <2>1
<1>7. CASE Crash
  BY <1>7 DEF Crash
<1>8. CASE UNCHANGED vars
  BY <1>8 DEF vars
<1> QED
  BY <1>1, <1>2, <1>3, <1>4, <1>5, <1>6, <1>7, <1>8, Steps

--------------------------------------------------------------------------------
(* The connection counter.  The counted sessions are finitely many.                  *)
LEMMA CountedFinite == IsFiniteSet(Counted) /\ Cardinality(Counted) \in Nat
  BY SessionsAssumption, FS_Subset, FS_CardinalityType DEF Counted

(* Steps that leave the counted sessions, the counter and the login in progress.     *)
LEMMA CountUnchanged ==
  ASSUME NoUndercount, Counted' = Counted, UNCHANGED <<logincount, lost, wpc>>
  PROVE  NoUndercount'
BY DEF NoUndercount, InProgress

(* The counter under every step: SetUid announces a session before Incr counts it,   *)
(* and Close's Decr takes out a session that was announced.                          *)
LEMMA CountStep == TypeOK /\ BindInv /\ UnbornInv /\ NoUndercount /\ [Next]_vars => NoUndercount'
<1> SUFFICES ASSUME TypeOK, BindInv, UnbornInv, NoUndercount, [Next]_vars PROVE NoUndercount'
  OBVIOUS
<1>0. logincount \in Int /\ lost \in Nat /\ Cardinality(Counted) \in Nat /\ IsFiniteSet(Counted)
      /\ logincount + lost + InProgress >= Cardinality(Counted)
  BY CountedFinite DEF TypeOK, NoUndercount
<1>1. ASSUME NEW u \in Uids, IssueToken(u) PROVE NoUndercount'
  BY <1>1, CountUnchanged DEF IssueToken, Counted
<1>2. ASSUME NEW s \in Sessions, Accept(s) \/ Read(s) \/ CloseBegin(s) \/ CloseRemove(s)
                                \/ CloseDel(s) \/ CloseSocket(s)
      PROVE  NoUndercount'
  <2>1. UNCHANGED <<uid, wpc, logincount, lost>> /\ spc \in [Sessions -> SessionPCs]
    BY <1>2 DEF Accept, Read, CloseBegin, CloseRemove, CloseDel, CloseSocket, TypeOK
  <2>2. Counted' = Counted
    BY <1>2, <2>1
    DEF Counted, Accept, Read, CloseBegin, CloseRemove, CloseDel, CloseSocket, UnbornInv
  <2> QED
    BY <2>1, <2>2, CountUnchanged
<1>3. ASSUME NEW s \in Sessions, CloseDecr(s) PROVE NoUndercount'
  <2>1. spc[s] = "decr" /\ spc' = [spc EXCEPT ![s] = "del"] /\ UNCHANGED <<uid, wpc, lost>>
        /\ logincount' \in {logincount, logincount - 1}
    BY <1>3 DEF CloseDecr
  <2>2. s \in Counted
    BY <2>1 DEF Counted, BindInv
  <2>3. Counted' = Counted \ {s}
    BY <2>1 DEF Counted, TypeOK
  <2>4. Cardinality(Counted') = Cardinality(Counted) - 1
    BY <1>0, <2>2, <2>3, FS_RemoveElement
  <2> QED
    BY <1>0, <2>1, <2>4 DEF NoUndercount, InProgress
<1>4. CASE SetUid
  <2>1. cur.session \in Sessions /\ cur.uid \in Uids /\ wpc = "setuid" /\ wpc' = "setsession"
        /\ uid' = [uid EXCEPT ![cur.session] = cur.uid] /\ UNCHANGED <<spc, logincount, lost>>
    BY <1>4 DEF SetUid, Goto, TypeOK, Message
  <2>2. Counted' = Counted \/ Counted' = Counted \cup {cur.session}
    BY <2>1, UidsAssumption DEF Counted, TypeOK
  <2>3. Cardinality(Counted') <= Cardinality(Counted) + 1
    BY <1>0, <2>2, FS_AddElement
  <2>4. Cardinality(Counted') \in Nat
    BY <1>0, <2>2, FS_AddElement
  <2> QED
    BY <1>0, <2>1, <2>3, <2>4 DEF NoUndercount, InProgress
<1>5. CASE LoginIncr
  <2>1. wpc = "incr" /\ wpc' = "setserver" /\ UNCHANGED <<spc, uid>>
        /\ \/ logincount' = logincount + 1 /\ lost' = lost
           \/ logincount' \in {logincount, logincount + 1} /\ lost' = lost + 1
    BY <1>5 DEF LoginIncr, Goto
  <2>2. Counted' = Counted
    BY <2>1 DEF Counted
  <2> QED
    BY <1>0, <2>1, <2>2 DEF NoUndercount, InProgress
<1>6. CASE SetUserSession
  BY <1>6 DEF SetUserSession, Goto, NoUndercount, InProgress, Counted
<1>7. CASE Take \/ Verify \/ SetServer \/ LoginReply \/ Lookup \/ Push
  <2>1. UNCHANGED <<spc, uid, logincount, lost>>
        /\ wpc \notin {"setsession", "incr"} /\ wpc' \notin {"setsession", "incr"}
    BY <1>7 DEF Take, Verify, SetServer, LoginReply, Lookup, Push, Goto, Finish
  <2>2. Counted' = Counted
    BY <2>1 DEF Counted
  <2> QED
    BY <2>1, <2>2 DEF NoUndercount, InProgress
<1>8. CASE Crash
  <2>1. Counted' = {}
    BY <1>8 DEF Crash, Counted
  <2>2. Cardinality(Counted') = 0
    BY <2>1, FS_EmptySet
  <2> QED
    BY <1>0, <1>8, <2>2 DEF Crash, NoUndercount, InProgress
<1>9. CASE UNCHANGED vars
  BY <1>9, CountUnchanged DEF vars, Counted
<1> QED
  BY <1>1, <1>2, <1>3, <1>4, <1>5, <1>6, <1>7, <1>8, <1>9, Steps

--------------------------------------------------------------------------------
(* The inductive invariant of the registries, under logins, disconnections, failed    *)
(* Redis commands and crashes in any order.                                          *)
THEOREM Invariant == Spec => []IInv
<1>1. IInv /\ [Next]_vars => IInv'
  BY TypeStep, RegistryStep, UnbornStep, CountStep DEF IInv, RegistryInv
<1> QED
  BY InitIInv, <1>1, PTL DEF Spec

(* UserMgr holds only live sessions of the right user, but for the two exceptions.    *)
THEOREM RegistryCorrect == Spec => []RegistryClean
  BY Invariant, PTL DEF IInv

(* A login answered with Success is registered and stays so until its own connection   *)
(* goes or a later login of its user takes its place.                                 *)
THEOREM LoginCorrect == Spec => []AckMeansRegistered
  BY Invariant, PTL DEF IInv

(* An application is pushed to the user it is for.                                    *)
THEOREM PushCorrect == Spec => []PushRightUser
  BY Invariant, PTL DEF IInv

(* logincount never falls short by more than the logins in progress or lost.          *)
THEOREM CountCorrect == Spec => []NoUndercount
  BY Invariant, PTL DEF IInv

================================================================================
