-------------------------------- MODULE Presence --------------------------------
(* Who is online on a ChatServer: the sessions' _uid, UserMgr's uid -> session     *)
(* map, and the keys in Redis (utoken_<uid>, logincount_<server>,                  *)
(* userserver_<uid>).  LogicSystem's worker runs LoginCallBack, each io_context     *)
(* thread runs its sessions' reads and CSession::Close; the two update the same     *)
(* registries in several steps with no lock over the whole.  LogicSystem's queue    *)
(* is the FIFO that LogicQueue implements.  The StatusServer issues tokens; Redis   *)
(* commands may fail; the ChatServer may crash and restart while Redis keeps what   *)
(* it was told.                                                                     *)
EXTENDS Integers, Sequences, FiniteSets

CONSTANTS Sessions,     \* connections, each accepted once
          Uids,         \* registered users
          NoSession,    \* GetSession's nullptr: UserMgr has no entry
          NoUid,        \* _uid = 0: not logged in
          MaxTokens,    \* bound: tokens issued per user
          MaxMessages,  \* bound: messages read from clients
          MaxErrors,    \* bound: Redis commands that fail
          MaxCrashes    \* bound: crashes of the ChatServer

ASSUME SessionsAssumption == IsFiniteSet(Sessions) /\ NoSession \notin Sessions
ASSUME UidsAssumption == NoUid \notin Uids
ASSUME BoundsAssumption ==
  MaxTokens \in Nat /\ MaxMessages \in Nat /\ MaxErrors \in Nat /\ MaxCrashes \in Nat

VARIABLES spc,          \* where each session is: reading, or in Close
          uid,          \* CSession::_uid
          closing_uid,  \* Close's local copy of _uid
          inbox,        \* LogicSystem's queue
          wpc,          \* where the worker is in a handler
          cur,          \* the message it handles
          to_session,   \* AddFriendApplyHandler's to_session
          um,           \* UserMgr::_uid_to_session
          token,        \* Redis utoken_<uid>: number of the token last issued, 0 if none
          logincount,   \* Redis logincount_<server>
          userserver,   \* Redis userserver_<uid>: does it name this server
          messages,     \* how many messages were read
          errors,       \* how many Redis commands failed
          crashes,      \* how many times the server crashed
          late,         \* history: sessions registered after their Close had removed them
          rebound,      \* history: sessions that went from one user to another
          lost,         \* history: logins whose Incr failed or was cut off by a crash
          acked         \* history: the session of each user's last login answered with Success

session == <<spc, uid, closing_uid>>
worker  == <<inbox, wpc, cur, to_session>>
redis   == <<token, logincount, userserver>>
bounds  == <<messages, errors, crashes>>
history == <<late, rebound, lost, acked>>
vars == <<spc, uid, closing_uid, inbox, wpc, cur, to_session, um, token, logincount,
          userserver, messages, errors, crashes, late, rebound, lost, acked>>

SessionPCs == {"unborn", "reading", "remove", "decr", "del", "shutdown", "closed"}
WorkerPCs == {"idle", "verify", "setuid", "setsession", "incr", "setserver", "reply",
              "lookup", "push"}

(* A login carries a uid and a token, a friend application the uid it is for.       *)
Message == [kind: {"login", "apply"}, session: Sessions, uid: Uids, token: Nat]
NoMessage == [kind |-> "none", session |-> NoSession, uid |-> NoUid, token |-> 0]

Init ==
  /\ spc = [s \in Sessions |-> "unborn"]
  /\ uid = [s \in Sessions |-> NoUid]
  /\ closing_uid = [s \in Sessions |-> NoUid]
  /\ inbox = << >>
  /\ wpc = "idle"
  /\ cur = NoMessage
  /\ to_session = NoSession
  /\ um = [u \in Uids |-> NoSession]
  /\ token = [u \in Uids |-> 0]
  /\ logincount = 0
  /\ userserver = [u \in Uids |-> FALSE]
  /\ messages = 0
  /\ errors = 0
  /\ crashes = 0
  /\ late = {}
  /\ rebound = {}
  /\ lost = 0
  /\ acked = [u \in Uids |-> NoSession]

(* A Redis command succeeds, or its reply is lost (RedisMgr returns false).         *)
CommandSucceeds == UNCHANGED errors
CommandFails == errors < MaxErrors /\ errors' = errors + 1

--------------------------------------------------------------------------------
(* StatusServiceImpl::GetChatServer: a new token replaces the user's last one.      *)
IssueToken(u) ==
  /\ token[u] < MaxTokens
  /\ CommandSucceeds \/ CommandFails
  /\ token' = [token EXCEPT ![u] = token[u] + 1]
  /\ UNCHANGED <<session, worker, um, logincount, userserver, messages, crashes, history>>

--------------------------------------------------------------------------------
(* A session's io_context thread.                                                  *)

(* CServer::HandleAccept, CSession::Start.                                         *)
Accept(s) ==
  /\ spc[s] = "unborn"
  /\ spc' = [spc EXCEPT ![s] = "reading"]
  /\ UNCHANGED <<uid, closing_uid, worker, um, redis, bounds, history>>

(* HandleReadHead and HandleReadBody without an error: the message is posted and    *)
(* the next read started.  A client sends any token it was ever given, or none.    *)
Read(s) ==
  /\ spc[s] = "reading"
  /\ messages < MaxMessages
  /\ \E u \in Uids :
       \/ \E t \in 0..token[u] :
            inbox' = Append(inbox, [kind |-> "login", session |-> s, uid |-> u, token |-> t])
       \/ inbox' = Append(inbox, [kind |-> "apply", session |-> s, uid |-> u, token |-> 0])
  /\ messages' = messages + 1
  /\ UNCHANGED <<session, wpc, cur, to_session, um, redis, errors, crashes, history>>

(* Mutant of CloseBegin: RemoveUserSession is forgotten.                           *)
CloseBeginNoRemove(s) ==
  /\ spc[s] = "reading"
  /\ closing_uid' = [closing_uid EXCEPT ![s] = uid[s]]
  /\ spc' = [spc EXCEPT ![s] = IF uid[s] = NoUid THEN "shutdown" ELSE "decr"]
  /\ UNCHANGED <<uid, worker, um, redis, bounds, history>>

(* A read fails: Close sets _b_close and reads _uid, which the worker may be about  *)
(* to write.                                                                       *)
CloseBegin(s) ==
  /\ spc[s] = "reading"
  /\ closing_uid' = [closing_uid EXCEPT ![s] = uid[s]]
  /\ spc' = [spc EXCEPT ![s] = IF uid[s] = NoUid THEN "shutdown" ELSE "remove"]
  /\ UNCHANGED <<uid, worker, um, redis, bounds, history>>

(* Mutant of CloseRemove: RemoveUserSession without the guard that the entry still   *)
(* is this session.                                                                *)
CloseRemoveUnguarded(s) ==
  /\ spc[s] = "remove"
  /\ um' = [um EXCEPT ![closing_uid[s]] = NoSession]
  /\ spc' = [spc EXCEPT ![s] = "decr"]
  /\ UNCHANGED <<uid, closing_uid, worker, redis, bounds, history>>

(* UserMgr::RemoveUserSession.                                                     *)
CloseRemove(s) ==
  /\ spc[s] = "remove"
  /\ um' = IF um[closing_uid[s]] = s THEN [um EXCEPT ![closing_uid[s]] = NoSession] ELSE um
  /\ spc' = [spc EXCEPT ![s] = "decr"]
  /\ UNCHANGED <<uid, closing_uid, worker, redis, bounds, history>>

CloseDecr(s) ==
  /\ spc[s] = "decr"
  /\ \/ CommandSucceeds /\ logincount' = logincount - 1
     \/ CommandFails /\ logincount' \in {logincount, logincount - 1}
  /\ spc' = [spc EXCEPT ![s] = "del"]
  /\ UNCHANGED <<uid, closing_uid, worker, um, token, userserver, messages, crashes, history>>

CloseDel(s) ==
  /\ spc[s] = "del"
  /\ \/ CommandSucceeds /\ userserver' = [userserver EXCEPT ![closing_uid[s]] = FALSE]
     \/ CommandFails /\ userserver' \in {userserver, [userserver EXCEPT ![closing_uid[s]] = FALSE]}
  /\ spc' = [spc EXCEPT ![s] = "shutdown"]
  /\ UNCHANGED <<uid, closing_uid, worker, um, token, logincount, messages, crashes, history>>

CloseSocket(s) ==
  /\ spc[s] = "shutdown"
  /\ spc' = [spc EXCEPT ![s] = "closed"]
  /\ UNCHANGED <<uid, closing_uid, worker, um, redis, bounds, history>>

--------------------------------------------------------------------------------
(* LogicSystem's worker.  The results of Incr and Set are not looked at.            *)

Goto(l) == wpc' = l /\ UNCHANGED <<inbox, cur, to_session>>
Finish == wpc' = "idle" /\ cur' = NoMessage /\ to_session' = NoSession /\ UNCHANGED inbox

Take ==
  /\ wpc = "idle"
  /\ inbox # << >>
  /\ cur' = Head(inbox)
  /\ inbox' = Tail(inbox)
  /\ wpc' = IF Head(inbox).kind = "login" THEN "verify" ELSE "lookup"
  /\ UNCHANGED <<session, to_session, um, redis, bounds, history>>

(* LoginCallBack: the token must be the one Redis holds; a failed Get, a missing key *)
(* and a mismatch are all answered TokenInvalid.                                    *)
Verify ==
  /\ wpc = "verify"
  /\ \/ CommandSucceeds /\ token[cur.uid] # 0 /\ token[cur.uid] = cur.token /\ Goto("setuid")
     \/ CommandSucceeds /\ (token[cur.uid] = 0 \/ token[cur.uid] # cur.token) /\ Finish
     \/ CommandFails /\ Finish
  /\ UNCHANGED <<session, um, redis, messages, crashes, history>>

SetUid ==
  /\ wpc = "setuid"
  /\ uid' = [uid EXCEPT ![cur.session] = cur.uid]
  /\ rebound' = IF uid[cur.session] \in {NoUid, cur.uid} THEN rebound
                ELSE rebound \cup {cur.session}
  /\ Goto("setsession")
  /\ UNCHANGED <<spc, closing_uid, um, redis, bounds, late, lost, acked>>

(* UserMgr::SetUserSession: the new session overrides the user's old one.           *)
SetUserSession ==
  /\ wpc = "setsession"
  /\ um' = [um EXCEPT ![cur.uid] = cur.session]
  /\ late' = IF spc[cur.session] \in {"reading", "remove"} THEN late
             ELSE late \cup {cur.session}
  /\ Goto("incr")
  /\ UNCHANGED <<session, redis, bounds, rebound, lost, acked>>

(* Mutant of LoginIncr: a user whose server is known already is not counted again.   *)
LoginIncrOncePerUser ==
  /\ wpc = "incr"
  /\ CommandSucceeds
  /\ logincount' = IF userserver[cur.uid] THEN logincount ELSE logincount + 1
  /\ Goto("setserver")
  /\ UNCHANGED <<session, um, token, userserver, messages, crashes, history>>

LoginIncr ==
  /\ wpc = "incr"
  /\ \/ CommandSucceeds /\ logincount' = logincount + 1 /\ UNCHANGED lost
     \/ /\ CommandFails
        /\ logincount' \in {logincount, logincount + 1}
        /\ lost' = lost + 1
  /\ Goto("setserver")
  /\ UNCHANGED <<session, um, token, userserver, messages, crashes, late, rebound, acked>>

SetServer ==
  /\ wpc = "setserver"
  /\ \/ CommandSucceeds /\ userserver' = [userserver EXCEPT ![cur.uid] = TRUE]
     \/ CommandFails /\ userserver' \in {userserver, [userserver EXCEPT ![cur.uid] = TRUE]}
  /\ Goto("reply")
  /\ UNCHANGED <<session, um, token, logincount, messages, crashes, history>>

(* session->Send of MSG_CHAT_LOGIN_RSP with Success (SessionSend).                  *)
LoginReply ==
  /\ wpc = "reply"
  /\ acked' = [acked EXCEPT ![cur.uid] = cur.session]
  /\ Finish
  /\ UNCHANGED <<session, um, redis, bounds, late, rebound, lost>>

(* Mutant of Lookup: the session of the applicant is looked up.                      *)
LookupApplicant ==
  /\ wpc = "lookup"
  /\ \/ /\ uid[cur.session] # NoUid /\ um[uid[cur.session]] # NoSession
        /\ to_session' = um[uid[cur.session]]
        /\ wpc' = "push"
        /\ UNCHANGED <<inbox, cur>>
     \/ uid[cur.session] = NoUid /\ Finish
  /\ UNCHANGED <<session, um, redis, bounds, history>>

(* AddFriendApplyHandler up to UserMgr::GetSession: a session that is not logged in  *)
(* is ignored; the application is stored and answered (both elsewhere).             *)
Lookup ==
  /\ wpc = "lookup"
  /\ \/ /\ uid[cur.session] # NoUid /\ um[cur.uid] # NoSession
        /\ to_session' = um[cur.uid]
        /\ wpc' = "push"
        /\ UNCHANGED <<inbox, cur>>
     \/ (uid[cur.session] = NoUid \/ um[cur.uid] = NoSession) /\ Finish
  /\ UNCHANGED <<session, um, redis, bounds, history>>

(* to_session->Send of MSG_NOTIFY_ADD_FRIEND, after a query of the applicant.        *)
Push ==
  /\ wpc = "push"
  /\ Finish
  /\ UNCHANGED <<session, um, redis, bounds, history>>

--------------------------------------------------------------------------------
(* The process dies and starts again: connections, registries and queue are gone,    *)
(* Redis is as it was, and nothing at start-up resets it.                           *)
Crash ==
  /\ crashes < MaxCrashes
  /\ crashes' = crashes + 1
  /\ spc' = [s \in Sessions |-> IF spc[s] = "unborn" THEN "unborn" ELSE "closed"]
  /\ uid' = [s \in Sessions |-> NoUid]
  /\ closing_uid' = [s \in Sessions |-> NoUid]
  /\ inbox' = << >>
  /\ wpc' = "idle"
  /\ cur' = NoMessage
  /\ to_session' = NoSession
  /\ um' = [u \in Uids |-> NoSession]
  /\ late' = {}
  /\ rebound' = {}
  /\ lost' = IF wpc \in {"setsession", "incr"} THEN lost + 1 ELSE lost
  /\ acked' = [u \in Uids |-> NoSession]
  /\ UNCHANGED <<redis, messages, errors>>

--------------------------------------------------------------------------------
Close(s) == CloseBegin(s) \/ CloseRemove(s) \/ CloseDecr(s) \/ CloseDel(s) \/ CloseSocket(s)
LoginCallBack == Verify \/ SetUid \/ SetUserSession \/ LoginIncr \/ SetServer \/ LoginReply
AddFriendApplyHandler == Lookup \/ Push

Next == \/ \E u \in Uids : IssueToken(u)
        \/ \E s \in Sessions : Accept(s) \/ Read(s) \/ Close(s)
        \/ Take \/ LoginCallBack \/ AddFriendApplyHandler
        \/ Crash

Spec == Init /\ [][Next]_vars

--------------------------------------------------------------------------------
TypeOK ==
  /\ spc \in [Sessions -> SessionPCs]
  /\ uid \in [Sessions -> Uids \cup {NoUid}]
  /\ closing_uid \in [Sessions -> Uids \cup {NoUid}]
  /\ \A s \in Sessions : spc[s] \in {"remove", "decr", "del"} => closing_uid[s] \in Uids
  /\ inbox \in Seq(Message)
  /\ wpc \in WorkerPCs
  /\ cur \in Message \cup {NoMessage}
  /\ wpc # "idle" => cur \in Message
  /\ to_session \in Sessions \cup {NoSession}
  /\ wpc = "push" => to_session \in Sessions
  /\ um \in [Uids -> Sessions \cup {NoSession}]
  /\ token \in [Uids -> Nat]
  /\ logincount \in Int
  /\ userserver \in [Uids -> BOOLEAN]
  /\ messages \in Nat /\ errors \in Nat /\ crashes \in Nat
  /\ late \subseteq Sessions
  /\ rebound \subseteq Sessions
  /\ lost \in Nat
  /\ acked \in [Uids -> Sessions \cup {NoSession}]

Gone == {"decr", "del", "shutdown", "closed"}

(* UserMgr's entry for a user is a session logged in as that user whose Close has    *)
(* not yet unregistered it.  The only exceptions are sessions that were registered   *)
(* after their Close had passed that point, and sessions that logged in as one user  *)
(* and then as another.                                                             *)
RegistryClean ==
  \A u \in Uids : um[u] # NoSession =>
    /\ uid[um[u]] = u \/ um[u] \in rebound
    /\ spc[um[u]] \in Gone => um[u] \in late \cup rebound

(* From SetUserSession until its reply a login is registered under its user, and after *)
(* a reply of Success it stays so, until its own connection goes or a later login of   *)
(* that user takes its place: no other device's Close takes it out.                   *)
LoggingIn(u) == wpc \in {"incr", "setserver", "reply"} /\ cur.uid = u
AckMeansRegistered ==
  \A u \in Uids :
    /\ LoggingIn(u) => um[u] = cur.session \/ spc[cur.session] \in Gone
    /\ acked[u] # NoSession => um[u] = acked[u] \/ spc[acked[u]] \in Gone \/ LoggingIn(u)

(* A friend application is pushed to a session of the user it is for, or to one that *)
(* was that user's and was then logged in as somebody else.                          *)
PushRightUser == wpc = "push" => uid[to_session] = cur.uid \/ to_session \in rebound

(* logincount never falls short of the connections that are logged in by more than   *)
(* the login in progress and the logins whose Incr was lost: Close never decrements  *)
(* for a session that LoginCallBack has not counted or is about to count.            *)
Counted == {s \in Sessions : uid[s] # NoUid /\ spc[s] \in {"reading", "remove", "decr"}}
InProgress == IF wpc \in {"setsession", "incr"} THEN 1 ELSE 0
NoUndercount == logincount + lost + InProgress >= Cardinality(Counted)

(* The inductive invariant: besides the properties, that the worker registers the    *)
(* session under the uid it has just bound to it, that Close unregisters the uid its *)
(* session has unless it was bound to another user since, and that a connection not  *)
(* yet accepted has sent nothing and is nobody's.                                    *)
BindInv ==
  /\ wpc = "setsession" => uid[cur.session] = cur.uid
  /\ \A s \in Sessions : spc[s] = "remove" => closing_uid[s] = uid[s] \/ s \in rebound
  /\ \A s \in Sessions : spc[s] \in {"remove", "decr"} => uid[s] # NoUid
UnbornInv ==
  /\ \A s \in Sessions : spc[s] = "unborn" => uid[s] = NoUid
  /\ wpc # "idle" => spc[cur.session] # "unborn"
  /\ \A i \in 1..Len(inbox) : spc[inbox[i].session] # "unborn"
IInv == /\ TypeOK /\ RegistryClean /\ AckMeansRegistered /\ PushRightUser
        /\ BindInv /\ UnbornInv /\ NoUndercount

--------------------------------------------------------------------------------
(* What a comment of the code says of the registries, at rest.                       *)
Quiet == wpc = "idle" /\ inbox = << >> /\ \A s \in Sessions : spc[s] \in {"unborn", "reading", "closed"}

(* CSession.h:29: Close clears the session's registration in UserMgr.               *)
CloseUnregisters == Quiet => \A u \in Uids : um[u] # NoSession => spc[um[u]] # "closed"

================================================================================
