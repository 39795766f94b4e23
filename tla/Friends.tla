-------------------------------- MODULE Friends --------------------------------
(* The friend functions of the ChatServer: the handlers of LogicSystem that apply    *)
(* for friendship, decide on an application and read the lists, the operations of    *)
(* MysqlDao they call, and what MySQL makes of them.  Each server has one worker     *)
(* that handles one request at a time; the servers share the database.  A connection *)
(* keeps two things from one operation to the next: whether it is in autocommit mode *)
(* and what its open transaction has written.                                        *)
EXTENDS Naturals

CONSTANTS Servers,      \* ChatServer processes
          Conns,        \* the connections of one server's pool
          Uids,         \* users
          Recorded,     \* applications, not yet decided, that earlier runs have left
          Accepted,     \* the statements MySQL accepts, given the tables it has
          NoLink,       \* no connection
          NoReq,        \* no request
          MaxRequests,  \* bound: requests handled
          MaxDrops      \* bound: connections lost

Statements == {"apply_insert", "status_update", "friend_insert",
               "search", "apply_list", "friend_list"}

(* GetApplyList's text runs its clauses together ("u.icon.u.sexFROM") and never       *)
(* parses; AuthFriendApply and GetFriendList name the columns of friend differently. *)
ASSUME AcceptedAssumption ==
  /\ Accepted \subseteq Statements
  /\ "apply_list" \notin Accepted
  /\ ~({"friend_insert", "friend_list"} \subseteq Accepted)
Links == Servers \X Conns
ASSUME RecordedAssumption == Recorded \subseteq Uids \X Uids
ASSUME LinkAssumption == NoLink \notin Links
ASSUME BoundAssumption == MaxRequests \in Nat /\ MaxDrops \in Nat

Pairs == Uids \X Uids
Decisions == {"agree", "reject"}
Kinds == Decisions \cup {"apply", "search", "apply_list", "friend_list"}
Requests == {r \in [kind : Kinds, me : Uids, other : Uids] :
               r.kind \in {"search", "apply_list", "friend_list"} => r.other = r.me}
Writes == [kind : Decisions \cup {"apply", "befriend"}, pair : Pairs]

VARIABLES apply,     \* friend_apply: the statuses of the rows <<from_uid, to_uid>>
          friend,    \* friend: the rows <<self_id, friend_id>>
          alive,     \* connections that MySQL has not lost
          manual,    \* connections in setAutoCommit(false)
          tx,        \* what a connection's open transaction has written
          pc,        \* where each worker is
          req,       \* the request it handles; me is the session's uid
          link,      \* the connection it has borrowed
          ret,       \* what MysqlDao returned
          toldApplied,  \* applications their sender was told are recorded
          toldFriends,  \* <<u, v>>: u was told that v is a friend
          requests, drops  \* counters for the bounds

tables == <<apply, friend>>
vars == <<apply, friend, alive, manual, tx, pc, req, link, ret, toldApplied, toldFriends,
          requests, drops>>

PCs == {"idle", "get", "statement", "begin", "update", "insert", "commit", "restore",
        "catch", "answer", "notify"}
Borrowed == {"statement", "begin", "update", "insert", "commit", "restore", "catch"}

Init ==
  /\ apply = [p \in Pairs |-> IF p \in Recorded THEN {0} ELSE {}]
  /\ friend = {}
  /\ alive = Links /\ manual = {} /\ tx = [l \in Links |-> {}]
  /\ pc = [s \in Servers |-> "idle"]
  /\ req = [s \in Servers |-> NoReq]
  /\ link = [s \in Servers |-> NoLink]
  /\ ret = [s \in Servers |-> "Success"]
  /\ toldApplied = {} /\ toldFriends = {}
  /\ requests = 0 /\ drops = 0

--------------------------------------------------------------------------------
(* The database.                                                                     *)

Flip(p) == <<p[2], p[1]>>
W(k, p) == [kind |-> k, pair |-> p]

(* The row of friend_apply that a request is about, and what deciding on it writes.   *)
Row(r) == IF r.kind = "apply" THEN <<r.me, r.other>> ELSE <<r.other, r.me>>

(* friend_apply has no unique key over from_uid and to_uid (ChatServer.md), so a new  *)
(* application is one more row, and a decision sets the status of all rows there are, *)
(* none included.                                                                     *)
StatusAfter(p, ws) ==
  LET rows == IF W("apply", p) \in ws THEN apply[p] \cup {0} ELSE apply[p]
  IN  IF W("agree", p) \in ws THEN {1 : n \in rows}
      ELSE IF W("reject", p) \in ws THEN {2 : n \in rows} ELSE rows

(* Mutant of FriendRows: only the row of the user who agrees.                        *)
OneFriendRow(ws) == {p \in Pairs : W("befriend", Flip(p)) \in ws}

(* INSERT IGNORE: both rows of a pair.                                               *)
FriendRows(ws) == {p \in Pairs : W("befriend", p) \in ws \/ W("befriend", Flip(p)) \in ws}

Store(ws) ==
  /\ apply' = [p \in Pairs |-> StatusAfter(p, ws)]
  /\ friend' = friend \cup FriendRows(ws)

(* A statement that writes takes effect at once in autocommit mode, else at commit.  *)
Execute(l, w) ==
  IF l \in manual THEN tx' = [tx EXCEPT ![l] = @ \cup {w}] /\ UNCHANGED tables
                  ELSE Store({w}) /\ UNCHANGED tx

(* A statement waits for the open transactions of other connections that have        *)
(* written rows of the same to_uid (the index of friend_apply), or of the same pair.  *)
Locked(l, w) ==
  \E m \in Links \ {l} : \E v \in tx[m] :
    IF w.kind = "befriend" THEN v.kind = "befriend" /\ v.pair \in {w.pair, Flip(w.pair)}
                           ELSE v.kind # "befriend" /\ v.pair[2] = w.pair[2]

(* MySQL drops a connection, rolling its open transaction back.                      *)
DropLink(l) ==
  /\ drops < MaxDrops
  /\ drops' = drops + 1
  /\ alive' = alive \ {l}
  /\ tx' = [tx EXCEPT ![l] = {}]

--------------------------------------------------------------------------------
(* A request.  One without a login, that is no JSON or lacks a field changes nothing   *)
(* and is left out, as is one with a field of the wrong type, which ends the process   *)
(* (Session).  The user of the session, not of the message, is me.                    *)

Goto(s, step) == pc' = [pc EXCEPT ![s] = step]

(* The handler returns, its locals are gone.                                         *)
Finish(s) ==
  /\ Goto(s, "idle")
  /\ req' = [req EXCEPT ![s] = NoReq]
  /\ ret' = [ret EXCEPT ![s] = "Success"]

Receive(s, kinds) ==
  /\ pc[s] = "idle"
  /\ requests < MaxRequests
  /\ requests' = requests + 1
  /\ \E r \in Requests : r.kind \in kinds /\ req' = [req EXCEPT ![s] = r]
  /\ Goto(s, "get")
  /\ UNCHANGED <<apply, friend, alive, manual, tx, link, ret, toldApplied, toldFriends, drops>>

SearchUserCallBack(s) == Receive(s, {"search"})
AddFriendApplyHandler(s) == Receive(s, {"apply"})
GetApplyListHandler(s) == Receive(s, {"apply_list"})
AuthFriendApplyHandler(s) == Receive(s, Decisions)
GetFriendListHandler(s) == Receive(s, {"friend_list"})

(* getConnection: the worker is the only borrower, so there is one; the pool does not *)
(* look whether it is alive.                                                         *)
Get(s) ==
  /\ pc[s] = "get"
  /\ \E c \in Conns : link' = [link EXCEPT ![s] = <<s, c>>]
  /\ Goto(s, IF req[s].kind \in Decisions THEN "begin" ELSE "statement")
  /\ UNCHANGED <<apply, friend, alive, manual, tx, req, ret, toldApplied, toldFriends, requests, drops>>

(* The operation returns and its Defer gives the connection back.                    *)
Leave(s, code) ==
  /\ Goto(s, "answer")
  /\ ret' = [ret EXCEPT ![s] = code]
  /\ link' = [link EXCEPT ![s] = NoLink]

(* A query: rows or an exception, the tables as they were.                           *)
Select(s, statement) ==
  /\ pc[s] = "statement" /\ req[s].kind = statement
  /\ \/ link[s] \in alive /\ statement \in Accepted /\ Leave(s, "Success")
     \/ Leave(s, "MysqlFailed")
  /\ UNCHANGED <<apply, friend, alive, manual, tx, req, toldApplied, toldFriends, requests, drops>>

SearchUser(s) == Select(s, "search")
GetApplyList(s) == Select(s, "apply_list")
GetFriendList(s) == Select(s, "friend_list")

(* One INSERT.  It can also fail, or take effect and lose the connection with its     *)
(* answer.                                                                           *)
AddFriendApply(s) ==
  LET l == link[s]
      w == W("apply", Row(req[s]))
      can == l \in alive /\ "apply_insert" \in Accepted /\ ~Locked(l, w)
  IN /\ pc[s] = "statement" /\ req[s].kind = "apply"
     /\ \/ /\ can
           /\ Execute(l, w)
           /\ Leave(s, "Success")
           /\ UNCHANGED <<alive, drops>>
        \/ /\ can /\ l \notin manual
           /\ Store({w}) /\ DropLink(l)
           /\ Leave(s, "MysqlFailed")
        \/ /\ Leave(s, "MysqlFailed")
           /\ UNCHANGED <<apply, friend, alive, tx, drops>>
     /\ UNCHANGED <<manual, req, toldApplied, toldFriends, requests>>

--------------------------------------------------------------------------------
(* AuthFriendApply, a transaction of two statements.                                 *)

(* An SQLException: on to the catch clause.                                          *)
Throw(s) == Goto(s, "catch") /\ UNCHANGED <<apply, friend, alive, manual, tx, link, ret, drops>>

Begin(s) ==
  /\ pc[s] = "begin"
  /\ \/ /\ link[s] \in alive
        /\ manual' = manual \cup {link[s]}
        /\ Goto(s, "update")
        /\ UNCHANGED <<apply, friend, alive, tx, link, ret, drops>>
     \/ Throw(s)
  /\ UNCHANGED <<req, toldApplied, toldFriends, requests>>

Update(s) ==
  LET w == W(req[s].kind, Row(req[s]))
  IN /\ pc[s] = "update"
     /\ \/ /\ link[s] \in alive /\ "status_update" \in Accepted /\ ~Locked(link[s], w)
           /\ Execute(link[s], w)
           /\ Goto(s, IF req[s].kind = "agree" THEN "insert" ELSE "commit")
           /\ UNCHANGED <<alive, manual, link, ret, drops>>
        \/ Throw(s)
     /\ UNCHANGED <<req, toldApplied, toldFriends, requests>>

Insert(s) ==
  LET w == W("befriend", Row(req[s]))
  IN /\ pc[s] = "insert"
     /\ \/ /\ link[s] \in alive /\ "friend_insert" \in Accepted /\ ~Locked(link[s], w)
           /\ Execute(link[s], w)
           /\ Goto(s, "commit")
           /\ UNCHANGED <<alive, manual, link, ret, drops>>
        \/ Throw(s)
     /\ UNCHANGED <<req, toldApplied, toldFriends, requests>>

(* commit: done; or done, and the connection lost with the answer; or not done.       *)
Commit(s) ==
  LET l == link[s]
  IN /\ pc[s] = "commit"
     /\ \/ /\ l \in alive
           /\ Store(tx[l]) /\ tx' = [tx EXCEPT ![l] = {}]
           /\ Goto(s, "restore")
           /\ UNCHANGED <<alive, manual, link, ret, drops>>
        \/ /\ l \in alive
           /\ Store(tx[l]) /\ DropLink(l)
           /\ Goto(s, "catch")
           /\ UNCHANGED <<manual, link, ret>>
        \/ Throw(s)
     /\ UNCHANGED <<req, toldApplied, toldFriends, requests>>

(* setAutoCommit(true) commits what is open.                                         *)
AutoCommitOn(l, open) ==
  /\ manual' = manual \ {l}
  /\ Store(open)
  /\ tx' = [tx EXCEPT ![l] = {}]

(* Back to autocommit after the commit: only a lost connection can make it fail.     *)
Restore(s) ==
  /\ pc[s] = "restore"
  /\ \/ /\ link[s] \in alive
        /\ AutoCommitOn(link[s], tx[link[s]])
        /\ Leave(s, "Success")
        /\ UNCHANGED <<alive, drops>>
     \/ link[s] \notin alive /\ Throw(s)
  /\ UNCHANGED <<req, toldApplied, toldFriends, requests>>

(* Mutant of Catch: no rollback before autocommit is turned on again.                *)
CatchCommits(s) ==
  /\ pc[s] = "catch"
  /\ link[s] \in alive /\ AutoCommitOn(link[s], tx[link[s]])
  /\ Leave(s, "MysqlFailed")
  /\ UNCHANGED <<alive, req, toldApplied, toldFriends, requests, drops>>

(* Mutant of Catch: only a rollback.                                                 *)
CatchRollsBack(s) ==
  /\ pc[s] = "catch"
  /\ tx' = [tx EXCEPT ![link[s]] = {}]
  /\ Leave(s, "MysqlFailed")
  /\ UNCHANGED <<apply, friend, alive, manual, req, toldApplied, toldFriends, requests, drops>>

(* rollback and autocommit; on a lost connection both throw, and are ignored.        *)
Catch(s) ==
  /\ pc[s] = "catch"
  /\ \/ link[s] \in alive /\ AutoCommitOn(link[s], {})
     \/ link[s] \notin alive /\ UNCHANGED <<apply, friend, manual, tx>>
  /\ Leave(s, "MysqlFailed")
  /\ UNCHANGED <<alive, req, toldApplied, toldFriends, requests, drops>>

--------------------------------------------------------------------------------
(* The answers.                                                                      *)

(* Mutant of Answer: MysqlDao's result is not looked at.                             *)
AnswerIgnoresError(s) ==
  LET r == req[s]
  IN /\ pc[s] = "answer"
     /\ toldApplied' = IF r.kind = "apply" THEN toldApplied \cup {Row(r)} ELSE toldApplied
     /\ toldFriends' = IF r.kind = "agree" THEN toldFriends \cup {<<r.me, r.other>>} ELSE toldFriends
     /\ IF r.kind \in {"apply", "agree"} THEN Goto(s, "notify") /\ UNCHANGED <<req, ret>>
                                          ELSE Finish(s)
     /\ UNCHANGED <<apply, friend, alive, manual, tx, link, requests, drops>>

(* The response to the session.  An application is announced to the other user even   *)
(* if it was not recorded, an agreement only if it was.                              *)
Answer(s) ==
  LET r == req[s]
      ok == ret[s] = "Success"
  IN /\ pc[s] = "answer"
     /\ toldApplied' = IF ok /\ r.kind = "apply" THEN toldApplied \cup {Row(r)} ELSE toldApplied
     /\ toldFriends' = IF ok /\ r.kind = "agree" THEN toldFriends \cup {<<r.me, r.other>>}
                                                ELSE toldFriends
     /\ IF r.kind = "apply" \/ (ok /\ r.kind = "agree")
          THEN Goto(s, "notify") /\ UNCHANGED <<req, ret>>
          ELSE Finish(s)
     /\ UNCHANGED <<apply, friend, alive, manual, tx, link, requests, drops>>

(* The push to the other user, if UserMgr has a session for it; SearchUser decides    *)
(* only whether the message carries a profile.                                       *)
Notify(s) ==
  /\ pc[s] = "notify"
  /\ \/ UNCHANGED toldFriends
     \/ /\ req[s].kind = "agree"
        /\ toldFriends' = toldFriends \cup {<<req[s].other, req[s].me>>}
  /\ Finish(s)
  /\ UNCHANGED <<apply, friend, alive, manual, tx, link, toldApplied, requests, drops>>

--------------------------------------------------------------------------------
(* MySQL loses a connection at any time; nothing makes a new one.                    *)
Drop ==
  /\ \E l \in alive : DropLink(l)
  /\ UNCHANGED <<apply, friend, manual, pc, req, link, ret, toldApplied, toldFriends, requests>>

(* A server dies, MySQL rolls back what it had open, and the server starts again with *)
(* new connections; counted as one drop.                                             *)
Restart(s) ==
  /\ drops < MaxDrops
  /\ drops' = drops + 1
  /\ alive' = alive \cup ({s} \X Conns)
  /\ manual' = manual \ ({s} \X Conns)
  /\ tx' = [l \in Links |-> IF l[1] = s THEN {} ELSE tx[l]]
  /\ Finish(s)
  /\ link' = [link EXCEPT ![s] = NoLink]
  /\ UNCHANGED <<apply, friend, toldApplied, toldFriends, requests>>

Take(s) == \/ SearchUserCallBack(s) \/ AddFriendApplyHandler(s) \/ GetApplyListHandler(s)
           \/ AuthFriendApplyHandler(s) \/ GetFriendListHandler(s)
AuthFriendApply(s) == Begin(s) \/ Update(s) \/ Insert(s) \/ Commit(s) \/ Restore(s) \/ Catch(s)
Work(s) == \/ Get(s) \/ SearchUser(s) \/ GetApplyList(s) \/ GetFriendList(s)
           \/ AddFriendApply(s) \/ AuthFriendApply(s) \/ Answer(s) \/ Notify(s)

Next == \/ \E s \in Servers : Take(s) \/ Work(s) \/ Restart(s)
        \/ Drop

Spec == Init /\ [][Next]_vars

--------------------------------------------------------------------------------
TypeOK ==
  /\ apply \in [Pairs -> SUBSET (0..2)]
  /\ friend \subseteq Pairs
  /\ alive \subseteq Links /\ manual \subseteq Links
  /\ tx \in [Links -> SUBSET Writes]
  /\ pc \in [Servers -> PCs]
  /\ req \in [Servers -> Requests \cup {NoReq}]
  /\ link \in [Servers -> Links \cup {NoLink}]
  /\ ret \in [Servers -> {"Success", "MysqlFailed"}]
  /\ toldApplied \subseteq Pairs /\ toldFriends \subseteq Pairs
  /\ requests \in 0..MaxRequests /\ drops \in 0..MaxDrops

(* The two tables agree: an application marked as accepted has both its rows in       *)
(* friend, whatever failed while AuthFriendApply ran and whatever ran beside it.      *)
AcceptedAreFriends ==
  \A p \in Pairs : 1 \in apply[p] => p \in friend /\ Flip(p) \in friend

(* A user who was told that an application is recorded, or that somebody is a friend, *)
(* was told the truth, and it stays true through lost connections and restarts.       *)
AcksAreStored ==
  /\ \A p \in toldApplied : apply[p] # {}
  /\ toldFriends \subseteq friend

(* A connection goes back to the pool fit for the next operation: in autocommit mode, *)
(* with nothing open (MysqlDao.cc:282); otherwise that operation's INSERT would be     *)
(* acknowledged and never committed.                                                 *)
PooledClean ==
  \A l \in alive : (\A s \in Servers : link[s] # l) => l \notin manual /\ tx[l] = {}

(* A worker that is in MysqlDao has one of its server's connections.                 *)
LinkOK(s) ==
  /\ IF pc[s] \in Borrowed THEN link[s] \in {s} \X Conns ELSE link[s] = NoLink
  /\ pc[s] # "idle" => req[s] \in Requests

(* What its transaction has written at each step.                                    *)
TxOK(s) ==
  LET l == link[s]
      k == req[s].kind
  IN /\ pc[s] = "statement" => k \notin Decisions
     /\ pc[s] \in Borrowed \ {"statement"} => k \in Decisions
     /\ pc[s] = "insert" => k = "agree"
     /\ l \in alive =>
          /\ pc[s] \in {"statement", "begin"} => l \notin manual
          /\ pc[s] \in {"update", "insert", "commit", "restore"} => l \in manual
          /\ pc[s] \in {"statement", "begin", "update", "restore"} => tx[l] = {}
          /\ pc[s] = "insert" => tx[l] = {W(k, Row(req[s]))}
          /\ pc[s] = "commit" =>
               tx[l] = IF k = "agree" THEN {W(k, Row(req[s])), W("befriend", Row(req[s]))}
                                      ELSE {W(k, Row(req[s]))}

(* What success stands for.                                                          *)
DoneOK(s) ==
  (pc[s] \in {"restore", "notify"} \/ (pc[s] = "answer" /\ ret[s] = "Success")) =>
    /\ req[s].kind = "agree" => Row(req[s]) \in friend /\ Flip(Row(req[s])) \in friend
    /\ (req[s].kind = "apply" /\ pc[s] = "answer") => apply[Row(req[s])] # {}

WorkerInv == \A s \in Servers : LinkOK(s) /\ TxOK(s) /\ DoneOK(s)
DeadInv == \A l \in Links \ alive : tx[l] = {}

IInv == TypeOK /\ AcceptedAreFriends /\ AcksAreStored /\ PooledClean /\ WorkerInv /\ DeadInv

(* Friendship is symmetric and grows by pairs; nobody is told of a friend too early.  *)
Abstract == INSTANCE Friendship WITH friends <- friend, informed <- toldFriends
ImplementsFriendship == Abstract!Spec

================================================================================
