-------------------------------- MODULE Register --------------------------------
(* Verification codes, registration and the password check: the GateServer's three   *)
(* HTTP handlers, the VerifyServer's call that stores and mails a code, the code's    *)
(* key in Redis and the users table.  A GateServer handles one request at a time and *)
(* waits for the gRPC call; the VerifyServer runs calls concurrently, and a call goes *)
(* on when the GateServer that made it has given it up.                              *)
EXTENDS Naturals

CONSTANTS Gates,        \* GateServer processes
          Calls,        \* calls the VerifyServer can be running
          Emails, Names, Passwords, Codes,
          WithAt,       \* the identifiers that contain '@'
          NoCode, NoGate, NoReq,
          Asked,        \* the requests that clients make
          Leftover,     \* the codes that earlier runs may have left in Redis
          TTL,          \* how long a code lives (180 seconds)
          MaxRequests,  \* bound: requests
          MaxFaults     \* bound: gRPC failures and restarts

ASSUME TTLAssumption == TTL \in Nat \ {0}
ASSUME BoundAssumption == MaxRequests \in Nat /\ MaxFaults \in Nat
ASSUME NoneAssumption == NoCode \notin Codes /\ NoGate \notin Gates

Idents == Names \cup Emails
Errors == {"Success", "RPCFailed", "VerifyExpired", "VerifyCodeErr", "EmailExist", "UserExist",
           "PasswdInvalid", "MysqlFailed", "RedisErr", "SendMailErr"}
CodeRequests == [kind : {"code"}, email : Emails]
RegisterRequests == [kind : {"register"}, email : Emails, name : Names, pwd : Passwords, code : Codes]
LoginRequests == [kind : {"login"}, ident : Idents, pwd : Passwords]
Requests == CodeRequests \cup RegisterRequests \cup LoginRequests

ASSUME AskedAssumption == Asked \subseteq Requests /\ Leftover \subseteq Codes

VARIABLES code, ttl,    \* Redis: code_<email> and its remaining life
          users,        \* the rows of users
          next_uid,     \* its AUTO_INCREMENT
          call,         \* what each call of the VerifyServer is doing
          pc, req,      \* where each GateServer is, and the request it handles
          uid,          \* the handler's local uid; before that LAST_INSERT_ID
          reply,        \* the error code of the response
          promise,      \* the last mail to an address: its code, and how long it said that lives
          registered,   \* accounts whose registration was answered with Success
          logins,       \* <<identifier, uid>> of logins answered with Success
          requests, faults  \* counters for the bounds

vars == <<code, ttl, users, next_uid, call, pc, req, uid, reply, promise, registered, logins,
          requests, faults>>

Rows == [uid : Nat, name : Names, email : Emails, pwd : Passwords]
Idle == [pc |-> "free", email |-> NoCode, code |-> NoCode, life |-> 0, gate |-> NoGate, alone |-> TRUE]
NoPromise == [code |-> NoCode, life |-> 0]
PCs == {"idle", "wait", "verify", "check_email", "check_name", "insert", "last_id",
        "check_pwd", "get_server", "answer"}

Init ==
  /\ code \in [Emails -> Leftover \cup {NoCode}]
  /\ ttl = [e \in Emails |-> IF code[e] = NoCode THEN 0 ELSE TTL]
  /\ users = {} /\ next_uid = 1
  /\ call = [c \in Calls |-> Idle]
  /\ pc = [g \in Gates |-> "idle"] /\ req = [g \in Gates |-> NoReq]
  /\ uid = [g \in Gates |-> 0] /\ reply = [g \in Gates |-> "Success"]
  /\ promise = [e \in Emails |-> NoPromise]
  /\ registered = {} /\ logins = {}
  /\ requests = 0 /\ faults = 0

redis == <<code, ttl, promise>>
table == <<users, next_uid>>
told == <<registered, logins>>

--------------------------------------------------------------------------------
(* A GateServer takes a request.  One that is no JSON, lacks a field or has a password *)
(* that differs from its confirmation is answered at once, one with a field of the     *)
(* wrong type not at all (Http's HandlerThrows); neither changes anything.            *)

Take(g, r) ==
  /\ pc[g] = "idle"
  /\ requests < MaxRequests
  /\ requests' = requests + 1
  /\ req' = [req EXCEPT ![g] = r]

Reply(g, error) ==
  /\ pc' = [pc EXCEPT ![g] = "answer"]
  /\ reply' = [reply EXCEPT ![g] = error]

(* /get_verifycode: the gRPC call starts; alone says that no other call for the       *)
(* address has been running beside it.                                               *)
GetVerifyCode(g) ==
  \E r \in Asked \cap CodeRequests, c \in Calls :
    LET others == {d \in Calls : call[d].pc # "free" /\ call[d].email = r.email}
    IN /\ call[c].pc = "free"
       /\ Take(g, r)
       /\ call' = [d \in Calls |->
                     IF d = c THEN [Idle EXCEPT !.pc = "get", !.email = r.email, !.gate = g,
                                            !.alone = (others = {})]
                     ELSE IF d \in others THEN [call[d] EXCEPT !.alone = FALSE] ELSE call[d]]
       /\ pc' = [pc EXCEPT ![g] = "wait"]
       /\ UNCHANGED <<redis, table, uid, reply, told, faults>>

HandleUserRegister(g) ==
  /\ \E r \in Asked \cap RegisterRequests : Take(g, r)
  /\ pc' = [pc EXCEPT ![g] = "verify"]
  /\ UNCHANGED <<redis, table, call, uid, reply, told, faults>>

HandleUserLogin(g) ==
  /\ \E r \in Asked \cap LoginRequests : Take(g, r)
  /\ pc' = [pc EXCEPT ![g] = "check_pwd"]
  /\ UNCHANGED <<redis, table, call, uid, reply, told, faults>>

--------------------------------------------------------------------------------
(* The VerifyServer's GetVerifyCode, an async function: other calls run at each await. *)

(* The call's answer, if the GateServer still waits for it.                          *)
Callback(c, error) ==
  LET g == call[c].gate
  IN /\ call' = [call EXCEPT ![c] = Idle]
     /\ IF g = NoGate THEN UNCHANGED <<pc, reply>> ELSE Reply(g, error)

SetCode(e, k) ==
  /\ code' = [code EXCEPT ![e] = k]
  /\ ttl' = [ttl EXCEPT ![e] = TTL]

(* The call is about to mail k; the 180 seconds of its text are counted from here.    *)
Settle(c, k) == call' = [call EXCEPT ![c].pc = "mail", ![c].code = k, ![c].life = TTL]

(* Redis answers with the code there is; if there is none, or Redis fails, a random   *)
(* one is made.                                                                      *)
GetRedis(c) ==
  LET e == call[c].email
  IN /\ call[c].pc = "get"
     /\ \/ /\ code[e] # NoCode
           /\ Settle(c, code[e])
        \/ \E k \in Codes : call' = [call EXCEPT ![c].pc = "set", ![c].code = k]
     /\ UNCHANGED <<redis, table, pc, req, uid, reply, told, requests, faults>>

(* Mutant of SetRedisExpire: NX, a key that exists is left alone.                     *)
SetRedisIfAbsent(c) ==
  LET e == call[c].email
  IN /\ call[c].pc = "set"
     /\ IF code[e] = NoCode THEN SetCode(e, call[c].code) ELSE UNCHANGED <<code, ttl>>
     /\ Settle(c, call[c].code)
     /\ UNCHANGED <<promise, table, pc, req, uid, reply, told, requests, faults>>

(* Mutant of SetRedisExpire: the failure is not answered.                            *)
SetRedisSilent(c) ==
  LET e == call[c].email
  IN /\ call[c].pc = "set"
     /\ \/ SetCode(e, call[c].code) /\ Settle(c, call[c].code)
        \/ call' = [call EXCEPT ![c] = Idle] /\ UNCHANGED <<code, ttl>>
     /\ UNCHANGED <<promise, table, pc, req, uid, reply, told, requests, faults>>

(* SET EX: done; failed; or done although its answer was lost.                        *)
SetRedisExpire(c) ==
  LET e == call[c].email
  IN /\ call[c].pc = "set"
     /\ \/ /\ SetCode(e, call[c].code)
           /\ Settle(c, call[c].code)
           /\ UNCHANGED <<pc, reply>>
        \/ /\ SetCode(e, call[c].code) \/ UNCHANGED <<code, ttl>>
           /\ Callback(c, "RedisErr")
     /\ UNCHANGED <<promise, table, req, uid, told, requests, faults>>

(* The mail goes out or not; its sending may fail although it went out.              *)
SendMail(c) ==
  LET e == call[c].email
      mailed == promise' = [promise EXCEPT ![e] = [code |-> call[c].code, life |-> call[c].life]]
  IN /\ call[c].pc = "mail"
     /\ \/ mailed /\ Callback(c, "Success")
        \/ (mailed \/ UNCHANGED promise) /\ Callback(c, "SendMailErr")
     /\ UNCHANGED <<code, ttl, table, req, uid, told, requests, faults>>

(* A second passes: codes age and expire, and with them what the mails say.          *)
Less(n) == IF n = 0 THEN 0 ELSE n - 1
Tick ==
  /\ \/ \E e \in Emails : ttl[e] > 0 \/ promise[e].life > 0
     \/ \E c \in Calls : call[c].life > 0
  /\ ttl' = [e \in Emails |-> Less(ttl[e])]
  /\ code' = [e \in Emails |-> IF Less(ttl[e]) = 0 THEN NoCode ELSE code[e]]
  /\ promise' = [e \in Emails |-> IF Less(promise[e].life) = 0 THEN NoPromise
                                  ELSE [promise[e] EXCEPT !.life = Less(@)]]
  /\ call' = [c \in Calls |-> [call[c] EXCEPT !.life = Less(@)]]
  /\ UNCHANGED <<table, pc, req, uid, reply, told, requests, faults>>

--------------------------------------------------------------------------------
(* HandleUserRegister: the code, then RegUser's four statements, each of which can    *)
(* fail; they are not in a transaction.                                              *)

Goto(g, step) == pc' = [pc EXCEPT ![g] = step] /\ UNCHANGED reply

CheckCode(g) ==
  LET r == req[g]
  IN /\ pc[g] = "verify"
     /\ \/ Reply(g, "VerifyExpired")
        \/ code[r.email] \notin {NoCode, r.code} /\ Reply(g, "VerifyCodeErr")
        \/ code[r.email] = r.code /\ Goto(g, "check_email")
     /\ UNCHANGED <<redis, table, call, req, uid, told, requests, faults>>

CheckEmail(g) ==
  LET taken == \E u \in users : u.email = req[g].email
  IN /\ pc[g] = "check_email"
     /\ \/ Reply(g, "MysqlFailed")
        \/ taken /\ Reply(g, "EmailExist")
        \/ ~taken /\ Goto(g, "check_name")
     /\ UNCHANGED <<redis, table, call, req, uid, told, requests, faults>>

CheckName(g) ==
  LET taken == \E u \in users : u.name = req[g].name
  IN /\ pc[g] = "check_name"
     /\ \/ Reply(g, "MysqlFailed")
        \/ taken /\ Reply(g, "UserExist")
        \/ ~taken /\ Goto(g, "insert")
     /\ UNCHANGED <<redis, table, call, req, uid, told, requests, faults>>

(* The unique keys over name and email, the guard when two registrations meet.       *)
Duplicate(r) == \E u \in users : u.email = r.email \/ u.name = r.name
Row(n, r) == [uid |-> n, name |-> r.name, email |-> r.email, pwd |-> r.pwd]
AddUser(g) ==
  /\ users' = users \cup {Row(next_uid, req[g])}
  /\ next_uid' = next_uid + 1

(* Mutant of Insert: every SQLException is answered with UserExist.                  *)
InsertBlamesUser(g) ==
  /\ pc[g] = "insert"
  /\ \/ /\ ~Duplicate(req[g])
        /\ AddUser(g) /\ uid' = [uid EXCEPT ![g] = next_uid]
        /\ Goto(g, "last_id")
     \/ Reply(g, "UserExist") /\ UNCHANGED <<table, uid>>
  /\ UNCHANGED <<redis, call, req, told, requests, faults>>

(* INSERT: a row, and its uid is the connection's LAST_INSERT_ID; or error 1062, and  *)
(* a uid is used up; or another failure, perhaps only of the answer.                 *)
Insert(g) ==
  /\ pc[g] = "insert"
  /\ \/ /\ ~Duplicate(req[g])
        /\ AddUser(g) /\ uid' = [uid EXCEPT ![g] = next_uid]
        /\ Goto(g, "last_id")
     \/ /\ ~Duplicate(req[g])
        /\ AddUser(g) /\ Reply(g, "MysqlFailed")
        /\ UNCHANGED uid
     \/ /\ Duplicate(req[g])
        /\ next_uid' = next_uid + 1
        /\ Reply(g, "UserExist")
        /\ UNCHANGED <<users, uid>>
     \/ Reply(g, "MysqlFailed") /\ UNCHANGED <<table, uid>>
  /\ UNCHANGED <<redis, call, req, told, requests, faults>>

(* Mutant of LastInsertId: the largest uid of the table, of whichever connection.    *)
LargestUid(g) ==
  /\ pc[g] = "last_id"
  /\ uid' = [uid EXCEPT ![g] = next_uid - 1]
  /\ Reply(g, "Success")
  /\ UNCHANGED <<redis, table, call, req, told, requests, faults>>

LastInsertId(g) ==
  /\ pc[g] = "last_id"
  /\ Reply(g, "Success") \/ Reply(g, "MysqlFailed")
  /\ UNCHANGED <<redis, table, call, req, uid, told, requests, faults>>

--------------------------------------------------------------------------------
(* HandleUserLogin.                                                                  *)

(* Mutant of Matches: the name only.                                                 *)
MatchesName(u, ident) == u.name = ident

(* The column an identifier is looked up in.                                         *)
Matches(u, ident) == IF ident \in WithAt THEN u.email = ident ELSE u.name = ident

(* What CheckPwd returned goes out as it is, but for an unknown identifier, which gets  *)
(* the answer of a wrong password.                                                    *)
LoginFails(g, rc) == Reply(g, IF rc = "UserNotExist" THEN "PasswdInvalid" ELSE rc)

CheckPwd(g) ==
  LET found == {u \in users : Matches(u, req[g].ident)}
  IN /\ pc[g] = "check_pwd"
     /\ \/ LoginFails(g, "MysqlFailed") /\ UNCHANGED uid
        \/ found = {} /\ LoginFails(g, "UserNotExist") /\ UNCHANGED uid
        \/ \E u \in found :
             \/ u.pwd # req[g].pwd /\ LoginFails(g, "PasswdInvalid") /\ UNCHANGED uid
             \/ u.pwd = req[g].pwd /\ Goto(g, "get_server") /\ uid' = [uid EXCEPT ![g] = u.uid]
     /\ UNCHANGED <<redis, table, call, req, told, requests, faults>>

(* The StatusServer's GetChatServer, which stores a token (Presence); any failure is  *)
(* answered with RPCFailed.                                                          *)
GetChatServer(g) ==
  /\ pc[g] = "get_server"
  /\ Reply(g, "Success") \/ Reply(g, "RPCFailed")
  /\ UNCHANGED <<redis, table, call, req, uid, told, requests, faults>>

--------------------------------------------------------------------------------
(* The response goes out.                                                            *)
Answer(g) ==
  LET r == req[g]
      ok == reply[g] = "Success"
  IN /\ pc[g] = "answer"
     /\ registered' = IF ok /\ r.kind = "register" THEN registered \cup {Row(uid[g], r)} ELSE registered
     /\ logins' = IF ok /\ r.kind = "login" THEN logins \cup {<<r.ident, uid[g]>>} ELSE logins
     /\ pc' = [pc EXCEPT ![g] = "idle"]
     /\ req' = [req EXCEPT ![g] = NoReq]
     /\ uid' = [uid EXCEPT ![g] = 0]
     /\ reply' = [reply EXCEPT ![g] = "Success"]
     /\ UNCHANGED <<redis, table, call, requests, faults>>

Fault == faults < MaxFaults /\ faults' = faults + 1

Orphan(g) == [c \in Calls |-> IF call[c].gate = g THEN [call[c] EXCEPT !.gate = NoGate] ELSE call[c]]

(* The gRPC channel breaks: the GateServer answers, the VerifyServer goes on.        *)
RpcFails(g) ==
  /\ pc[g] = "wait"
  /\ Fault
  /\ call' = Orphan(g)
  /\ Reply(g, "RPCFailed")
  /\ UNCHANGED <<redis, table, req, uid, told, requests>>

(* A GateServer dies and starts again; its client gets no answer.                    *)
Restart(g) ==
  /\ pc[g] # "idle"
  /\ Fault
  /\ call' = Orphan(g)
  /\ pc' = [pc EXCEPT ![g] = "idle"]
  /\ req' = [req EXCEPT ![g] = NoReq]
  /\ uid' = [uid EXCEPT ![g] = 0]
  /\ reply' = [reply EXCEPT ![g] = "Success"]
  /\ UNCHANGED <<redis, table, told, requests>>

(* The VerifyServer dies: its calls fail.                                            *)
VerifyServerDies ==
  /\ \E c \in Calls : call[c].pc # "free"
  /\ Fault
  /\ pc' = [g \in Gates |-> IF pc[g] = "wait" THEN "answer" ELSE pc[g]]
  /\ reply' = [g \in Gates |-> IF pc[g] = "wait" THEN "RPCFailed" ELSE reply[g]]
  /\ call' = [c \in Calls |-> Idle]
  /\ UNCHANGED <<redis, table, req, uid, told, requests>>

Serve(c) == GetRedis(c) \/ SetRedisExpire(c) \/ SendMail(c)
RegUser(g) == CheckEmail(g) \/ CheckName(g) \/ Insert(g) \/ LastInsertId(g)
Handle(g) == CheckCode(g) \/ RegUser(g) \/ CheckPwd(g) \/ GetChatServer(g) \/ Answer(g)

Next == \/ \E g \in Gates : \/ GetVerifyCode(g) \/ HandleUserRegister(g) \/ HandleUserLogin(g)
                            \/ Handle(g) \/ RpcFails(g) \/ Restart(g)
        \/ \E c \in Calls : Serve(c)
        \/ Tick \/ VerifyServerDies

Spec == Init /\ [][Next]_vars

(* A GateServer's thread and the VerifyServer's event loop go on; Redis, MySQL, the    *)
(* mail server and the StatusServer answer, if only with an error.                   *)
LiveSpec == Spec /\ (\A g \in Gates : WF_vars(Handle(g))) /\ (\A c \in Calls : WF_vars(Serve(c)))

--------------------------------------------------------------------------------
Running == [pc : {"get", "set", "mail"}, email : Emails, code : Codes \cup {NoCode},
            life : 0..TTL, gate : Gates \cup {NoGate}, alone : BOOLEAN]

(* Types; and a code in Redis always has an end (redis.js:36).                       *)
TypeOK ==
  /\ code \in [Emails -> Codes \cup {NoCode}]
  /\ ttl \in [Emails -> 0..TTL] /\ \A e \in Emails : code[e] = NoCode <=> ttl[e] = 0
  /\ users \subseteq Rows /\ next_uid \in Nat \ {0}
  /\ call \in [Calls -> Running \cup {Idle}]
  /\ \A c \in Calls : call[c].pc \in {"set", "mail"} => call[c].code \in Codes
  /\ pc \in [Gates -> PCs] /\ req \in [Gates -> Requests \cup {NoReq}]
  /\ uid \in [Gates -> Nat] /\ reply \in [Gates -> Errors]
  /\ promise \in [Emails -> [code : Codes \cup {NoCode}, life : 0..TTL]]
  /\ registered \subseteq Rows /\ logins \subseteq Idents \X Nat
  /\ requests \in 0..MaxRequests /\ faults \in 0..MaxFaults

(* An account whose registration was answered with Success is in the table, as the    *)
(* client asked for it and under the uid it was told, however registrations interleave. *)
RegisteredIsStored == registered \subseteq users

(* A registration is refused as EmailExist or UserExist only if an account stands in  *)
(* its way; UserExist covers the conflict that only the unique keys have seen.       *)
RefusalIsTrue ==
  \A g \in Gates : pc[g] = "answer" =>
    /\ reply[g] = "EmailExist" => \E u \in users : u.email = req[g].email
    /\ reply[g] = "UserExist" => Duplicate(req[g])

(* The identifier that the login form takes for an account.                          *)
Owns(u, ident) == ident \in {u.email} \cap WithAt \/ ident \in {u.name} \ WithAt

(* An identifier always logs in as the same account, the one that was registered with *)
(* it: by its address if it has an '@', else by its name.                            *)
IdentityIsStable ==
  \A l \in logins :
    /\ \A m \in logins : l[1] = m[1] => l[2] = m[2]
    /\ \A u \in registered : Owns(u, l[1]) => l[2] = u.uid

(* The code in a mail is the one in Redis, or Redis has none any more, unless another *)
(* call for the address ran beside this one.                                         *)
MailedIsCurrent ==
  \A c \in Calls : call[c].pc = "mail" /\ call[c].alone =>
    code[call[c].email] \in {call[c].code, NoCode}

(* CheckPwd answers that the password is wrong, to a client that named a registered   *)
(* account by its name or its address (LogicSystem.cc:178) and gave its password.     *)
CalledWrong(g, u) ==
  /\ pc[g] = "check_pwd" /\ pc'[g] = "answer" /\ reply'[g] = "PasswdInvalid"
  /\ req[g].ident \in {u.name, u.email} /\ req[g].pwd = u.pwd

(* What looks like an address and is not the account's, or does not and is not its    *)
(* name: a name with an '@', an address without one.  The code registers them and     *)
(* looks them up in the other column, so that their owner never logs in with them.    *)
Mistaken(u, ident) == IF ident \in WithAt THEN ident # u.email ELSE ident # u.name

(* Only for such a name or address is a client whose registration succeeded told that *)
(* the right password is wrong, whatever names and addresses the other accounts have   *)
(* and in whichever order they registered.                                           *)
NeverForgotten ==
  [][\A g \in Gates : \A u \in registered : CalledWrong(g, u) => Mistaken(u, req[g].ident)]_vars

(* What the mail says (verify_server.js:45): its code can be used for 180 seconds.    *)
MailedCodeLasts == \A e \in Emails : promise[e].life > 0 => code[e] = promise[e].code

(* Every request is answered, also when Redis, the mail or a call fails.             *)
EveryRequestAnswered == \A g \in Gates : (pc[g] # "idle") ~> (pc[g] = "idle")

--------------------------------------------------------------------------------
(* The inductive invariant.                                                          *)

Registering == {"verify", "check_email", "check_name", "insert", "last_id"}

(* What a GateServer is doing is what it was asked.                                  *)
RequestsFit ==
  \A g \in Gates :
    /\ pc[g] = "wait" => req[g] \in CodeRequests
    /\ pc[g] \in Registering => req[g] \in RegisterRequests
    /\ pc[g] \in {"check_pwd", "get_server"} => req[g] \in LoginRequests
    /\ pc[g] = "answer" => req[g] \in Requests

(* A call of the VerifyServer can only answer the request it was made for: its         *)
(* GateServer waits, for a code for that address and for no other call.  What is left  *)
(* of a call that was given up (VerifyGrpcClient.h:19) answers nobody.                *)
CallersWait ==
  /\ \A c \in Calls : call[c].gate \in Gates =>
       pc[call[c].gate] = "wait" /\ req[call[c].gate].email = call[c].email
  /\ \A c, d \in Calls : call[c].gate = call[d].gate => c = d \/ call[c].gate = NoGate

AloneIsAlone ==
  \A c, d \in Calls :
    c # d /\ "free" \notin {call[c].pc, call[d].pc} /\ call[c].email = call[d].email => ~call[c].alone

(* The unique keys and the AUTO_INCREMENT.                                           *)
Unique ==
  /\ \A u, v \in users : u.email = v.email \/ u.name = v.name \/ u.uid = v.uid => u = v
  /\ \A u \in users : u.uid < next_uid

(* The uid a handler holds is of the account it created or found.                    *)
HoldsAccount(g) ==
  /\ req[g] \in RegisterRequests => Row(uid[g], req[g]) \in users
  /\ req[g] \in LoginRequests => \E u \in users : u.uid = uid[g] /\ Owns(u, req[g].ident)
UidIsRight ==
  \A g \in Gates :
    pc[g] \in {"last_id", "get_server"} \/ (pc[g] = "answer" /\ reply[g] = "Success") => HoldsAccount(g)

LoginsAreOwners == \A l \in logins : \E u \in users : u.uid = l[2] /\ Owns(u, l[1])

IInv == /\ TypeOK /\ RequestsFit /\ CallersWait /\ AloneIsAlone /\ Unique /\ UidIsRight
        /\ LoginsAreOwners /\ RegisteredIsStored /\ RefusalIsTrue /\ MailedIsCurrent

================================================================================
