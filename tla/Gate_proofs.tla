------------------------------- MODULE Gate_proofs -------------------------------
(* Proofs about the GateServer: registration, for any GateServers, calls, addresses  *)
(* and requests; and its HTTP connections, for any number of them, of pieces of a    *)
(* response and of ticks to the deadline.                                           *)
EXTENDS Register, Http, SequenceTheorems, TLAPS

--------------------------------------------------------------------------------
(* Register.                                                                         *)

(* The column an identifier is looked up in is the one of its owner.                 *)
LEMMA MatchesOwns ==
  ASSUME NEW u, NEW ident
  PROVE  Matches(u, ident) <=> Owns(u, ident)
  BY DEF Matches, Owns

(* What a request is, by its kind.                                                   *)
LEMMA Kinds ==
  /\ \A r \in CodeRequests : r \notin RegisterRequests /\ r \notin LoginRequests
  /\ \A r \in RegisterRequests : r.kind = "register" /\ r \notin LoginRequests /\ r \in Requests
  /\ \A r \in LoginRequests : r.kind = "login" /\ r \notin RegisterRequests /\ r \in Requests
  /\ \A r \in CodeRequests : r.kind = "code" /\ r \in Requests
  /\ \A r \in Requests : r \in CodeRequests \/ r \in RegisterRequests \/ r \in LoginRequests
  BY DEF CodeRequests, RegisterRequests, LoginRequests, Requests

LEMMA InitIInv == Init => IInv
<1> SUFFICES ASSUME Init PROVE IInv
  OBVIOUS
<1>1. TypeOK
  <2>1. Idle \in Running \cup {Idle} /\ NoPromise \in [code : Codes \cup {NoCode}, life : 0..TTL]
    BY TTLAssumption DEF NoPromise
  <2>2. code \in [Emails -> Codes \cup {NoCode}]
    BY AskedAssumption DEF Init
  <2>3. ttl \in [Emails -> 0..TTL] /\ \A e \in Emails : code[e] = NoCode <=> ttl[e] = 0
    BY TTLAssumption DEF Init
  <2> QED
    BY <2>1, <2>2, <2>3, BoundAssumption DEF Init, TypeOK, PCs, Errors, Idle
<1>2. RequestsFit /\ Unique /\ UidIsRight /\ LoginsAreOwners /\ RegisteredIsStored /\ RefusalIsTrue
  BY DEF Init, RequestsFit, Unique, UidIsRight, LoginsAreOwners, RegisteredIsStored, RefusalIsTrue,
         Registering
<1>3. CallersWait /\ AloneIsAlone /\ MailedIsCurrent
  BY NoneAssumption DEF Init, CallersWait, AloneIsAlone, MailedIsCurrent, Idle
<1> QED
  BY <1>1, <1>2, <1>3 DEF IInv

--------------------------------------------------------------------------------
(* Which steps change what.                                                          *)
LEMMA Frame ==
  ASSUME [Next]_vars
  PROVE  /\ UNCHANGED <<code, ttl>> \/ Tick \/ \E c \in Calls : SetRedisExpire(c)
         /\ UNCHANGED promise \/ Tick \/ \E c \in Calls : SendMail(c)
         /\ UNCHANGED table \/ \E g \in Gates : Insert(g)
         /\ UNCHANGED told \/ \E g \in Gates : Answer(g)
         /\ UNCHANGED call \/ Tick \/ VerifyServerDies \/ (\E c \in Calls : Serve(c))
              \/ \E g \in Gates : GetVerifyCode(g) \/ RpcFails(g) \/ Restart(g)
<1> USE DEF redis, table, told, Serve
<1>1. ASSUME NEW g \in Gates, GetVerifyCode(g) \/ HandleUserRegister(g) \/ HandleUserLogin(g) \/ Answer(g)
                                \/ RpcFails(g) \/ Restart(g)
      PROVE  UNCHANGED <<redis, table>> /\ (UNCHANGED told \/ Answer(g))
               /\ (UNCHANGED call \/ GetVerifyCode(g) \/ RpcFails(g) \/ Restart(g))
  BY <1>1 DEF GetVerifyCode, HandleUserRegister, HandleUserLogin, Answer, RpcFails, Restart
<1>2. ASSUME NEW g \in Gates, CheckCode(g) \/ RegUser(g) \/ CheckPwd(g) \/ GetChatServer(g)
      PROVE  UNCHANGED <<redis, call, told>> /\ (UNCHANGED table \/ Insert(g))
  BY <1>2 DEF CheckCode, RegUser, CheckEmail, CheckName, Insert, LastInsertId, CheckPwd, LoginFails, GetChatServer
<1>3. ASSUME NEW c \in Calls, Serve(c)
      PROVE  /\ UNCHANGED <<table, told>>
             /\ UNCHANGED <<code, ttl>> \/ SetRedisExpire(c)
             /\ UNCHANGED promise \/ SendMail(c)
  BY <1>3 DEF GetRedis, SetRedisExpire, SendMail
<1>4. ASSUME Tick PROVE UNCHANGED <<table, told>>
  BY <1>4 DEF Tick
<1>5. ASSUME VerifyServerDies PROVE UNCHANGED <<redis, table, told>>
  BY <1>5 DEF VerifyServerDies
<1>6. ASSUME UNCHANGED vars PROVE UNCHANGED <<redis, table, told, call>>
  BY <1>6 DEF vars
<1> QED
  BY <1>1, <1>2, <1>3, <1>4, <1>5, <1>6 DEF Next, Handle

--------------------------------------------------------------------------------
(* Types.                                                                            *)

LEMMA RedisTypes ==
  ASSUME TypeOK, [Next]_vars
  PROVE  /\ code' \in [Emails -> Codes \cup {NoCode}] /\ ttl' \in [Emails -> 0..TTL]
         /\ \A e \in Emails : code'[e] = NoCode <=> ttl'[e] = 0
         /\ promise' \in [Emails -> [code : Codes \cup {NoCode}, life : 0..TTL]]
<1> DEFINE Timed == /\ code' \in [Emails -> Codes \cup {NoCode}] /\ ttl' \in [Emails -> 0..TTL]
                    /\ \A e \in Emails : code'[e] = NoCode <=> ttl'[e] = 0
           Promised == promise' \in [Emails -> [code : Codes \cup {NoCode}, life : 0..TTL]]
<1>1. ASSUME Tick PROVE Timed /\ Promised
  <2>1. Less(0) = 0 /\ \A n \in 0..TTL : Less(n) \in 0..TTL
    BY TTLAssumption DEF Less
  <2>2. Timed
    <3>1. \A e \in Emails : ttl[e] \in 0..TTL /\ code[e] \in Codes \cup {NoCode}
                           /\ (code[e] = NoCode <=> ttl[e] = 0)
      BY DEF TypeOK
    <3>2. ttl' = [e \in Emails |-> Less(ttl[e])]
            /\ code' = [e \in Emails |-> IF Less(ttl[e]) = 0 THEN NoCode ELSE code[e]]
      BY <1>1 DEF Tick
    <3>3. \A e \in Emails : Less(ttl[e]) \in 0..TTL
      BY <2>1, <3>1
    <3> QED
      BY <2>1, <3>1, <3>2, <3>3
  <2>3. \A e \in Emails : promise[e] \in [code : Codes \cup {NoCode}, life : 0..TTL]
    BY DEF TypeOK
  <2>4. NoPromise \in [code : Codes \cup {NoCode}, life : 0..TTL]
    BY TTLAssumption DEF NoPromise
  <2> QED
    BY <1>1, <2>1, <2>2, <2>3, <2>4 DEF Tick
<1>2. ASSUME NEW c \in Calls, SetRedisExpire(c) PROVE Timed
  <2>1. call[c].email \in Emails /\ call[c].code \in Codes
    BY <1>2 DEF TypeOK, SetRedisExpire, Idle, Running
  <2> QED
    BY SMTT(40), <1>2, <2>1, TTLAssumption, NoneAssumption DEF SetRedisExpire, SetCode, TypeOK
<1>3. ASSUME NEW c \in Calls, SendMail(c) PROVE Promised
  <2>1. call[c].email \in Emails /\ call[c].code \in Codes \cup {NoCode} /\ call[c].life \in 0..TTL
    BY <1>3 DEF TypeOK, SendMail, Idle, Running
  <2> QED
    BY <1>3, <2>1 DEF SendMail, TypeOK
<1>4. UNCHANGED <<code, ttl>> => Timed
  BY DEF TypeOK
<1>5. UNCHANGED promise => Promised
  BY DEF TypeOK
<1> QED
  BY <1>1, <1>2, <1>3, <1>4, <1>5, Frame

LEMMA CallTypes ==
  ASSUME TypeOK, [Next]_vars
  PROVE  /\ call' \in [Calls -> Running \cup {Idle}]
         /\ \A c \in Calls : call'[c].pc \in {"set", "mail"} => call'[c].code \in Codes
<1> DEFINE Typed(c) == call'[c] \in Running \cup {Idle}
                         /\ (call'[c].pc \in {"set", "mail"} => call'[c].code \in Codes)
           Fun == call' \in [Calls -> Running \cup {Idle}]
           Old(c) == call[c] \in Running \cup {Idle}
                       /\ (call[c].pc \in {"set", "mail"} => call[c].code \in Codes)
<1>0. call = [c \in Calls |-> call[c]] /\ \A c \in Calls : Old(c)
  BY DEF TypeOK
<1>1. ASSUME Tick PROVE Fun /\ \A c \in Calls : Typed(c)
  <2>1. call' = [c \in Calls |-> [call[c] EXCEPT !.life = Less(call[c].life)]]
    BY <1>1 DEF Tick
  <2>2. ASSUME NEW c \in Calls PROVE Typed(c)
    <3>1. CASE call[c] = Idle
      BY <2>1, <3>1 DEF Idle, Less
    <3>2. CASE call[c] \in Running
      <4>1. Less(call[c].life) \in 0..TTL
        BY <3>2, TTLAssumption DEF Less, Running
      <4> QED
        BY <1>0, <2>1, <3>2, <4>1 DEF Running
    <3> QED
      BY <1>0, <3>1, <3>2
  <2>3. Fun
    <3> DEFINE New(c) == [call[c] EXCEPT !.life = Less(call[c].life)]
    <3>1. call' = [c \in Calls |-> New(c)]
      BY <2>1
    <3> HIDE DEF New
    <3>2. \A d \in Calls : New(d) \in Running \cup {Idle}
      BY <2>2, <3>1
    <3> QED
      BY <3>1, <3>2
  <2> QED
    BY <2>2, <2>3
<1>2. ASSUME VerifyServerDies PROVE Fun /\ \A c \in Calls : Typed(c)
  BY <1>2 DEF VerifyServerDies, Idle
<1>3. ASSUME NEW c \in Calls, Serve(c) PROVE Fun /\ \A d \in Calls : Typed(d)
  <2>1. call[c] \in Running
    <3>1. call[c].pc # "free"
      BY <1>3 DEF Serve, GetRedis, SetRedisExpire, SendMail
    <3> QED
      BY <1>0, <3>1 DEF Idle
  <2>2. code \in [Emails -> Codes \cup {NoCode}]
    BY DEF TypeOK
  <2>3. call' = [call EXCEPT ![c] = call'[c]] /\ \A d \in Calls : d = c \/ call'[d] = call[d]
    BY <1>0, <1>3 DEF Serve, GetRedis, SetRedisExpire, SendMail, Settle, Callback
  <2>4. ASSUME GetRedis(c) PROVE Typed(c)
    <3>1. ASSUME NEW k \in Codes, call' = [call EXCEPT ![c].pc = "set", ![c].code = k] PROVE Typed(c)
      BY <1>0, <2>1, <3>1 DEF Running
    <3>2. ASSUME NEW k \in Codes, Settle(c, k) PROVE Typed(c)
      BY <1>0, <2>1, <3>2, TTLAssumption DEF Running, Settle
    <3>3. call[c].email \in Emails
      BY <2>1 DEF Running
    <3> QED
      BY <2>2, <2>4, <3>1, <3>2, <3>3 DEF GetRedis
  <2>5. ASSUME SetRedisExpire(c) PROVE Typed(c)
    <3>1. call[c].code \in Codes
      BY <1>0, <2>5 DEF SetRedisExpire
    <3>2. CASE Settle(c, call[c].code)
      BY <1>0, <2>1, <3>1, <3>2, TTLAssumption DEF Running, Settle
    <3>3. CASE call' = [call EXCEPT ![c] = Idle]
      BY <1>0, <3>3 DEF Idle
    <3> QED
      BY <2>5, <3>2, <3>3 DEF SetRedisExpire, Callback
  <2>6. ASSUME SendMail(c) PROVE Typed(c)
    BY <1>0, <2>6 DEF SendMail, Callback, Idle
  <2> QED
    BY <1>0, <1>3, <2>3, <2>4, <2>5, <2>6 DEF Serve
<1>4. ASSUME NEW g \in Gates, GetVerifyCode(g) PROVE Fun /\ \A c \in Calls : Typed(c)
  <2>1. PICK r \in Asked \cap CodeRequests, c \in Calls :
          call' = [d \in Calls |->
            IF d = c THEN [Idle EXCEPT !.pc = "get", !.email = r.email, !.gate = g,
                             !.alone = ({e \in Calls : call[e].pc # "free" /\ call[e].email = r.email} = {})]
            ELSE IF d \in {e \in Calls : call[e].pc # "free" /\ call[e].email = r.email}
                 THEN [call[d] EXCEPT !.alone = FALSE] ELSE call[d]]
    BY <1>4 DEF GetVerifyCode
  <2>2. r.email \in Emails
    BY DEF CodeRequests
  <2>3. Typed(c)
    <3> DEFINE a == ({e \in Calls : call[e].pc # "free" /\ call[e].email = r.email} = {})
    <3>1. call'[c] = [pc |-> "get", email |-> r.email, code |-> NoCode, life |-> 0, gate |-> g, alone |-> a]
      BY <2>1 DEF Idle
    <3>2. a \in BOOLEAN
      OBVIOUS
    <3> HIDE DEF a
    <3> QED
      BY <2>2, <3>1, <3>2, TTLAssumption DEF Running
  <2>4. ASSUME NEW d \in Calls, d # c PROVE Typed(d)
    <3>1. CASE call'[d] = call[d]
      BY <1>0, <3>1
    <3>2. CASE call[d].pc # "free" /\ call'[d] = [call[d] EXCEPT !.alone = FALSE]
      <4>1. call[d] \in Running
        BY <1>0, <3>2 DEF Idle
      <4> QED
        BY <1>0, <3>2, <4>1 DEF Running
    <3> QED
      BY <2>1, <2>4, <3>1, <3>2
  <2>5. Fun
    <3> DEFINE New(d) ==
          IF d = c THEN [Idle EXCEPT !.pc = "get", !.email = r.email, !.gate = g,
                           !.alone = ({e \in Calls : call[e].pc # "free" /\ call[e].email = r.email} = {})]
          ELSE IF d \in {e \in Calls : call[e].pc # "free" /\ call[e].email = r.email}
               THEN [call[d] EXCEPT !.alone = FALSE] ELSE call[d]
    <3>1. call' = [d \in Calls |-> New(d)]
      BY <2>1
    <3> HIDE DEF New
    <3>2. \A d \in Calls : New(d) \in Running \cup {Idle}
      BY <2>3, <2>4, <3>1
    <3> QED
      BY <3>1, <3>2
  <2> QED
    BY <2>3, <2>4, <2>5
<1>5. ASSUME NEW g \in Gates, call' = Orphan(g) PROVE Fun /\ \A c \in Calls : Typed(c)
  <2>1. ASSUME NEW c \in Calls PROVE Typed(c)
    <3>1. CASE call'[c] = call[c]
      BY <1>0, <3>1
    <3>2. CASE call[c].gate = g /\ call'[c] = [call[c] EXCEPT !.gate = NoGate]
      <4>1. call[c] \in Running
        BY <1>0, <3>2, NoneAssumption DEF Idle
      <4> QED
        BY <1>0, <3>2, <4>1 DEF Running
    <3> QED
      BY <1>5, <3>1, <3>2 DEF Orphan
  <2> QED
    BY <1>5, <2>1 DEF Orphan
<1>6. Fun /\ \A c \in Calls : Typed(c)
  BY <1>0, <1>1, <1>2, <1>3, <1>4, <1>5, Frame DEF RpcFails, Restart
<1> QED
  BY <1>6

LEMMA GateTypes ==
  ASSUME TypeOK, CallersWait, [Next]_vars
  PROVE  /\ pc' \in [Gates -> PCs] /\ req' \in [Gates -> Requests \cup {NoReq}]
         /\ uid' \in [Gates -> Nat] /\ reply' \in [Gates -> Errors]
         /\ requests' \in 0..MaxRequests /\ faults' \in 0..MaxFaults
<1> DEFINE Typed == /\ pc' \in [Gates -> PCs] /\ req' \in [Gates -> Requests \cup {NoReq}]
                    /\ uid' \in [Gates -> Nat] /\ reply' \in [Gates -> Errors]
                    /\ requests' \in 0..MaxRequests /\ faults' \in 0..MaxFaults
<1>0. /\ pc \in [Gates -> PCs] /\ req \in [Gates -> Requests \cup {NoReq}]
      /\ uid \in [Gates -> Nat] /\ reply \in [Gates -> Errors]
      /\ requests \in 0..MaxRequests /\ faults \in 0..MaxFaults
  BY DEF TypeOK
<1>1. ASSUME NEW g \in Gates, GetVerifyCode(g) \/ HandleUserRegister(g) \/ HandleUserLogin(g) PROVE Typed
  <2>1. PICK r \in Requests : Take(g, r)
    BY <1>1, AskedAssumption DEF GetVerifyCode, HandleUserRegister, HandleUserLogin
  <2>2. \E x \in PCs : pc' = [pc EXCEPT ![g] = x]
    BY <1>1 DEF GetVerifyCode, HandleUserRegister, HandleUserLogin, PCs
  <2>3. UNCHANGED <<uid, reply, faults>>
    BY <1>1 DEF GetVerifyCode, HandleUserRegister, HandleUserLogin
  <2> QED
    BY <1>0, <2>1, <2>2, <2>3, BoundAssumption DEF Take
<1>2. ASSUME NEW g \in Gates, CheckCode(g) \/ RegUser(g) \/ CheckPwd(g) \/ GetChatServer(g) PROVE Typed
  <2>1. \E x \in PCs : pc' = [pc EXCEPT ![g] = x]
    BY <1>2 DEF CheckCode, RegUser, CheckEmail, CheckName, Insert, LastInsertId, CheckPwd, LoginFails,
                GetChatServer, Reply, Goto, PCs
  <2>2. \E x \in Errors : reply' = reply \/ reply' = [reply EXCEPT ![g] = x]
    BY <1>2 DEF CheckCode, RegUser, CheckEmail, CheckName, Insert, LastInsertId, CheckPwd, LoginFails,
                GetChatServer, Reply, Goto, Errors
  <2>3. \E n \in Nat : uid' = uid \/ uid' = [uid EXCEPT ![g] = n]
    <3>1. next_uid \in Nat /\ \A u \in users : u.uid \in Nat
      BY DEF TypeOK, Rows
    <3> QED
      BY <1>2, <3>1 DEF CheckCode, RegUser, CheckEmail, CheckName, Insert, LastInsertId, CheckPwd, LoginFails,
                        GetChatServer
  <2>4. UNCHANGED <<req, requests, faults>>
    BY <1>2 DEF CheckCode, RegUser, CheckEmail, CheckName, Insert, LastInsertId, CheckPwd, LoginFails, GetChatServer
  <2> QED
    BY <1>0, <2>1, <2>2, <2>3, <2>4
<1>3. ASSUME NEW g \in Gates, Answer(g) \/ RpcFails(g) \/ Restart(g) PROVE Typed
  BY <1>0, <1>3, BoundAssumption DEF Answer, RpcFails, Restart, Fault, Reply, PCs, Errors
<1>4. ASSUME NEW c \in Calls, Serve(c) PROVE Typed
  <2>1. UNCHANGED <<pc, reply>> \/ \E e \in Errors : Callback(c, e)
    BY <1>4 DEF Serve, GetRedis, SetRedisExpire, SendMail, Errors
  <2>2. UNCHANGED <<req, uid, requests, faults>>
    BY <1>4 DEF Serve, GetRedis, SetRedisExpire, SendMail
  <2> QED
    BY <1>0, <2>1, <2>2 DEF Callback, Reply, PCs
<1>5. ASSUME VerifyServerDies PROVE Typed
  BY <1>0, <1>5, BoundAssumption DEF VerifyServerDies, Fault, PCs, Errors
<1>6. ASSUME Tick \/ UNCHANGED vars PROVE Typed
  BY <1>0, <1>6 DEF Tick, vars
<1> QED
  BY <1>1, <1>2, <1>3, <1>4, <1>5, <1>6 DEF Next, Handle

(* Rows stay; a new one is of the request that Insert handles.                        *)
LEMMA TableStep ==
  ASSUME TypeOK, RequestsFit, [Next]_vars
  PROVE  /\ users' \subseteq Rows /\ next_uid' \in Nat \ {0} /\ next_uid <= next_uid'
         /\ users \subseteq users'
         /\ users' = users \/ \E g \in Gates : /\ pc[g] = "insert" /\ req[g] \in RegisterRequests
                                                /\ ~Duplicate(req[g]) /\ AddUser(g)
<1>0. users \subseteq Rows /\ next_uid \in Nat \ {0}
  BY DEF TypeOK
<1>1. CASE UNCHANGED table
  BY <1>0, <1>1 DEF table
<1>2. ASSUME NEW g \in Gates, Insert(g)
      PROVE  \/ users' = users /\ next_uid' \in {next_uid, next_uid + 1}
             \/ /\ pc[g] = "insert" /\ req[g] \in RegisterRequests
                /\ ~Duplicate(req[g]) /\ AddUser(g) /\ Row(next_uid, req[g]) \in Rows
  <2>1. pc[g] = "insert" /\ req[g] \in RegisterRequests
    BY <1>2 DEF Insert, RequestsFit, Registering
  <2>2. Row(next_uid, req[g]) \in Rows
    BY <1>0, <2>1 DEF Row, Rows, RegisterRequests
  <2> QED
    BY <1>2, <2>1, <2>2 DEF Insert, table
<1> QED
  BY <1>0, <1>1, <1>2, Frame DEF AddUser

LEMMA TypeStep ==
  ASSUME TypeOK, RequestsFit, CallersWait, UidIsRight, RegisteredIsStored, [Next]_vars
  PROVE  TypeOK'
<1>1. registered' \subseteq Rows /\ logins' \subseteq Idents \X Nat
  <2>0. registered \subseteq Rows /\ logins \subseteq Idents \X Nat /\ users \subseteq Rows
        /\ uid \in [Gates -> Nat] /\ req \in [Gates -> Requests \cup {NoReq}]
    BY DEF TypeOK
  <2>1. CASE UNCHANGED told
    BY <2>0, <2>1 DEF told
  <2>2. ASSUME NEW g \in Gates, Answer(g) PROVE registered' \subseteq Rows /\ logins' \subseteq Idents \X Nat
    <3>1. req[g] \in Requests
      BY <2>2 DEF Answer, RequestsFit
    <3>2. reply[g] = "Success" /\ req[g].kind = "register" => Row(uid[g], req[g]) \in Rows
      BY <2>0, <3>1, Kinds DEF Row, Rows, RegisterRequests
    <3>3. reply[g] = "Success" /\ req[g].kind = "login" => <<req[g].ident, uid[g]>> \in Idents \X Nat
      BY <2>0, <3>1, Kinds DEF LoginRequests
    <3> QED
      BY <2>0, <2>2, <3>2, <3>3 DEF Answer
  <2> QED
    BY <2>1, <2>2, Frame
<1> QED
  BY <1>1, RedisTypes, CallTypes, GateTypes, TableStep DEF TypeOK

--------------------------------------------------------------------------------
(* What a step does at one GateServer: nothing; it takes a request; it is idle again; *)
(* its handler goes on; or its call is answered.                                     *)
Same(g) == pc'[g] = pc[g] /\ req'[g] = req[g] /\ uid'[g] = uid[g] /\ reply'[g] = reply[g]
Taken(g) == \/ pc'[g] = "wait" /\ req'[g] \in CodeRequests
            \/ pc'[g] = "verify" /\ req'[g] \in RegisterRequests
            \/ pc'[g] = "check_pwd" /\ req'[g] \in LoginRequests
Answered(g) == /\ pc[g] = "wait" /\ pc'[g] = "answer" /\ req'[g] = req[g]
               /\ reply'[g] \notin {"EmailExist", "UserExist"}
Goes(g) == CheckCode(g) \/ RegUser(g) \/ CheckPwd(g) \/ GetChatServer(g)

LEMMA GateStep ==
  ASSUME TypeOK, CallersWait, [Next]_vars, NEW g \in Gates
  PROVE  Same(g) \/ Taken(g) \/ pc'[g] = "idle" \/ Goes(g) \/ Answered(g)
<1>0. /\ pc \in [Gates -> PCs] /\ req \in [Gates -> Requests \cup {NoReq}]
      /\ uid \in [Gates -> Nat] /\ reply \in [Gates -> Errors]
  BY DEF TypeOK
<1>1. ASSUME NEW h \in Gates, GetVerifyCode(h) \/ HandleUserRegister(h) \/ HandleUserLogin(h)
      PROVE  Same(g) \/ Taken(g)
  BY <1>0, <1>1 DEF GetVerifyCode, HandleUserRegister, HandleUserLogin, Take, Same, Taken
<1>2. ASSUME NEW h \in Gates, Goes(h) PROVE Same(g) \/ Goes(g)
  <2>1. CASE h = g
    BY <1>2, <2>1
  <2>2. ASSUME h # g PROVE Same(g)
    <3>1. \E x \in PCs : pc' = [pc EXCEPT ![h] = x]
      BY <1>2 DEF Goes, CheckCode, RegUser, CheckEmail, CheckName, Insert, LastInsertId, CheckPwd, LoginFails,
                  GetChatServer, Reply, Goto, PCs
    <3>2. \E x \in Errors : reply' = reply \/ reply' = [reply EXCEPT ![h] = x]
      BY <1>2 DEF Goes, CheckCode, RegUser, CheckEmail, CheckName, Insert, LastInsertId, CheckPwd, LoginFails,
                  GetChatServer, Reply, Goto, Errors
    <3>3. \E n : uid' = uid \/ uid' = [uid EXCEPT ![h] = n]
      BY <1>2 DEF Goes, CheckCode, RegUser, CheckEmail, CheckName, Insert, LastInsertId, CheckPwd, LoginFails,
                  GetChatServer
    <3>4. req' = req
      BY <1>2 DEF Goes, CheckCode, RegUser, CheckEmail, CheckName, Insert, LastInsertId, CheckPwd, LoginFails,
                  GetChatServer
    <3> QED
      BY <1>0, <2>2, <3>1, <3>2, <3>3, <3>4 DEF Same
  <2> QED
    BY <2>1, <2>2
<1>3. ASSUME NEW h \in Gates, Answer(h) \/ Restart(h) PROVE Same(g) \/ pc'[g] = "idle"
  BY <1>0, <1>3 DEF Answer, Restart, Same
<1>4. ASSUME NEW h \in Gates, RpcFails(h) PROVE Same(g) \/ Answered(g)
  BY <1>0, <1>4 DEF RpcFails, Reply, Same, Answered
<1>5. ASSUME NEW c \in Calls, Serve(c) PROVE Same(g) \/ Answered(g)
  <2>1. UNCHANGED <<pc, reply>> \/ \E e \in {"Success", "RedisErr", "SendMailErr"} : Callback(c, e)
    BY <1>5 DEF Serve, GetRedis, SetRedisExpire, SendMail
  <2>2. UNCHANGED <<req, uid>>
    BY <1>5 DEF Serve, GetRedis, SetRedisExpire, SendMail
  <2>3. call[c].gate = NoGate \/ (call[c].gate \in Gates /\ pc[call[c].gate] = "wait")
    BY DEF TypeOK, CallersWait, Running, Idle
  <2> QED
    BY <1>0, <2>1, <2>2, <2>3 DEF Callback, Reply, Same, Answered
<1>6. ASSUME VerifyServerDies PROVE Same(g) \/ Answered(g)
  BY <1>0, <1>6 DEF VerifyServerDies, Same, Answered
<1>7. ASSUME Tick \/ UNCHANGED vars PROVE Same(g)
  BY <1>7 DEF Tick, vars, Same
<1> QED
  BY <1>1, <1>2, <1>3, <1>4, <1>5, <1>6, <1>7 DEF Next, Handle, Goes

LEMMA RequestsStep ==
  ASSUME TypeOK, CallersWait, RequestsFit, [Next]_vars
  PROVE  RequestsFit'
<1> SUFFICES ASSUME NEW g \in Gates
             PROVE  /\ pc'[g] = "wait" => req'[g] \in CodeRequests
                    /\ pc'[g] \in Registering => req'[g] \in RegisterRequests
                    /\ pc'[g] \in {"check_pwd", "get_server"} => req'[g] \in LoginRequests
                    /\ pc'[g] = "answer" => req'[g] \in Requests
  BY DEF RequestsFit
<1>1. CASE Same(g)
  BY <1>1 DEF Same, RequestsFit
<1>2. CASE Taken(g) \/ pc'[g] = "idle"
  BY <1>2 DEF Taken, Registering
<1>3. CASE Answered(g)
  BY <1>3, Kinds DEF Answered, RequestsFit, Registering
<1>4. CASE Goes(g)
  <2>1. req'[g] = req[g] /\ pc \in [Gates -> PCs]
    BY <1>4 DEF Goes, CheckCode, RegUser, CheckEmail, CheckName, Insert, LastInsertId, CheckPwd, LoginFails,
                GetChatServer, TypeOK
  <2>2. CASE CheckCode(g) \/ RegUser(g)
    <3>1. pc[g] \in Registering
      BY <2>2 DEF CheckCode, RegUser, CheckEmail, CheckName, Insert, LastInsertId, Registering
    <3>2. pc'[g] \in Registering \cup {"answer"}
      BY <2>1, <2>2 DEF CheckCode, RegUser, CheckEmail, CheckName, Insert, LastInsertId, Registering,
                        Reply, Goto
    <3> QED
      BY <2>1, <3>1, <3>2, Kinds DEF RequestsFit, Registering
  <2>3. CASE CheckPwd(g) \/ GetChatServer(g)
    <3>1. pc[g] \in {"check_pwd", "get_server"} /\ pc'[g] \in {"get_server", "answer"}
      BY <2>1, <2>3 DEF CheckPwd, LoginFails, GetChatServer, Reply, Goto
    <3> QED
      BY <2>1, <3>1, Kinds DEF RequestsFit, Registering
  <2> QED
    BY <1>4, <2>2, <2>3 DEF Goes
<1> QED
  BY <1>1, <1>2, <1>3, <1>4, GateStep

--------------------------------------------------------------------------------
(* The table.                                                                        *)

LEMMA UniqueStep ==
  ASSUME TypeOK, RequestsFit, Unique, [Next]_vars
  PROVE  Unique'
<1>0. users \subseteq Rows /\ next_uid \in Nat /\ next_uid' \in Nat /\ next_uid <= next_uid'
  BY TableStep DEF TypeOK
<1>1. CASE users' = users
  BY <1>0, <1>1 DEF Unique, Rows
<1>2. ASSUME NEW g \in Gates, req[g] \in RegisterRequests, ~Duplicate(req[g]), AddUser(g)
      PROVE  Unique'
  <2> DEFINE new == Row(next_uid, req[g])
  <2>1. users' = users \cup {new} /\ next_uid' = next_uid + 1
    BY <1>2 DEF AddUser
  <2>2. new.uid = next_uid /\ new.name = req[g].name /\ new.email = req[g].email
    BY DEF Row
  <2>3. \A u \in users : u.email # new.email /\ u.name # new.name /\ u.uid # new.uid
    BY <1>0, <1>2, <2>2 DEF Duplicate, Unique, Rows
  <2>4. \A u \in users : u.uid \in Nat /\ u.uid < next_uid
    BY <1>0 DEF Unique, Rows
  <2> HIDE DEF new
  <2>5. \A u, v \in users' : u.email = v.email \/ u.name = v.name \/ u.uid = v.uid => u = v
    BY <2>1, <2>3 DEF Unique
  <2>6. \A u \in users' : u.uid < next_uid'
    BY <1>0, <2>1, <2>2, <2>4
  <2> QED
    BY <2>5, <2>6 DEF Unique
<1> QED
  BY <1>1, <1>2, TableStep

(* What a handler has found in the table stays there.                                *)
LEMMA HoldsStays ==
  ASSUME NEW g \in Gates, users \subseteq users', req'[g] = req[g], uid'[g] = uid[g], HoldsAccount(g)
  PROVE  HoldsAccount(g)'
  BY DEF HoldsAccount, Owns, Row

LEMMA UidStep ==
  ASSUME TypeOK, CallersWait, RequestsFit, UidIsRight, [Next]_vars
  PROVE  UidIsRight'
<1> SUFFICES ASSUME NEW g \in Gates,
                    pc'[g] \in {"last_id", "get_server"} \/ (pc'[g] = "answer" /\ reply'[g] = "Success")
             PROVE  HoldsAccount(g)'
  BY DEF UidIsRight
<1>0. /\ users \subseteq users' /\ pc \in [Gates -> PCs] /\ uid \in [Gates -> Nat]
      /\ reply \in [Gates -> Errors]
  BY TableStep DEF TypeOK
<1>1. CASE Same(g)
  BY <1>0, <1>1, HoldsStays DEF Same, UidIsRight
<1>2. CASE Taken(g) \/ pc'[g] = "idle"
  BY <1>2 DEF Taken
<1>3. CASE Answered(g)
  BY <1>3, Kinds DEF Answered, RequestsFit, HoldsAccount
<1>4. CASE CheckCode(g) \/ CheckEmail(g) \/ CheckName(g)
  <2>1. pc'[g] \notin {"last_id", "get_server"} /\ (pc'[g] = "answer" => reply'[g] # "Success")
    BY <1>0, <1>4 DEF CheckCode, CheckEmail, CheckName, Reply, Goto
  <2> QED
    BY <2>1
<1>5. CASE Insert(g)
  <2>1. req[g] \in RegisterRequests /\ req'[g] = req[g]
    BY <1>5 DEF Insert, RequestsFit, Registering
  <2>2. AddUser(g) /\ uid' = [uid EXCEPT ![g] = next_uid]
    BY <1>0, <1>5 DEF Insert, Reply, Goto
  <2>3. Row(uid'[g], req'[g]) \in users'
    BY <1>0, <2>1, <2>2 DEF AddUser
  <2> QED
    BY <2>1, <2>3, Kinds DEF HoldsAccount, Row
<1>6. CASE LastInsertId(g) \/ GetChatServer(g)
  <2>1. pc[g] \in {"last_id", "get_server"} /\ req'[g] = req[g] /\ uid'[g] = uid[g]
    BY <1>6 DEF LastInsertId, GetChatServer
  <2> QED
    BY <1>0, <2>1, HoldsStays DEF UidIsRight
<1>7. CASE CheckPwd(g)
  <2>1. req[g] \in LoginRequests /\ req'[g] = req[g]
    BY <1>7 DEF CheckPwd, LoginFails, RequestsFit
  <2>2. PICK u \in users : Matches(u, req[g].ident) /\ uid' = [uid EXCEPT ![g] = u.uid]
    BY <1>0, <1>7 DEF CheckPwd, LoginFails, Reply, Goto
  <2>3. u \in users' /\ u.uid = uid'[g] /\ Owns(u, req'[g].ident)
    BY <1>0, <2>1, <2>2, MatchesOwns
  <2> QED
    BY <2>1, <2>3, Kinds DEF HoldsAccount, Owns
<1> QED
  BY <1>1, <1>2, <1>3, <1>4, <1>5, <1>6, <1>7, GateStep DEF Goes, RegUser

LEMMA ToldStep ==
  ASSUME TypeOK, RequestsFit, UidIsRight, LoginsAreOwners, RegisteredIsStored, [Next]_vars
  PROVE  LoginsAreOwners' /\ RegisteredIsStored'
<1>0. users \subseteq users'
  BY TableStep
<1>1. CASE UNCHANGED told
  BY <1>0, <1>1 DEF told, LoginsAreOwners, RegisteredIsStored, Owns
<1>2. ASSUME NEW g \in Gates, Answer(g) PROVE LoginsAreOwners' /\ RegisteredIsStored'
  <2>1. req[g] \in Requests /\ (reply[g] = "Success" => HoldsAccount(g))
    BY <1>2 DEF Answer, RequestsFit, UidIsRight
  <2>2. \A u \in registered' : u \in registered \/
          (u = Row(uid[g], req[g]) /\ reply[g] = "Success" /\ req[g] \in RegisterRequests)
    BY <1>2, <2>1, Kinds DEF Answer
  <2>3. \A l \in logins' : l \in logins \/
          (l = <<req[g].ident, uid[g]>> /\ reply[g] = "Success" /\ req[g] \in LoginRequests)
    BY <1>2, <2>1, Kinds DEF Answer
  <2>4. RegisteredIsStored'
    BY <1>0, <2>1, <2>2 DEF RegisteredIsStored, HoldsAccount
  <2>5. ASSUME NEW l \in logins' PROVE \E u \in users' : u.uid = l[2] /\ Owns(u, l[1])
    <3>1. CASE l \in logins
      BY <1>0, <3>1 DEF LoginsAreOwners
    <3>2. CASE l = <<req[g].ident, uid[g]>> /\ reply[g] = "Success" /\ req[g] \in LoginRequests
      BY <1>0, <2>1, <3>2 DEF HoldsAccount
    <3> QED
      BY <2>3, <3>1, <3>2
  <2> QED
    BY <2>4, <2>5 DEF LoginsAreOwners, Owns
<1> QED
  BY <1>1, <1>2, Frame

LEMMA RefusalStep ==
  ASSUME TypeOK, CallersWait, RequestsFit, RefusalIsTrue, [Next]_vars
  PROVE  RefusalIsTrue'
<1> SUFFICES ASSUME NEW g \in Gates, pc'[g] = "answer"
             PROVE  /\ reply'[g] = "EmailExist" => \E u \in users' : u.email = req'[g].email
                    /\ reply'[g] = "UserExist" =>
                         \E u \in users' : u.email = req'[g].email \/ u.name = req'[g].name
  BY DEF RefusalIsTrue, Duplicate
<1>0. users \subseteq users' /\ pc \in [Gates -> PCs] /\ reply \in [Gates -> Errors]
  BY TableStep DEF TypeOK
<1>1. CASE Same(g)
  BY <1>0, <1>1 DEF Same, RefusalIsTrue, Duplicate
<1>2. CASE Taken(g) \/ pc'[g] = "idle" \/ Answered(g)
  BY <1>2 DEF Taken, Answered
<1>3. CASE Goes(g)
  <2>1. CASE CheckCode(g) \/ CheckPwd(g) \/ LastInsertId(g) \/ GetChatServer(g)
    <3>1. reply'[g] \notin {"EmailExist", "UserExist"}
      BY <1>0, <2>1 DEF CheckCode, CheckPwd, LoginFails, LastInsertId, GetChatServer, Reply, Goto
    <3> QED
      BY <3>1
  <2>2. CASE CheckEmail(g) \/ CheckName(g)
    BY <1>0, <2>2 DEF CheckEmail, CheckName, Reply, Goto
  <2>3. CASE Insert(g)
    BY <1>0, <2>3 DEF Insert, Reply, Goto, Duplicate
  <2> QED
    BY <1>3, <2>1, <2>2, <2>3 DEF Goes, RegUser
<1> QED
  BY <1>1, <1>2, <1>3, GateStep

--------------------------------------------------------------------------------
(* The calls.                                                                        *)

(* What a step does to one call: it ends; it keeps who it is and what it mails, if     *)
(* perhaps not whom it answers; it starts for a GateServer that was idle; or it goes   *)
(* on.                                                                               *)
Kept(c) == /\ call'[c].pc = call[c].pc /\ call'[c].email = call[c].email
           /\ call'[c].code = call[c].code
           /\ call'[c].gate \in {call[c].gate, NoGate}
           /\ call'[c].alone => call[c].alone
Starts(c, g) == /\ call[c].pc = "free" /\ pc[g] = "idle" /\ pc'[g] = "wait"
                /\ call'[c].pc = "get" /\ call'[c].gate = g /\ req'[g].email = call'[c].email
                /\ \A d \in Calls \ {c} :
                     /\ Kept(d)
                     /\ call[d].pc # "free" /\ call[d].email = call'[c].email =>
                          ~call'[d].alone /\ ~call'[c].alone
GoesOn(c) == /\ call[c].pc \in {"get", "set"} /\ call'[c].pc \in {"set", "mail"}
             /\ call'[c].email = call[c].email /\ call'[c].gate = call[c].gate
             /\ call'[c].alone = call[c].alone
Ends(c) == call'[c] = Idle

LEMMA CallStep ==
  ASSUME TypeOK, [Next]_vars
  PROVE  \/ \A c \in Calls : Kept(c) \/ Ends(c)
         \/ \E c \in Calls : Serve(c) /\ GoesOn(c) /\ \A d \in Calls \ {c} : call'[d] = call[d]
         \/ \E c \in Calls, g \in Gates : Starts(c, g)
<1>0. call = [c \in Calls |-> call[c]] /\ \A c \in Calls : call[c] \in Running \cup {Idle}
  BY DEF TypeOK
<1>1. CASE UNCHANGED call
  BY <1>1 DEF Kept
<1>2. CASE Tick
  <2>1. \A c \in Calls : call'[c] = [call[c] EXCEPT !.life = Less(call[c].life)]
    BY <1>2 DEF Tick
  <2>2. ASSUME NEW c \in Calls PROVE Kept(c)
    BY <1>0, <2>1 DEF Kept, Running, Idle
  <2> QED
    BY <2>2
<1>3. CASE VerifyServerDies
  BY <1>3 DEF VerifyServerDies, Ends
<1>4. ASSUME NEW g \in Gates, call' = Orphan(g) PROVE \A c \in Calls : Kept(c)
  <2>1. ASSUME NEW c \in Calls PROVE Kept(c)
    <3>1. CASE call'[c] = call[c]
      BY <3>1 DEF Kept
    <3>2. CASE call'[c] = [call[c] EXCEPT !.gate = NoGate]
      BY <1>0, <3>2 DEF Kept, Running, Idle
    <3> QED
      BY <1>4, <3>1, <3>2 DEF Orphan
  <2> QED
    BY <2>1
<1>5. ASSUME NEW c \in Calls, Serve(c)
      PROVE  /\ GoesOn(c) \/ Ends(c)
             /\ \A d \in Calls \ {c} : call'[d] = call[d]
  <2>1. \A d \in Calls \ {c} : call'[d] = call[d]
    BY <1>0, <1>5 DEF Serve, GetRedis, SetRedisExpire, SendMail, Settle, Callback
  <2>2. call[c] \in Running
    <3>1. call[c].pc # "free"
      BY <1>5 DEF Serve, GetRedis, SetRedisExpire, SendMail
    <3> QED
      BY <1>0, <3>1 DEF Idle
  <2>3. CASE call[c].pc \in {"get", "set"} /\ \E k : Settle(c, k)
    BY <1>0, <2>2, <2>3 DEF Settle, GoesOn, Running
  <2>4. CASE call[c].pc = "get" /\ \E k : call' = [call EXCEPT ![c].pc = "set", ![c].code = k]
    BY <1>0, <2>2, <2>4 DEF GoesOn, Running
  <2>5. CASE \E e : Callback(c, e)
    BY <1>0, <2>5 DEF Callback, Ends
  <2> QED
    BY <1>5, <2>1, <2>3, <2>4, <2>5 DEF Serve, GetRedis, SetRedisExpire, SendMail
<1>6. ASSUME NEW g \in Gates, GetVerifyCode(g) PROVE \E c \in Calls : Starts(c, g)
  <2>1. PICK r \in CodeRequests, c \in Calls :
          /\ call[c].pc = "free" /\ Take(g, r)
          /\ call' = [d \in Calls |->
               IF d = c THEN [Idle EXCEPT !.pc = "get", !.email = r.email, !.gate = g,
                                !.alone = ({e \in Calls : call[e].pc # "free" /\ call[e].email = r.email} = {})]
               ELSE IF d \in {e \in Calls : call[e].pc # "free" /\ call[e].email = r.email}
                    THEN [call[d] EXCEPT !.alone = FALSE] ELSE call[d]]
    BY <1>6 DEF GetVerifyCode
  <2>2. pc[g] = "idle" /\ pc'[g] = "wait" /\ req'[g] = r
    BY <1>6, <2>1 DEF GetVerifyCode, Take, TypeOK
  <2>3. /\ call'[c].pc = "get" /\ call'[c].email = r.email /\ call'[c].gate = g
        /\ call'[c].alone = ({e \in Calls : call[e].pc # "free" /\ call[e].email = r.email} = {})
    BY <2>1 DEF Idle
  <2>4. ASSUME NEW d \in Calls \ {c}
        PROVE  /\ Kept(d)
               /\ call[d].pc # "free" /\ call[d].email = call'[c].email => ~call'[d].alone /\ ~call'[c].alone
    <3>1. CASE call[d].pc # "free" /\ call[d].email = r.email
      <4>1. call'[d] = [call[d] EXCEPT !.alone = FALSE]
        BY <2>1, <3>1
      <4>2. call[d] \in Running
        BY <1>0, <3>1 DEF Idle
      <4>3. Kept(d) /\ ~call'[d].alone
        BY <4>1, <4>2 DEF Kept, Running
      <4> QED
        BY <2>3, <3>1, <4>3
    <3>2. CASE ~(call[d].pc # "free" /\ call[d].email = r.email)
      BY <2>1, <2>3, <3>2 DEF Kept
    <3> QED
      BY <3>1, <3>2
  <2> QED
    BY ZenonT(60), <2>1, <2>2, <2>3, <2>4 DEF Starts
<1>7. ASSUME NEW c \in Calls, Serve(c)
      PROVE  (\A d \in Calls : Kept(d) \/ Ends(d)) \/ (GoesOn(c) /\ \A d \in Calls \ {c} : call'[d] = call[d])
  BY <1>5, <1>7 DEF Kept
<1> QED
  BY <1>1, <1>2, <1>3, <1>4, <1>6, <1>7, Frame DEF RpcFails, Restart

LEMMA AloneStep ==
  ASSUME TypeOK, AloneIsAlone, [Next]_vars
  PROVE  AloneIsAlone'
<1> SUFFICES ASSUME NEW c \in Calls, NEW d \in Calls, c # d,
                    call'[c].pc # "free", call'[d].pc # "free", call'[c].email = call'[d].email
             PROVE  ~call'[c].alone
  BY DEF AloneIsAlone
<1>1. CASE \A b \in Calls : Kept(b) \/ Ends(b)
  BY <1>1 DEF Kept, Ends, Idle, AloneIsAlone
<1>2. ASSUME NEW b \in Calls, GoesOn(b) /\ \A a \in Calls \ {b} : call'[a] = call[a]
      PROVE  ~call'[c].alone
  BY <1>2 DEF GoesOn, AloneIsAlone
<1>3. ASSUME NEW b \in Calls, NEW g \in Gates, Starts(b, g) PROVE ~call'[c].alone
  BY <1>3 DEF Starts, Kept, AloneIsAlone
<1> QED
  BY <1>1, <1>2, <1>3, CallStep

(* A GateServer that stops waiting leaves no call behind that would answer it.       *)
LEMMA WaitersStep ==
  ASSUME TypeOK, CallersWait, [Next]_vars, NEW g \in Gates, pc[g] = "wait"
  PROVE  (pc'[g] = "wait" /\ req'[g] = req[g]) \/ \A d \in Calls : call'[d].gate # g
<1> DEFINE Waits == pc'[g] = "wait" /\ req'[g] = req[g]
<1>0. pc \in [Gates -> PCs] /\ req = [h \in Gates |-> req[h]] /\ call = [c \in Calls |-> call[c]] /\ NoGate # g
  BY NoneAssumption DEF TypeOK
<1>1. ASSUME NEW h \in Gates, GetVerifyCode(h) \/ HandleUserRegister(h) \/ HandleUserLogin(h)
      PROVE  Waits
  BY <1>0, <1>1 DEF GetVerifyCode, HandleUserRegister, HandleUserLogin, Take
<1>2. ASSUME NEW h \in Gates, Handle(h) PROVE Waits
  <2>1. pc[h] # "wait" /\ \E x \in PCs : pc' = [pc EXCEPT ![h] = x]
    BY <1>2 DEF Handle, CheckCode, RegUser, CheckEmail, CheckName, Insert, LastInsertId, CheckPwd, LoginFails,
                GetChatServer, Answer, Reply, Goto, PCs
  <2>2. \E r : req' \in {req, [req EXCEPT ![h] = r]}
    BY <1>2 DEF Handle, CheckCode, RegUser, CheckEmail, CheckName, Insert, LastInsertId, CheckPwd, GetChatServer, Answer
  <2> QED
    BY <1>0, <2>1, <2>2
<1>3. ASSUME NEW h \in Gates, RpcFails(h) \/ Restart(h)
      PROVE  Waits \/ \A d \in Calls : call'[d].gate # g
  <2>1. CASE h # g
    BY <1>0, <1>3, <2>1 DEF RpcFails, Restart, Reply
  <2>2. CASE h = g
    <3>1. call' = Orphan(g)
      BY <1>3, <2>2 DEF RpcFails, Restart
    <3>2. ASSUME NEW d \in Calls PROVE call'[d].gate # g
      <4>1. call[d] \in Running \cup {Idle}
        BY DEF TypeOK
      <4>2. CASE call[d].gate = g
        BY <1>0, <3>1, <4>1, <4>2 DEF Orphan, Running, Idle
      <4>3. CASE call[d].gate # g
        BY <3>1, <4>3 DEF Orphan
      <4> QED
        BY <4>2, <4>3
    <3> QED
      BY <3>2
  <2> QED
    BY <2>1, <2>2
<1>4. ASSUME NEW c \in Calls, Serve(c)
      PROVE  Waits \/ \A d \in Calls : call'[d].gate # g
  <2>0. req' = req
    BY <1>4 DEF Serve, GetRedis, SetRedisExpire, SendMail
  <2>1. CASE pc' = pc
    BY <2>0, <2>1
  <2>2. ASSUME NEW e, Callback(c, e)
        PROVE  Waits \/ \A d \in Calls : call'[d].gate # g
    <3>1. CASE call[c].gate # g
      BY <1>0, <2>0, <2>2, <3>1 DEF Callback, Reply
    <3>2. CASE call[c].gate = g
      <4>1. \A d \in Calls \ {c} : call[d].gate # g /\ call'[d] = call[d]
        BY <1>0, <2>2, <3>2 DEF CallersWait, Callback
      <4>2. call'[c].gate = NoGate
        BY <1>0, <2>2 DEF Callback, Idle
      <4> QED
        BY <1>0, <4>1, <4>2
    <3> QED
      BY <3>1, <3>2
  <2> QED
    BY <1>4, <2>1, <2>2 DEF Serve, GetRedis, SetRedisExpire, SendMail
<1>5. ASSUME VerifyServerDies PROVE \A d \in Calls : call'[d].gate # g
  BY <1>0, <1>5 DEF VerifyServerDies, Idle
<1>6. ASSUME Tick \/ UNCHANGED vars PROVE Waits
  BY <1>6 DEF Tick, vars
<1> QED
  BY <1>1, <1>2, <1>3, <1>4, <1>5, <1>6 DEF Next

LEMMA CallersStep ==
  ASSUME TypeOK, CallersWait, [Next]_vars
  PROVE  CallersWait'
<1>0. /\ \A c \in Calls : call[c].gate \in Gates \cup {NoGate}
      /\ Idle.gate = NoGate /\ NoGate \notin Gates
  BY NoneAssumption DEF TypeOK, Running, Idle
<1>1. CASE \A c \in Calls : call'[c].gate = NoGate \/ (call'[c].gate = call[c].gate /\ call'[c].email = call[c].email)
  BY <1>0, <1>1, WaitersStep DEF CallersWait
<1>2. ASSUME NEW c \in Calls, NEW g \in Gates, Starts(c, g) PROVE CallersWait'
  <2>1. \A d \in Calls \ {c} : call'[d].gate \in {call[d].gate, NoGate} /\ call'[d].gate # g
                                  /\ call'[d].email = call[d].email
    BY <1>0, <1>2 DEF Starts, Kept, CallersWait
  <2>2. call'[c].gate = g /\ pc'[g] = "wait" /\ req'[g].email = call'[c].email
    BY <1>2 DEF Starts
  <2>3. \A d \in Calls : call'[d].gate \in Gates => pc'[call'[d].gate] = "wait" /\ req'[call'[d].gate].email = call'[d].email
    BY <1>0, <2>1, <2>2, WaitersStep DEF CallersWait
  <2>4. \A d, e \in Calls : call'[d].gate = call'[e].gate => d = e \/ call'[d].gate = NoGate
    BY <1>0, <2>1, <2>2 DEF CallersWait
  <2> QED
    BY <2>3, <2>4 DEF CallersWait
<1>3. CASE \A c \in Calls : Kept(c) \/ Ends(c)
  BY <1>0, <1>1, <1>3 DEF Kept, Ends
<1>4. ASSUME NEW c \in Calls, GoesOn(c) /\ \A d \in Calls \ {c} : call'[d] = call[d] PROVE CallersWait'
  BY <1>1, <1>4 DEF GoesOn
<1> QED
  BY <1>2, <1>3, <1>4, CallStep

LEMMA MailedStep ==
  ASSUME TypeOK, AloneIsAlone, MailedIsCurrent, [Next]_vars
  PROVE  MailedIsCurrent'
<1> DEFINE Current(c) == call'[c].pc = "mail" /\ call'[c].alone =>
                           code'[call'[c].email] \in {call'[c].code, NoCode}
<1>0. /\ call = [c \in Calls |-> call[c]] /\ \A c \in Calls : call[c] \in Running \cup {Idle}
      /\ code \in [Emails -> Codes \cup {NoCode}]
  BY DEF TypeOK
<1>1. ASSUME NEW c \in Calls, Kept(c),
             \A e \in Emails : code'[e] \in {code[e], NoCode}
      PROVE  Current(c)
  <2>1. call[c].pc = "mail" => call[c].email \in Emails
    BY <1>0 DEF Running, Idle
  <2> QED
    BY <1>1, <2>1 DEF Kept, MailedIsCurrent
<1>2. ASSUME NEW c \in Calls, Ends(c) PROVE Current(c)
  BY <1>2 DEF Ends, Idle
<1>3. ASSUME NEW b \in Calls, SetRedisExpire(b), NEW c \in Calls PROVE Current(c)
  <2>1. call[b] \in Running /\ call[b].pc = "set"
    <3>1. call[b].pc = "set"
      BY <1>3 DEF SetRedisExpire
    <3> QED
      BY <1>0, <3>1 DEF Idle
  <2>2. CASE c # b
    <3>1. call'[c] = call[c]
      BY <1>0, <1>3, <2>2 DEF SetRedisExpire, Settle, Callback
    <3>2. CASE code' = code
      BY <3>1, <3>2 DEF MailedIsCurrent
    <3>3. CASE SetCode(call[b].email, call[b].code)
      <4>1. call[c].pc = "mail" /\ call[c].alone => call[c].email # call[b].email
        BY <2>1, <2>2 DEF AloneIsAlone
      <4>2. call[c].pc = "mail" /\ call[c].alone => code'[call[c].email] = code[call[c].email]
        BY <1>0, <3>3, <4>1 DEF SetCode
      <4> QED
        BY <3>1, <4>2 DEF MailedIsCurrent
    <3> QED
      BY <1>3, <3>2, <3>3 DEF SetRedisExpire
  <2>3. CASE c = b /\ Settle(b, call[b].code) /\ SetCode(call[b].email, call[b].code)
    <3>1. call'[b].email = call[b].email /\ call'[b].code = call[b].code
      BY <1>0, <2>1, <2>3 DEF Settle, Running
    <3>2. code'[call[b].email] = call[b].code
      BY <1>0, <2>1, <2>3 DEF SetCode, Running
    <3> QED
      BY <2>3, <3>1, <3>2
  <2>4. CASE c = b /\ call' = [call EXCEPT ![b] = Idle]
    BY <1>0, <2>4 DEF Idle
  <2> QED
    BY <1>3, <2>2, <2>3, <2>4 DEF SetRedisExpire, Callback
<1>4. ASSUME NEW b \in Calls, GetRedis(b), NEW c \in Calls PROVE Current(c)
  <2>1. code' = code
    BY <1>4 DEF GetRedis, redis
  <2>2. CASE c # b
    <3>1. call'[c] = call[c]
      BY <1>0, <1>4, <2>2 DEF GetRedis, Settle
    <3> QED
      BY <2>1, <3>1 DEF MailedIsCurrent
  <2>3. CASE c = b
    <3>1. call[b] \in Running
      <4>1. call[b].pc = "get"
        BY <1>4 DEF GetRedis
      <4> QED
        BY <1>0, <4>1 DEF Idle
    <3>2. CASE Settle(b, code[call[b].email])
      BY <1>0, <2>1, <2>3, <3>1, <3>2 DEF Settle, Running
    <3>3. CASE \E k \in Codes : call' = [call EXCEPT ![b].pc = "set", ![b].code = k]
      BY <1>0, <2>3, <3>1, <3>3 DEF Running
    <3> QED
      BY <1>4, <3>2, <3>3 DEF GetRedis
  <2> QED
    BY <2>2, <2>3
<1>5. ASSUME NEW b \in Calls, SendMail(b), NEW c \in Calls PROVE Current(c)
  <2>1. code' = code
    BY <1>5 DEF SendMail
  <2>2. call' = [call EXCEPT ![b] = Idle]
    BY <1>5 DEF SendMail, Callback
  <2> QED
    BY <1>0, <2>1, <2>2 DEF MailedIsCurrent, Idle
<1>6. ASSUME ~ \E b \in Calls : Serve(b), NEW c \in Calls PROVE Current(c)
  <2>1. \A e \in Emails : code'[e] \in {code[e], NoCode}
    <3>1. CASE Tick
      BY <1>0, <3>1 DEF Tick
    <3> QED
      BY <1>6, <3>1, Frame DEF Serve
  <2>2. CASE Kept(c) \/ Ends(c)
    BY <1>1, <1>2, <2>1, <2>2
  <2>3. CASE call'[c].pc # "mail"
    BY <2>3
  <2> QED
    <3>1. CASE \E b \in Calls, g \in Gates : Starts(b, g)
      BY <2>2, <2>3, <3>1 DEF Starts
    <3> QED
      BY <1>6, <2>2, <2>3, <3>1, CallStep
<1> QED
  BY <1>3, <1>4, <1>5, <1>6 DEF MailedIsCurrent, Serve

--------------------------------------------------------------------------------
(* The invariant and what follows from it.                                           *)

LEMMA NextIInv == IInv /\ [Next]_vars => IInv'
<1> SUFFICES ASSUME IInv, [Next]_vars PROVE IInv'
  OBVIOUS
<1> USE DEF IInv
<1>1. TypeOK' /\ RequestsFit' /\ CallersWait' /\ AloneIsAlone'
  BY TypeStep, RequestsStep, CallersStep, AloneStep
<1>2. Unique' /\ UidIsRight' /\ LoginsAreOwners' /\ RegisteredIsStored' /\ RefusalIsTrue' /\ MailedIsCurrent'
  BY UniqueStep, UidStep, ToldStep, RefusalStep, MailedStep
<1> QED
  BY <1>1, <1>2

(* The inductive invariant of registration, login and verification codes.            *)
THEOREM Invariant == Spec => []IInv
<1>1. Init => IInv
  BY InitIInv
<1>2. IInv /\ [Next]_vars => IInv'
  BY NextIInv
<1> QED
  BY <1>1, <1>2, PTL DEF Spec

(* Whoever was told that an account was registered has it.                           *)
THEOREM RegistrationCorrect == Spec => []RegisteredIsStored
<1>1. IInv => RegisteredIsStored
  BY DEF IInv
<1> QED
  BY <1>1, Invariant, PTL

(* EmailExist and UserExist are answered only for an account that exists.            *)
THEOREM RefusalCorrect == Spec => []RefusalIsTrue
<1>1. IInv => RefusalIsTrue
  BY DEF IInv
<1> QED
  BY <1>1, Invariant, PTL

(* One identifier, one account: the unique keys and the column that the '@' selects.  *)
THEOREM IdentityCorrect == Spec => []IdentityIsStable
<1>1. IInv => IdentityIsStable
  <2> SUFFICES ASSUME IInv, NEW l \in logins
               PROVE  /\ \A m \in logins : l[1] = m[1] => l[2] = m[2]
                      /\ \A u \in registered : Owns(u, l[1]) => l[2] = u.uid
    BY DEF IdentityIsStable
  <2>1. \A u, v \in users : \A i : Owns(u, i) /\ Owns(v, i) => u = v
    BY DEF IInv, Unique, Owns
  <2>2. \A m \in logins : \E u \in users : u.uid = m[2] /\ Owns(u, m[1])
    BY DEF IInv, LoginsAreOwners
  <2>3. registered \subseteq users
    BY DEF IInv, RegisteredIsStored
  <2> QED
    BY <2>1, <2>2, <2>3
<1> QED
  BY <1>1, Invariant, PTL

(* A mailed code that no concurrent call has replaced is the one in Redis.           *)
THEOREM MailedCorrect == Spec => []MailedIsCurrent
<1>1. IInv => MailedIsCurrent
  BY DEF IInv
<1> QED
  BY <1>1, Invariant, PTL

(* A call of the VerifyServer answers the request it was made for, or nobody.        *)
THEOREM CallersCorrect == Spec => []CallersWait
<1>1. IInv => CallersWait
  BY DEF IInv
<1> QED
  BY <1>1, Invariant, PTL

(* The password of a registered account is called wrong only to one who gives, for    *)
(* its name or address, what is looked up in the other column.                       *)
THEOREM NeverForgottenCorrect == Spec => NeverForgotten
<1> DEFINE Truthful(g) == \A u \in registered : CalledWrong(g, u) => Mistaken(u, req[g].ident)
<1>1. IInv /\ [Next]_vars => [\A g \in Gates : Truthful(g)]_vars
  <2> SUFFICES ASSUME IInv, [Next]_vars, NEW g \in Gates, NEW u \in registered,
                      CalledWrong(g, u), ~Mistaken(u, req[g].ident)
               PROVE  FALSE
    OBVIOUS
  <2>0. pc[g] = "check_pwd" /\ pc'[g] = "answer" /\ reply'[g] = "PasswdInvalid" /\ req[g].pwd = u.pwd
    BY DEF CalledWrong
  <2>1. CheckPwd(g)
    <3>1. Goes(g)
      BY <2>0, GateStep DEF IInv, Same, Taken, Answered
    <3> QED
      BY <2>0, <3>1 DEF Goes, CheckCode, RegUser, CheckEmail, CheckName, Insert, LastInsertId, GetChatServer
  <2>2. u \in users /\ Matches(u, req[g].ident)
    BY DEF IInv, RegisteredIsStored, Mistaken, Matches
  <2>3. \A v \in users : Matches(v, req[g].ident) => v = u
    BY <2>2 DEF IInv, Unique, Matches
  <2>4. pc \in [Gates -> PCs] /\ reply \in [Gates -> Errors]
    BY DEF IInv, TypeOK
  <2> QED
    BY <2>0, <2>1, <2>2, <2>3, <2>4 DEF CheckPwd, LoginFails, Reply, Goto
<1> QED
  BY <1>1, Invariant, PTL DEF Spec, NeverForgotten

--------------------------------------------------------------------------------
(* Http.                                                                             *)

(* What the constants are.                                                             *)
LEMMA Numbers == Parts \in Nat /\ Parts > 0 /\ Deadline \in Nat /\ Deadline > 0
                 /\ MaxConns \in Nat /\ MaxConns > 0
  BY PartsAssumption, DeadlineAssumption, ConnsAssumption

(* What is known of one connection.                                                  *)
LEMMA OfConnection ==
  ASSUME HIInv, NEW c \in Conns
  PROVE  /\ conn[c] \in Connection /\ ConnOK(conn[c])
         /\ Conns = 1..Len(conn) /\ Len(conn) \in Nat /\ Len(conn) <= MaxConns /\ c \in 0..MaxConns
         /\ thread \in 0..MaxConns /\ up \in BOOLEAN
<1>1. conn \in Seq(Connection) /\ Len(conn) \in 1..MaxConns /\ ConnOK(conn[c])
      /\ thread \in 0..MaxConns /\ up \in BOOLEAN
  BY DEF HIInv, HTypeOK
<1>2. conn[c] \in Connection /\ Conns = 1..Len(conn) /\ Len(conn) \in Nat
  BY <1>1, ElementOfSeq, LenProperties DEF Conns
<1> QED
  BY <1>1, <1>2, Numbers

(* Changing one connection, the others standing still.                               *)
LEMMA OneConnection ==
  ASSUME HIInv, NEW c \in Conns, NEW k, conn' = [conn EXCEPT ![c] = k],
         k \in Connection, ConnOK(k), conn[c].st # "accepting",
         thread' \in 0..MaxConns, up' \in BOOLEAN
  PROVE  HIInv'
<1>1. /\ conn \in Seq(Connection) /\ c \in 1..Len(conn) /\ Len(conn) \in 1..MaxConns
      /\ conn[Len(conn)].st = "accepting" /\ Conns = 1..Len(conn)
  BY OfConnection DEF HIInv, HTypeOK
<1>2. /\ conn' \in Seq(Connection) /\ Len(conn') = Len(conn) /\ Conns' = Conns
      /\ \A j \in 1..Len(conn) : conn'[j] = IF j = c THEN k ELSE conn[j]
  BY <1>1, ExceptSeq DEF Conns
<1>3. HTypeOK'
  BY <1>2 DEF HTypeOK
<1>4. conn'[Len(conn')].st = "accepting"
  <2>1. Len(conn) # c /\ Len(conn) \in 1..Len(conn)
    BY <1>1, OfConnection
  <2> QED BY <1>1, <1>2, <2>1
<1>5. \A j \in Conns' : ConnOK(conn'[j])
  BY <1>1, <1>2 DEF HIInv
<1> QED
  BY <1>1, <1>2, <1>3, <1>4, <1>5 DEF HIInv

(* The first object waits.                                                             *)
LEMMA InitHIInv == HInit => HIInv
<1> SUFFICES ASSUME HInit PROVE HIInv
  OBVIOUS
<1>1. /\ NewConnection \in Connection /\ ConnOK(NewConnection)
      /\ NewConnection.st = "accepting"
  BY Numbers DEF NewConnection, Connection, ConnOK
<1>2. conn = <<NewConnection>> /\ thread = 0 /\ up = TRUE
  BY DEF HInit
<1> HIDE DEF NewConnection
<1>3. conn \in Seq(Connection) /\ Len(conn) = 1 /\ conn[1] = NewConnection /\ Conns = {1}
  BY <1>1, <1>2 DEF Conns
<1> QED
  BY <1>1, <1>2, <1>3, Numbers DEF HIInv, HTypeOK

(* The object that waited is accepted or dropped, and another one waits.                *)
LEMMA AcceptStep == ASSUME HIInv, NEW error \in BOOLEAN, Accept(error) PROVE HIInv'
<1> DEFINE N == Len(conn)
           k == [conn[N] EXCEPT !.st = IF error THEN "dead" ELSE "reading"]
           mid == [conn EXCEPT ![N] = k]
<1>1. /\ conn \in Seq(Connection) /\ N \in 1..MaxConns /\ N \in Conns /\ N \in Nat
      /\ conn[N].st = "accepting" /\ conn[N] \in Connection /\ ConnOK(conn[N])
      /\ thread \in 0..MaxConns /\ up \in BOOLEAN
  <2>1. N \in 1..MaxConns /\ conn \in Seq(Connection) /\ conn[N].st = "accepting"
    BY DEF HIInv, HTypeOK
  <2>2. N \in Conns
    BY <2>1, LenProperties DEF Conns
  <2> QED BY <2>1, <2>2, OfConnection
<1>2. k \in Connection /\ ConnOK(k)
  BY <1>1 DEF Connection, ConnOK
<1>3. /\ NewConnection \in Connection /\ ConnOK(NewConnection)
      /\ NewConnection.st = "accepting"
  BY Numbers DEF NewConnection, Connection, ConnOK
<1>4. N < MaxConns /\ conn' = Append(mid, NewConnection) /\ thread' = thread /\ up' = up
  BY DEF Accept
<1> HIDE DEF k, NewConnection
<1>5. /\ mid \in Seq(Connection) /\ Len(mid) = N
      /\ \A j \in 1..N : mid[j] = IF j = N THEN k ELSE conn[j]
  BY <1>1, <1>2, ExceptSeq
<1> HIDE DEF mid
<1>6. /\ conn' \in Seq(Connection) /\ Len(conn') = N + 1 /\ Conns' = 1..(N + 1)
      /\ conn'[N + 1] = NewConnection /\ \A j \in 1..N : conn'[j] = mid[j]
  BY <1>3, <1>4, <1>5, AppendProperties, LenProperties DEF Conns
<1>7. \A j \in 1..N : ConnOK(conn[j])
  BY <1>1, LenProperties DEF HIInv, Conns
<1>8. ASSUME NEW j \in 1..(N + 1) PROVE ConnOK(conn'[j])
  <2>1. CASE j = N + 1
    BY <1>3, <1>6, <2>1
  <2>2. CASE j # N + 1
    <3>1. j \in 1..N
      BY <1>1, <2>2
    <3> QED BY <1>2, <1>5, <1>6, <1>7, <3>1
  <2> QED BY <2>1, <2>2
<1>9. HTypeOK'
  BY <1>1, <1>4, <1>6 DEF HTypeOK
<1>10. Len(conn') \in 1..MaxConns /\ conn'[Len(conn')].st = "accepting"
  BY <1>1, <1>3, <1>4, <1>6, Numbers
<1> QED
  BY <1>6, <1>8, <1>9, <1>10 DEF HIInv

(* Each other step changes one connection.                                              *)
LEMMA ConnectionStep ==
  ASSUME HIInv, NEW c \in Conns,
         \/ ReadFails(c) \/ ReadRequest(c) \/ Handler(c) \/ Socket(c) \/ Event(c)
         \/ \E how \in {"stalls", "left"} : ClientStops(c, how)
  PROVE  HIInv'
<1> DEFINE r == conn[c]
<1>1. /\ r \in Connection /\ ConnOK(r) /\ c \in 0..MaxConns /\ 0 \in 0..MaxConns
      /\ thread \in 0..MaxConns /\ up \in BOOLEAN
  BY OfConnection, Numbers
<1>2. ASSUME NEW k, conn' = [conn EXCEPT ![c] = k], k \in Connection, ConnOK(k), r.st # "accepting",
             thread' \in {0, c, thread}, up' = up
      PROVE  HIInv'
  BY <1>1, <1>2, OneConnection
<1> USE Numbers
<1>3. ASSUME ReadFails(c) PROVE HIInv'
  BY <1>1, <1>2, <1>3 DEF ReadFails, Connection, ConnOK
<1>4. ASSUME ReadRequest(c) PROVE HIInv'
  BY <1>1, <1>2, <1>4 DEF ReadRequest, Connection, ConnOK
<1>5. ASSUME HandlePost(c) \/ RpcReturns(c) PROVE HIInv'
  BY <1>1, <1>2, <1>5 DEF HandlePost, RpcReturns, Connection, ConnOK
<1>6. ASSUME Respond(c) PROVE HIInv'
  <2>1. PICK k \in 0..Parts : WriteResponse(c, k)
    BY <1>6 DEF Respond
  <2> DEFINE n == [r EXCEPT !.st = "handled", !.timer = "waiting", !.sent = k,
                            !.write = IF k = Parts THEN "ok" ELSE "going"]
  <2>2. conn' = [conn EXCEPT ![c] = n]
    BY <2>1 DEF WriteResponse
  <2>3. r.st # "accepting" /\ thread' = 0 /\ up' = up
    BY <1>6 DEF Respond, In
  <2>4. /\ n \in Connection /\ n.st = "handled" /\ n.timer = "waiting" /\ n.sent = k
        /\ n.write = IF k = Parts THEN "ok" ELSE "going"
    BY <1>1, <2>1 DEF Connection
  <2> HIDE DEF n
  <2>5. ConnOK(n)
    BY <2>4 DEF ConnOK
  <2> QED BY <1>2, <2>2, <2>3, <2>4, <2>5
<1>7. ASSUME IgnoreMethod(c) \/ HandlerThrows(c) PROVE HIInv'
  BY <1>1, <1>2, <1>7 DEF IgnoreMethod, HandlerThrows, In, Connection, ConnOK
<1>8. ASSUME Socket(c) PROVE HIInv'
  <2>1. CASE SendPiece(c)
    <3> DEFINE n == [r EXCEPT !.sent = r.sent + 1, !.write = IF r.sent + 1 = Parts THEN "ok" ELSE "going"]
    <3>1. conn' = [conn EXCEPT ![c] = n] /\ r.write = "going" /\ thread' = thread /\ up' = up
      BY <2>1 DEF SendPiece
    <3>2. r.st = "handled" /\ r.sent \in 0..Parts /\ r.sent < Parts /\ r.sent + 1 \in 0..Parts
          /\ r.timer \in {"waiting", "expired"} /\ (r.timer = "expired" => r.left = 0)
      BY <1>1, <3>1 DEF Connection, ConnOK
    <3>3. /\ n \in Connection /\ n.st = r.st /\ n.timer = r.timer /\ n.sent = r.sent + 1
          /\ n.left = r.left /\ n.write = IF r.sent + 1 = Parts THEN "ok" ELSE "going"
      BY <1>1, <3>1, <3>2 DEF Connection
    <3> HIDE DEF n
    <3>4. ConnOK(n)
      BY <3>2, <3>3 DEF ConnOK
    <3> QED BY <1>2, <3>1, <3>2, <3>3, <3>4
  <2>2. CASE SendFails(c)
    BY <1>1, <1>2, <2>2 DEF SendFails, Connection, ConnOK
  <2> QED BY <1>8, <2>1, <2>2 DEF Socket
<1>9. ASSUME ResponseWritten(c) PROVE HIInv'
  <2> DEFINE n == [r EXCEPT !.write = "none",
                            !.timer = IF r.timer = "waiting" THEN "cancelled" ELSE r.timer]
  <2>1. /\ conn' = [conn EXCEPT ![c] = n] /\ r.write \in {"ok", "failed"}
        /\ thread' = thread /\ up' = up
    BY <1>9 DEF ResponseWritten
  <2>2. /\ r.st = "handled" /\ (r.timer = "expired" => r.left = 0)
        /\ (r.write = "ok" => r.sent = Parts)
        /\ (r.write = "failed" => r.client = "left" \/ r.left = 0)
    BY <1>1, <2>1 DEF ConnOK
  <2>3. /\ n \in Connection /\ n.st = r.st /\ n.write = "none" /\ n.sent = r.sent
        /\ n.client = r.client /\ n.left = r.left
        /\ n.timer = IF r.timer = "waiting" THEN "cancelled" ELSE r.timer
    BY <1>1, <2>1 DEF Connection
  <2> HIDE DEF n
  <2>4. r.left \in Nat
    BY <1>1 DEF Connection
  <2>5. ConnOK(n)
    BY <2>1, <2>2, <2>3, <2>4 DEF ConnOK
  <2> QED BY <1>2, <2>1, <2>2, <2>3, <2>5
<1>10. ASSUME DeadlineExpires(c) \/ DeadlineHandler(c) PROVE HIInv'
  <2>1. CASE DeadlineExpires(c)
    BY <1>1, <1>2, <2>1 DEF DeadlineExpires, Connection, ConnOK
  <2>2. CASE DeadlineHandler(c)
    <3> DEFINE n == [r EXCEPT !.timer = "none",
                              !.write = IF r.timer = "expired" /\ r.write = "going"
                                        THEN "failed" ELSE r.write]
    <3>1. /\ conn' = [conn EXCEPT ![c] = n] /\ r.timer \in {"expired", "cancelled"}
          /\ thread' = thread /\ up' = up
      BY <2>2 DEF DeadlineHandler
    <3>2. n \in Connection /\ ConnOK(n) /\ r.st # "accepting"
      BY <1>1, <3>1 DEF Connection, ConnOK
    <3> HIDE DEF n
    <3> QED BY <1>2, <3>1, <3>2
  <2> QED BY <1>10, <2>1, <2>2
<1>11. ASSUME NEW how \in {"stalls", "left"}, ClientStops(c, how) PROVE HIInv'
  BY <1>1, <1>2, <1>11 DEF ClientStops, Connection, ConnOK
<1> QED
  BY <1>3, <1>4, <1>5, <1>6, <1>7, <1>8, <1>9, <1>10, <1>11 DEF Handler, Event

(* Time passes for every connection that is not closed; a failed write stays one.        *)
LEMMA TimeStep == ASSUME HIInv, TimePasses PROVE HIInv'
<1> DEFINE n(c) == IF conn[c].left > 0 /\ ~Closed(c) THEN [conn[c] EXCEPT !.left = @ - 1] ELSE conn[c]
<1>1. conn' = [c \in Conns |-> n(c)] /\ thread' = thread /\ up' = up
  BY DEF TimePasses
<1>2. /\ conn \in Seq(Connection) /\ Conns = 1..Len(conn) /\ Len(conn) \in 1..MaxConns
      /\ conn[Len(conn)].st = "accepting" /\ Len(conn) \in Nat
  BY LenProperties DEF HIInv, HTypeOK, Conns
<1>3. ASSUME NEW c \in Conns
      PROVE  n(c) \in Connection /\ ConnOK(n(c)) /\ n(c).st = conn[c].st
  <2>1. conn[c] \in Connection /\ ConnOK(conn[c])
    BY OfConnection
  <2>2. conn[c].left > 0 => conn[c].left - 1 \in 0..Deadline
    BY <2>1, Numbers DEF Connection
  <2>3. CASE conn[c].left > 0 /\ ~Closed(c)
    <3> DEFINE k == [conn[c] EXCEPT !.left = conn[c].left - 1]
    <3>1. k \in Connection /\ ConnOK(k) /\ k.st = conn[c].st
      BY <2>1, <2>2, <2>3 DEF Connection, ConnOK
    <3> HIDE DEF k
    <3>2. n(c) = k
      BY <2>3 DEF k
    <3> QED BY <3>1, <3>2
  <2>4. CASE ~(conn[c].left > 0 /\ ~Closed(c))
    BY <2>1, <2>4
  <2> QED BY <2>3, <2>4
<1> HIDE DEF n
<1>4. /\ conn' \in Seq(Connection) /\ Len(conn') = Len(conn) /\ Conns' = Conns
      /\ \A c \in Conns : conn'[c] = n(c)
  BY <1>1, <1>2, <1>3 DEF Conns
<1>5. conn'[Len(conn')].st = "accepting" /\ \A c \in Conns' : ConnOK(conn'[c])
  BY <1>2, <1>3, <1>4
<1> QED
  BY <1>1, <1>2, <1>4, <1>5 DEF HIInv, HTypeOK

(* The inductive invariant of the HTTP connections, for any number of them, of pieces of  *)
(* a response and of ticks to the deadline.                                              *)
THEOREM ConnectionInvariant == HSpec => []HIInv
<1>1. HIInv /\ [HNext]_hvars => HIInv'
  <2> SUFFICES ASSUME HIInv, [HNext]_hvars PROVE HIInv'
    OBVIOUS
  <2>1. CASE Signal
    BY <2>1 DEF Signal, HIInv, HTypeOK, Conns
  <2>2. CASE UNCHANGED hvars
    BY <2>2 DEF hvars, HIInv, HTypeOK, Conns
  <2> QED
    BY <2>1, <2>2, AcceptStep, ConnectionStep, TimeStep DEF HNext
<1> QED
  BY InitHIInv, <1>1, PTL DEF HSpec

(* A response that was begun to a client that reads to the end is whole when the           *)
(* connection is closed within the 60 s, for any connections and pieces; SIGINT excepted.  *)
THEOREM ResponseCorrect == HSpec => []ResponseWhole
<1>1. HIInv => ResponseWhole
  <2> SUFFICES ASSUME HIInv, NEW c \in Conns,
                      Closed(c), Begun(c), conn[c].client = "reads", conn[c].left > 0
               PROVE  conn[c].sent = Parts
    BY DEF ResponseWhole
  <2>1. conn[c] \in Connection /\ ConnOK(conn[c])
    BY OfConnection
  <2>2. conn[c].sent > 0 /\ conn[c].sent # 0
    BY <2>1 DEF Begun, Connection
  <2> QED BY <2>1, <2>2 DEF Closed, ConnOK
<1> QED
  BY ConnectionInvariant, <1>1, PTL

================================================================================
