# Formal models of limchat-server

TLA+ modules that model limchat-server's own logic (message handling, sessions, presence, pools,
friends, registration, HTTP, shutdown, the log), the TLC runs that check them on small
instances, and TLAPS proofs of their safety properties for every size of instance.

    tlc -workers 2 -config Shutdown.cfg MCShutdown.tla     # a run
    tlapm LogicQueue_proofs.tla                            # a proof module

## 1. The system

Four processes. The three C++ servers share their source for logging, the Redis and
MySQL pools and the configuration; each has its own copy in the tree, and the copies
are the same code (`Incr`/`Decr` exist only in the ChatServer), so one module stands for
all of them.

| process | role |
|---|---|
| ChatServer | TCP server of the clients: login, friend applications, notifications |
| GateServer | HTTP: verification code, registration, login; asks VerifyServer and StatusServer by gRPC |
| StatusServer | gRPC: assigns a ChatServer and writes a login token to Redis |
| VerifyServer | node.js, gRPC: makes a code, keeps it in Redis for 180 s, mails it |

### Inventory

| component | state it keeps | operations | meets others by | what is hard | what makes it correct |
|---|---|---|---|---|---|
| `LogicSystem` queue (ChatServer) | `_msg_que`, `_b_stop`, one worker thread | `PostMsgToQue`, `DealMsg`, destructor | sessions post from io_context threads; handlers run on the worker | notifying only when the queue was empty, outside the lock; stop flag written without the lock | no lost wake-up, order kept, nothing left at exit |
| `CSession` | `_recv_head`, `_recv_msg_node`, `_send_que` under `_send_mutex`, one outstanding read and write | `HandleReadHead`, `HandleReadBody`, `Send`, `HandleWrite`, `Close` | posts to `LogicSystem`; the worker calls `Send`, the io_context runs the handlers | two threads decide who starts a write; errors; close under a write; signed 16-bit lengths | requests cut as the client framed them, one write at a time, whole frames in order |
| who is online | `CSession::_uid`, `UserMgr::_uid_to_session`, Redis `utoken_`, `logincount_`, `userserver_` | `LoginCallBack`, `Close`, friend notifications, `GetChatServer` | worker, io_context threads and StatusServer update them in several unlocked steps | stale `_uid` in `Close`, two devices of one user, failed commands, crash | registrations of live sessions of the right user |
| io_context pool, shutdown | io_contexts, threads, work guards | accept, `stop`, end of `main`, static destruction | all of the ChatServer | join with connected sessions; a worker that outlives `main`'s log and the other singletons | nothing is posted to a dead queue; shutdown ends |
| MySQL pool | `_pool`, `_b_stop` | `getConnection`, `returnConnection`, `close` | every `MysqlDao` operation | both wait for the same condition; empty pool; stop | no sharing, no loss, no thread stuck |
| Redis pool and commands | `_connections`, `_b_stop` | `getConnection`, `returnConnection`, `Close`, `RedisMgr` | every Redis user | broken contexts, early returns | no sharing, no loss, no sleeping beside a free connection |
| StatusServer | gRPC handlers; `utoken_<uid>` in Redis | `GetChatServer`, `Shutdown` | GateServers call, ChatServers read the token | `SET`s lost, late or overtaken; shutdown under calls | a token told is the token stored; the process ends |
| `AsyncLogging`, `LogFile`, `AppendFile` | two front buffers, queue, two spares; file, counters, stdio buffer | `append`, `start`, `stop`, `threadFunc`; append, roll, flush | every thread logs | exchange of buffers, dropping, timed wait, stop, `LOG_FATAL`; rolling by size and day | every line once, in order, in the files, or dropped by the limit |
| `Logger`, `LogStream` | one fixed buffer per line, `g_logLevel` | the `LOG_` macros, `<<`, the output | every thread | a piece that does not fit is dropped silently; hand-written number conversion | a line that fits is whole and reads back |
| `Thread`, `MutexLock`, `Condition`, `CountDownLatch` | `holder_`, `tid_`, `count_`, a semaphore | `start`, `join`, `lock`, `wait`, `countDown` | `AsyncLogging`, the output | `holder_` is written beside the mutex, around waits | asserts on the holder mean what they say |
| friends | MySQL `friend_apply`, `friend` | apply, authorise, lists | `MysqlDao` on a borrowed connection | transaction, autocommit flag, repeated answers | both friend rows or none |
| registration, Gate login | Redis `code_<email>`, MySQL `users` | `GetVerifyCode`, `HandleUserRegister`, `RegUser`, `HandleUserLogin`, `CheckPwd` | GateServer, VerifyServer, StatusServer, Redis, MySQL | concurrent codes, expiry, check-then-insert, blocking gRPC | one account per name and address |
| `HttpConnection` | request, response, deadline timer | accept, read, handle, write, deadline | GateServer's handlers, all on one thread | the deadline runs from the object's creation and is waited for only after the request | whole responses; every handled connection is closed |
| configuration, gRPC stubs, build files | – | – | – | – | – |

## 2. Modules

Each component has a module with its state, actions, properties, the mutated actions that
show each property can fail (commented "Mutant of"), and its inductive invariant (`IInv`, or
`ThreadInv`, `HIInv` and the like where a module extends another); an `MC` module that TLC
runs; and a `_proofs` module. A step of a thread is an action, cut where another thread can
see or change something in between.

| module | models | source |
|---|---|---|
| `Fifo` | what a queue promises: out in order, each once, none invented | abstract |
| `LogicQueue` | `PostMsgToQue`, `DealMsg`, `~LogicSystem`; implements `Fifo` | `ChatServer/src/LogicSystem.cc` |
| `Shutdown` | extends `LogicQueue` to the server: accepting, io_context threads, `stop`, static destruction; implements `LogicQueue`'s specification | `ChatServer.cc`, `IOServicePool.cpp`, `CServer.cc` |
| `SessionSend` | `Send`, `HandleWrite`, `Close`, the socket; implements `Fifo` | `ChatServer/src/CSession.cc` |
| `Session` | extends `SessionSend` by the client, reading and framing, the worker's answers | `CSession.cc`, `MsgNode.h`, `LogicSystem.cc` |
| `Presence` | logins, closes, notifications, tokens, Redis keys, crash | `LogicSystem.cc`, `CSession.cc`, `UserMgr.cc`, `StatusServiceImpl.cc` |
| `MysqlPool` | the pool and each operation's borrow, use, return | `MysqlPool.cc`, `MysqlDao.cc` |
| `RedisPool` | the pool and each command's borrow, command, return | `RedisConPool.cc`, `RedisMgr.cc` |
| `StatusServer` | extends `RedisPool` to its three users, with the whole StatusServer | `StatusServiceImpl.cc`, `StatusServer.cc`, the three `RedisMgr.cc` |
| `AsyncLogging` | front end, back end, start, stop, abort | `base/src/AsyncLogging.cc`, `Logger.cc` |
| `LogFile` | appends, rolls, flushes, the stdio buffer, failing writes | `base/src/LogFile.cc`, `FileUtil.cc` |
| `Logging` | `AsyncLogging` with its `LogFile` | both |
| `Threads` | thread start and join, mutex with holder, condition, latch | `base/src/Thread.cc`, `MutexLock.h`, `Condition.cc`, `CountDownLatch.cc` |
| `LogLine` | extends `Threads`: lines made and put out under the mutex | `base/src/LogStream.cc`, `Logger.cc`, `FixedBuffer.h`, `Timestamp.cc` |
| `Friendship` | what the friend functions promise: a symmetric relation that grows by whole pairs and is told of only afterwards | abstract |
| `Friends` | the friend handlers, `MysqlDao`'s statements, transactions and lost connections; implements `Friendship` | `ChatServer/src/LogicSystem.cc`, `MysqlDao.cc` |
| `Register` | codes, registration, login: GateServer, VerifyServer, Redis keys, the table `users` | `GateServer/src/LogicSystem.cc`, `MysqlDao.cc`, `VerifyServer/*.js` |
| `Http` | accepting, one request per connection, the response, the deadline, the one thread | `GateServer/src/HttpConnection.cc`, `CServer.cc`, `GateServer.cc` |

How they fit. Three modules are extended by their surroundings and checked only within
them: `LogicQueue` by `Shutdown`, `SessionSend` by `Session`, `RedisPool` by
`StatusServer`. `LogicQueue` assumes that its destructor runs when nobody posts any more;
`ServerImplementsQueue` proves that the server keeps to that. `ServersUsePool` proves that
each server is one of the users `RedisPool` has. `LogicQueue` and `SessionSend` are shown
to be FIFOs, which is how `Presence` uses them. `Presence` takes a handler's Redis commands
as steps that may fail, `Friends` and `Register` its SQL statements; what happens between a
borrow and a return of a connection is theirs, who gets which connection and when is
`MysqlPool`'s and `RedisPool`'s. The one fact that crosses that line, in which state a
connection comes back, is `PooledClean` of `Friends`. `Http` takes a handler as a call that
returns; what the call does is `Register`'s.

### LogicQueue, Shutdown

`msg_que`, `process_que`, `b_stop` and `stopping` are the variables of the code;
`wpc`, `ppc` and `dpc` say where the worker, each io_context thread and the destructor
are; `posted` and `handled` are history. The critical section of `PostMsgToQue` is one
step and its `notify_one`, after the unlock, another. The worker's test (`MustWait`)
and its wait (`Block`) are two steps with the mutex held between them, because
`~LogicSystem` writes the flag and notifies without the mutex. Handlers are one step
(`Handle`): their steps are in `Presence`, `Session` and `Friends`.

In `Shutdown` a producer is an io_context thread; `session` are the sessions in the order
made, each on the io_context that was next. `Signal` is the handler of SIGINT, which runs
`IOServicePool::stop` on the main thread: it takes the work guards away and joins, so that
`StopReturns` waits for every session to be closed by its client. After it `main` returns,
its log goes (`MainReturns`), and the singletons in any order, as the link order of their
translation units decides. `~LogicSystem` ends the worker. `dangling` records who may have
used what was already destroyed: a handler, or the destructor of a manager. `Uses` says what
each destructor uses: that of `MysqlMgr` logs (`MysqlPool.cc:71`), which after `MainReturns`
is always through a `g_asyncLog` that points at nothing, if `MysqlMgr` was ever made; that is
left to choice (`made`). A handler may wait for ever in a pool of `Pools` (`HandlerWaits`,
`waitsIn`), and so may a `Close` in `RedisMgr`'s (`stuck`): `Decr` loses connections, and a
MySQL pool of at most one never lends again. `Destroy` of that manager may wake the handler, which then
uses what is no more. A process that a handler's exception ends is in `Session`, not here. With `hardware_concurrency() == 0` the pool would be empty
and its index out of range; `PoolAssumption` says that it is not.

### SessionSend, Session

An `async_write` is a record in `writes`: its message, the pieces already out, and the
result its handler will get. `wire` holds pieces, so that overlapping writes show. The
peer may end its side or reset (`PeerLeaves`); `Close` then closes the socket under the
outstanding write, which fails. `HandleWriteError` returns at once, as the code does.

`Session` adds the other direction. A byte has `Base` values instead of 256, so that a
16-bit length wraps at small lengths; `Short`, `Load`, `Store` and `Swapped` are the
conversion to `short`, the two `memcpy`s and `htons`/`ntohs` of a little-endian machine.
The client sends frames of the identifiers and lengths in `Requests`, the longest of them
longer than a `short`, and may leave within one. Lengths above `MAX_LENGTH` (2048) are
logged by the code and used, so the model has no such bound. An answer is a hello, which
comes back as it was, or data of a length in `ReplySizes`: 32 764 bytes or more but less
than 65 536 end the process, longer ones are cut or end it too. A body of `WrongTyped` has a
field of another type than the handler reads, and `get<int>()` or its like throws in the
worker's thread function, which ends the process (`LogicSystem.cc:128`, 129, 185, 227, 229,
317, 318). `RepliesWhole` says that of what clients send and are answered nothing else does,
and that every other answer is whole.

### Presence

One step for every access to shared state of `LoginCallBack` (`Verify`, `SetUid`,
`SetUserSession`, `LoginIncr`, `SetServer`, `LoginReply`), of `Close` (`CloseBegin`
reads `_uid` and sets `_b_close`, `CloseRemove`, `CloseDecr`, `CloseDel`,
`CloseSocket`), and of a friend application's notification (`Lookup`, `Push`). A Redis
command may fail, with or without its effect. `Crash` drops everything but Redis. The
`inbox` is a FIFO, which is what `LogicQueue` is shown to be. A token is the number of
its issue: uuids do not repeat. Reads and writes of the plain ints `_uid` and `_b_close`
are taken as atomic. The history variables `late`, `rebound` and `lost` name the cases
in which the code cannot keep its registries clean, so that the invariants say exactly
what it does keep; `acked` is the session of each user's last login answered with Success,
of which `AckMeansRegistered` says how long it stays registered.

### MysqlPool, RedisPool

`tpc` says where each thread is in its operation; `get_block` is between the test and
the wait, with the mutex held. A pool is a set: which of its connections is lent next
is left open. The constructors may fail to make any of the connections (`created`).
`MysqlPool`'s `Return` may wake a borrower or another returner, as both wait on one
condition variable. In `RedisPool`, `broken` contexts make every command on them end
without a reply; `Decr` then returns before its `Defer` exists and the connection is
destroyed (`NoReply`), and after an error reply `Incr` and `Decr` free the reply twice
(`ErrorReply`, taken to end the process, or, as `Reply`, to go unnoticed). The bound on
calls lets newcomers overtake a waiting thread only as often as it has calls.

### StatusServer

`server` is which of the three it is, and `Commands` what each one's `RedisMgr` can do: a
GateServer and a StatusServer have no `Decr`, and so lose no connection at all
(`EveryCommandFinishes` has a weaker premise for them). A GateServer has one thread. For
the StatusServer a thread is the gRPC handler of one call: it makes a token (the number
of the call: uuids do not repeat), `Set`s it and answers. A command with no reply was
executed, was lost, or is still on its way (`late`, `LateSet`). `Signal`,
`ShutdownReturns`, `DestroyRedisMgr` and `Exit` are main's way out; `Shutdown` lets no new
call in and waits for those there are.

### AsyncLogging, LogFile, Logging

A buffer is the sequence of its lines, a line the number of its `append`; `Capacity` is
4 MB and `Limit` 25 in the code. `Exchange` is the critical section of `threadFunc`;
`Trim`, `Write` and `Recycle` run without the mutex. `Prepare` is the back end's start:
counting the latch down, the `LogFile` and the two spares in one step. The wait is timed and is not
repeated when it ends, so it is one step that may end at any time.

`LogFile`'s variables are the members of `LogFile` and `AppendFile`; `stdio` is the buffer
of the `FILE` and `disk` the contents of the files, by the second in their names. Length is
counted in lines. `Appended` is `append_unlocked`: by size at every append, by day or for a
flush at every `CheckEvery`-th, and never a second file within a second. `fwrite` may fail
after some lines; what it had written is then on the disk and not counted. A day is a
UTC day in the code, while names use local time. `fopen` failing is only asserted there and
is not modelled; nor are `fflush` and `fclose` failing, whose results nobody reads. In `Logging` each step of the back end that touches the file is one step
with it.

### Threads, LogLine

`lk` says how far a thread is within `lock`, `unlock` or `wait`: the note of the holder is
a step of its own before the unlock, after the lock, and around a wait. `Start` is
`pthread_create`, `NoteTid` and `SemPost` the new thread, `StartReturns` the end of
`sem_wait`. Main starts every worker, waits on the latch, logs and joins; the same mutex
steps serve the latch and the output. `LogLine` gives each thread its line: `MakeLine` is
the whole of a `LOG_` statement but the output, as the stream belongs to its thread; `Stream`
is `LogStream` over `FixedBuffer`, piece by piece; `Reversed` and `ReversedHex` are the loops
of `convert` and `convertHex`, with C++ division. A character is a string of length one and a
file name or calendar date a label of length one; `Letters` are those of the callers' texts.
`Piece` is what a stream can be given: `WidthAssumption` keeps its integers at least three
digits shorter than `MaxNumeric`, as the 64 bits of the code's are shorter by twelve than its
32 characters (`LogStream.h:63`). `float` and `double`, which `snprintf` formats, are left out.

### Friends

`apply` and `friend` are the tables: `apply[<<from, to>>]` is the set of statuses of the
rows of a pair (0 waiting, 1 accepted, 2 refused; the table of `ChatServer.md` has no
unique key over the pair, so there may be several), `friend` the set of rows
`<<self_id, friend_id>>`. `alive`, `manual` and `tx` are the state of MySQL sessions: not
lost, in `setAutoCommit(false)`, and what their open transaction has written, which
`Store` puts into the tables at commit. `pc`, `req`, `link` and `ret` are a worker's place
and the locals of its handler. The handlers differ in what they call: a read is one
statement (`Select`), `AddFriendApply` one `INSERT`, `AuthFriendApply` the six steps
`Begin`, `Update`, `Insert`, `Commit`, `Restore`, `Catch`; `Answer` is the response to the
session and `Notify` the push to the other user. Any statement may fail; a commit or an
autocommitted `INSERT` may be done and its answer lost with the connection; a connection
may be lost at any time (`Drop`) and is never replaced; a server may die and start again
(`Restart`). Several servers share the database, and `Locked` is what InnoDB's row locks
keep apart.

`Accepted` is the set of statements that parse and name existing columns. It is a
constant because the repository has no schema that accepts them all: the text of
`GetApplyList` never parses, and `AuthFriendApply` (`self_id`, `friend_id`) and
`GetFriendList` (`self_uid`, `friend_uid`) name the columns of `friend` differently, which
`AcceptedAssumption` says. The proofs hold for every `Accepted`. `Recorded` is what
earlier runs have left in `friend_apply`.

### Register

`code` and `ttl` are the key `code_<email>` and the rest of its 180 seconds; `Tick` is a
second. `users` and `next_uid` are the table and its AUTO_INCREMENT, with the unique keys
over `name` and `email` in `Insert` (a refused insert uses a uid up). `pc`, `req`, `uid`
and `reply` are a GateServer's handler: it runs one at a time and waits for gRPC on the
same thread. `call` is what the VerifyServer does: `GetRedis`, `SetRedisExpire` and
`SendMail` are the pieces of `GetVerifyCode` between its awaits, and other calls run in
between. `CheckCode` to `LastInsertId` are the statements of a registration, `CheckPwd`
and `GetChatServer` those of a login, `Answer` the response. Each can fail, and those
that write can have written when they do. `RpcFails`, `Restart` and `VerifyServerDies`
break the gRPC call at either end; a call whose GateServer is gone goes on.
`Asked` are the requests clients make, `WithAt` the identifiers that contain an `@`
(nothing keeps names from having one or addresses from having none), `Leftover` the codes
that may be in Redis at the start. A `SET` whose call failed is done or not done by then;
that Redis does it later still is in `StatusServer` only (`LateSet`). `registered` and `logins` are what clients were told,
`promise` what the last mail to an address said, counted from the moment its call
decided to send that code, so that the time a mail takes is not held against the code.

### Http

`conn` are the `HttpConnection` objects in the order made, the last one waiting to be
accepted. `left` is the rest of `deadline_`'s 60 seconds, which run from the making of the
object; `timer` its `async_wait`, begun only with the response (`CheckDeadline`). `thread`
is the connection whose handler the only thread is in: until `RpcReturns` nothing else runs.
An object whose operations have ended is destroyed (`Closed`). No GET handler is registered,
so a GET is answered with 404. An accept that fails makes the next object at once.

## 3. Runs

Every passing run but `presence` checks safety and liveness together, or a refinement.
Deadlock is not checked in any of them: clients may stop sending, the bound on messages
or calls is reached, and the server may stop, which are legitimate ends.

| run | instance | distinct states | what it shows |
|---|---|---|---|
| `chat_server` | 2 io_contexts, 3 messages, 4 session objects, 3 singletons, of which one has a pool | 150 537 | `DrainedAtExit`, `DanglingWasLeft`, `ImplementsFifo`, `EveryPostHandled`, `ImplementsLogicQueue`, `ShutdownEnds` |
| `session` | bytes of 2 bits, 3 frames of 6 kinds, answers of 4 lengths, writes of 2 pieces | 357 182 | `FramesIntact`, `HandedAsFramed`, `RepliesWhole`, `ImplementsFifo`, `EveryHelloEchoed` |
| `presence` | 2 connections, 2 users, 1 token each, 3 messages, 1 failed command, 1 crash | 1 707 924, up to symmetry | `RegistryClean`, `AckMeansRegistered`, `PushRightUser`, `NoUndercount` |
| `mysql_pool` | 3 threads, 0 to 4 connections | 25 404 | `NoSharing`, `CloseReleases`, `SpareCallsFinish` |
| `redis_pool` | each of 3 servers, 2 threads, 0 to 2 connections, 3 calls, 1 user | 105 612 | `OnlyBrokenLost`, `ToldIsStored`, `EveryCommandFinishes`, `ServiceEnds` |
| `logging` | buffers of 2 lines, limit 2, 6 lines, files of 2 lines, days of 2 s, 3 s, 1 failed write | 223 551 | `FilesHoldLines`, `RollsInTime`, `EveryLineOnDisk`, `StopReturns` |
| `log_line` | main and 2 workers, lines of 24 characters, numbers of 5 bits | 219 694 | `HolderTruth`, `LinesReadBack`, `LatchOpens` |
| `friends` | 2 servers of 1 connection, 2 users, 1 waiting application, 2 requests, 2 losses or restarts | 206 427 | `AcceptedAreFriends`, `AcksAreStored`, `PooledClean`, `ImplementsFriendship` |
| `register` | 2 GateServers, 2 calls, 2 addresses, 2 names of which one is an address, 2 codes, 3 requests, 1 failure | 370 454 | `RegisteredIsStored`, `RefusalIsTrue`, `MailedIsCurrent`, `NeverForgotten`, `EveryRequestAnswered` |
| `http` | 3 connection objects, responses of 2 pieces, a deadline of 2 ticks | 60 799 | `ResponseWhole`, `HandledCloses` |

The type invariants and the inductive invariants are not in a configuration where
they are proved for every instance (section 4), and neither are the properties that are
proved and that no run repeats: no overlapping `async_write` (`OneWrite`), messages stuck
only on a lost connection (`StallsOnlyWhenBroken`), silence after a failed write
(`SilentAfterError`), no connection lost from the MySQL pool (`Conserved`), no wait with a
spare connection (`SpareNeverBlocks`), `NoSharing` and `WakeupsCover` of the Redis pool,
`AssertsHold` of the log, `IdentityIsStable` of registration, no answer of one call to
another's request (`CallersWait`), and `LatchHolds`,
that a wait at the latch returns only when all have counted. After a change of a module add its
inductive invariant to a configuration's INVARIANTS before proving it again.

Why the bounds are enough. `chat_server`: two io_contexts are needed for a notification
to be overtaken by another post, and for one to end while the other is held by a session;
three messages make a batch, another while it is handled, and one left at the end; the three
singletons are one that a handler may wait in and whose destructor logs, and two that do
neither, so that each order of destruction occurs; of four session objects three are
accepted, two on one io_context. `session`: three frames are one handled, one queued and
one being read; lengths lie on both sides of each of the bounds SMax - 4, SMax and
the word; two pieces let a second write fall inside a frame. `presence`: two connections and two
users give the two
devices of one user, one connection used by two users, and the close of one device
during the login of the other; three messages are two logins and an application or a
third login. `mysql_pool`: four connections to three threads reach the case with a
spare and, with fewer, a borrower and a returner waiting together when `close` comes. `redis_pool`: three
calls on two connections lose both and leave one waiting, or two overlap for one user and
one comes after; two threads suffice because `RedisPool_proofs` covers the others.
`logging`: six lines fill a limit of two buffers and another while the back end writes, in
up to three files of two days. `log_line`: two workers contend for the mutex with a main
that waits; one of the three makes a line, as the lines have nothing in common but that mutex; the texts fit, leave no room for a number, and do not fit; the numbers are all
of five bits, signed and unsigned. `friends`: two requests are two decisions on one
application, a decision against a second application, or two applications that cross; the
second loss lets one hit the commit and another the clean-up. `register`: three requests
are two colliding registrations and a login under the identifier they share, or a
registration between two requests for a code; the code of a time to live of 1 may expire
between any two steps. `http`: one connection in a handler, one waiting for the thread and
one to be accepted; a deadline of two ticks can pass before, during and after each.

Symmetry is used for the connections and the users of `presence` only, where no
liveness is checked.

### Fairness

- `Shutdown`: the worker, a notification that has been begun, the return of an io_context's
  `run` and the steps of the ending main thread are weakly fair: they are running threads.
  Nothing makes a client come, send or leave, a signal arrive, or the condition variable wake
  spuriously.
- `Session`: the socket moves bytes while the connection lasts (the peer reads), the
  io_context runs the handlers that are ready, the worker handles what is queued.
- `MysqlPool`, `StatusServer`: a thread inside an operation is strongly fair, which is to say
  that it gets the mutex in the end although others take and release it in between; `close`,
  once begun, notifies; main goes on after a signal. `Shutdown` of gRPC has no deadline.
- `Logging`: the back-end thread is weakly fair, as its wait has a time limit, and so is the
  owner inside `start` and `stop`; the clock is not.
- `LogLine`: threads are weakly fair, and strongly in getting the mutex.
- `Register`: the GateServer's thread and the VerifyServer's event loop are weakly fair,
  and Redis, the mail server and the StatusServer answer, if only with an error. The
  gRPC calls have no deadline, so this is what the code relies on.
- `Http`: time passes, calls of a handler return (again without a deadline), and the
  io_context serves every event that is there in its turn.

### Disagreements between the code and what it says of itself

Each has a run with one property, quoted from a comment or a text, which TLC finds violated.

| run | the text | what the code does |
|---|---|---|
| `presence_close` | `CSession.h:29`, `Close` clears the registrations | a login queued before the close registers the closed session afterwards |
| `register_code` | `verify_server.js:45`, use the code within 180 seconds | a second request mails the code that exists and leaves its expiry as it was |

Others, seen while modelling, have no run of their own.

- Shutdown. The notification of `~LogicSystem` can fall between the worker's test and its
  wait, and `join` never returns, against `LogicSystem.cc:31` (`MissedStop`, the exception
  `ShutdownEnds` has to make). `stop` of `AsyncLogging` does not write the lines since the
  last exchange, against `AsyncLogging.h:42` (they are in `InFlight` of `FilesHoldLines`).
  `LOG_FATAL` flushes stdout, not the asynchronous log, before `abort`. A message left in the
  queue when the threads are joined is handled with `main`'s log gone (`DanglingWasLeft` says
  that no other is). Every shutdown of a server that used `MysqlMgr` logs through the log that
  is gone, `MysqlPool.cc:71`, with no message left at all. A `Close` or a handler that waits
  in a pool for ever keeps a stop from ending (`stuck`, `waitsIn` of `ShutdownEnds`).
- Sessions. After a write error a queue is never served again, although `CSession.cc:73` says
  `HandleWrite` will (`StallCorrect` bounds it to lost connections). The length of a frame is
  read into a signed `short`: above 32 767 the process ends (`RepliesWhole`); above
  `MAX_LENGTH` it is only logged. A field of a message that is not of the type its handler
  expects ends the process too, as nobody catches what `nlohmann::json` throws; on the
  GateServer its request gets no answer (`HandlerThrows` of `Http`).
- Presence. The old device's `Close` deletes `userserver_<uid>` although the new device is
  logged in (`CloseDel`; nothing reads the key yet); `logincount_` is incremented by a second
  login on one connection (`NoUndercount` is the half that holds); when a user's newer device
  leaves, `UserMgr` forgets the older one that is still connected.
- Pools. `MysqlPool::returnConnection` waits for a pool that is not empty, so that the last
  connection never comes back: a pool once empty stays so, and all that wait in it wait for
  `close` (`CloseReleases`; with a connection to spare it is not met, `SpareCallsFinish`). A `MysqlPool` whose
  connections all failed at construction blocks its first caller; the keep-alive thread of
  `MysqlPool.h:10` is never started; a `Decr` without a reply destroys its connection
  (`OnlyBrokenLost` bounds the loss to broken ones).
- Friends. `GetApplyList` and one of `AuthFriendApply` and `GetFriendList` fail on every
  call, whatever the schema (see `Friends` above); `AuthFriendApply` makes friends without
  an application, as an `UPDATE` of no row is no error.
- Registration. A code can be used again until it expires; an address without an `@` can be
  registered and never logs in; neither does a name with one, although `LogicSystem.cc:178`
  says of the identifier of a login that it is the user name or the address (`Mistaken`, the
  exception of `NeverForgotten`); `RedisErr` and `SendMailErr` have the numbers of the
  GateServer's `VerifyCodeErr` and `EmailExist`.
- HTTP. The deadline of an object that waited 60 s to be accepted closes its response at once
  (`ResponseWhole`'s `left > 0`); a client that connects and sends nothing is never cut off.
- Log. `LogFile.h` describes names with host and process, the code has none; a line longer
  than its buffer may lose its newline silently.

## 4. Proofs

All hold for every value of the constants under the named assumptions of the modules:
threads, connections and sessions are finite sets, `nullptr` is none of them, and the
sizes are natural numbers (`Pieces` and `Capacity` not 0, `Limit` at least 2, without
which the back end could not refill its spares); of the SQL statements,
`AcceptedAssumption`; of codes, that none is `NoCode`; of the log's lines, `WidthAssumption`. Each proof module shows `Init => IInv`,
`IInv /\ [Next]_vars => IInv'`, one step per action, and `IInv => property`.

| module | theorems | the invariant, and why the property alone is not inductive |
|---|---|---|
| `LogicQueue_proofs` | `Invariant`, `WakeupCorrect`, `DrainCorrect`, `QueueRefinesFifo`; of the server, `ServerImplementsQueue`, `ServerRefinesFifo`, `ServerDrains`, `ServerTypes`, `DanglingCorrect` | `OrderInv` places every message (handled, in the batch, in the queue); `SleepInv`: between test and wait the queue stays empty because the mutex is held; `StopInv`: the copy of the flag is taken when no producer is left; of the server, that a thread which has ended has nothing under way, and that the destructor runs after all have |
| `Session_proofs` | of the sending half, `Invariant`, `OneWriteCorrect`, `FramingCorrect`, `StallCorrect`, `SilenceCorrect`, `SendRefinesFifo`; of the session, `SessionInvariant`, `SessionImplementsSend`, `HandedCorrect`, `RepliesCorrect`, `SessionFraming`, `SessionSilence`, `SessionRefinesFifo`, `SessionTypes` | `WriteInv`: the write is of the head of the queue; `WireInv`: the last piece on the wire is the write's last; `OrderInv`; `FailInv`. Of the session, `RIInv`: there are offsets (`Laid`) at which the frames lie on what is left of the stream, and reading stands at the head of one or past it, which is all that keeps a length from being read out of a body; `NodesInv`: a node has its frame's bytes once it is complete, and those are queued and handled in order; `AnswersInv`: an answer cut short was never sent |
| `Presence_proofs` | `Invariant`, `RegistryCorrect`, `LoginCorrect`, `PushCorrect`, `CountCorrect` | `BindInv`: what is registered is what was just bound, and what a close removes is its session's user; `UnbornInv`: messages come from accepted connections |
| `MysqlPool_proofs` | `Invariant`, `SharingCorrect`, `ConservationCorrect`, `SpareCorrect` | `HoldsInv`: where a thread is tells what it holds; `WaitInv`: it waits only beside an empty or stopped pool; and, for the spare connection, that no more connections are lent than there are threads (a surjection) |
| `RedisPool_proofs` | `Invariant`, `SharingCorrect`, `LossCorrect`, `WakeupCorrect`; of the servers, `ServersUsePool`, `TokenCorrect` | `HoldsInv`, `BlockInv`; a returned connection is matched by the thread it wakes. `ServiceInv`: a handler whose token is not its user's newest overlapped with the newest (`OlderMixed`), and what `Set` returned holds in Redis (`OkIsStored`) |
| `Friends_proofs` | `Invariant`, `TablesAgree`, `AcksCorrect`, `PoolCorrect`, `FriendsImplementFriendship` | `TxOK`: what an open transaction holds at each step, so that its commit stores both or none; `LinkOK`: no two workers have one connection; `DoneOK`: what an answer of Success stands for; `DeadInv`: a lost connection has nothing open |
| `Gate_proofs` | `Invariant`, `RegistrationCorrect`, `RefusalCorrect`, `IdentityCorrect`, `MailedCorrect`, `CallersCorrect`, `NeverForgottenCorrect` of `Register`; `ConnectionInvariant`, `ResponseCorrect` of `Http` | `Unique`: one row per name, address and uid; `UidIsRight`: the uid a handler holds is of its own account; `CallersWait`: a call answers its own request or nobody; `AloneIsAlone`: which calls for an address have met. `HIInv`: what stands behind each result of a write and each timer; a write that failed has lost its client or its time |
| `Logging_proofs` | of `AsyncLogging`, `Invariant`, `AssertsCorrect`, `TypeCorrect`; of `Logging`, `RollsCorrect`, `HoldInvariant`, `LinesCorrect`; of `Threads`, `ThreadsInvariant`, `HolderCorrect`, `LatchCorrect`; of `LogLine`, `LineInvariant`, `LinesReadable` | `SpareInv`: which buffers the back end has at each point, and that a front end without a spare has queued one. `RollInv`: the file's period is that of its name, the clock's day never goes back, and appends of a later day are among those counted since the last look. `HoldInv`: spares and the files of times to come are empty, and whatever is on its way is later than all that is filed. `ThreadInv`: the note of the holder is there exactly between its two steps, a wait keeps it in `prev`, at most one thread is being started, and the count is the number of workers that have not counted. `LineInv`: a line's text is what the stream makes of its pieces |

`QueueRefinesFifo` and `SendRefinesFifo` are refinement proofs: each step of the queue
is a step of `Fifo` or leaves it unchanged under the mapping `put`, `got`.
`FriendsImplementFriendship` is another: `Store` of a transaction befriends one pair, and
`Answer` and `Notify` tell of it, which `AcksAreStored` and `DoneOK` allow.
`NeverForgottenCorrect` is about steps: `Unique` leaves `CheckPwd` no second row to find. It
excepts those who give a name that looks like an address, or an address that does not: these
the code never lets log in. `CallersCorrect` is about a call that was given up. `LoginCorrect` says of a login that was answered
that it stays registered until its connection goes or a later login of its user replaces it.
`ResponseCorrect` is about how much of a response arrives, not about what is in it.

`ServerImplementsQueue` and `ServersUsePool` are proofs of composition: every step of the
server is a step of the queue, or pool, or leaves it alone, so that what is proved of
`LogicQueue` and `RedisPool` holds in the servers.

`ServerRefinesFifo`, `ServerDrains`, `SessionFraming`, `SessionSilence` and
`SessionRefinesFifo` are what follows: the properties of the part, of the whole.
`LinesCorrect` is the longest: a line goes from `append` through the exchange of buffers,
`Trim`, the loop of writes and the rolls into the files, and each step moves a piece of
the one rising sequence without a gap or an overlap. `LatchCorrect` is about `start`: main
passes the latch only when every worker has counted, a spurious wakeup or not.

`LinesReadable` is about recursive functions: the digits of a number, the text of a
stream, the value of a text. That each has its equation, and what follows for every number
and length, is shown by induction over sets of numbers (`NatSetInduction`, from the
well-foundedness of `<`), as the induction theorems of the library take an operator.
`Unwinding` says that a recursion over what grows smaller has a solution, `UnwoundAlike`
that it has one only, `Spelling` that the digits found on the way, reversed, are worth the
number, have no zero in front and are no more than its power of ten allows. `Reversed` and
`ReversedHex` are instances, the least integer among them; `StreamFacts` carries it over to
a line.

`DanglingCorrect` is about handlers. Destructors that use what is gone are in the model
(`Destroy`) and no property excludes them, because the code has one.

Only model-checked: every liveness property (fairness and ENABLED are beyond the
prover), and the runs that show a disagreement.

## 5. Not modelled, and the plan

Done, in this order: `Fifo`, `LogicQueue`, `SessionSend` (every message goes through them);
`Presence`; `MysqlPool`, `RedisPool`; `AsyncLogging`; `Friends`; `Register`; then the
surroundings of these, `Session`, `Shutdown`, `StatusServer`, `LogFile` and `Logging`; then
`Http`, `Threads` and `LogLine`.

Every invariant a run checks is proved. That `Presence`'s `inbox` is the queue of `LogicQueue` is an argument of this document.

Not modelled:

- Configuration: an ini file read once, before any thread starts. A number that is none ends
  the GateServer (`stoi` throws) and the StatusServer's start; nothing depends on it later.
- Generated gRPC stubs, build files, data, and the `main` functions up to the point where
  the processes run; their ends are in `Shutdown`, `Http` and `StatusServer`.
- `MysqlPool::checkConnection`, which has no caller.
- Profiles, texts, orderings of lists and JSON fields: data that no property tells apart.
- Dates and floating-point numbers in the log, which `gmtime` and `snprintf` make.
- `fopen`, `fflush` and `fclose` failing, and memory running out.
