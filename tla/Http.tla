----------------------------------- MODULE Http -----------------------------------
(* The GateServer's HTTP connections: CServer accepts, HttpConnection reads one       *)
(* request, has LogicSystem handle it, writes the response and closes; a deadline      *)
(* timer closes connections whose response does not go out.  Everything runs on the   *)
(* one thread of main's io_context: a handler that waits for gRPC stops it all.        *)
EXTENDS Naturals, Sequences

CONSTANTS Parts,      \* pieces in which the socket takes a response
          Deadline,   \* the 60 s of deadline_, in ticks
          MaxConns    \* bound: HttpConnection objects made

ASSUME PartsAssumption == Parts \in Nat \ {0}
ASSUME DeadlineAssumption == Deadline \in Nat \ {0}
ASSUME ConnsAssumption == MaxConns \in Nat \ {0}

VARIABLES conn,     \* HttpConnection objects, in the order made
          thread,   \* the connection whose handler the thread is in, or 0
          up        \* the io_context has not been stopped

hvars == <<conn, thread, up>>

Conns == DOMAIN conn

(* _socket, deadline_ and the outstanding operations of an HttpConnection:            *)
(*   st      how far it is                                                            *)
(*   client  the other end reads, has stopped reading, or has left                     *)
(*   left    ticks until deadline_ expires, running since the object was made          *)
(*   timer   deadline_'s async_wait and the result waiting for its handler             *)
(*   write   async_write and the result waiting for its handler                       *)
(*   sent    pieces of the response the socket has taken                              *)
NewConnection == [st |-> "accepting", client |-> "reads", left |-> Deadline,
                  timer |-> "none", write |-> "none", sent |-> 0]

(* An object whose operations have ended is destroyed, and its socket with it.        *)
Closed(c) == \/ conn[c].st = "dead"
             \/ conn[c].st = "handled" /\ conn[c].timer = "none" /\ conn[c].write = "none"

HInit == conn = <<NewConnection>> /\ thread = 0 /\ up = TRUE

(* The thread is free to run the next handler of the io_context.                      *)
ThreadFree == up /\ thread = 0

--------------------------------------------------------------------------------
(* StartAccept: an error drops the object, success starts it; another is made.        *)
Accept(error) ==
  /\ ThreadFree /\ Len(conn) < MaxConns
  /\ conn' = Append([conn EXCEPT ![Len(conn)].st = IF error THEN "dead" ELSE "reading"],
                    NewConnection)
  /\ UNCHANGED <<thread, up>>

(* The client leaves or sends no HTTP: async_read ends with an error.                  *)
ReadFails(c) ==
  /\ ThreadFree /\ conn[c].st = "reading"
  /\ conn' = [conn EXCEPT ![c].st = "dead"]
  /\ UNCHANGED <<thread, up>>

(* The whole request is there: HandleReq.                                            *)
ReadRequest(c) ==
  /\ ThreadFree /\ conn[c].st = "reading"
  /\ conn' = [conn EXCEPT ![c].st = "handling"]
  /\ thread' = c
  /\ UNCHANGED up

(* The thread is in a handler that can go on.                                         *)
In(c) == up /\ thread = c /\ conn[c].st \in {"handling", "called"}

(* HandlePost finds the path's handler, which asks the VerifyServer or StatusServer    *)
(* and has the thread wait until the call returns, with a reply or an error.           *)
HandlePost(c) ==
  /\ up /\ thread = c /\ conn[c].st = "handling"
  /\ conn' = [conn EXCEPT ![c].st = "calling"]
  /\ UNCHANGED <<thread, up>>

RpcReturns(c) ==
  /\ up /\ conn[c].st = "calling"
  /\ conn' = [conn EXCEPT ![c].st = "called"]
  /\ UNCHANGED <<thread, up>>

(* WriteResponse begins an async_write, which may give the socket some pieces at       *)
(* once; CheckDeadline then waits for deadline_, which may have expired long ago.      *)
WriteResponse(c, k) ==
  conn' = [conn EXCEPT ![c].st = "handled", ![c].timer = "waiting", ![c].sent = k,
                       ![c].write = IF k = Parts THEN "ok" ELSE "going"]

(* Mutant of Respond: CheckDeadline is not called.                                     *)
RespondNoDeadline(c) ==
  /\ In(c)
  /\ \E k \in 0..Parts :
       conn' = [conn EXCEPT ![c].st = "handled", ![c].sent = k,
                            ![c].write = IF k = Parts THEN "ok" ELSE "going"]
  /\ thread' = 0
  /\ UNCHANGED up

(* POST and GET are answered: by the handler of their path, which need not have called *)
(* anybody, or with 404 when there is none, as for every GET.                         *)
Respond(c) ==
  /\ In(c)
  /\ \E k \in 0..Parts : WriteResponse(c, k)
  /\ thread' = 0
  /\ UNCHANGED up

(* Of another method nothing is written; the connection waits for its deadline.        *)
IgnoreMethod(c) ==
  /\ In(c) /\ conn[c].st = "handling"
  /\ conn' = [conn EXCEPT ![c].st = "handled", ![c].timer = "waiting"]
  /\ thread' = 0
  /\ UNCHANGED up

(* A handler throws (a field of the JSON is no string): Start catches it, and nothing  *)
(* is left that holds the object.                                                     *)
HandlerThrows(c) ==
  /\ In(c)
  /\ conn' = [conn EXCEPT ![c].st = "dead"]
  /\ thread' = 0
  /\ UNCHANGED up

--------------------------------------------------------------------------------
(* The socket takes a piece while the client reads, and fails when it has left.        *)
SendPiece(c) ==
  /\ ThreadFree /\ conn[c].write = "going" /\ conn[c].client = "reads"
  /\ conn' = [conn EXCEPT ![c].sent = conn[c].sent + 1,
                          ![c].write = IF conn[c].sent + 1 = Parts THEN "ok" ELSE "going"]
  /\ UNCHANGED <<thread, up>>

SendFails(c) ==
  /\ ThreadFree /\ conn[c].write = "going" /\ conn[c].client = "left"
  /\ conn' = [conn EXCEPT ![c].write = "failed"]
  /\ UNCHANGED <<thread, up>>

(* Mutant of ResponseWritten: the connection is shut down while pieces are to come.    *)
ResponseWrittenEarly(c) ==
  /\ ThreadFree /\ conn[c].write # "none"
  /\ conn' = [conn EXCEPT ![c].write = "none",
                          ![c].timer = IF conn[c].timer = "waiting" THEN "cancelled" ELSE conn[c].timer]
  /\ UNCHANGED <<thread, up>>

(* async_write's handler, whatever the result: shut down and cancel deadline_, which   *)
(* is too late when it has expired and its handler is queued.                         *)
ResponseWritten(c) ==
  /\ ThreadFree /\ conn[c].write \in {"ok", "failed"}
  /\ conn' = [conn EXCEPT ![c].write = "none",
                          ![c].timer = IF conn[c].timer = "waiting" THEN "cancelled" ELSE conn[c].timer]
  /\ UNCHANGED <<thread, up>>

DeadlineExpires(c) ==
  /\ ThreadFree /\ conn[c].timer = "waiting" /\ conn[c].left = 0
  /\ conn' = [conn EXCEPT ![c].timer = "expired"]
  /\ UNCHANGED <<thread, up>>

(* deadline_'s handler closes the socket, under a write that is still going on; after  *)
(* a cancel it does nothing.                                                          *)
DeadlineHandler(c) ==
  /\ ThreadFree /\ conn[c].timer \in {"expired", "cancelled"}
  /\ conn' = [conn EXCEPT ![c].timer = "none",
                          ![c].write = IF conn[c].timer = "expired" /\ conn[c].write = "going"
                                       THEN "failed" ELSE conn[c].write]
  /\ UNCHANGED <<thread, up>>

--------------------------------------------------------------------------------
(* The clients, time, and SIGINT, whose handler stops the io_context: main returns and *)
(* every connection is destroyed where it is.                                         *)
ClientStops(c, how) ==
  /\ up /\ conn[c].st \notin {"accepting", "dead"} /\ conn[c].client = "reads"
  /\ conn' = [conn EXCEPT ![c].client = how]
  /\ UNCHANGED <<thread, up>>

TimePasses ==
  /\ up /\ \E c \in Conns : conn[c].left > 0 /\ ~Closed(c)
  /\ conn' = [c \in Conns |-> IF conn[c].left > 0 /\ ~Closed(c)
                              THEN [conn[c] EXCEPT !.left = @ - 1] ELSE conn[c]]
  /\ UNCHANGED <<thread, up>>

Signal == ThreadFree /\ up' = FALSE /\ UNCHANGED <<conn, thread>>

Handler(c) == HandlePost(c) \/ RpcReturns(c) \/ Respond(c) \/ IgnoreMethod(c) \/ HandlerThrows(c)
Socket(c) == SendPiece(c) \/ SendFails(c)
Event(c) == ResponseWritten(c) \/ DeadlineExpires(c) \/ DeadlineHandler(c)

HNext ==
  \/ \E error \in BOOLEAN : Accept(error)
  \/ \E c \in Conns :
       \/ ReadFails(c) \/ ReadRequest(c) \/ Handler(c) \/ Socket(c) \/ Event(c)
       \/ \E how \in {"stalls", "left"} : ClientStops(c, how)
  \/ TimePasses \/ Signal

HSpec == HInit /\ [][HNext]_hvars

(* Time passes, a handler's calls return (no gRPC call has a deadline: this is what    *)
(* the code relies on), and the io_context serves every event in the end, in turn.     *)
HLiveSpec ==
  /\ HSpec /\ WF_hvars(TimePasses)
  /\ \A c \in 1..MaxConns : WF_hvars(c \in Conns /\ Handler(c))
                            /\ SF_hvars(c \in Conns /\ Event(c))

--------------------------------------------------------------------------------
Connection ==
  [st : {"accepting", "reading", "handling", "calling", "called", "handled", "dead"},
   client : {"reads", "stalls", "left"}, left : 0..Deadline,
   timer : {"none", "waiting", "expired", "cancelled"},
   write : {"none", "going", "ok", "failed"}, sent : 0..Parts]
HTypeOK ==
  /\ conn \in Seq(Connection)
  /\ thread \in 0..MaxConns
  /\ up \in BOOLEAN

(* When a connection is closed whose response has been begun, and whose client reads to *)
(* the end, the response is whole, unless the object had become 60 s old, the time it  *)
(* waited to be accepted and for other handlers included.  SIGINT stops the io_context *)
(* (GateServer.cc:41) and cuts what is being written: no connection is Closed after    *)
(* that.  Which response it is, of the connection's own _response, is not its subject. *)
Begun(c) == conn[c].sent > 0
ResponseWhole ==
  \A c \in Conns :
    Closed(c) /\ Begun(c) /\ conn[c].client = "reads" /\ conn[c].left > 0
      => conn[c].sent = Parts

(* The inductive invariant: the object that waits to be accepted is the last one; what   *)
(* stands behind each result and each timer; nothing is written before the handler ends. *)
ConnOK(k) ==
  /\ k.st # "handled" => k.sent = 0 /\ k.timer = "none" /\ k.write = "none"
  /\ k.write = "going" => k.timer \in {"waiting", "expired"} /\ k.sent < Parts
  /\ k.write = "ok" => k.sent = Parts
  /\ k.write = "failed" => k.client = "left" \/ k.left = 0
  /\ k.timer = "expired" => k.left = 0
  /\ k.write = "none" /\ k.sent > 0 /\ k.client = "reads" /\ k.left > 0 => k.sent = Parts
HIInv ==
  /\ HTypeOK
  /\ Len(conn) \in 1..MaxConns /\ conn[Len(conn)].st = "accepting"
  /\ \A c \in Conns : ConnOK(conn[c])

(* HttpConnection.h:15: once its request has been handled no connection stays open,    *)
(* not that of a client which reads nothing, nor that of an unknown method.           *)
HandledCloses == \A c \in 1..MaxConns :
  (c \in Conns /\ conn[c].st = "handled") ~> (~up \/ (c \in Conns /\ Closed(c)))

================================================================================
