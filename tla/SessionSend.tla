------------------------------ MODULE SessionSend ------------------------------
(* The sending half of a CSession.  Send, called from LogicSystem's worker, and   *)
(* HandleWrite, called on the session's io_context thread, share _send_que under  *)
(* _send_mutex and keep at most one async_write outstanding; Close, called when   *)
(* a read fails, closes the socket under whatever write is outstanding.           *)
(*                                                                                *)
(* async_write sends a frame in several pieces (async_write_some): a frame is     *)
(* Pieces pieces, and the wire is the sequence of the pieces the peer receives,   *)
(* so that two overlapping writes would show as mixed frames.                     *)
EXTENDS Naturals, Sequences, FiniteSets, SequencesExt

CONSTANTS Msgs,     \* the SendNodes, each a distinct object
          Pieces    \* how many pieces a frame is written in

ASSUME PiecesAssumption == Pieces \in Nat \ {0}

VARIABLES send_que,   \* _send_que
          writes,     \* the outstanding async_writes and their unrun handlers
          peer,       \* what the peer has done to the connection
          b_close,    \* _b_close; the socket is closed
          sent,       \* history: messages given to Send, in order
          delivered,  \* history: messages whose frame is entirely on the wire
          wire,       \* history: the pieces written, in order
          failed      \* history: HandleWrite has run with an error

vars == <<send_que, writes, peer, b_close, sent, delivered, wire, failed>>

(* An async_write: its message, how many pieces are out, and the result its        *)
(* handler will be called with once it has one.                                    *)
Write == [msg: Msgs, out: 0..Pieces, ec: {"pending", "ok", "error"}]

Init ==
  /\ send_que = << >>
  /\ writes = {}
  /\ peer = "up"
  /\ b_close = FALSE
  /\ sent = << >>
  /\ delivered = << >>
  /\ wire = << >>
  /\ failed = FALSE

AsyncWrite(m) == [msg |-> m, out |-> 0, ec |-> "pending"]

--------------------------------------------------------------------------------
(* Mutants of Send: the test of pending dropped; the test made after the push.     *)
SendIgnoresPending(m) ==
  /\ m \notin ToSet(sent)
  /\ sent' = Append(sent, m)
  /\ send_que' = Append(send_que, m)
  /\ writes' = writes \cup {AsyncWrite(Head(send_que'))}
  /\ UNCHANGED <<peer, b_close, delivered, wire, failed>>

SendTestsAfterPush(m) ==
  /\ m \notin ToSet(sent)
  /\ sent' = Append(sent, m)
  /\ send_que' = Append(send_que, m)
  /\ writes' = IF send_que' # << >> THEN writes ELSE {AsyncWrite(m)}
  /\ UNCHANGED <<peer, b_close, delivered, wire, failed>>

(* Send: all under _send_mutex, the async_write included.  Nothing asks whether    *)
(* the session is closed.                                                          *)
Send(m) ==
  /\ m \notin ToSet(sent)
  /\ sent' = Append(sent, m)
  /\ send_que' = Append(send_que, m)
  /\ writes' = IF send_que # << >> THEN writes ELSE writes \cup {AsyncWrite(m)}
  /\ UNCHANGED <<peer, b_close, delivered, wire, failed>>

--------------------------------------------------------------------------------
(* The socket, as CSession uses it.                                                *)

WritePiece(w) ==
  /\ w \in writes
  /\ w.ec = "pending"
  /\ ~b_close
  /\ peer # "reset"
  /\ LET v == [msg |-> w.msg, out |-> w.out + 1,
               ec |-> IF w.out + 1 = Pieces THEN "ok" ELSE "pending"]
     IN /\ writes' = (writes \ {w}) \cup {v}
        /\ wire' = Append(wire, [msg |-> w.msg, piece |-> v.out])
        /\ delivered' = IF v.ec = "ok" THEN Append(delivered, w.msg) ELSE delivered
  /\ UNCHANGED <<send_que, peer, b_close, sent, failed>>

(* A write on a reset connection or on a closed socket, or one that Close aborts.  *)
WriteFails(w) ==
  /\ w \in writes
  /\ w.ec = "pending"
  /\ b_close \/ peer = "reset"
  /\ writes' = (writes \ {w}) \cup {[msg |-> w.msg, out |-> w.out, ec |-> "error"]}
  /\ UNCHANGED <<send_que, peer, b_close, sent, delivered, wire, failed>>

(* The peer ends its sending side ("fin", it may still receive) or resets.         *)
PeerLeaves ==
  /\ \/ peer = "up" /\ peer' \in {"fin", "reset"}
     \/ peer = "fin" /\ peer' = "reset"
  /\ UNCHANGED <<send_que, writes, b_close, sent, delivered, wire, failed>>

--------------------------------------------------------------------------------
(* The session's io_context thread.                                                *)

(* Mutant of HandleWriteOk: the next frame is taken from the back of the queue.    *)
HandleWriteTakesBack(w) ==
  /\ w \in writes
  /\ w.ec = "ok"
  /\ send_que' = Tail(send_que)
  /\ writes' = (writes \ {w}) \cup
               (IF send_que' = << >> THEN {} ELSE {AsyncWrite(Last(send_que'))})
  /\ UNCHANGED <<peer, b_close, sent, delivered, wire, failed>>

(* HandleWrite without an error: pop what was sent, start the next write.          *)
HandleWriteOk(w) ==
  /\ w \in writes
  /\ w.ec = "ok"
  /\ send_que' = Tail(send_que)
  /\ writes' = (writes \ {w}) \cup
               (IF send_que' = << >> THEN {} ELSE {AsyncWrite(Head(send_que'))})
  /\ UNCHANGED <<peer, b_close, sent, delivered, wire, failed>>

(* HandleWrite with an error returns at once: no pop, no Close, no further write.  *)
HandleWriteError(w) ==
  /\ w \in writes
  /\ w.ec = "error"
  /\ writes' = writes \ {w}
  /\ failed' = TRUE
  /\ UNCHANGED <<send_que, peer, b_close, sent, delivered, wire>>

(* HandleReadHead or HandleReadBody with an error: Close (its clean-up of the       *)
(* registries is in Presence).                                                     *)
Close ==
  /\ peer # "up"
  /\ ~b_close
  /\ b_close' = TRUE
  /\ UNCHANGED <<send_que, writes, peer, sent, delivered, wire, failed>>

--------------------------------------------------------------------------------
Socket == \E w \in writes : WritePiece(w) \/ WriteFails(w)
HandleWrite == \E w \in writes : HandleWriteOk(w) \/ HandleWriteError(w)

Next == (\E m \in Msgs : Send(m)) \/ Socket \/ PeerLeaves \/ HandleWrite \/ Close

Spec == Init /\ [][Next]_vars

(* The peer reads what it is sent as long as the connection lasts, and the          *)
(* io_context runs the handlers that are ready.                                    *)
LiveSpec == Spec /\ WF_vars(Socket) /\ WF_vars(HandleWrite) /\ WF_vars(Close)

--------------------------------------------------------------------------------
TypeOK ==
  /\ send_que \in Seq(Msgs)
  /\ writes \subseteq Write
  /\ peer \in {"up", "fin", "reset"}
  /\ b_close \in BOOLEAN
  /\ sent \in Seq(Msgs)
  /\ delivered \in Seq(Msgs)
  /\ wire \in Seq([msg: Msgs, piece: 1..Pieces])
  /\ failed \in BOOLEAN

(* The front of _send_que stays there until its write has completed, and that is   *)
(* the whole of the protocol by which Send (one thread) and HandleWrite (another)  *)
(* agree on who starts a write: there is never a second async_write on the socket. *)
OneWrite == \A v, w \in writes : v = w /\ send_que # << >> /\ w.msg = Head(send_que)

(* What the peer receives is a sequence of whole frames: the pieces of one frame    *)
(* are contiguous and complete before another begins, and a frame cut short by an   *)
(* error is the last thing on the wire.                                            *)
FramesIntact ==
  /\ wire # << >> => wire[1].piece = 1
  /\ \A i \in 1..(Len(wire) - 1) :
       IF wire[i].piece < Pieces
       THEN wire[i + 1] = [msg |-> wire[i].msg, piece |-> wire[i].piece + 1]
       ELSE wire[i + 1].piece = 1

(* A session stalls (a message in the queue and no write to push it out) only       *)
(* after its connection was lost.                                                  *)
StallsOnlyWhenBroken == send_que # << >> /\ writes = {} => failed /\ peer # "up"

(* Once a write has failed the session never sends again, however many messages     *)
(* LogicSystem still gives it.                                                     *)
SilentAfterError == [][failed => UNCHANGED <<wire, writes>>]_vars

(* The frames leave in the order of the calls of Send, each once: the send queue    *)
(* implements Fifo.                                                                *)
Queue == INSTANCE Fifo WITH put <- sent, got <- delivered
ImplementsFifo == Queue!Spec

(* The inductive invariant: which write is outstanding and how far it is, what the   *)
(* last piece on the wire is, where each message is, and what a failure implies.    *)
WriteInv ==
  /\ OneWrite
  /\ \A w \in writes : w.ec = "ok" <=> w.out = Pieces
  /\ send_que # << >> => writes # {} \/ failed
WireInv ==
  /\ FramesIntact
  /\ \A w \in writes :
       IF w.out = 0
       THEN wire # << >> => wire[Len(wire)].piece = Pieces
       ELSE wire # << >> /\ wire[Len(wire)] = [msg |-> w.msg, piece |-> w.out]
  /\ writes = {} /\ ~failed /\ wire # << >> => wire[Len(wire)].piece = Pieces
OrderInv ==
  sent = delivered \o IF \E w \in writes : w.ec = "ok" THEN Tail(send_que) ELSE send_que
FailInv ==
  /\ failed => writes = {} /\ send_que # << >>
  /\ b_close \/ failed \/ (\E w \in writes : w.ec = "error") => peer # "up"
IInv == TypeOK /\ WriteInv /\ WireInv /\ OrderInv /\ FailInv

================================================================================
