------------------------------ MODULE Session_proofs ------------------------------
(* Proofs about a CSession with its client.  First, for any messages and any number  *)
(* of pieces per frame, the safety of the sending side and its refinement of Fifo;   *)
(* then, for any base of a byte, any requests and any answers, that the handlers are  *)
(* given what the client framed and that the answers it gets are whole.              *)
EXTENDS Session, SequenceTheorems, TLAPS

--------------------------------------------------------------------------------
(* The sending side.                                                               *)

(* A new session has nothing queued and nothing outstanding.                       *)
LEMMA InitIInv == Init => IInv
<1> SUFFICES ASSUME Init PROVE IInv
  OBVIOUS
<1>1. TypeOK
  BY EmptySeq DEF Init, TypeOK
<1>2. WriteInv /\ WireInv /\ FailInv
  BY DEF Init, WriteInv, OneWrite, WireInv, FramesIntact, FailInv
<1>3. OrderInv
  <2>1. << >> = << >> \o << >>
    OBVIOUS
  <2> QED
    BY <2>1 DEF Init, OrderInv
<1> QED
  BY <1>1, <1>2, <1>3 DEF IInv

(* Send: a write is started only on an empty queue.                                *)
LEMMA SendStep == ASSUME IInv, NEW m \in Msgs, Send(m) PROVE IInv'
<1> USE DEF IInv
<1>1. TypeOK'
  BY PiecesAssumption DEF TypeOK, Send, AsyncWrite, Write
<1>2. send_que = << >> => writes = {} /\ Head(send_que') = m
  BY DEF TypeOK, WriteInv, OneWrite, Send
<1>3. send_que # << >> => Head(send_que') = Head(send_que)
  BY DEF TypeOK, Send
<1>4. send_que' # << >>
  BY DEF TypeOK, Send
<1>5. WriteInv'
  <2>1. CASE send_que = << >>
    <3>1. writes' = {AsyncWrite(m)}
      BY <1>2, <2>1 DEF Send
    <3> QED
      BY <1>2, <1>4, <2>1, <3>1, PiecesAssumption DEF WriteInv, OneWrite, AsyncWrite
  <2>2. CASE send_que # << >>
    <3>1. writes' = writes /\ failed' = failed
      BY <2>2 DEF Send
    <3> QED
      BY <1>3, <1>4, <2>2, <3>1 DEF WriteInv, OneWrite
  <2> QED
    BY <2>1, <2>2
<1>6. WireInv'
  BY <1>2 DEF WireInv, FramesIntact, FailInv, Send, AsyncWrite
<1>7. FailInv'
  BY <1>2, <1>4 DEF FailInv, Send, AsyncWrite
<1>8. OrderInv'
  <2> DEFINE rest == IF \E w \in writes : w.ec = "ok" THEN Tail(send_que) ELSE send_que
  <2>1. rest \in Seq(Msgs)
    BY DEF TypeOK, WriteInv, OneWrite
  <2>2. (IF \E w \in writes : w.ec = "ok" THEN Tail(send_que) ELSE send_que)' = rest \o <<m>>
    <3>1. CASE send_que = << >>
      <4>1. rest = << >>
        BY <1>2, <3>1
      <4>2. writes' = {AsyncWrite(m)} /\ send_que' = <<m>>
        BY <1>2, <3>1 DEF Send
      <4>3. ~ \E w \in writes' : w.ec = "ok"
        BY <4>2 DEF AsyncWrite
      <4>4. << >> \o <<m>> = <<m>>
        OBVIOUS
      <4> QED
        BY <4>1, <4>2, <4>3, <4>4
    <3>2. CASE send_que # << >>
      <4>1. writes' = writes /\ send_que' = send_que \o <<m>>
        BY <3>2, AppendIsConcat DEF Send, TypeOK
      <4>2. Tail(send_que \o <<m>>) = Tail(send_que) \o <<m>>
        BY <3>2 DEF TypeOK
      <4> QED
        BY <4>1, <4>2
    <3> QED
      BY <3>1, <3>2
  <2>3. sent' = (delivered \o rest) \o <<m>>
    BY AppendIsConcat DEF Send, TypeOK, OrderInv
  <2> HIDE DEF rest
  <2>4. (delivered \o rest) \o <<m>> = delivered \o (rest \o <<m>>)
    <3>1. delivered \in Seq(Msgs) /\ <<m>> \in Seq(Msgs)
      BY DEF TypeOK
    <3> QED
      BY <2>1, <3>1, ConcatAssociative
  <2>5. delivered' = delivered
    BY DEF Send
  <2> QED
    BY <2>2, <2>3, <2>4, <2>5 DEF OrderInv
<1> QED
  BY <1>1, <1>5, <1>6, <1>7, <1>8

(* A piece on the wire: it continues the frame the wire ends with, or begins one    *)
(* after a whole frame.                                                            *)
LEMMA WritePieceStep == ASSUME IInv, NEW w \in writes, WritePiece(w) PROVE IInv'
<1> USE DEF IInv
<1> DEFINE v == [msg |-> w.msg, out |-> w.out + 1,
                 ec |-> IF w.out + 1 = Pieces THEN "ok" ELSE "pending"]
           p == [msg |-> w.msg, piece |-> v.out]
<1>1. w \in Write /\ w.ec = "pending" /\ writes = {w} /\ send_que # << >> /\ w.msg = Head(send_que)
  BY DEF TypeOK, WriteInv, OneWrite, WritePiece
<1>2. w.out \in 0..Pieces /\ w.out # Pieces /\ w.out + 1 \in 1..Pieces
  BY <1>1, PiecesAssumption DEF Write, WriteInv
<1>3. /\ v.msg = w.msg /\ v.out = w.out + 1
      /\ v.ec = IF w.out + 1 = Pieces THEN "ok" ELSE "pending"
  OBVIOUS
<1>4. v \in Write /\ p \in [msg: Msgs, piece: 1..Pieces]
  BY <1>1, <1>2, <1>3 DEF Write
<1>5. writes' = {v} /\ wire' = Append(wire, p)
      /\ UNCHANGED <<send_que, peer, b_close, sent, failed>>
      /\ delivered' = IF v.ec = "ok" THEN Append(delivered, w.msg) ELSE delivered
  BY <1>1 DEF WritePiece
<1>6. TypeOK'
  BY <1>1, <1>3, <1>4, <1>5 DEF TypeOK, Write
<1>7. WriteInv'
  BY <1>1, <1>2, <1>3, <1>5 DEF WriteInv, OneWrite
<1>8. WireInv'
  <2>1. wire \in Seq([msg: Msgs, piece: 1..Pieces])
    BY DEF TypeOK
  <2>2. Len(wire') = Len(wire) + 1 /\ wire'[Len(wire) + 1] = p
        /\ \A i \in 1..Len(wire) : wire'[i] = wire[i]
    BY <1>4, <1>5, <2>1, AppendProperties
  <2>3. Len(wire) \in Nat /\ (wire # << >> => Len(wire) > 0) /\ wire' # << >>
    BY <1>4, <1>5, <2>1
  <2>4. wire # << >> => wire'[1] = wire[1]
    BY <2>2, <2>3
  <2>5. wire = << >> => wire'[1].piece = 1
    <3> SUFFICES ASSUME wire = << >> PROVE wire'[1].piece = 1
      OBVIOUS
    <3>1. w.out = 0
      BY <1>1 DEF WireInv
    <3> QED
      BY <1>3, <2>2, <3>1
  <2>6. wire # << >> => IF wire[Len(wire)].piece < Pieces
                        THEN p = [msg |-> wire[Len(wire)].msg, piece |-> wire[Len(wire)].piece + 1]
                        ELSE p.piece = 1
    <3> SUFFICES ASSUME wire # << >>
                 PROVE  IF wire[Len(wire)].piece < Pieces
                        THEN p = [msg |-> wire[Len(wire)].msg, piece |-> wire[Len(wire)].piece + 1]
                        ELSE p.piece = 1
      OBVIOUS
    <3>1. CASE w.out = 0
      BY <1>1, <1>3, <3>1, PiecesAssumption DEF WireInv
    <3>2. CASE w.out # 0
      BY <1>1, <1>2, <1>3, <3>2, PiecesAssumption DEF WireInv
    <3> QED
      BY <3>1, <3>2
  <2>7. FramesIntact'
    <3>1. ASSUME NEW i \in 1..(Len(wire') - 1)
          PROVE  IF wire'[i].piece < Pieces
                 THEN wire'[i + 1] = [msg |-> wire'[i].msg, piece |-> wire'[i].piece + 1]
                 ELSE wire'[i + 1].piece = 1
      <4>1. CASE i = Len(wire)
        BY <2>2, <2>3, <2>6, <4>1
      <4>2. CASE i # Len(wire)
        <5>1. i \in 1..(Len(wire) - 1) /\ i \in 1..Len(wire) /\ i + 1 \in 1..Len(wire)
          BY <2>2, <2>3, <4>2
        <5>2. wire'[i] = wire[i] /\ wire'[i + 1] = wire[i + 1]
          BY <2>2, <5>1
        <5> QED
          BY <5>1, <5>2 DEF WireInv, FramesIntact
      <4> QED
        BY <4>1, <4>2
    <3> QED
      BY <2>3, <2>4, <2>5, <3>1 DEF FramesIntact, WireInv
  <2>8. wire'[Len(wire')] = [msg |-> v.msg, piece |-> v.out]
    BY <1>3, <2>2
  <2>9. \A x \in writes' : x = v /\ x.out # 0
    BY <1>2, <1>3, <1>5
  <2>10. writes' # {}
    BY <1>5
  <2> HIDE DEF v
  <2> QED
    BY <2>3, <2>7, <2>8, <2>9, <2>10 DEF WireInv
<1>9. FailInv'
  BY <1>1, <1>3, <1>5 DEF FailInv
<1>10. OrderInv'
  <2>1. sent = delivered \o send_que
    BY <1>1 DEF OrderInv
  <2>2. CASE v.ec = "ok"
    <3>1. send_que = <<w.msg>> \o Tail(send_que) /\ Tail(send_que) \in Seq(Msgs) /\ w.msg \in Msgs
      BY <1>1 DEF TypeOK, Write
    <3>2. delivered' = delivered \o <<w.msg>>
      BY <1>5, <2>2, <3>1, AppendIsConcat DEF TypeOK
    <3>3. delivered \o (<<w.msg>> \o Tail(send_que)) = (delivered \o <<w.msg>>) \o Tail(send_que)
      BY <3>1 DEF TypeOK
    <3>4. sent' = delivered' \o Tail(send_que')
      BY <1>5, <2>1, <3>1, <3>2, <3>3
    <3> QED
      BY <1>5, <2>2, <3>4 DEF OrderInv
  <2>3. CASE v.ec # "ok"
    BY <1>5, <2>1, <2>3 DEF OrderInv
  <2> QED
    BY <2>2, <2>3
<1> QED
  BY <1>6, <1>7, <1>8, <1>9, <1>10

(* A failed piece changes nothing but the write's result.                          *)
LEMMA WriteFailsStep == ASSUME IInv, NEW w \in writes, WriteFails(w) PROVE IInv'
<1> USE DEF IInv
<1> DEFINE v == [msg |-> w.msg, out |-> w.out, ec |-> "error"]
<1>1. w \in Write /\ w.ec = "pending" /\ writes = {w} /\ send_que # << >> /\ w.msg = Head(send_que)
  BY DEF TypeOK, WriteInv, OneWrite, WriteFails
<1>2. writes' = {v} /\ UNCHANGED <<send_que, peer, b_close, sent, delivered, wire, failed>>
  BY <1>1 DEF WriteFails
<1>3. v.msg = w.msg /\ v.out = w.out /\ v.ec = "error" /\ v \in Write
  BY <1>1 DEF Write
<1>4. b_close \/ peer = "reset"
  BY DEF WriteFails
<1> HIDE DEF v
<1>5. TypeOK'
  BY <1>2, <1>3 DEF TypeOK
<1>6. WriteInv'
  BY <1>1, <1>2, <1>3 DEF WriteInv, OneWrite
<1>7. WireInv'
  BY <1>1, <1>2, <1>3 DEF WireInv, FramesIntact
<1>8. FailInv'
  BY <1>1, <1>2, <1>3, <1>4 DEF FailInv
<1>9. OrderInv'
  <2>1. (~ \E x \in writes : x.ec = "ok") /\ (~ \E x \in writes' : x.ec = "ok")
    BY <1>1, <1>2, <1>3
  <2> QED
    BY <1>2, <2>1 DEF OrderInv
<1> QED
  BY <1>5, <1>6, <1>7, <1>8, <1>9

(* HandleWrite without an error: the message whose frame is out is popped and the    *)
(* next one, if any, becomes the one outstanding write.                             *)
LEMMA HandleWriteOkStep == ASSUME IInv, NEW w \in writes, HandleWriteOk(w) PROVE IInv'
<1> USE DEF IInv
<1>1. w \in Write /\ w.ec = "ok" /\ writes = {w} /\ send_que # << >>
  BY DEF TypeOK, WriteInv, OneWrite, HandleWriteOk
<1>2. w.out = Pieces /\ w.out # 0
  BY <1>1, PiecesAssumption DEF WriteInv
<1>3. /\ send_que' = Tail(send_que) /\ Tail(send_que) \in Seq(Msgs)
      /\ UNCHANGED <<peer, b_close, sent, delivered, wire, failed>>
      /\ writes' = IF send_que' = << >> THEN {} ELSE {AsyncWrite(Head(send_que'))}
  BY <1>1 DEF HandleWriteOk, TypeOK
<1>4. send_que' # << >> => Head(send_que') \in Msgs
  BY <1>3, HeadTailProperties
<1>5. ~failed
  BY <1>1 DEF FailInv
<1>6. \A x \in writes' : /\ send_que' # << >> /\ x.msg = Head(send_que')
                         /\ x.out = 0 /\ x.ec = "pending" /\ x \in Write
  BY <1>3, <1>4, PiecesAssumption DEF AsyncWrite, Write
<1>7. TypeOK'
  BY <1>3, <1>6 DEF TypeOK
<1>8. WriteInv'
  BY <1>3, <1>6, PiecesAssumption DEF WriteInv, OneWrite
<1>9. WireInv'
  <2>1. wire # << >> /\ wire[Len(wire)].piece = Pieces
    BY <1>1, <1>2 DEF WireInv
  <2> QED
    BY <1>3, <1>6, <2>1 DEF WireInv, FramesIntact
<1>10. FailInv'
  BY <1>3, <1>5, <1>6 DEF FailInv
<1>11. OrderInv'
  <2>1. ~ \E x \in writes' : x.ec = "ok"
    BY <1>6
  <2> QED
    BY <1>1, <1>3, <2>1 DEF OrderInv
<1> QED
  BY <1>7, <1>8, <1>9, <1>10, <1>11

(* HandleWrite with an error leaves the queue as it is and no write outstanding.      *)
LEMMA HandleWriteErrorStep == ASSUME IInv, NEW w \in writes, HandleWriteError(w) PROVE IInv'
<1> USE DEF IInv
<1>1. w.ec = "error" /\ writes = {w} /\ writes' = {} /\ send_que # << >> /\ failed'
      /\ UNCHANGED <<send_que, peer, b_close, sent, delivered, wire>>
  BY DEF TypeOK, WriteInv, OneWrite, HandleWriteError
<1>2. TypeOK'
  BY <1>1 DEF TypeOK, HandleWriteError
<1>3. WriteInv' /\ WireInv' /\ FailInv'
  BY <1>1 DEF WriteInv, OneWrite, WireInv, FramesIntact, FailInv
<1>4. OrderInv'
  BY <1>1 DEF OrderInv
<1> QED
  BY <1>2, <1>3, <1>4

(* Every step of the sending side keeps the invariant.                                *)
LEMMA StepIInv == ASSUME IInv, [Next]_vars PROVE IInv'
<1>1. CASE PeerLeaves \/ Close
  <2> USE DEF IInv
  <2>1. UNCHANGED <<send_que, writes, sent, delivered, wire, failed>>
    BY <1>1 DEF PeerLeaves, Close
  <2>2. TypeOK'
    BY <1>1 DEF PeerLeaves, Close, TypeOK
  <2>3. WriteInv' /\ WireInv' /\ OrderInv'
    BY <2>1 DEF WriteInv, OneWrite, WireInv, FramesIntact, OrderInv
  <2>4. FailInv'
    BY <1>1, <2>1 DEF FailInv, PeerLeaves, Close
  <2> QED
    BY <2>2, <2>3, <2>4
<1>2. CASE UNCHANGED vars
  BY <1>2 DEF vars, IInv, TypeOK, WriteInv, OneWrite, WireInv, FramesIntact, OrderInv, FailInv
<1> QED
  BY <1>1, <1>2, SendStep, WritePieceStep, WriteFailsStep, HandleWriteOkStep,
     HandleWriteErrorStep DEF Next, Socket, HandleWrite

(* The inductive invariant of a session's sending side: Send on LogicSystem's worker, *)
(* HandleWrite and Close on the io_context thread, in any interleaving.              *)
THEOREM Invariant == Spec => []IInv
  BY InitIInv, StepIInv, PTL DEF Spec

(* There is never a second async_write on a session's socket.                        *)
THEOREM OneWriteCorrect == Spec => []OneWrite
  BY Invariant, PTL DEF IInv, WriteInv

(* What the peer receives is whole frames, never mixed ones.                         *)
THEOREM FramingCorrect == Spec => []FramesIntact
  BY Invariant, PTL DEF IInv, WireInv

(* Messages wait in the queue with no write to push them out only on a lost          *)
(* connection.                                                                      *)
THEOREM StallCorrect == Spec => []StallsOnlyWhenBroken
<1>1. IInv => StallsOnlyWhenBroken
  BY DEF IInv, WriteInv, FailInv, StallsOnlyWhenBroken
<1> QED
  BY Invariant, <1>1, PTL

(* A session whose write failed never sends again.                                   *)
THEOREM SilenceCorrect == Spec => SilentAfterError
<1>1. IInv /\ [Next]_vars => [failed => UNCHANGED <<wire, writes>>]_vars
  <2> SUFFICES ASSUME IInv, [Next]_vars, failed PROVE UNCHANGED <<wire, writes>>
    OBVIOUS
  <2>1. writes = {} /\ send_que # << >>
    BY DEF IInv, FailInv
  <2> QED
    BY <2>1 DEF Next, Send, Socket, HandleWrite, PeerLeaves, Close, vars
<1> QED
  BY Invariant, <1>1, PTL DEF Spec, SilentAfterError

(* The send queue implements the abstract FIFO: Send is a Put, the last piece of a    *)
(* frame a Get, every other step a stutter.                                         *)
THEOREM SendRefinesFifo == Spec => Queue!Spec
<1>1. Init => Queue!Init
  BY DEF Init, Queue!Init
<1>2. IInv /\ [Next]_vars => [Queue!Next]_<<sent, delivered>>
  <2> SUFFICES ASSUME IInv, [Next]_vars PROVE [Queue!Next]_<<sent, delivered>>
    OBVIOUS
  <2>1. ASSUME NEW m \in Msgs, Send(m) PROVE Queue!Put
    BY <2>1 DEF Send, Queue!Put
  <2>2. ASSUME NEW w \in writes, WritePiece(w), delivered' # delivered PROVE Queue!Get
    <3>1. w.ec = "pending" /\ writes = {w} /\ send_que # << >> /\ w.msg = Head(send_que)
      BY <2>2 DEF IInv, WriteInv, OneWrite, WritePiece
    <3>2. sent = delivered \o send_que /\ delivered \in Seq(Msgs) /\ send_que \in Seq(Msgs)
      BY <3>1 DEF IInv, OrderInv, TypeOK
    <3>3. Len(delivered) < Len(sent) /\ sent[Len(delivered) + 1] = w.msg
      BY <3>1, <3>2
    <3>4. delivered' = Append(delivered, w.msg) /\ sent' = sent
      BY <2>2 DEF WritePiece
    <3> QED
      BY <3>3, <3>4 DEF Queue!Get
  <2>3. ASSUME NEW w \in writes, WriteFails(w) \/ HandleWriteOk(w) \/ HandleWriteError(w)
        PROVE  UNCHANGED <<sent, delivered>>
    BY <2>3 DEF WriteFails, HandleWriteOk, HandleWriteError
  <2>4. ASSUME NEW w \in writes, WritePiece(w) PROVE UNCHANGED sent
    BY <2>4 DEF WritePiece
  <2> QED
    BY <2>1, <2>2, <2>3, <2>4
    DEF Next, Socket, HandleWrite, PeerLeaves, Close, vars, Queue!Next
<1> QED
  BY <1>1, <1>2, Invariant, PTL DEF Spec, Queue!Spec

--------------------------------------------------------------------------------
(* Numbers and bytes.                                                              *)

(* Quotient and remainder are the only way to write a number in a base.              *)
LEMMA DivMod ==
  ASSUME NEW b \in Nat \ {0}, NEW q \in Int, NEW r \in 0..(b - 1)
  PROVE  (b * q + r) % b = r /\ (b * q + r) \div b = q
<1> DEFINE x == b * q + r
           p == x \div b
           s == x % b
<1>1. x \in Int /\ p \in Int /\ s \in 0..(b - 1) /\ x = b * p + s
  OBVIOUS
<1>2. b * q + r = b * p + s
  BY <1>1
<1> HIDE DEF p, s, x
<1>3. ~(q < p)
  <2>1. q < p => b * (q + 1) <= b * p
    BY <1>1
  <2> QED
    BY <1>1, <1>2, <2>1
<1>4. ~(p < q)
  <2>1. p < q => b * (p + 1) <= b * q
    BY <1>1
  <2> QED
    BY <1>1, <1>2, <2>1
<1>5. p = q /\ s = r
  BY <1>1, <1>2, <1>3, <1>4
<1> QED
  BY <1>5 DEF p, s, x

(* What \div and % return.                                                             *)
LEMMA DivFacts ==
  ASSUME NEW b \in Nat \ {0}, NEW x \in Int
  PROVE  x \div b \in Int /\ x % b \in 0..(b - 1) /\ x = b * (x \div b) + (x % b)
  OBVIOUS

(* A word is two bytes, and a short half of its values.                                *)
LEMMA WordFacts ==
  /\ Base \in Nat /\ Base >= 2 /\ Word \in Nat /\ Word = Base * Base
  /\ SMax \in Nat /\ Word = 2 * SMax + 2
<1>1. Base \in Nat /\ Base >= 2 /\ Word % 2 = 0
  BY FrameAssumption
<1>2. Word \in Nat /\ Word = Base * Base /\ Word >= 2
  <2>1. Base * Base >= 2 * Base
    BY <1>1
  <2> QED BY <1>1, <2>1 DEF Word
<1> QED
  BY <1>1, <1>2 DEF SMax

(* Storing the short that two bytes make gives the two bytes back.                     *)
LEMMA ShortStores ==
  ASSUME NEW h \in Byte, NEW l \in Byte
  PROVE  /\ Short(h + Base * l) \in Int
         /\ Store(Short(h + Base * l)) = <<h, l>>
         /\ h + Base * l \in 0..(Word - 1)
<1> DEFINE x == h + Base * l
<1>1. h \in Nat /\ l \in Nat /\ h <= Base - 1 /\ l <= Base - 1 /\ Base \in Nat /\ Base >= 2
  BY WordFacts DEF Byte
<1>2. x \in 0..(Word - 1)
  <2>1. Base * l <= Base * (Base - 1)
    BY <1>1
  <2> QED BY <1>1, <2>1, WordFacts
<1>3. x % Word = x
  BY <1>2, WordFacts
<1>4. x % Base = h /\ x \div Base = l
  BY <1>1, DivMod
<1> DEFINE y == Short(x)
<1>5. y = x \/ y = x - Word
  BY <1>3 DEF Short
<1>6. y \in Int /\ y % Word = x
  BY <1>2, <1>5, WordFacts
<1>7. y % Base = h
  <2>1. CASE y = x
    BY <1>4, <2>1
  <2>2. CASE y = x - Word
    <3>1. y = Base * (l - Base) + h
      BY <1>1, <2>2, WordFacts
    <3> HIDE DEF y
    <3> QED BY <1>1, <3>1, DivMod
  <2> QED BY <1>5, <2>1, <2>2
<1> QED
  BY <1>2, <1>4, <1>6, <1>7 DEF Store

(* Two elements, reversed.                                                              *)
LEMMA Reverses ==
  ASSUME NEW h, NEW l
  PROVE  Reverse(<<h, l>>) = <<l, h>>
  BY DEF Reverse

(* The two bytes of a word in network order.                                           *)
LEMMA BigEndianBytes ==
  ASSUME NEW x \in 0..(Word - 1)
  PROVE  /\ BigEndian(x) \in Seq(Byte) /\ Len(BigEndian(x)) = 2
         /\ x \div Base \in Byte /\ x % Base \in Byte
         /\ x = (x % Base) + Base * (x \div Base)
<1>1. Base \in Nat \ {0} /\ x \in Nat
  BY WordFacts
<1>2. x \div Base \in Int /\ x % Base \in 0..(Base - 1) /\ x = Base * (x \div Base) + (x % Base)
  BY <1>1, DivFacts
<1> DEFINE p == x \div Base
           s == x % Base
<1>3. p \in Int /\ s \in 0..(Base - 1) /\ x = Base * p + s
  BY <1>2
<1> HIDE DEF p, s
<1>4. ~(p < 0)
  <2>1. p < 0 => Base * (p + 1) <= 0
    BY <1>1, <1>3
  <2> QED BY <1>1, <1>3, <2>1
<1>5. ~(p >= Base)
  <2>1. p >= Base => Base * p >= Base * Base
    BY <1>1, <1>3
  <2>2. x < Base * Base
    BY WordFacts
  <2> QED BY <1>1, <1>3, <2>1, <2>2
<1>6. p \in Byte /\ s \in Byte
  BY <1>1, <1>3, <1>4, <1>5 DEF Byte
<1>7. BigEndian(x) = <<p, s>> /\ x = s + Base * p
  <2>1. x = s + Base * p
    BY <1>1, <1>3
  <2>2. BigEndian(x) = <<p, s>>
    BY DEF p, s, BigEndian
  <2> QED BY <2>1, <2>2
<1>8. <<p, s>> \in Seq(Byte) /\ Len(<<p, s>>) = 2
  BY <1>6
<1>9. x \div Base = p /\ x % Base = s
  BY DEF p, s
<1> QED
  BY <1>6, <1>7, <1>8, <1>9

(* ntohs of what the client sent: the short of the number it meant.                    *)
LEMMA SwappedLoads ==
  ASSUME NEW x \in 0..(Word - 1)
  PROVE  Swapped(Load(BigEndian(x))) = Short(x)
<1> DEFINE h == x \div Base
           l == x % Base
<1>1. h \in Byte /\ l \in Byte /\ x = l + Base * h
  BY BigEndianBytes
<1>2. BigEndian(x) = <<h, l>>
  BY DEF BigEndian
<1> HIDE DEF h, l
<1>3. Load(<<h, l>>) = Short(h + Base * l)
  BY DEF Load
<1>4. Swapped(Short(h + Base * l)) = Load(<<l, h>>)
  BY <1>1, ShortStores, Reverses DEF Swapped
<1>5. Load(<<l, h>>) = Short(l + Base * h)
  BY DEF Load
<1> QED
  BY <1>1, <1>2, <1>3, <1>4, <1>5

(* htons of a length that is not negative: its bytes in network order.                 *)
LEMMA SwappedStores ==
  ASSUME NEW v \in 0..SMax
  PROVE  Store(Swapped(v)) = BigEndian(v)
<1> DEFINE h == v \div Base
           l == v % Base
<1>1. v \in 0..(Word - 1) /\ v % Word = v
  BY WordFacts
<1>2. h \in Byte /\ l \in Byte /\ v = l + Base * h
  BY <1>1, BigEndianBytes
<1>3. Store(v) = <<l, h>>
  BY <1>1 DEF Store
<1> HIDE DEF h, l
<1>4. Swapped(v) = Short(h + Base * l)
  <2>1. Swapped(v) = Load(<<h, l>>)
    BY <1>3, Reverses DEF Swapped
  <2> QED BY <2>1 DEF Load
<1>5. Store(Swapped(v)) = <<h, l>>
  BY <1>2, <1>4, ShortStores
<1> QED
  BY <1>5 DEF h, l, BigEndian

(* A short is itself, and never greater than what it is made from.                     *)
LEMMA ShortFacts ==
  ASSUME NEW x \in Nat
  PROVE  /\ Short(x) \in Int /\ Short(x) <= x /\ Short(x) <= SMax
         /\ Short(x) < 0 => x > SMax
         /\ x <= SMax => Short(x) = x
         /\ x < Word /\ Short(x) >= 0 => x <= SMax /\ Short(x) = x
<1>1. x % Word \in 0..(Word - 1) /\ x % Word <= x /\ (x < Word => x % Word = x)
  BY WordFacts
<1> QED
  BY <1>1, WordFacts DEF Short

(* The bytes of a frame.                                                              *)
LEMMA FrameBytes ==
  ASSUME NEW n \in Nat, NEW q \in Requests
  PROVE  /\ q.id \in 0..SMax /\ q.len \in Nat /\ q.len \in 0..(Word - 1)
         /\ Body(n, q.len) \in Seq(Byte) /\ Len(Body(n, q.len)) = q.len
         /\ Frame(n, q) \in Seq(Byte) /\ Len(Frame(n, q)) = HEAD_TOTAL_LEN + q.len
         /\ Frame(n, q)[1] = BigEndian(q.id)[1] /\ Frame(n, q)[2] = BigEndian(q.id)[2]
         /\ Frame(n, q)[3] = BigEndian(q.len)[1] /\ Frame(n, q)[4] = BigEndian(q.len)[2]
         /\ \A i \in 1..q.len : Frame(n, q)[HEAD_TOTAL_LEN + i] = n % Base
<1>1. q.id \in 0..SMax /\ q.len \in Nat /\ q.len \in 0..(Word - 1) /\ q.id \in 0..(Word - 1)
  BY FrameAssumption, WordFacts
<1>2. Body(n, q.len) \in Seq(Byte) /\ Len(Body(n, q.len)) = q.len
      /\ \A i \in 1..q.len : Body(n, q.len)[i] = n % Base
  BY <1>1, WordFacts DEF Body, Byte
<1>3. /\ BigEndian(q.id) \in Seq(Byte) /\ Len(BigEndian(q.id)) = 2
      /\ BigEndian(q.len) \in Seq(Byte) /\ Len(BigEndian(q.len)) = 2
  BY <1>1, BigEndianBytes
<1> HIDE DEF Byte
<1> DEFINE a == BigEndian(q.id)
           b == BigEndian(q.len)
           c == Body(n, q.len)
<1>4. Frame(n, q) = (a \o b) \o c
  BY DEF Frame
<1> HIDE DEF a, b, c
<1>5. /\ a \in Seq(Byte) /\ b \in Seq(Byte) /\ c \in Seq(Byte)
      /\ Len(a) = 2 /\ Len(b) = 2 /\ Len(c) = q.len
      /\ \A i \in 1..q.len : c[i] = n % Base
  BY <1>2, <1>3 DEF a, b, c
<1>6. /\ a \o b \in Seq(Byte) /\ Len(a \o b) = 4
      /\ (a \o b)[1] = a[1] /\ (a \o b)[2] = a[2] /\ (a \o b)[3] = b[1] /\ (a \o b)[4] = b[2]
  <2>1. /\ a \o b \in Seq(Byte) /\ Len(a \o b) = Len(a) + Len(b)
        /\ \A i \in 1..(Len(a) + Len(b)) :
             (a \o b)[i] = IF i <= Len(a) THEN a[i] ELSE b[i - Len(a)]
    <3>1. a \in Seq(Byte) /\ b \in Seq(Byte)
      BY <1>5
    <3> QED BY <3>1, ConcatProperties, Zenon
  <2>2. \A i \in 1..4 : (a \o b)[i] = IF i <= 2 THEN a[i] ELSE b[i - 2]
    BY <1>5, <2>1
  <2> QED BY <1>5, <2>1, <2>2
<1>7. /\ Frame(n, q) \in Seq(Byte) /\ Len(Frame(n, q)) = 4 + q.len
      /\ \A i \in 1..4 : Frame(n, q)[i] = (a \o b)[i]
      /\ \A i \in 1..q.len : Frame(n, q)[4 + i] = c[i]
  BY <1>1, <1>4, <1>5, <1>6
<1>8. /\ Frame(n, q)[1] = a[1] /\ Frame(n, q)[2] = a[2]
      /\ Frame(n, q)[3] = b[1] /\ Frame(n, q)[4] = b[2]
  BY <1>6, <1>7
<1> QED
  BY <1>1, <1>2, <1>5, <1>7, <1>8 DEF HEAD_TOTAL_LEN, a, b, c

(* Appending to a sequence.                                                           *)
LEMMA Grown ==
  ASSUME NEW S, NEW s \in Seq(S), NEW e \in S, NEW t, t = Append(s, e)
  PROVE  /\ t \in Seq(S) /\ Len(t) = Len(s) + 1 /\ DOMAIN t = 1..(Len(s) + 1)
         /\ t[Len(s) + 1] = e /\ \A n \in 1..Len(s) : t[n] = s[n]
  BY AppendProperties, LenProperties

(* Frames are as long as they say.                                                     *)
LEMMA FrameLengths ==
  /\ \A q \in Requests : FrameLen(q) \in Nat /\ FrameLen(q) >= 4 /\ q.len \in Nat
  /\ \A n \in Nat : \A q \in Requests :
       Frame(n, q) \in Seq(Byte) /\ Len(Frame(n, q)) = FrameLen(q)
<1>1. ASSUME NEW q \in Requests
      PROVE  FrameLen(q) \in Nat /\ FrameLen(q) >= 4 /\ q.len \in Nat
  <2>1. q.len \in Nat
    BY WordFacts, FrameAssumption
  <2> QED BY <2>1 DEF FrameLen, HEAD_TOTAL_LEN
<1>2. ASSUME NEW n \in Nat, NEW q \in Requests
      PROVE  Frame(n, q) \in Seq(Byte) /\ Len(Frame(n, q)) = FrameLen(q)
  BY FrameBytes DEF FrameLen
<1> QED BY <1>1, <1>2

(* The client sends a frame, or the beginning of its last one.                         *)
LEMMA Extend ==
  ASSUME NEW fr \in Seq(Requests), NEW st \in Seq(Byte), NEW at \in Seq(Int),
         NEW q \in Requests, NEW k \in 1..FrameLen(q)
  PROVE  Placed(at, fr, st) /\ Len(st) = at[Len(fr) + 1]
         => \E new \in Seq(Int) :
              /\ new[Len(fr) + 2] = Len(st) + FrameLen(q)
              /\ \A n \in 1..(Len(fr) + 1) : new[n] = at[n]
              /\ Placed(new, Append(fr, q), st \o SubSeq(Frame(Len(fr) + 1, q), 1, k))
<1>h. HAVE Placed(at, fr, st) /\ Len(st) = at[Len(fr) + 1]
<1> DEFINE N == Len(fr)
           M == Len(st)
           fr2 == Append(fr, q)
           st2 == st \o SubSeq(Frame(N + 1, q), 1, k)
           new == Append(at, M + FrameLen(q))
<1>0. /\ N = Len(fr) /\ M = Len(st) /\ Placed(at, fr, st) /\ M = at[N + 1]
      /\ fr2 = Append(fr, q)
      /\ st2 = st \o SubSeq(Frame(N + 1, q), 1, k)
      /\ new = Append(at, M + FrameLen(q))
  BY <1>h
<1> HIDE DEF N, M, fr2, st2, new
<1>1. N \in Nat /\ M \in Nat
  BY <1>0, LenProperties
<1>2. /\ fr2 \in Seq(Requests) /\ Len(fr2) = N + 1
      /\ fr2[N + 1] = q /\ \A n \in 1..N : fr2[n] = fr[n]
  BY <1>0, Grown
<1>3. /\ FrameLen(q) \in Nat /\ FrameLen(q) >= 4
      /\ \A n \in 1..N : FrameLen(fr[n]) \in Nat /\ FrameLen(fr[n]) >= 4
  BY <1>0, FrameLengths, ElementOfSeq
<1>4. Frame(N + 1, q) \in Seq(Byte) /\ Len(Frame(N + 1, q)) = FrameLen(q)
  <2>1. N + 1 \in Nat
    BY <1>1
  <2> QED BY <2>1, FrameLengths
<1> DEFINE part == SubSeq(Frame(N + 1, q), 1, k)
<1>5. k \in Nat /\ part \in Seq(Byte) /\ Len(part) = k
      /\ \A i \in 1..k : part[i] = Frame(N + 1, q)[i]
  <2>1. k \in Nat /\ k <= FrameLen(q)
    BY <1>3
  <2>2. \A i \in 1..k : Frame(N + 1, q)[i] \in Byte
    BY <1>3, <1>4, <2>1, ElementOfSeq
  <2> QED BY <2>1, <2>2, SubSeqProperties
<1> HIDE DEF part
<1>6. /\ st2 \in Seq(Byte) /\ Len(st2) = M + k
      /\ \A j \in 1..(M + k) : st2[j] = IF j <= M THEN st[j] ELSE part[j - M]
  <2>1. st2 = st \o part
    BY <1>0 DEF part
  <2>2. /\ st2 \in Seq(Byte) /\ Len(st2) = Len(st) + Len(part)
        /\ \A j \in 1..(Len(st) + Len(part)) :
             st2[j] = IF j <= Len(st) THEN st[j] ELSE part[j - Len(st)]
    BY <1>5, <2>1, ConcatProperties, Zenon
  <2> QED
    BY <1>0, <1>5, <2>2
<1>7. /\ Len(at) = N + 1
      /\ \A n \in 1..N : at[n + 1] = at[n] + FrameLen(fr[n]) /\ at[n + 1] <= M
      /\ \A n \in 1..N : \A i \in 1..FrameLen(fr[n]) :
           at[n] + i \in 1..M => st[at[n] + i] = Frame(n, fr[n])[i]
  BY <1>0 DEF Placed
<1>8. \A n \in 1..(N + 1) : at[n] \in Int
  BY <1>7, ElementOfSeq
<1>9. /\ new \in Seq(Int) /\ Len(new) = N + 2 /\ new[N + 2] = M + FrameLen(q)
      /\ \A n \in 1..(N + 1) : new[n] = at[n]
  <2>1. M + FrameLen(q) \in Int
    BY <1>1, <1>3
  <2>2. Len(at) + 1 = N + 2
    BY <1>1, <1>7
  <2> QED
    BY <1>0, <1>7, <2>1, <2>2, Grown
<1>10. ASSUME NEW n \in 1..(N + 1)
       PROVE  new[n + 1] = new[n] + FrameLen(fr2[n]) /\ new[n + 1] <= new[N + 2]
  <2>1. CASE n = N + 1
    BY <1>0, <1>1, <1>2, <1>3, <1>8, <1>9, <2>1
  <2>2. CASE n # N + 1
    <3>1. n \in 1..N /\ n + 1 \in 1..(N + 1)
      BY <1>1, <2>2
    <3>2. new[n + 1] = at[n + 1] /\ new[n] = at[n] /\ fr2[n] = fr[n] /\ at[n + 1] \in Int
      BY <1>2, <1>8, <1>9, <3>1
    <3> QED
      BY <1>1, <1>3, <1>7, <1>9, <3>1, <3>2
  <2> QED BY <2>1, <2>2
<1>11. ASSUME NEW n \in 1..(N + 1), NEW i \in 1..FrameLen(fr2[n]), new[n] + i \in 1..(M + k)
       PROVE  st2[new[n] + i] = Frame(n, fr2[n])[i]
  <2>1. CASE n = N + 1
    <3>1. new[n] = M /\ fr2[n] = q /\ i \in 1..k
      BY SMTT(40), <1>0, <1>1, <1>2, <1>3, <1>5, <1>9, <1>11, <2>1
    <3>2. st2[M + i] = part[i]
      <4>1. M + i \in 1..(M + k) /\ ~(M + i <= M) /\ (M + i) - M = i
        BY <1>1, <1>5, <3>1
      <4>2. st2[M + i] = IF M + i <= M THEN st[M + i] ELSE part[(M + i) - M]
        BY <1>6, <4>1, Zenon
      <4> QED BY <4>1, <4>2
    <3> QED
      BY <1>5, <2>1, <3>1, <3>2
  <2>2. CASE n # N + 1
    <3>1. n \in 1..N /\ n \in 1..(N + 1)
      BY <1>1, <2>2
    <3>2. fr2[n] = fr[n] /\ new[n] = at[n] /\ at[n] \in Int /\ i \in 1..FrameLen(fr[n])
      BY <1>2, <1>8, <1>9, <3>1
    <3>3. FrameLen(fr[n]) \in Nat /\ at[n] + FrameLen(fr[n]) <= M
      BY <1>3, <1>7, <3>1
    <3>4. at[n] + i \in 1..M
      BY <1>1, <1>5, <1>11, <3>2, <3>3
    <3>5. st[at[n] + i] = Frame(n, fr[n])[i]
      BY <1>7, <3>1, <3>2, <3>4
    <3>6. st2[at[n] + i] = st[at[n] + i]
      <4>1. at[n] + i \in 1..(M + k) /\ at[n] + i <= M
        BY <1>1, <1>5, <3>4
      <4> QED BY <1>6, <4>1
    <3> QED
      BY <3>2, <3>5, <3>6
  <2> QED BY <2>1, <2>2
<1>12. Len(st2) <= new[N + 2] /\ Len(new) = N + 1 + 1 /\ N + 1 + 1 = N + 2
  BY <1>1, <1>3, <1>5, <1>6, <1>9
<1>13. Placed(new, fr2, st2)
  BY <1>2, <1>6, <1>10, <1>11, <1>12 DEF Placed
<1>14. /\ new[Len(fr) + 2] = Len(st) + FrameLen(q)
       /\ \A n \in 1..(Len(fr) + 1) : new[n] = at[n]
       /\ Placed(new, Append(fr, q), st \o SubSeq(Frame(Len(fr) + 1, q), 1, k))
  BY <1>0, <1>9, <1>13
<1> QED
  BY <1>9, <1>14

(* The session takes k bytes off the stream.                                           *)
LEMMA Shift ==
  ASSUME NEW fr \in Seq(Requests), NEW st \in Seq(Byte), NEW at \in Seq(Int), NEW k \in 0..Len(st)
  PROVE  Placed(at, fr, st)
         => /\ SubSeq(st, k + 1, Len(st)) \in Seq(Byte)
            /\ Len(SubSeq(st, k + 1, Len(st))) = Len(st) - k
            /\ \E new \in Seq(Int) :
                 /\ \A n \in 1..(Len(fr) + 1) : at[n] \in Int /\ new[n] = at[n] - k
                 /\ Placed(new, fr, SubSeq(st, k + 1, Len(st)))
<1>h. HAVE Placed(at, fr, st)
<1> DEFINE N == Len(fr)
           M == Len(st)
           st2 == SubSeq(st, k + 1, M)
           new == [n \in 1..(N + 1) |-> at[n] - k]
<1>0. /\ N = Len(fr) /\ M = Len(st) /\ Placed(at, fr, st) /\ k \in 0..M
      /\ st2 = SubSeq(st, k + 1, M)
      /\ new = [n \in 1..(N + 1) |-> at[n] - k]
  BY <1>h
<1> HIDE DEF N, M, st2, new
<1>1. N \in Nat /\ M \in Nat /\ k \in Nat /\ k <= M
  <2>1. N \in Nat /\ M \in Nat
    BY <1>0, LenProperties
  <2> QED BY <1>0, <2>1
<1>2. /\ Len(at) = N + 1 /\ M <= at[N + 1]
      /\ \A n \in 1..N : at[n + 1] = at[n] + FrameLen(fr[n]) /\ at[n + 1] <= at[N + 1]
      /\ \A n \in 1..N : \A i \in 1..FrameLen(fr[n]) :
           at[n] + i \in 1..M => st[at[n] + i] = Frame(n, fr[n])[i]
  BY <1>0 DEF Placed
<1>3. \A n \in 1..(N + 1) : at[n] \in Int
  BY <1>2, ElementOfSeq
<1>4. new \in Seq(Int) /\ Len(new) = N + 1 /\ \A n \in 1..(N + 1) : new[n] = at[n] - k
  BY <1>0, <1>1, <1>3
<1>5. /\ st2 \in Seq(Byte) /\ Len(st2) = M - k
      /\ \A j \in 1..(M - k) : st2[j] = st[j + k]
  <2>1. \A i \in (k + 1)..M : st[i] \in Byte
    BY <1>0, <1>1, ElementOfSeq
  <2>2. k + 1 \in Int /\ M \in Int /\ (IF k + 1 <= M THEN M - (k + 1) + 1 ELSE 0) = M - k
        /\ M - (k + 1) + 1 = M - k /\ \A j \in 1..(M - k) : k + 1 + j - 1 = j + k
    BY <1>1
  <2>3. /\ SubSeq(st, k + 1, M) \in Seq(Byte)
        /\ Len(SubSeq(st, k + 1, M)) = IF k + 1 <= M THEN M - (k + 1) + 1 ELSE 0
        /\ \A j \in 1..(M - (k + 1) + 1) : SubSeq(st, k + 1, M)[j] = st[k + 1 + j - 1]
    BY <2>1, <2>2, SubSeqProperties
  <2> QED
    BY <1>0, <2>2, <2>3
<1>6. \A n \in 1..N : FrameLen(fr[n]) \in Nat
  BY <1>0, FrameLengths, ElementOfSeq
<1>7. ASSUME NEW n \in 1..N
      PROVE  new[n + 1] = new[n] + FrameLen(fr[n]) /\ new[n + 1] <= new[N + 1]
  <2>1. n \in 1..(N + 1) /\ n + 1 \in 1..(N + 1) /\ N + 1 \in 1..(N + 1)
    BY <1>1
  <2>2. /\ new[n + 1] = at[n + 1] - k /\ new[n] = at[n] - k /\ new[N + 1] = at[N + 1] - k
        /\ at[n + 1] \in Int /\ at[n] \in Int /\ at[N + 1] \in Int
    BY <1>3, <1>4, <2>1
  <2> QED BY SMTT(40), <1>1, <1>2, <1>6, <2>2
<1>8. Len(st2) <= new[N + 1]
  <2>1. N + 1 \in 1..(N + 1)
    BY <1>1
  <2> QED BY <1>1, <1>2, <1>3, <1>4, <1>5, <2>1
<1>9. ASSUME NEW n \in 1..N, NEW i \in 1..FrameLen(fr[n]), new[n] + i \in 1..(M - k)
      PROVE  st2[new[n] + i] = Frame(n, fr[n])[i]
  <2>1. n \in 1..(N + 1) /\ i \in Int
    BY <1>1, <1>6
  <2>2. at[n] \in Int /\ new[n] = at[n] - k
    BY <1>3, <1>4, <2>1
  <2>3. (new[n] + i) + k = at[n] + i /\ at[n] + i \in 1..M
    BY SMTT(40), <1>1, <1>9, <2>1, <2>2
  <2>4. st2[new[n] + i] = st[at[n] + i]
    BY <1>5, <1>9, <2>3
  <2> QED
    BY <1>2, <2>3, <2>4
<1>10. Placed(new, fr, st2)
  BY <1>0, <1>4, <1>5, <1>7, <1>8, <1>9 DEF Placed
<1>11. /\ SubSeq(st, k + 1, Len(st)) \in Seq(Byte)
       /\ Len(SubSeq(st, k + 1, Len(st))) = Len(st) - k
       /\ \A n \in 1..(Len(fr) + 1) : at[n] \in Int /\ new[n] = at[n] - k
       /\ Placed(new, fr, SubSeq(st, k + 1, Len(st)))
  BY <1>0, <1>3, <1>4, <1>5, <1>10
<1> QED
  BY <1>4, <1>11

(* Two sequences of two elements.                                                     *)
LEMMA Pairs ==
  ASSUME NEW S, NEW s \in Seq(S), NEW t \in Seq(S), Len(s) = 2, Len(t) = 2,
         s[1] = t[1], s[2] = t[2]
  PROVE  s = t
<1>1. \A i \in 1..Len(s) : s[i] = t[i]
  OBVIOUS
<1> QED
  BY <1>1, SeqEqual

(* The head at the beginning of the stream is that of the next frame.                   *)
LEMMA HeadOf ==
  ASSUME NEW fr \in Seq(Requests), NEW st \in Seq(Byte), NEW at \in Seq(Int), NEW K \in Nat
  PROVE  Placed(at, fr, st) /\ K <= Len(fr) /\ at[K + 1] = 0 /\ Len(st) >= HEAD_TOTAL_LEN
         =>
         /\ K + 1 \in 1..Len(fr) /\ fr[K + 1] \in Requests
         /\ SubSeq(st, 1, 2) = BigEndian(fr[K + 1].id)
         /\ SubSeq(st, 3, 4) = BigEndian(fr[K + 1].len)
<1>0. HAVE Placed(at, fr, st) /\ K <= Len(fr) /\ at[K + 1] = 0 /\ Len(st) >= HEAD_TOTAL_LEN
<1>1. Len(fr) \in Nat /\ Len(st) \in Nat /\ Len(st) >= 4
  BY <1>0, LenProperties DEF HEAD_TOTAL_LEN
<1>2. /\ Len(st) <= at[Len(fr) + 1]
      /\ \A n \in 1..Len(fr) : \A i \in 1..FrameLen(fr[n]) :
           at[n] + i \in 1..Len(st) => st[at[n] + i] = Frame(n, fr[n])[i]
  BY <1>0 DEF Placed
<1>3. K # Len(fr)
  <2> SUFFICES ASSUME K = Len(fr) PROVE FALSE
    OBVIOUS
  <2>1. at[Len(fr) + 1] = 0
    BY <1>0
  <2> QED BY <1>1, <1>2, <2>1
<1>4. K + 1 \in 1..Len(fr)
  BY <1>0, <1>1, <1>3
<1> DEFINE q == fr[K + 1]
<1>5. q \in Requests
  BY <1>4, ElementOfSeq
<1>6. FrameLen(q) \in Nat /\ FrameLen(q) >= 4
  BY <1>5, FrameLengths
<1>7. \A i \in 1..4 : st[i] = Frame(K + 1, q)[i]
  <2> TAKE i \in 1..4
  <2>1. i \in 1..FrameLen(q) /\ 0 + i = i /\ i \in 1..Len(st)
    BY <1>1, <1>6
  <2>2. at[K + 1] + i \in 1..Len(st) => st[at[K + 1] + i] = Frame(K + 1, q)[i]
    BY <1>2, <1>4, <2>1
  <2> QED BY <1>0, <2>1, <2>2
<1> HIDE DEF q
<1>8. /\ Frame(K + 1, q)[1] = BigEndian(q.id)[1] /\ Frame(K + 1, q)[2] = BigEndian(q.id)[2]
      /\ Frame(K + 1, q)[3] = BigEndian(q.len)[1] /\ Frame(K + 1, q)[4] = BigEndian(q.len)[2]
      /\ q.id \in 0..(Word - 1) /\ q.len \in 0..(Word - 1)
  <2>1. K + 1 \in Nat
    OBVIOUS
  <2>2. q.id \in 0..SMax => q.id \in 0..(Word - 1)
    BY WordFacts
  <2> QED BY <1>5, <2>1, <2>2, FrameBytes
<1>9. /\ BigEndian(q.id) \in Seq(Byte) /\ Len(BigEndian(q.id)) = 2
      /\ BigEndian(q.len) \in Seq(Byte) /\ Len(BigEndian(q.len)) = 2
  BY <1>8, BigEndianBytes
<1>10. /\ SubSeq(st, 1, 2) \in Seq(Byte) /\ Len(SubSeq(st, 1, 2)) = 2
       /\ SubSeq(st, 1, 2)[1] = st[1] /\ SubSeq(st, 1, 2)[2] = st[2]
       /\ SubSeq(st, 3, 4) \in Seq(Byte) /\ Len(SubSeq(st, 3, 4)) = 2
       /\ SubSeq(st, 3, 4)[1] = st[3] /\ SubSeq(st, 3, 4)[2] = st[4]
  <2>1. \A i \in 1..4 : st[i] \in Byte
    BY <1>1, ElementOfSeq
  <2> QED BY <2>1, SubSeqProperties
<1>11. SubSeq(st, 1, 2) = BigEndian(q.id)
  BY <1>7, <1>8, <1>9, <1>10, Pairs
<1>12. SubSeq(st, 3, 4) = BigEndian(q.len)
  BY <1>7, <1>8, <1>9, <1>10, Pairs
<1> QED
  BY <1>4, <1>5, <1>11, <1>12 DEF q

(* After the head of a frame, the stream begins with its body.                          *)
LEMMA BodyOf ==
  ASSUME NEW fr \in Seq(Requests), NEW st \in Seq(Byte), NEW at \in Seq(Int), NEW K \in Nat
  PROVE  /\ Placed(at, fr, st) /\ K \in 1..Len(fr) /\ at[K] = -HEAD_TOTAL_LEN
         /\ Len(st) >= fr[K].len
         => SubSeq(st, 1, fr[K].len) = Body(K, fr[K].len)
<1>0. HAVE /\ Placed(at, fr, st) /\ K \in 1..Len(fr) /\ at[K] = -HEAD_TOTAL_LEN
           /\ Len(st) >= fr[K].len
<1> DEFINE q == fr[K]
           L == q.len
<1>1. q \in Requests
  BY <1>0, ElementOfSeq
<1>2. /\ L \in Nat /\ FrameLen(q) = 4 + L /\ \A i \in 1..L : Frame(K, q)[4 + i] = K % Base
      /\ Body(K, L) \in Seq(Byte) /\ Len(Body(K, L)) = L
  BY <1>1, FrameBytes DEF FrameLen, HEAD_TOTAL_LEN
<1>3. \A i \in 1..L : Body(K, L)[i] = K % Base
  BY <1>2 DEF Body
<1>4. \A n \in 1..Len(fr) : \A i \in 1..FrameLen(fr[n]) :
        at[n] + i \in 1..Len(st) => st[at[n] + i] = Frame(n, fr[n])[i]
  BY <1>0 DEF Placed
<1>5. Len(st) \in Nat /\ L <= Len(st) /\ at[K] = -4
  BY <1>0, LenProperties DEF HEAD_TOTAL_LEN
<1> HIDE DEF L
<1>6. \A i \in 1..L : st[i] = K % Base
  <2> TAKE i \in 1..L
  <2>1. 4 + i \in 1..FrameLen(q) /\ at[K] + (4 + i) = i /\ i \in 1..Len(st)
    BY <1>2, <1>5
  <2>2. at[K] + (4 + i) \in 1..Len(st) => st[at[K] + (4 + i)] = Frame(K, q)[4 + i]
    BY <1>0, <1>4, <2>1
  <2> QED BY <1>2, <2>1, <2>2
<1>7. /\ SubSeq(st, 1, L) \in Seq(Byte) /\ Len(SubSeq(st, 1, L)) = L
      /\ \A i \in 1..L : SubSeq(st, 1, L)[i] = st[i]
  <2>1. \A i \in 1..L : st[i] \in Byte
    BY <1>2, <1>5, ElementOfSeq
  <2> QED BY <1>2, <2>1, SubSeqProperties
<1>8. SubSeq(st, 1, L) = Body(K, L)
  <2>1. \A i \in 1..Len(SubSeq(st, 1, L)) : SubSeq(st, 1, L)[i] = Body(K, L)[i]
    BY <1>3, <1>6, <1>7
  <2> QED BY <1>2, <1>7, <2>1, SeqEqual
<1> QED
  BY <1>8 DEF L

(* The bytes of a SendNode: the identifier, the length and the data, in network order.    *)
LEMMA SendNodeWhole ==
  ASSUME NEW id \in 0..SMax, NEW data \in Seq(Byte), NEW v \in 0..SMax, v <= Len(data)
  PROVE  /\ SendNode(id, data, v) \in Seq(Byte)
         /\ Len(SendNode(id, data, v)) = v + 4
         /\ SubSeq(SendNode(id, data, v), 3, 4) = BigEndian(v)
         /\ v = Len(data) => SendNode(id, data, v) = BigEndian(id) \o BigEndian(v) \o data
<1> DEFINE a == BigEndian(id)
           b == BigEndian(v)
           c == SubSeq(data, 1, v)
<1>1. SendNode(id, data, v) = (a \o b) \o c
  BY SwappedStores DEF SendNode
<1>2. /\ a \in Seq(Byte) /\ Len(a) = 2 /\ b \in Seq(Byte) /\ Len(b) = 2
  <2>1. id \in 0..(Word - 1) /\ v \in 0..(Word - 1)
    BY WordFacts
  <2> QED BY <2>1, BigEndianBytes
<1>3. v \in Nat /\ Len(data) \in Nat /\ c \in Seq(Byte) /\ Len(c) = v
  <2>1. v \in Nat /\ Len(data) \in Nat
    BY LenProperties
  <2>2. \A i \in 1..v : data[i] \in Byte
    BY <2>1, ElementOfSeq
  <2> QED BY <2>1, <2>2, SubSeqProperties
<1>4. v = Len(data) => c = data
  BY <1>3, SeqEqual, SubSeqProperties
<1> HIDE DEF a, b, c
<1>5. /\ a \o b \in Seq(Byte) /\ Len(a \o b) = 4
      /\ (a \o b)[3] = b[1] /\ (a \o b)[4] = b[2]
  <2>1. /\ a \o b \in Seq(Byte) /\ Len(a \o b) = Len(a) + Len(b)
        /\ \A i \in 1..(Len(a) + Len(b)) :
             (a \o b)[i] = IF i <= Len(a) THEN a[i] ELSE b[i - Len(a)]
    BY <1>2, ConcatProperties, Zenon
  <2>2. \A i \in 1..4 : (a \o b)[i] = IF i <= 2 THEN a[i] ELSE b[i - 2]
    BY <1>2, <2>1
  <2> QED BY <1>2, <2>1, <2>2
<1> DEFINE ab == a \o b
           s == ab \o c
<1>6. /\ s \in Seq(Byte) /\ Len(s) = v + 4
      /\ \A i \in 1..4 : s[i] = ab[i]
  BY <1>3, <1>5
<1> HIDE DEF s, ab
<1>7. SubSeq(s, 3, 4) = b
  <2>1. \A i \in 1..4 : s[i] \in Byte
    BY <1>3, <1>6, ElementOfSeq
  <2>2. /\ SubSeq(s, 3, 4) \in Seq(Byte) /\ Len(SubSeq(s, 3, 4)) = 2
        /\ SubSeq(s, 3, 4)[1] = s[3] /\ SubSeq(s, 3, 4)[2] = s[4]
    BY <2>1, SubSeqProperties
  <2>3. s[3] = b[1] /\ s[4] = b[2]
    BY <1>5, <1>6 DEF ab
  <2> QED BY <1>2, <2>2, <2>3, Pairs
<1> QED
  BY <1>1, <1>4, <1>6, <1>7 DEF s, ab, a, b

--------------------------------------------------------------------------------
(* The session.                                                                    *)

(* The elements of a sequence.                                                          *)
LEMMA Elements ==
  ASSUME NEW S, NEW s \in Seq(S)
  PROVE  /\ Len(s) \in Nat /\ DOMAIN s = 1..Len(s) /\ \A i \in DOMAIN s : s[i] \in S
         /\ s # <<>> <=> Len(s) > 0
  BY LenProperties, ElementOfSeq, EmptySeq

(* What RIInv says of the lengths: nodes, the handed and the waiting ones, and frames. *)
LEMMA Frames ==
  ASSUME RIInv
  PROVE  /\ framed \in Seq(Requests) /\ stream \in Seq(Byte)
         /\ Len(framed) \in Nat /\ Len(nodes) \in Nat /\ Len(handed) \in Nat /\ Len(inbox) \in Nat
         /\ Len(nodes) <= Len(framed) /\ Len(framed) <= MaxFrames /\ Len(handed) <= Len(nodes)
         /\ DOMAIN nodes = 1..Len(nodes) /\ DOMAIN handed = 1..Len(handed)
         /\ DOMAIN framed = 1..Len(framed) /\ DOMAIN inbox = 1..Len(inbox)
         /\ Complete \in Nat /\ Complete <= Len(nodes)
         /\ \A i \in DOMAIN answers : answers[i].frame \in DOMAIN nodes
<1>1. /\ framed \in Seq(Requests) /\ stream \in Seq(Byte) /\ rpc \in {"head", "body"}
      /\ Len(framed) \in Nat /\ Len(nodes) \in Nat /\ Len(handed) \in Nat /\ Len(inbox) \in Nat
      /\ DOMAIN nodes = 1..Len(nodes) /\ DOMAIN handed = 1..Len(handed)
      /\ DOMAIN framed = 1..Len(framed) /\ DOMAIN inbox = 1..Len(inbox)
  BY LenProperties DEF RIInv, RecvTypeOK
<1>2. Len(nodes) <= Len(framed) /\ (rpc # "head" => nodes # <<>>)
  BY DEF RIInv, Laid
<1>3. Len(framed) <= MaxFrames /\ Len(handed) + Len(inbox) = Complete
  BY DEF RIInv, NodesInv
<1>4. nodes # <<>> => Len(nodes) > 0
  BY <1>1, EmptySeq DEF RIInv, RecvTypeOK
<1>5. Complete \in Nat /\ Complete <= Len(nodes)
  BY <1>1, <1>2, <1>4 DEF Complete
<1>6. \A i \in DOMAIN answers : answers[i].frame \in DOMAIN nodes
  <2>1. \A i \in DOMAIN answers : answers[i] \in [frame: DOMAIN nodes, size: Nat, bytes: Seq(Byte)]
    BY Elements DEF RIInv, RecvTypeOK
  <2> QED BY <2>1
<1> QED
  BY <1>1, <1>2, <1>3, <1>5, <1>6

(* As long as the frames answered stay, whole answers stay whole.                       *)
LEMMA WholeStays ==
  ASSUME NEW a, WholeAnswer(a), framed'[a.frame] = framed[a.frame]
  PROVE  WholeAnswer(a)'
  BY DEF WholeAnswer

(* The client's frames: one more, and some of its bytes.                                *)
LEMMA FramedGrows ==
  ASSUME RIInv, ~dead, NEW q \in Requests, NEW k \in 1..FrameLen(q),
         peer = "up", peer' = "up" => k = FrameLen(q), Len(framed) < MaxFrames,
         framed' = Append(framed, q), stream' = stream \o SubSeq(Frame(Len(framed) + 1, q), 1, k),
         UNCHANGED <<rpc, nodes, inbox, answers, handed, sent, delivered, dead>>
  PROVE  RIInv'
<1> DEFINE N == Len(framed)
           M == Len(stream)
<1>1. PICK at \in Seq(Int) : Laid(at)
  BY DEF RIInv
<1>2. Placed(at, framed, stream) /\ M = at[N + 1]
  BY <1>1 DEF Laid
<1>3. /\ stream' \in Seq(Byte) /\ Len(stream') = M + k
      /\ framed' \in Seq(Requests) /\ Len(framed') = N + 1 /\ \A n \in 1..N : framed'[n] = framed[n]
  <2>1. /\ Frame(N + 1, q) \in Seq(Byte) /\ Len(Frame(N + 1, q)) = FrameLen(q)
        /\ FrameLen(q) \in Nat
    BY Frames, FrameLengths
  <2>2. \A i \in 1..k : Frame(N + 1, q)[i] \in Byte
    BY <2>1, ElementOfSeq
  <2>3. SubSeq(Frame(N + 1, q), 1, k) \in Seq(Byte) /\ Len(SubSeq(Frame(N + 1, q), 1, k)) = k
    BY <2>1, <2>2, SubSeqProperties
  <2>4. stream' \in Seq(Byte) /\ Len(stream') = M + k
    BY <2>3, Frames, ConcatProperties
  <2> QED BY <2>4, Grown, Frames
<1>9. PICK new \in Seq(Int) :
        /\ new[N + 2] = M + FrameLen(q) /\ \A n \in 1..(N + 1) : new[n] = at[n]
        /\ Placed(new, framed', stream')
  BY <1>2, Extend, Frames
<1>4. Laid(new)'
  <2>1. peer' = "up" => Len(stream') = new[Len(framed') + 1]
    BY <1>3, <1>9, Frames
  <2>2. Len(nodes') <= Len(framed')
    BY <1>3, Frames
  <2>3. rpc' = "head" => new[Len(nodes') + 1] = 0
    <3>1. rpc = "head" => at[Len(nodes) + 1] = 0
      BY <1>1 DEF Laid
    <3>2. Len(nodes) + 1 \in 1..(N + 1)
      BY Frames
    <3> QED BY <1>9, <3>1, <3>2
  <2>4. rpc' # "head" => nodes' # <<>> /\ new[Len(nodes')] = -HEAD_TOTAL_LEN
    <3>1. rpc # "head" => nodes # <<>> /\ at[Len(nodes)] = -HEAD_TOTAL_LEN
      BY <1>1 DEF Laid
    <3>2. nodes # <<>> => Len(nodes) \in 1..(N + 1)
      BY SMTT(40), Frames, EmptySeq DEF RIInv, RecvTypeOK
    <3> QED BY <1>9, <3>1, <3>2
  <2> QED BY <1>3, <1>9, <2>1, <2>2, <2>3, <2>4 DEF Laid
<1>5. RecvTypeOK'
  BY <1>3 DEF RIInv, RecvTypeOK
<1>6. \A n \in DOMAIN nodes : framed'[n] = framed[n]
  BY <1>3, Frames
<1>7. NodesInv'
  <2>1. \A n \in DOMAIN handed : framed'[n] = framed[n]
    BY <1>3, Frames
  <2>2. HandedAsFramed'
    <3>1. Len(handed') <= Len(framed')
      BY <1>3, Frames
    <3> QED BY <2>1, <3>1 DEF RIInv, NodesInv, HandedAsFramed
  <2>3. Len(framed') <= MaxFrames
    BY <1>3, Frames, FrameAssumption
  <2>4. Complete' = Complete
    BY DEF Complete
  <2> QED BY <1>6, <2>2, <2>3, <2>4 DEF RIInv, NodesInv
<1>8. AnswersInv'
  <2>1. ASSUME NEW i \in DOMAIN answers PROVE WholeAnswer(answers[i])'
    <3>1. answers[i].frame \in DOMAIN nodes
      BY Frames
    <3>2. WholeAnswer(answers[i])
      BY DEF RIInv, AnswersInv
    <3>3. framed'[answers[i].frame] = framed[answers[i].frame] /\ answers' = answers
      BY <1>6, <3>1
    <3> QED BY <3>2, <3>3 DEF WholeAnswer
  <2> QED BY <2>1 DEF RIInv, AnswersInv, RepliesWhole, MayThrow
<1> QED
  BY <1>3, <1>4, <1>5, <1>7, <1>8 DEF RIInv

(* What is handed on and sent, while reading stands still.                              *)
LEMMA LaidStays ==
  ASSUME RIInv, UNCHANGED <<framed, stream, nodes, rpc>>, peer' = "up" => peer = "up"
  PROVE  (\E at \in Seq(Int) : Laid(at))'
<1>1. PICK at \in Seq(Int) : Laid(at)
  BY DEF RIInv
<1>2. Laid(at)'
  BY <1>1 DEF Laid
<1> QED
  BY <1>2

(* HandleReadHead: the next frame's identifier and length, or the end over its length.   *)
LEMMA HeadStep == ASSUME RIInv, IInv, ~dead, HandleReadHead PROVE RIInv'
<1> DEFINE K == Len(nodes)
           q == framed[K + 1]
<1>1. PICK at \in Seq(Int) : Laid(at)
  BY DEF RIInv
<1>2. Placed(at, framed, stream) /\ at[K + 1] = 0 /\ Len(stream) >= HEAD_TOTAL_LEN
  BY <1>1 DEF Laid, HandleReadHead, Readable, Needed
<1>3. /\ K + 1 \in 1..Len(framed) /\ q \in Requests
      /\ SubSeq(stream, 1, 2) = BigEndian(q.id) /\ SubSeq(stream, 3, 4) = BigEndian(q.len)
  BY <1>2, Frames, HeadOf
<1>4. q.id \in 0..SMax /\ q.len \in 0..(Word - 1) /\ q.len \in Nat /\ q.id \in 0..(Word - 1)
  BY <1>3, FrameAssumption, WordFacts
<1>5. HeadLength = Short(q.len) /\ Swapped(Load(SubSeq(stream, 1, 2))) = q.id
  <2>1. Swapped(Load(BigEndian(q.len))) = Short(q.len) /\ Swapped(Load(BigEndian(q.id))) = Short(q.id)
    BY <1>4, SwappedLoads
  <2>2. q.id \in Nat /\ q.id <= SMax
    BY <1>4, WordFacts
  <2>3. Short(q.id) = q.id
    BY <2>2, ShortFacts
  <2> QED BY <1>3, <2>1, <2>3 DEF HeadLength
<1>6. /\ UNCHANGED <<vars, inbox, answers, framed, handed>>
      /\ UNCHANGED <<send_que, writes, peer, sent, delivered>>
  BY DEF HandleReadHead, vars
<1>7. CASE HeadLength < 0
  <2>1. dead' /\ dead' \in BOOLEAN /\ UNCHANGED <<stream, rpc, nodes>>
    BY <1>7 DEF HandleReadHead
  <2>2. q.len > SMax
    BY <1>4, <1>5, <1>7, ShortFacts
  <2>3. RecvTypeOK'
    BY <1>6, <2>1 DEF RIInv, RecvTypeOK
  <2>4. (\E at2 \in Seq(Int) : Laid(at2))'
    BY <1>6, <2>1, LaidStays
  <2>5. NodesInv'
    BY <1>6, <2>1 DEF RIInv, NodesInv, Complete, HandedAsFramed
  <2>6. \A i \in DOMAIN answers : WholeAnswer(answers[i])'
    BY <1>6 DEF RIInv, AnswersInv, WholeAnswer
  <2>7. \E n \in DOMAIN framed' : framed'[n].len > SMax
    BY <1>3, <1>6, <2>2, Frames
  <2>8. AnswersInv'
    BY <1>6, <2>6, <2>7 DEF RIInv, AnswersInv, RepliesWhole, MayThrow
  <2> QED BY <2>3, <2>4, <2>5, <2>8 DEF RIInv
<1>8. CASE ~(HeadLength < 0)
  <2>1. q.len \in 0..SMax /\ HeadLength = q.len
    BY SMTT(40), <1>4, <1>5, <1>8, ShortFacts, WordFacts
  <2> DEFINE node == [id |-> q.id, len |-> q.len, data |-> <<>>]
  <2>2. /\ nodes' = Append(nodes, node) /\ rpc' = "body" /\ rpc = "head"
        /\ stream' = SubSeq(stream, 4 + 1, Len(stream)) /\ dead' = dead
    BY <1>5, <1>8, <2>1 DEF HandleReadHead, NewNode, HEAD_TOTAL_LEN
  <2>3. node \in [id: 0..SMax, len: 0..SMax, data: Seq(Byte)]
    BY <1>4, <2>1, EmptySeq
  <2>4. /\ nodes' \in Seq([id: 0..SMax, len: 0..SMax, data: Seq(Byte)])
        /\ Len(nodes') = K + 1 /\ DOMAIN nodes' = 1..(K + 1) /\ nodes'[K + 1] = node
        /\ \A n \in 1..K : nodes'[n] = nodes[n]
    BY <2>2, <2>3, Grown DEF RIInv, RecvTypeOK
  <2> HIDE DEF node
  <2>5. 4 \in 0..Len(stream) /\ Len(stream) \in Nat
    BY <1>2, Frames DEF HEAD_TOTAL_LEN
  <2>6. /\ stream' \in Seq(Byte) /\ Len(stream') = Len(stream) - 4
        /\ \E new \in Seq(Int) :
             /\ \A n \in 1..(Len(framed) + 1) : at[n] \in Int /\ new[n] = at[n] - 4
             /\ Placed(new, framed, stream')
    BY <1>2, <2>2, <2>5, Frames, Shift
  <2>7. PICK new \in Seq(Int) :
          /\ \A n \in 1..(Len(framed) + 1) : at[n] \in Int /\ new[n] = at[n] - 4
          /\ Placed(new, framed, stream')
    BY <2>6
  <2>8. Laid(new)'
    <3>1. Len(framed) + 1 \in 1..(Len(framed) + 1) /\ K + 1 \in 1..(Len(framed) + 1)
      BY <1>3, Frames
    <3>2. peer' = "up" => Len(stream') = new[Len(framed') + 1]
      BY <1>1, <1>6, <2>6, <2>7, <3>1 DEF Laid
    <3>3. nodes' # <<>> /\ new[Len(nodes')] = -HEAD_TOTAL_LEN
      <4>1. K + 1 > 0
        BY Frames
      <4>2. nodes' # <<>>
        BY <2>4, <4>1, Elements
      <4>3. new[K + 1] = -4
        BY SMTT(40), <1>2, <2>7, <3>1
      <4> QED BY <2>4, <4>2, <4>3 DEF HEAD_TOTAL_LEN
    <3>4. Len(nodes') <= Len(framed')
      BY <1>3, <1>6, <2>4, Frames
    <3> QED BY <1>6, <2>2, <2>7, <3>2, <3>3, <3>4 DEF Laid
  <2>9. DOMAIN nodes \subseteq DOMAIN nodes' /\ DOMAIN nodes = 1..K /\ K \in Nat
    BY <2>4, Frames
  <2>10. RecvTypeOK'
    <3>1. inbox' \in Seq(DOMAIN nodes')
      BY <1>6, <2>9, SeqMonotonic DEF RIInv, RecvTypeOK
    <3>2. answers' \in Seq([frame: DOMAIN nodes', size: Nat, bytes: Seq(Byte)])
      <4>1. [frame: DOMAIN nodes, size: Nat, bytes: Seq(Byte)]
              \subseteq [frame: DOMAIN nodes', size: Nat, bytes: Seq(Byte)]
        BY <2>9
      <4> QED BY <1>6, <4>1, SeqMonotonic DEF RIInv, RecvTypeOK
    <3> QED BY <1>6, <2>2, <2>4, <2>6, <3>1, <3>2 DEF RIInv, RecvTypeOK
  <2>11. NodesInv'
    <3>1. Complete' = Complete /\ Complete = K
      BY <2>2, <2>4, <2>9 DEF Complete
    <3>2. ASSUME NEW n \in DOMAIN nodes'
          PROVE  /\ nodes'[n].id = framed'[n].id /\ nodes'[n].len = framed'[n].len
                 /\ n <= Complete' => nodes'[n].data = Body(n, framed'[n].len)
      <4>1. CASE n = K + 1
        <5>1. nodes'[n].id = q.id /\ nodes'[n].len = q.len
          BY <2>4, <4>1 DEF node
        <5>2. ~(n <= Complete') /\ framed'[n] = q
          BY <1>6, <2>9, <3>1, <4>1
        <5> QED BY <5>1, <5>2
      <4>2. CASE n # K + 1
        <5>1. n \in DOMAIN nodes /\ nodes'[n] = nodes[n]
          BY <2>4, <2>9, <4>2
        <5> QED BY <1>6, <3>1, <5>1 DEF RIInv, NodesInv
      <4> QED BY <4>1, <4>2
    <3> QED BY <1>6, <3>1, <3>2 DEF RIInv, NodesInv, HandedAsFramed
  <2>12. AnswersInv'
    BY <1>6, <2>2 DEF RIInv, AnswersInv, WholeAnswer, RepliesWhole, MayThrow
  <2> QED BY <2>8, <2>10, <2>11, <2>12 DEF RIInv
<1> QED
  BY <1>7, <1>8

(* HandleReadBody: the node gets the body of its frame and goes to LogicSystem.           *)
LEMMA BodyStep == ASSUME RIInv, IInv, ~dead, HandleReadBody PROVE RIInv'
<1> DEFINE K == Len(nodes)
           q == framed[K]
           L == q.len
<1>1. PICK at \in Seq(Int) : Laid(at)
  BY DEF RIInv
<1>2. /\ rpc = "body" /\ Placed(at, framed, stream) /\ at[K] = -HEAD_TOTAL_LEN
      /\ K \in 1..Len(framed) /\ K \in Nat /\ nodes # <<>>
  <2>1. rpc = "body" /\ nodes # <<>> /\ at[K] = -HEAD_TOTAL_LEN /\ Placed(at, framed, stream)
    BY <1>1 DEF Laid, HandleReadBody
  <2>2. Len(nodes) > 0
    BY <2>1, Elements DEF RIInv, RecvTypeOK
  <2> QED BY <2>1, <2>2, Frames
<1>3. q \in Requests /\ L \in Nat
  BY <1>2, Frames, ElementOfSeq, FrameLengths
<1>4. /\ K \in DOMAIN nodes /\ nodes[K].id = q.id /\ nodes[K].len = L
      /\ nodes[K] \in [id: 0..SMax, len: 0..SMax, data: Seq(Byte)]
  <2>1. K \in DOMAIN nodes
    BY <1>2, Frames
  <2>2. nodes[K] \in [id: 0..SMax, len: 0..SMax, data: Seq(Byte)]
    BY <2>1, Elements DEF RIInv, RecvTypeOK
  <2> QED BY <2>1, <2>2 DEF RIInv, NodesInv
<1>5. Needed = L /\ Len(stream) >= L
  BY <1>2, <1>4 DEF HandleReadBody, Readable, Needed, Last
<1>6. SubSeq(stream, 1, L) = Body(K, L) /\ Body(K, L) \in Seq(Byte)
  BY <1>2, <1>3, <1>5, Frames, BodyOf, FrameBytes
<1>7. /\ UNCHANGED <<answers, framed, handed, dead, peer, sent, delivered>>
      /\ nodes' = [nodes EXCEPT ![K].data = Body(K, L)]
      /\ stream' = SubSeq(stream, L + 1, Len(stream))
      /\ inbox' = Append(inbox, K) /\ rpc' = "head"
  BY <1>5, <1>6 DEF HandleReadBody, vars
<1> HIDE DEF L, q
<1>8. /\ nodes' \in Seq([id: 0..SMax, len: 0..SMax, data: Seq(Byte)])
      /\ DOMAIN nodes' = DOMAIN nodes /\ Len(nodes') = K
      /\ \A n \in DOMAIN nodes : nodes'[n].id = nodes[n].id /\ nodes'[n].len = nodes[n].len
      /\ \A n \in DOMAIN nodes : nodes'[n].data = IF n = K THEN Body(K, L) ELSE nodes[n].data
  <2>1. nodes \in Seq([id: 0..SMax, len: 0..SMax, data: Seq(Byte)])
    BY DEF RIInv, RecvTypeOK
  <2> DEFINE S == [id: 0..SMax, len: 0..SMax, data: Seq(Byte)]
             e == [nodes[K] EXCEPT !.data = Body(K, L)]
  <2>2. /\ e \in S /\ e.id = nodes[K].id /\ e.len = nodes[K].len /\ e.data = Body(K, L)
    BY <1>4, <1>6
  <2>3. nodes' = [nodes EXCEPT ![K] = e]
    BY <1>7
  <2> HIDE DEF e
  <2>4. \A n \in DOMAIN nodes : nodes[n] \in S /\ nodes'[n] = IF n = K THEN e ELSE nodes[n]
    BY <2>1, <2>3, Elements
  <2>5. nodes' \in Seq(S) /\ DOMAIN nodes' = DOMAIN nodes /\ Len(nodes') = K
    BY <1>4, <2>1, <2>2, <2>3, ExceptSeq
  <2> QED BY <2>2, <2>4, <2>5
<1>9. /\ stream' \in Seq(Byte) /\ Len(stream') = Len(stream) - L
      /\ \E new \in Seq(Int) :
           /\ \A n \in 1..(Len(framed) + 1) : at[n] \in Int /\ new[n] = at[n] - L
           /\ Placed(new, framed, stream')
  <2>1. L \in 0..Len(stream)
    BY <1>3, <1>5, Frames
  <2> QED BY <1>2, <1>7, <2>1, Frames, Shift
<1>10. PICK new \in Seq(Int) :
         /\ \A n \in 1..(Len(framed) + 1) : at[n] \in Int /\ new[n] = at[n] - L
         /\ Placed(new, framed, stream')
  BY <1>9
<1>11. Laid(new)'
  <2>1. Len(framed) + 1 \in 1..(Len(framed) + 1) /\ K + 1 \in 1..(Len(framed) + 1)
        /\ K \in 1..(Len(framed) + 1)
    BY <1>2, Frames
  <2>2. peer' = "up" => Len(stream') = new[Len(framed') + 1]
    BY <1>1, <1>7, <1>9, <1>10, <2>1 DEF Laid
  <2>3. new[Len(nodes') + 1] = 0
    <3>1. at[K + 1] = at[K] + FrameLen(q)
      BY <1>2 DEF Placed, q
    <3>2. at[K + 1] = L
      BY <1>2, <1>3, <3>1 DEF FrameLen, HEAD_TOTAL_LEN, L
    <3>3. new[K + 1] = at[K + 1] - L
      BY <1>10, <2>1
    <3>4. new[K + 1] = 0
      BY <1>3, <3>2, <3>3
    <3> QED BY <1>8, <3>4
  <2>4. Len(nodes') <= Len(framed')
    BY <1>7, <1>8, Frames
  <2> QED BY <2>4, <1>7, <1>8, <1>10, <2>2, <2>3 DEF Laid
<1>12. inbox' \in Seq(DOMAIN nodes) /\ Len(inbox') = Len(inbox) + 1
       /\ DOMAIN inbox' = 1..(Len(inbox) + 1)
       /\ inbox'[Len(inbox) + 1] = K /\ \A i \in 1..Len(inbox) : inbox'[i] = inbox[i]
  BY <1>4, <1>7, Grown DEF RIInv, RecvTypeOK
<1>13. RecvTypeOK'
  BY <1>7, <1>8, <1>9, <1>12 DEF RIInv, RecvTypeOK
<1>14. NodesInv'
  <2>1. Complete = K - 1 /\ Complete' = K
    BY <1>2, <1>7, <1>8 DEF Complete
  <2>2. Len(handed') + Len(inbox') = Complete'
    BY <1>2, <1>7, <1>12, <2>1, Frames DEF RIInv, NodesInv
  <2>3. ASSUME NEW i \in DOMAIN inbox' PROVE inbox'[i] = Len(handed') + i
    <3>1. CASE i = Len(inbox) + 1
      BY <1>2, <1>7, <1>12, <2>1, <3>1, Frames DEF RIInv, NodesInv
    <3>2. CASE i # Len(inbox) + 1
      <4>1. i \in DOMAIN inbox /\ i \in 1..Len(inbox)
        BY <1>12, <3>2, Frames
      <4> QED BY <1>7, <1>12, <4>1 DEF RIInv, NodesInv
    <3> QED BY <3>1, <3>2
  <2>4. ASSUME NEW n \in DOMAIN nodes'
        PROVE  /\ nodes'[n].id = framed'[n].id /\ nodes'[n].len = framed'[n].len
               /\ n <= Complete' => nodes'[n].data = Body(n, framed'[n].len)
    <3>1. n \in DOMAIN nodes /\ nodes[n].id = framed[n].id /\ nodes[n].len = framed[n].len
          /\ (n <= Complete => nodes[n].data = Body(n, framed[n].len)) /\ n \in 1..K
      BY <1>8, Frames DEF RIInv, NodesInv
    <3>2. n # K => n <= Complete
      BY <1>2, <2>1, <3>1
    <3>3. nodes'[n].data = IF n = K THEN Body(K, L) ELSE nodes[n].data
      BY <1>8, <3>1
    <3>4. nodes'[n].data = Body(n, framed[n].len)
      BY <3>1, <3>2, <3>3 DEF L, q
    <3> QED BY <1>7, <1>8, <3>1, <3>4
  <2> QED BY <1>7, <2>2, <2>3, <2>4 DEF RIInv, NodesInv, HandedAsFramed
<1>15. AnswersInv'
  BY <1>7 DEF RIInv, AnswersInv, WholeAnswer, RepliesWhole, MayThrow
<1> QED
  BY <1>11, <1>13, <1>14, <1>15 DEF RIInv

(* What the peer has received was given to Send.                                        *)
LEMMA DeliveredSent ==
  ASSUME IInv
  PROVE  sent \in Seq(Msgs) /\ delivered \in Seq(Msgs) /\ ToSet(delivered) \subseteq ToSet(sent)
<1> DEFINE rest == IF \E w \in writes : w.ec = "ok" THEN Tail(send_que) ELSE send_que
<1>1. sent \in Seq(Msgs) /\ delivered \in Seq(Msgs) /\ rest \in Seq(Msgs) /\ sent = delivered \o rest
  BY DEF IInv, TypeOK, OrderInv, WriteInv, OneWrite
<1> HIDE DEF rest
<1>2. \A i \in DOMAIN delivered : i \in DOMAIN sent /\ sent[i] = delivered[i]
  <2>1. Len(sent) = Len(delivered) + Len(rest)
        /\ \A i \in 1..(Len(delivered) + Len(rest)) :
             sent[i] = IF i <= Len(delivered) THEN delivered[i] ELSE rest[i - Len(delivered)]
    BY <1>1, ConcatProperties, Zenon
  <2> QED BY <1>1, <2>1, Elements
<1> QED
  BY <1>1, <1>2 DEF ToSet

(* Reply: the answer is whole and sent, or the process ends over it.                     *)
LEMMA ReplyStep ==
  ASSUME RIInv, IInv, ~dead, NEW n \in DOMAIN nodes, n = Len(handed) + 1,
         NEW id \in 0..SMax, NEW data \in Seq(Byte), id = framed[n].id,
         id = Hello => data = Body(n, framed[n].len),
         Reply(n, id, data), Len(handed') = n, UNCHANGED <<framed, nodes>>
  PROVE  /\ AnswersInv' /\ answers' \in Seq([frame: DOMAIN nodes, size: Nat, bytes: Seq(Byte)])
         /\ dead' \in BOOLEAN /\ UNCHANGED peer
<1> DEFINE v == Short(Len(data))
           fits == v >= 0 /\ Short(v + HEAD_TOTAL_LEN) >= 0
           a == [frame |-> n, size |-> Len(data),
                 bytes |-> IF fits THEN SendNode(id, data, v) ELSE <<>>]
<1>1. /\ answers' = Append(answers, a)
      /\ IF fits THEN Send(n) /\ dead' = dead ELSE dead' = TRUE /\ UNCHANGED vars
  BY DEF Reply
<1>2. Len(data) \in Nat /\ v \in Int /\ v <= Len(data) /\ v <= SMax
      /\ (Len(data) < Word /\ v >= 0 => v = Len(data))
      /\ (v < 0 => Len(data) > SMax) /\ SMax \in Nat
  BY LenProperties, ShortFacts, WordFacts
<1>3. fits => /\ SendNode(id, data, v) \in Seq(Byte) /\ Len(SendNode(id, data, v)) = v + 4
              /\ SubSeq(SendNode(id, data, v), 3, 4) = BigEndian(v)
              /\ v = Len(data) => SendNode(id, data, v) = BigEndian(id) \o BigEndian(v) \o data
  <2>1. fits => v \in 0..SMax
    BY <1>2
  <2> QED BY <1>2, <2>1, SendNodeWhole
<1>4. a \in [frame: DOMAIN nodes, size: Nat, bytes: Seq(Byte)]
      /\ a.frame = n /\ a.size = Len(data) /\ (fits => a.bytes = SendNode(id, data, v))
  BY <1>2, <1>3, EmptySeq
<1>5. ~fits => a.size > SMax - HEAD_TOTAL_LEN
  <2>1. v >= 0 => v + 4 \in Nat
    BY <1>2
  <2> HIDE DEF v
  <2>2. v >= 0 => Short(v + 4) \in Int /\ (Short(v + 4) < 0 => v + 4 > SMax)
    BY <2>1, ShortFacts
  <2>3. ~fits => Len(data) > SMax - 4
    BY <1>2, <2>2 DEF HEAD_TOTAL_LEN
  <2> QED BY <1>4, <2>3 DEF HEAD_TOTAL_LEN
<1>6. fits => WholeAnswer(a)'
  <2> SUFFICES ASSUME fits PROVE WholeAnswer(a)'
    OBVIOUS
  <2>1. framed[n] \in Requests /\ framed[n].len \in Nat /\ framed[n].len < Word
    <3>1. framed[n] \in Requests /\ n \in Nat
      BY Frames, ElementOfSeq
    <3>2. framed[n].len \in 0..(Word - 1)
      BY <3>1, FrameBytes
    <3> QED BY <3>1, <3>2, WordFacts
  <2>2. id = Hello => a.bytes = Frame(n, framed[n])
    <3> SUFFICES ASSUME id = Hello PROVE a.bytes = Frame(n, framed[n])
      OBVIOUS
    <3>1. Len(data) = framed[n].len
      BY <2>1 DEF Body
    <3>2. v = Len(data)
      BY <1>2, <2>1, <3>1
    <3> QED BY <1>3, <1>4, <3>1, <3>2 DEF Frame
  <2>3. /\ Len(a.bytes) = v + 4 /\ SubSeq(a.bytes, 3, 4) = BigEndian(v)
        /\ (a.size < Word => v = a.size)
    BY <1>2, <1>3, <1>4
  <2>4. (v + 4) - 4 = v
    BY <1>2
  <2> HIDE DEF a, fits, v
  <2>5. /\ SubSeq(a.bytes, 3, 4) = BigEndian(Len(a.bytes) - HEAD_TOTAL_LEN)
        /\ a.size < Word => Len(a.bytes) = a.size + HEAD_TOTAL_LEN
        /\ framed[a.frame].id = Hello => a.bytes = Frame(a.frame, framed[a.frame])
    BY <1>4, <2>2, <2>3, <2>4 DEF HEAD_TOTAL_LEN
  <2> QED BY <2>5 DEF WholeAnswer
<1> HIDE DEF a, fits
<1>7. /\ answers' \in Seq([frame: DOMAIN nodes, size: Nat, bytes: Seq(Byte)])
      /\ DOMAIN answers' = 1..(Len(answers) + 1) /\ Len(answers) \in Nat
      /\ answers'[Len(answers) + 1] = a /\ \A i \in 1..Len(answers) : answers'[i] = answers[i]
  BY <1>1, <1>4, Grown, LenProperties DEF RIInv, RecvTypeOK
<1>8. \A i \in 1..Len(answers) : WholeAnswer(answers[i])'
  <2> TAKE i \in 1..Len(answers)
  <2>1. i \in DOMAIN answers
    BY Elements DEF RIInv, RecvTypeOK
  <2>2. WholeAnswer(answers[i]) /\ answers'[i] = answers[i]
    BY <1>7, <2>1 DEF RIInv, AnswersInv
  <2> QED BY <2>2 DEF WholeAnswer
<1>9. sent \in Seq(Msgs) /\ ToSet(delivered) \subseteq ToSet(sent)
      /\ \A i \in DOMAIN sent : sent[i] <= Len(handed)
  BY DeliveredSent DEF RIInv, AnswersInv
<1>10. Len(handed) \in Nat /\ n \in Nat
  BY Frames
<1>11. CASE fits
  <2>1. dead' = dead /\ sent' = Append(sent, n) /\ n \in Msgs /\ UNCHANGED <<peer, delivered>>
    <3>1. n \in 1..MaxFrames
      BY Frames, FrameAssumption
    <3> QED BY <1>1, <1>11, <3>1, FrameAssumption DEF Send
  <2>2. \A i \in DOMAIN answers' : WholeAnswer(answers[i])'
    <3> TAKE i \in DOMAIN answers'
    <3>1. CASE i = Len(answers) + 1
      BY <1>6, <1>7, <1>11, <3>1 DEF WholeAnswer
    <3>2. CASE i # Len(answers) + 1
      <4>1. i \in 1..Len(answers)
        BY <1>7, <3>2
      <4> QED BY <1>8, <4>1
    <3> QED BY <3>1, <3>2
  <2>3. \A i \in DOMAIN sent' : sent'[i] <= Len(handed')
    <3>1. /\ DOMAIN sent' = 1..(Len(sent) + 1) /\ sent'[Len(sent) + 1] = n
          /\ DOMAIN sent = 1..Len(sent) /\ Len(sent) \in Nat
          /\ \A i \in 1..Len(sent) : sent'[i] = sent[i] /\ sent[i] \in Int
      <4>1. \A i \in 1..Len(sent) : sent[i] \in Msgs
        BY <1>9, ElementOfSeq
      <4> QED BY <1>9, <2>1, <4>1, Grown, LenProperties, FrameAssumption
    <3>2. ASSUME NEW i \in DOMAIN sent' PROVE sent'[i] <= Len(handed')
      <4>1. CASE i = Len(sent) + 1
        BY <1>10, <3>1, <4>1
      <4>2. CASE i # Len(sent) + 1
        <5>1. i \in 1..Len(sent) /\ i \in DOMAIN sent
          BY <3>1, <4>2
        <5>2. sent'[i] = sent[i] /\ sent[i] \in Int /\ sent[i] <= Len(handed)
          BY <1>9, <3>1, <5>1
        <5> QED BY <1>10, <5>2
      <4> QED BY <4>1, <4>2
    <3> QED BY <3>2
  <2>4. AnswersInv'
    BY <2>1, <2>2, <2>3 DEF AnswersInv, RepliesWhole, MayThrow
  <2> QED BY <1>7, <2>1, <2>4 DEF RIInv, RecvTypeOK
<1>12. CASE ~fits
  <2>1. dead' = TRUE /\ UNCHANGED <<peer, delivered, sent>>
    BY <1>1, <1>12 DEF vars
  <2>2. n \notin ToSet(sent)
    BY <1>9, <1>10 DEF ToSet
  <2>3. \A i \in DOMAIN answers' :
          (dead' /\ answers'[i].frame \notin ToSet(sent')) \/ WholeAnswer(answers[i])'
    BY <1>4, <1>7, <1>8, <2>1, <2>2
  <2>4. \E i \in DOMAIN answers' : answers'[i].size > SMax - HEAD_TOTAL_LEN
    <3>1. Len(answers) + 1 \in DOMAIN answers' /\ answers'[Len(answers) + 1].size > SMax - HEAD_TOTAL_LEN
      BY <1>5, <1>7, <1>12
    <3> QED BY <3>1
  <2>5. \A i \in DOMAIN answers' : answers'[i].frame \in ToSet(delivered') => WholeAnswer(answers[i])'
    BY <1>9, <2>1, <2>3
  <2>6. \A i \in DOMAIN sent' : sent'[i] <= Len(handed')
    <3>1. \A i \in DOMAIN sent : sent[i] \in Int
      BY <1>9, FrameAssumption, Elements
    <3> QED BY <1>9, <1>10, <2>1, <3>1
  <2>7. RepliesWhole'
    BY <2>4, <2>5 DEF RepliesWhole
  <2>8. AnswersInv'
    BY <2>3, <2>6, <2>7 DEF AnswersInv
  <2> QED BY <1>7, <2>1, <2>8
<1> QED
  BY <1>11, <1>12

(* Handle: the worker takes the nodes in the order of their frames, each once its body     *)
(* is there.                                                                             *)
LEMMA HandleStep == ASSUME RIInv, IInv, ~dead, Handle PROVE RIInv'
<1> DEFINE n == Head(inbox)
           node == nodes[n]
           h == [id |-> node.id, data |-> node.data]
<1>1. /\ inbox # <<>> /\ handed' = Append(handed, h) /\ inbox' = Tail(inbox)
      /\ UNCHANGED <<stream, rpc, nodes, framed>>
  BY DEF Handle
<1>2. /\ n = Len(handed) + 1 /\ n \in DOMAIN nodes /\ n <= Complete /\ n \in Nat
      /\ Len(inbox) > 0
  <2>1. Len(inbox) > 0 /\ 1 \in DOMAIN inbox /\ n = inbox[1] /\ inbox[1] \in DOMAIN nodes
    BY <1>1, Elements DEF RIInv, RecvTypeOK
  <2>2. inbox[1] = Len(handed) + 1 /\ Len(handed) + Len(inbox) = Complete
    BY <2>1 DEF RIInv, NodesInv
  <2> QED BY <2>1, <2>2, Frames
<1>3. /\ node.id = framed[n].id /\ node.data = Body(n, framed[n].len)
      /\ node \in [id: 0..SMax, len: 0..SMax, data: Seq(Byte)]
  <2>1. nodes[n] \in [id: 0..SMax, len: 0..SMax, data: Seq(Byte)]
    BY <1>2, Elements DEF RIInv, RecvTypeOK
  <2> QED BY <1>2, <2>1 DEF RIInv, NodesInv
<1>4. node.id \in 0..SMax /\ node.data \in Seq(Byte) /\ h \in [id: 0..SMax, data: Seq(Byte)]
      /\ h = [id |-> framed[n].id, data |-> Body(n, framed[n].len)]
  BY <1>3
<1> HIDE DEF h
<1>5. /\ handed' \in Seq([id: 0..SMax, data: Seq(Byte)]) /\ Len(handed') = n
      /\ DOMAIN handed' = 1..n /\ handed'[n] = h /\ \A i \in 1..(n - 1) : handed'[i] = handed[i]
  <2> HIDE DEF n
  <2>a. Len(handed) \in Nat
    BY Frames
  <2>b. Len(handed) = n - 1 /\ Len(handed) + 1 = n
    BY <1>2, <2>a
  <2>1. handed \in Seq([id: 0..SMax, data: Seq(Byte)]) /\ Len(handed) \in Nat
        /\ Len(handed) = n - 1 /\ Len(handed) + 1 = n
    BY <2>a, <2>b DEF RIInv, RecvTypeOK
  <2> QED BY <1>1, <1>4, <2>1, Grown
<1>6. /\ inbox' \in Seq(DOMAIN nodes) /\ Len(inbox') = Len(inbox) - 1
      /\ DOMAIN inbox' = 1..(Len(inbox) - 1)
      /\ \A i \in 1..(Len(inbox) - 1) : inbox'[i] = inbox[i + 1]
  <2>1. inbox \in Seq(DOMAIN nodes)
    BY DEF RIInv, RecvTypeOK
  <2> QED BY <1>1, <2>1, HeadTailProperties, LenProperties
<1>7. NodesInv'
  <2>1. Complete' = Complete
    BY <1>1 DEF Complete
  <2>2. Len(handed') + Len(inbox') = Complete'
    BY <1>2, <1>5, <1>6, <2>1, Frames DEF RIInv, NodesInv
  <2>3. ASSUME NEW i \in DOMAIN inbox' PROVE inbox'[i] = Len(handed') + i
    <3>1. i + 1 \in DOMAIN inbox /\ i \in Nat /\ inbox'[i] = inbox[i + 1]
      <4>1. i \in 1..(Len(inbox) - 1) /\ Len(inbox) \in Nat /\ DOMAIN inbox = 1..Len(inbox)
        BY <1>6, Frames
      <4> QED BY <1>6, <4>1
    <3>2. inbox[i + 1] = Len(handed) + (i + 1)
      BY <3>1 DEF RIInv, NodesInv
    <3> QED BY <1>2, <1>5, <3>1, <3>2, Frames
  <2>4. HandedAsFramed'
    <3>1. Len(handed') <= Len(framed')
      BY <1>1, <1>2, <1>5, Frames
    <3>2. ASSUME NEW i \in DOMAIN handed'
          PROVE  handed'[i] = [id |-> framed'[i].id, data |-> Body(i, framed'[i].len)]
      <4>1. CASE i = n
        BY <1>1, <1>4, <1>5, <4>1
      <4>2. CASE i # n
        <5>1. i \in DOMAIN handed /\ handed'[i] = handed[i]
          <6>1. i \in 1..n /\ DOMAIN handed = 1..Len(handed) /\ Len(handed) \in Nat
            BY <1>5, Frames
          <6> QED BY SMTT(40), <1>2, <1>5, <4>2, <6>1
        <5> QED BY <1>1, <5>1 DEF RIInv, NodesInv, HandedAsFramed
      <4> QED BY <4>1, <4>2
    <3> QED BY <3>1, <3>2 DEF HandedAsFramed
  <2> QED BY <1>1, <2>1, <2>2, <2>3, <2>4 DEF RIInv, NodesInv
<1>8. /\ AnswersInv' /\ answers' \in Seq([frame: DOMAIN nodes, size: Nat, bytes: Seq(Byte)])
      /\ dead' \in BOOLEAN /\ UNCHANGED peer
  <2>1. CASE node.id = Hello /\ Reply(n, node.id, node.data)
    <3> DEFINE id == node.id
               data == node.data
    <3>1. /\ n = Len(handed) + 1 /\ id = framed[n].id
          /\ (id = Hello => data = Body(n, framed[n].len)) /\ Reply(n, id, data)
          /\ Len(handed') = n /\ UNCHANGED <<framed, nodes>> /\ n \in DOMAIN nodes
          /\ id \in 0..SMax /\ data \in Seq(Byte)
      BY <1>1, <1>2, <1>3, <1>4, <1>5, <2>1
    <3> HIDE DEF id, data, n
    <3> QED BY <3>1, ReplyStep
  <2>2. ASSUME NEW size \in ReplySizes, node.id \in {List, Query}, Reply(n, node.id, [i \in 1..size |-> 0])
        PROVE  /\ AnswersInv' /\ answers' \in Seq([frame: DOMAIN nodes, size: Nat, bytes: Seq(Byte)])
               /\ dead' \in BOOLEAN /\ UNCHANGED peer
    <3> DEFINE id == node.id
               data == [i \in 1..size |-> 0]
    <3>1. data \in Seq(Byte) /\ id # Hello
      BY <2>2, FrameAssumption, WordFacts DEF Byte
    <3>2. /\ n = Len(handed) + 1 /\ id = framed[n].id
          /\ (id = Hello => data = Body(n, framed[n].len)) /\ Reply(n, id, data)
          /\ Len(handed') = n /\ UNCHANGED <<framed, nodes>> /\ n \in DOMAIN nodes
          /\ id \in 0..SMax
      BY <1>1, <1>2, <1>3, <1>4, <1>5, <2>2, <3>1
    <3> HIDE DEF id, data, n
    <3> QED BY <3>1, <3>2, ReplyStep
  <2>3. CASE UNCHANGED <<vars, answers, dead>>
    <3>1. UNCHANGED <<sent, delivered, peer, answers, dead, framed>>
      BY <1>1, <2>3 DEF vars
    <3>2. \A i \in DOMAIN sent : sent[i] <= Len(handed')
      <4>1. \A i \in DOMAIN sent : sent[i] \in Int
        BY DeliveredSent, FrameAssumption, Elements
      <4>2. Len(handed) <= Len(handed') /\ Len(handed) \in Int /\ Len(handed') \in Int
        BY <1>2, <1>5, Frames
      <4> QED BY <4>1, <4>2 DEF RIInv, AnswersInv
    <3> QED BY <3>1, <3>2 DEF RIInv, AnswersInv, WholeAnswer, RepliesWhole, MayThrow, RecvTypeOK
  <2>4. CASE node.id = Query /\ node.data \in WrongTyped /\ dead' = TRUE /\ UNCHANGED <<vars, answers>>
    <3>1. UNCHANGED <<sent, delivered, peer, answers, framed>> /\ dead' = TRUE
      BY <1>1, <2>4 DEF vars
    <3>2. \A i \in DOMAIN sent : sent[i] <= Len(handed')
      <4>1. \A i \in DOMAIN sent : sent[i] \in Int
        BY DeliveredSent, FrameAssumption, Elements
      <4>2. Len(handed) <= Len(handed') /\ Len(handed) \in Int /\ Len(handed') \in Int
        BY <1>2, <1>5, Frames
      <4> QED BY <4>1, <4>2 DEF RIInv, AnswersInv
    <3>3. n \in DOMAIN framed /\ MayThrow(n)
      <4>1. n \in DOMAIN framed
        BY <1>2, Frames
      <4> QED BY <1>3, <2>4, <4>1 DEF MayThrow
    <3>4. RepliesWhole'
      <4>1. \E i \in DOMAIN framed : framed[i].len > SMax \/ MayThrow(i)
        BY <3>3
      <4> QED BY <3>1, <4>1 DEF RIInv, AnswersInv, WholeAnswer, RepliesWhole, MayThrow
    <3>5. \A i \in DOMAIN answers' :
            (dead' /\ answers'[i].frame \notin ToSet(sent')) \/ WholeAnswer(answers[i])'
      BY <3>1 DEF RIInv, AnswersInv, WholeAnswer
    <3> QED BY <3>1, <3>2, <3>4, <3>5 DEF AnswersInv, RIInv, RecvTypeOK
  <2> QED BY <2>1, <2>2, <2>3, <2>4 DEF Handle
<1>9. RecvTypeOK'
  BY <1>1, <1>5, <1>6, <1>8 DEF RIInv, RecvTypeOK
<1>10. (\E at \in Seq(Int) : Laid(at))'
  BY <1>1, <1>8, LaidStays
<1> QED
  BY <1>7, <1>8, <1>9, <1>10 DEF RIInv

(* The socket and HandleWrite touch nothing of the receiving side.                        *)
LEMMA SendingStep == ASSUME RIInv, ~dead, Sending PROVE RIInv'
<1>1. UNCHANGED <<peer, sent, recv, dead>>
  BY DEF Sending, Socket, HandleWrite, WritePiece, WriteFails, HandleWriteOk, HandleWriteError
<1>2. UNCHANGED <<stream, rpc, nodes, inbox, answers, framed, handed>>
  BY <1>1 DEF recv
<1>3. (\E at \in Seq(Int) : Laid(at))'
  BY <1>1, <1>2, LaidStays
<1>4. RecvTypeOK' /\ NodesInv'
  BY <1>1, <1>2 DEF RIInv, RecvTypeOK, NodesInv, Complete, HandedAsFramed
<1>5. AnswersInv'
  BY <1>1, <1>2 DEF RIInv, AnswersInv, WholeAnswer, RepliesWhole, MayThrow
<1> QED
  BY <1>3, <1>4, <1>5 DEF RIInv

(* A step that leaves the receiving side and what is sent alone.                          *)
LEMMA StillStep ==
  ASSUME RIInv, UNCHANGED <<recv, dead, sent, delivered>>, peer' = "up" => peer = "up"
  PROVE  RIInv'
<1>1. UNCHANGED <<stream, rpc, nodes, inbox, answers, framed, handed>>
  BY DEF recv
<1>2. (\E at \in Seq(Int) : Laid(at))'
  BY <1>1, LaidStays
<1>3. RecvTypeOK' /\ NodesInv'
  BY <1>1 DEF RIInv, RecvTypeOK, NodesInv, Complete, HandedAsFramed
<1>4. AnswersInv'
  BY <1>1 DEF RIInv, AnswersInv, WholeAnswer, RepliesWhole, MayThrow
<1> QED
  BY <1>2, <1>3, <1>4 DEF RIInv

(* The client sends a frame, or leaves, maybe within one.                                 *)
LEMMA ClientStep == ASSUME RIInv, ~dead, Client PROVE RIInv'
<1>1. ASSUME NEW q \in Requests, ClientSends(q) PROVE RIInv'
  <2> DEFINE k == FrameLen(q)
             f == Frame(Len(framed) + 1, q)
  <2>1. k \in 1..FrameLen(q) /\ k \in Nat
    BY FrameLengths
  <2>2. framed' = Append(framed, q) /\ Len(framed') = Len(framed) + 1 /\ Len(framed) + 1 \in Nat
    BY <1>1, Frames, Grown DEF ClientSends
  <2>3. f \in Seq(Byte) /\ Len(f) = k
    BY <2>2, FrameLengths
  <2>4. SubSeq(f, 1, k) = f
    BY <2>1, <2>3, SeqEqual, SubSeqProperties
  <2>5. /\ peer = "up" /\ Len(framed) < MaxFrames
        /\ UNCHANGED <<rpc, nodes, inbox, answers, handed, sent, delivered, dead>>
        /\ stream' = stream \o SubSeq(Frame(Len(framed) + 1, q), 1, k)
    BY <1>1, <2>2, <2>4 DEF ClientSends, vars
  <2> HIDE DEF k, f
  <2>6. peer' = "up" => k = FrameLen(q)
    BY DEF k
  <2> QED BY <2>1, <2>2, <2>5, <2>6, FramedGrows
<1>2. CASE PeerLeaves /\ UNCHANGED <<stream, framed, rpc, nodes, inbox, answers, handed, dead>>
  BY <1>2, StillStep DEF PeerLeaves, recv
<1>3. ASSUME NEW q \in Requests, NEW k \in 1..(HEAD_TOTAL_LEN + q.len - 1),
             PeerLeaves, peer = "up", peer' = "fin", Len(framed) < MaxFrames,
             framed' = Append(framed, q), stream' = stream \o SubSeq(Frame(Len(framed'), q), 1, k),
             UNCHANGED <<rpc, nodes, inbox, answers, handed, dead>>
      PROVE  RIInv'
  <2>1. Len(framed') = Len(framed) + 1
    BY <1>3, Frames, Grown
  <2>2. k \in 1..FrameLen(q)
    BY FrameLengths DEF FrameLen, HEAD_TOTAL_LEN
  <2>3. /\ UNCHANGED <<rpc, nodes, inbox, answers, handed, sent, delivered, dead>>
        /\ stream' = stream \o SubSeq(Frame(Len(framed) + 1, q), 1, k)
        /\ (peer' = "up" => k = FrameLen(q))
    BY <1>3, <2>1 DEF PeerLeaves
  <2> QED BY <1>3, <2>2, <2>3, FramedGrows
<1> QED
  BY <1>1, <1>2, <1>3 DEF Client, ClientLeaves

(* A new session, and a client that has sent nothing.                                     *)
LEMMA InitRIInv == SInit => RIInv
<1> SUFFICES ASSUME SInit PROVE RIInv
  OBVIOUS
<1>1. RecvTypeOK
  BY EmptySeq DEF SInit, RecvTypeOK
<1>2. Laid(<<0>>) /\ <<0>> \in Seq(Int)
  BY EmptySeq DEF SInit, Laid, Placed
<1>3. NodesInv /\ AnswersInv
  <2>1. Len(<<>>) = 0 /\ DOMAIN <<>> = {}
    OBVIOUS
  <2>2. MaxFrames \in Nat
    BY FrameAssumption
  <2> QED BY <2>1, <2>2 DEF SInit, Init, NodesInv, Complete, HandedAsFramed, AnswersInv, RepliesWhole
<1> QED
  BY <1>1, <1>2, <1>3 DEF RIInv

(* Every step of a session is a step of its sending side, or leaves that alone.            *)
LEMMA SendPart == ASSUME RIInv, [SNext]_svars PROVE [Next]_vars
<1>1. ASSUME NEW n, NEW id, NEW data, n \in DOMAIN nodes, Reply(n, id, data)
      PROVE  [Next]_vars
  <2>1. n \in Msgs
    BY <1>1, Frames, FrameAssumption
  <2> QED BY <1>1, <2>1 DEF Reply, Next
<1>2. ASSUME Handle PROVE [Next]_vars
  <2>1. Head(inbox) \in DOMAIN nodes
    BY <1>2, HeadTailProperties DEF Handle, RIInv, RecvTypeOK
  <2>2. \/ \E id, data : Reply(Head(inbox), id, data)
        \/ UNCHANGED vars
    BY <1>2 DEF Handle
  <2> QED BY <1>1, <2>1, <2>2
<1>3. ASSUME Client \/ Reading \/ Sending PROVE [Next]_vars
  BY <1>3 DEF Client, ClientLeaves, ClientSends, Reading, HandleReadHead, HandleReadBody,
              ReadFails, Sending, Next
<1> QED
  BY <1>2, <1>3 DEF SNext, svars

(* The inductive invariant of a whole session: what is left of the stream is what the     *)
(* client framed from the next head on, the nodes are its frames, and the answers are      *)
(* whole, whatever the client, the reads, the worker and the writes do and in which order. *)
THEOREM SessionInvariant == SSpec => [](IInv /\ RIInv)
<1>1. SInit => IInv /\ RIInv
  BY InitIInv, InitRIInv DEF SInit
<1>2. IInv /\ RIInv /\ [SNext]_svars => (IInv /\ RIInv)'
  <2> SUFFICES ASSUME IInv, RIInv, [SNext]_svars PROVE IInv' /\ RIInv'
    OBVIOUS
  <2>1. IInv'
    BY SendPart, StepIInv
  <2>2. ASSUME ~dead, Reading PROVE RIInv'
    <3>1. CASE ReadFails
      BY <3>1, StillStep DEF ReadFails, Close
    <3> QED BY <2>2, <3>1, HeadStep, BodyStep DEF Reading
  <2>3. CASE UNCHANGED svars
    <3>1. UNCHANGED <<recv, dead, sent, delivered>> /\ (peer' = "up" => peer = "up")
      BY <2>3 DEF svars, vars
    <3> QED BY <2>1, <3>1, StillStep
  <2> QED BY <2>1, <2>2, <2>3, ClientStep, HandleStep, SendingStep DEF SNext
<1> QED
  BY <1>1, <1>2, PTL DEF SSpec

(* A session with its client implements its sending side.                                 *)
THEOREM SessionImplementsSend == SSpec => Spec
<1>1. RIInv /\ [SNext]_svars => [Next]_vars
  BY SendPart
<1>2. SInit => Init
  BY DEF SInit
<1> QED
  BY <1>1, <1>2, SessionInvariant, PTL DEF SSpec, Spec

(* The types of a session, lengths and bytes included.                                    *)
THEOREM SessionTypes == SSpec => []RecvTypeOK
  BY SessionInvariant, PTL DEF RIInv

(* The handlers are given what the client framed, each frame once and in order.            *)
THEOREM HandedCorrect == SSpec => []HandedAsFramed
  BY SessionInvariant, PTL DEF RIInv, NodesInv

(* What the client gets are whole frames that say their length, and a hello as it was     *)
(* sent; and of what is sent and answered only a length that does not fit or a field of   *)
(* another type than its handler reads ends the process.                                 *)
THEOREM RepliesCorrect == SSpec => []RepliesWhole
  BY SessionInvariant, PTL DEF RIInv, AnswersInv

(* Under the whole session, as under its sending side alone: whole frames on the wire,    *)
THEOREM SessionFraming == SSpec => []FramesIntact
  BY SessionImplementsSend, FramingCorrect

(* nothing sent once a write has failed,                                                 *)
THEOREM SessionSilence == SSpec => SilentAfterError
  BY SessionImplementsSend, SilenceCorrect

(* and the frames in the order of the calls of Send, each once.                           *)
THEOREM SessionRefinesFifo == SSpec => ImplementsFifo
  BY SessionImplementsSend, SendRefinesFifo DEF ImplementsFifo

================================================================================
