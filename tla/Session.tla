--------------------------------- MODULE Session ---------------------------------
(* A CSession with its client: the frames the client sends, the head and the body   *)
(* that async_read completes, the RecvNode handed to LogicSystem's worker through   *)
(* its queue, and the SendNode of the answer, which SessionSend sends.              *)
(* Lengths are 16 bits wide in both directions and signed in the code.  A byte here *)
(* has Base values, so that a short wraps at small lengths.  A node, received or    *)
(* sent, is known by the number of its frame.                                       *)
EXTENDS SessionSend, Integers

CONSTANTS Base,        \* values of a byte (256)
          Hello,       \* MSG_HELLO_WORD, answered with what it carries
          List,        \* an identifier answered with data (MSG_GET_FRIEND_LIST)
          Query,       \* one whose handler reads fields of its JSON (MSG_SEARCH_USER)
          WrongTyped,  \* bodies with a field of another type than that handler reads
          Requests,    \* what the client may send: an identifier and a length
          ReplySizes,  \* lengths of the answers made from data
          MaxFrames    \* bound: frames of the client

Word == Base * Base
SMax == Word \div 2 - 1
HEAD_TOTAL_LEN == 4

ASSUME FrameAssumption ==
  /\ Base \in Nat \ {0, 1} /\ Word % 2 = 0
  /\ Requests \subseteq [id: 0..SMax, len: 0..(Word - 1)]
  /\ Hello \notin {List, Query} /\ List # Query /\ {Hello, List, Query} \subseteq 0..SMax
  /\ ReplySizes \subseteq Nat
  /\ MaxFrames \in Nat /\ Msgs = 1..MaxFrames

VARIABLES stream,   \* bytes sent by the client and not read yet
          rpc,      \* which async_read is outstanding: "head" or "body"
          nodes,    \* the RecvNodes made
          inbox,    \* nodes posted to LogicSystem and not handled
          answers,  \* the SendNodes: the length of the answer, and _data
          dead,     \* an exception or a wild write has ended the process
          framed,   \* history: the client's frames, the last one maybe cut
          handed    \* history: what the handlers were given

recv == <<stream, rpc, nodes, inbox, answers, framed, handed>>
svars == <<vars, recv, dead>>

--------------------------------------------------------------------------------
(* A conversion to short.                                                            *)
Short(x) == IF x % Word <= SMax THEN x % Word ELSE (x % Word) - Word

(* memcpy of two bytes into a short of a little-endian machine, and out of one.       *)
Load(b) == Short(b[1] + Base * b[2])
Store(x) == <<x % Base, (x % Word) \div Base>>

(* htons and ntohs: the two bytes change places.                                      *)
Swapped(x) == Load(Reverse(Store(x)))

(* What the client puts on the stream as its n-th frame.                              *)
Body(n, len) == [i \in 1..len |-> n % Base]
BigEndian(x) == <<x \div Base, x % Base>>
Frame(n, q) == BigEndian(q.id) \o BigEndian(q.len) \o Body(n, q.len)

SInit ==
  /\ Init
  /\ stream = <<>> /\ rpc = "head" /\ nodes = <<>> /\ inbox = <<>> /\ answers = <<>>
  /\ dead = FALSE /\ framed = <<>> /\ handed = <<>>

--------------------------------------------------------------------------------
(* The client.                                                                       *)
ClientSends(q) ==
  /\ peer = "up" /\ Len(framed) < MaxFrames
  /\ framed' = Append(framed, q)
  /\ stream' = stream \o Frame(Len(framed'), q)
  /\ UNCHANGED <<vars, rpc, nodes, inbox, answers, handed, dead>>

(* It leaves, maybe within a frame.                                                   *)
ClientLeaves ==
  /\ PeerLeaves
  /\ \/ UNCHANGED <<stream, framed>>
     \/ /\ peer = "up" /\ peer' = "fin" /\ Len(framed) < MaxFrames
        /\ \E q \in Requests : \E k \in 1..(HEAD_TOTAL_LEN + q.len - 1) :
             /\ framed' = Append(framed, q)
             /\ stream' = stream \o SubSeq(Frame(Len(framed'), q), 1, k)
  /\ UNCHANGED <<rpc, nodes, inbox, answers, handed, dead>>

--------------------------------------------------------------------------------
(* The session's io_context thread.                                                   *)

Needed == IF rpc = "head" THEN HEAD_TOTAL_LEN ELSE Last(nodes).len
Readable == ~b_close /\ peer # "reset" /\ Len(stream) >= Needed

(* msg_len.  Above MAX_LENGTH it is logged, and used.                                  *)
HeadLength == Swapped(Load(SubSeq(stream, 3, 4)))

(* Mutant of NewNode: the node of the frame before is filled again.                    *)
NewNodeReused(node) == IF nodes = <<>> THEN <<node>>
                       ELSE [n \in 1..(Len(nodes) + 1) |-> IF n >= Len(nodes) THEN node ELSE nodes[n]]

(* make_shared<RecvNode>: a new object, its body still to come.                        *)
NewNode(node) == Append(nodes, node)

(* HandleReadHead.  For a negative length new[] throws in the thread function, or at   *)
(* -1 gives nothing to write to and a read of any length.                              *)
HandleReadHead ==
  /\ rpc = "head" /\ Readable
  /\ IF HeadLength < 0
     THEN dead' = TRUE /\ UNCHANGED <<stream, rpc, nodes>>
     ELSE /\ nodes' = NewNode([id |-> Swapped(Load(SubSeq(stream, 1, 2))), len |-> HeadLength,
                               data |-> <<>>])
          /\ stream' = SubSeq(stream, HEAD_TOTAL_LEN + 1, Len(stream))
          /\ rpc' = "body"
          /\ UNCHANGED dead
  /\ UNCHANGED <<vars, inbox, answers, framed, handed>>

(* HandleReadBody: the node goes to LogicSystem, and Start reads the next head.        *)
HandleReadBody ==
  /\ rpc = "body" /\ Readable
  /\ nodes' = [nodes EXCEPT ![Len(nodes)].data = SubSeq(stream, 1, Needed)]
  /\ stream' = SubSeq(stream, Needed + 1, Len(stream))
  /\ inbox' = Append(inbox, Len(nodes))
  /\ rpc' = "head"
  /\ UNCHANGED <<vars, answers, framed, handed, dead>>

(* Either, with an error: the end of the stream within a head or a body, or a reset.   *)
ReadFails ==
  /\ ~Readable
  /\ Close
  /\ UNCHANGED <<recv, dead>>

--------------------------------------------------------------------------------
(* LogicSystem's worker.                                                              *)

(* Mutant of SendNode: the length sent counts the head.                                *)
SendNodeTotal(id, data, max_len) ==
  Store(Swapped(id)) \o Store(Swapped(max_len + HEAD_TOTAL_LEN)) \o SubSeq(data, 1, max_len)

(* The bytes of a SendNode.                                                           *)
SendNode(id, data, max_len) ==
  Store(Swapped(id)) \o Store(Swapped(max_len)) \o SubSeq(data, 1, max_len)

(* Send with the answer's length converted to short.  When that, or the total with the *)
(* head, is negative, new[] throws or memcpy runs wild, and the process ends.           *)
Reply(n, id, data) ==
  LET max_len == Short(Len(data))
      fits    == max_len >= 0 /\ Short(max_len + HEAD_TOTAL_LEN) >= 0
  IN /\ answers' = Append(answers, [frame |-> n, size |-> Len(data),
                                    bytes |-> IF fits THEN SendNode(id, data, max_len) ELSE <<>>])
     /\ IF fits THEN Send(n) /\ UNCHANGED dead ELSE dead' = TRUE /\ UNCHANGED vars

(* The next message, given to its handler: HelloWordCallBack answers with what it got, *)
(* the others with data.  They drop a session that has not logged in, as an identifier *)
(* without a callback is dropped; and get<int>() and its like throw in the worker's    *)
(* thread function on a field of another type.                                         *)
Handle ==
  /\ inbox # <<>>
  /\ LET n == Head(inbox)
         node == nodes[n]
         throws == node.id = Query /\ node.data \in WrongTyped
     IN /\ handed' = Append(handed, [id |-> node.id, data |-> node.data])
        /\ \/ node.id = Hello /\ Reply(n, node.id, node.data)
           \/ /\ node.id \in {List, Query} /\ ~throws
              /\ \E size \in ReplySizes : Reply(n, node.id, [i \in 1..size |-> 0])
           \/ throws /\ dead' = TRUE /\ UNCHANGED <<vars, answers>>
           \/ node.id # Hello /\ UNCHANGED <<vars, answers, dead>>
  /\ inbox' = Tail(inbox)
  /\ UNCHANGED <<stream, rpc, nodes, framed>>

--------------------------------------------------------------------------------
Client == ClientLeaves \/ \E q \in Requests : ClientSends(q)
Reading == HandleReadHead \/ HandleReadBody \/ ReadFails
Sending == (Socket \/ HandleWrite) /\ UNCHANGED <<recv, dead>>

SNext == ~dead /\ (Client \/ Reading \/ Handle \/ Sending)

SSpec == SInit /\ [][SNext]_svars

(* The io_context runs the handlers that are ready, the worker the messages it is given *)
(* (LogicQueue), and the client reads what it is sent.                                  *)
SLiveSpec ==
  /\ SSpec
  /\ WF_svars(~dead /\ Reading)
  /\ WF_svars(~dead /\ Handle)
  /\ WF_svars(~dead /\ Socket /\ UNCHANGED <<recv, dead>>)
  /\ WF_svars(~dead /\ HandleWrite /\ UNCHANGED <<recv, dead>>)

--------------------------------------------------------------------------------
Byte == 0..(Base - 1)

RecvTypeOK ==
  /\ stream \in Seq(Byte) /\ rpc \in {"head", "body"} /\ dead \in BOOLEAN
  /\ nodes \in Seq([id: 0..SMax, len: 0..SMax, data: Seq(Byte)])
  /\ inbox \in Seq(DOMAIN nodes)
  /\ answers \in Seq([frame: DOMAIN nodes, size: Nat, bytes: Seq(Byte)])
  /\ framed \in Seq(Requests) /\ handed \in Seq([id: 0..SMax, data: Seq(Byte)])

(* CSession.cc:41 and :65: what the handlers are given is what the client framed, each  *)
(* frame once and in order, however reading goes on while messages wait for the worker. *)
HandedAsFramed ==
  /\ Len(handed) <= Len(framed)
  /\ \A n \in DOMAIN handed : handed[n] = [id |-> framed[n].id, data |-> Body(n, framed[n].len)]

WholeAnswer(a) ==
  /\ SubSeq(a.bytes, 3, 4) = BigEndian(Len(a.bytes) - HEAD_TOTAL_LEN)
  /\ framed[a.frame].id = Hello => a.bytes = Frame(a.frame, framed[a.frame])
  /\ a.size < Word => Len(a.bytes) = a.size + HEAD_TOTAL_LEN

(* MsgNode.h:29: what the client gets parses as frames, a hello comes back as it was     *)
(* sent, and an answer is cut only if its length does not fit in 16 bits at all.  Of what *)
(* clients send and are answered, the process ends only over a body of more than SMax     *)
(* bytes, an answer that leaves no room for its head below SMax, or a body with a field   *)
(* of a type that its handler does not expect (LogicSystem.cc:128).                       *)
MayThrow(n) == framed[n].id = Query /\ Body(n, framed[n].len) \in WrongTyped
RepliesWhole ==
  /\ dead => \/ \E n \in DOMAIN framed : framed[n].len > SMax \/ MayThrow(n)
             \/ \E i \in DOMAIN answers : answers[i].size > SMax - HEAD_TOTAL_LEN
  /\ \A i \in DOMAIN answers :
       answers[i].frame \in ToSet(delivered) => WholeAnswer(answers[i])

(* A hello is answered while the client stays: read, queued, handled, sent.              *)
EveryHelloEchoed ==
  \A n \in Msgs :
    (Len(framed) >= n /\ framed[n].id = Hello) ~> (n \in ToSet(delivered) \/ peer # "up" \/ dead)

(* The inductive invariant.  Where frame n begins on what is left of the stream is at[n], *)
(* below 0 for the frames that have been read.                                          *)
FrameLen(q) == HEAD_TOTAL_LEN + q.len
Placed(at, frames, bytes) ==
  /\ Len(at) = Len(frames) + 1
  /\ \A n \in 1..Len(frames) :
       at[n + 1] = at[n] + FrameLen(frames[n]) /\ at[n + 1] <= at[Len(frames) + 1]
  /\ Len(bytes) <= at[Len(frames) + 1]
  /\ \A n \in 1..Len(frames) : \A i \in 1..FrameLen(frames[n]) :
       at[n] + i \in 1..Len(bytes) => bytes[at[n] + i] = Frame(n, frames[n])[i]
Laid(at) ==
  /\ Placed(at, framed, stream)
  /\ peer = "up" => Len(stream) = at[Len(framed) + 1]
  /\ Len(nodes) <= Len(framed)
  /\ IF rpc = "head" THEN at[Len(nodes) + 1] = 0
     ELSE nodes # <<>> /\ at[Len(nodes)] = -HEAD_TOTAL_LEN

(* How many nodes have their body: those are handled in order, the others of them wait.   *)
Complete == IF rpc = "head" THEN Len(nodes) ELSE Len(nodes) - 1
NodesInv ==
  /\ \A n \in DOMAIN nodes :
       /\ nodes[n].id = framed[n].id /\ nodes[n].len = framed[n].len
       /\ n <= Complete => nodes[n].data = Body(n, framed[n].len)
  /\ Len(framed) <= MaxFrames
  /\ Len(handed) + Len(inbox) = Complete
  /\ \A i \in DOMAIN inbox : inbox[i] = Len(handed) + i
  /\ HandedAsFramed

(* An answer is whole, or the process has ended over it and it is not sent.               *)
AnswersInv ==
  /\ \A i \in DOMAIN sent : sent[i] <= Len(handed)
  /\ \A i \in DOMAIN answers :
       (dead /\ answers[i].frame \notin ToSet(sent)) \/ WholeAnswer(answers[i])
  /\ RepliesWhole

RIInv == RecvTypeOK /\ (\E at \in Seq(Int) : Laid(at)) /\ NodesInv /\ AnswersInv

================================================================================
