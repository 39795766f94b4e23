---------------------------------- MODULE Fifo ----------------------------------
(* What a queue of this server promises its users: messages come out in the     *)
(* order in which they went in, each at most once and none invented.            *)
(* LogicQueue (LogicSystem's message queue) and SessionSend (a CSession's send   *)
(* queue) are shown to implement it.                                            *)
EXTENDS Naturals, Sequences

CONSTANT Msgs      \* the messages that may be put

VARIABLES put,     \* every message put so far, in order
          got      \* every message got so far, in order

Init == /\ put = << >>
        /\ got = << >>

Put == /\ \E m \in Msgs : put' = Append(put, m)
       /\ UNCHANGED got

Get == /\ Len(got) < Len(put)
       /\ got' = Append(got, put[Len(got) + 1])
       /\ UNCHANGED put

Next == Put \/ Get

Spec == Init /\ [][Next]_<<put, got>>

================================================================================
