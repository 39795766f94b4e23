------------------------------- MODULE MCSession --------------------------------
(* Session, and with it SessionSend, with bytes of two bits: a short is -8..7, and  *)
(* 3 bytes are the longest answer that can be sent.  The second frame's body, if it is *)
(* a query of two bytes, has a field of the wrong type.                             *)
EXTENDS Session, TLC

MCRequests == {[id |-> 1, len |-> 0], [id |-> 1, len |-> 3], [id |-> 1, len |-> 5],
               [id |-> 2, len |-> 1], [id |-> 3, len |-> 2], [id |-> 3, len |-> 9]}
MCWrongTyped == {<<2, 2>>}
MCReplySizes == {2, 4, 9, 18}

================================================================================
