------------------------------- MODULE MCLogLine --------------------------------
(* LogLine and Threads: integers of five bits, signed and unsigned, and texts that    *)
(* fit, that leave no room for what follows, and that do not fit.                    *)
EXTENDS LogLine, TLC

Text(n) == Chars([i \in 1..n |-> "x"])
MCMessages ==
  {<<>>} \cup {<<Text(n)>> : n \in {0, 6, 13, 16, 30}}
  \cup {<<Number(v)>> : v \in -16..31} \cup {<<Pointer(v)>> : v \in {0, 15, 16, 31}}
  \cup {<<Text(n), Number(-16)>> : n \in {6, 11, 16}}

================================================================================
