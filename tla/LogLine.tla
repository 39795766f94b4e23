--------------------------------- MODULE LogLine ---------------------------------
(* A line of the log, made by each thread of Threads: Logger puts the time, the       *)
(* thread and the level into a LogStream, the caller its pieces, ~Logger the place     *)
(* in the source and a newline; the result goes to the output, under its mutex.        *)
(* LogStream's FixedBuffer takes a piece whole or drops it without a word.            *)
(* A character is a string of length one, and so is a label of fixed text.  LOG_FATAL   *)
(* is in AsyncLogging.                                                               *)
EXTENDS Threads, SequencesExt

CONSTANTS Size,        \* kSmallBuffer
          MaxNumeric,  \* kMaxNumericSize
          PerSecond,   \* kMicroSecondsPerSecond, scaled to two digits
          Times,       \* microseconds since the epoch that the clock may show
          Letters,     \* characters of the callers' texts
          Messages,    \* what callers put into a line: sequences of pieces
          MaxMade      \* bound: lines made

ASSUME LineAssumption ==
  /\ Size \in Nat /\ MaxNumeric \in Nat /\ PerSecond \in Nat \ {0} /\ Times \subseteq Nat
  /\ MaxMade \in Nat

VARIABLES logLevel,   \* g_logLevel
          line,       \* of each thread: the pieces of its line, and the LogStream's text
          made        \* lines made so far

lineVars == <<tvars, logLevel, line, made>>

Levels == [TRACE |-> 0, DEBUG |-> 1, INFO |-> 2, WARN |-> 3, ERROR |-> 4]
NoLine == [pieces |-> <<>>, text |-> <<>>]

LineInit ==
  /\ TInit
  /\ logLevel \in {"TRACE", "ERROR"}
  /\ line = [t \in Threads |-> NoLine] /\ made = 0

--------------------------------------------------------------------------------
(* LogStream and FixedBuffer.                                                         *)

(* C++ division truncates, and the remainder has the sign of the dividend.              *)
Quotient(i, n) == IF i < 0 THEN -((-i) \div n) ELSE i \div n
Remainder(i, n) == i - n * Quotient(i, n)

(* digits[] and zero, which points into its middle.                                    *)
digits == <<"9", "8", "7", "6", "5", "4", "3", "2", "1", "0",
            "1", "2", "3", "4", "5", "6", "7", "8", "9">>
zero == 10
digitsHex == <<"0", "1", "2", "3", "4", "5", "6", "7", "8", "9", "A", "B", "C", "D", "E", "F">>

(* The loops of convert and convertHex, the last digit first.                           *)
Reversed[i \in Int] ==
  <<digits[zero + Remainder(i, 10)]>> \o
  (IF Quotient(i, 10) = 0 THEN <<>> ELSE Reversed[Quotient(i, 10)])

ReversedHex[i \in Nat] ==
  <<digitsHex[1 + (i % 16)]>> \o (IF i \div 16 = 0 THEN <<>> ELSE ReversedHex[i \div 16])

convert(v) == Reverse(Reversed[v] \o IF v < 0 THEN <<"-">> ELSE <<>>)
convertHex(v) == Reverse(ReversedHex[v])

(* A piece: characters, an integer of any type, or a pointer.                           *)
Chars(s) == [kind |-> "chars", chars |-> s]
Number(v) == [kind |-> "number", value |-> v]
Pointer(v) == [kind |-> "pointer", value |-> v]

(* LogStream.h:63: an integer has at most 64 bits, twenty digits, and room for a sign and  *)
(* more.  Whatever the scale of MaxNumeric, no number of a line comes nearer to it.       *)
TenTo[k \in 0..MaxNumeric] == IF k = 0 THEN 1 ELSE 10 * TenTo[k - 1]
NumberBound == TenTo[MaxNumeric - 3]

(* What there is to be put into a stream.                                               *)
Character ==
  Letters \cup ToSet(digitsHex) \cup {"-", "x", ".", " ", "f", " - ", "file", ":", "\n"}
  \cup DOMAIN Levels
Piece == [kind : {"chars"}, chars : Seq(Character)]
         \cup [kind : {"number"}, value : (-NumberBound + 1)..(NumberBound - 1)]
         \cup [kind : {"pointer"}, value : 0..(NumberBound - 1)]

(* What callers put in is such pieces, and so is the tid.                               *)
ASSUME WidthAssumption ==
  /\ Size > 0 /\ MaxNumeric > 3
  /\ Messages \subseteq Seq(Piece) /\ \A t \in Threads : t < NumberBound

(* What operator<< makes of it.                                                        *)
Shown(p) ==
  IF p.kind = "chars" THEN p.chars
  ELSE IF p.kind = "number" THEN convert(p.value) ELSE <<"0", "x">> \o convertHex(p.value)

(* Mutant of HasRoom: a text may fill the buffer to the last character.                 *)
HasRoomExactly(length, p) ==
  IF p.kind = "chars" THEN Size - length >= Len(p.chars) ELSE Size - length >= MaxNumeric

(* append needs room for one character more; a number is written in place when any      *)
(* number would have room.                                                             *)
HasRoom(length, p) ==
  IF p.kind = "chars" THEN Size - length > Len(p.chars) ELSE Size - length >= MaxNumeric

(* What operator<< leaves in the buffer.                                               *)
Put(text, p) == text \o (IF HasRoom(Len(text), p) THEN Shown(p) ELSE <<>>)

(* A LogStream that has been given the pieces, from the first to the last.               *)
Stream(pieces) ==
  LET upTo[k \in 0..Len(pieces)] == IF k = 0 THEN <<>> ELSE Put(upTo[k - 1], pieces[k])
  IN upTo[Len(pieces)]

--------------------------------------------------------------------------------
(* Logger.                                                                            *)

(* %06d, at PerSecond.                                                                *)
Padded(v) == IF v < 10 THEN <<"0">> \o convert(v) ELSE convert(v)

(* formatTime: the second (its date and time of day, here its number) and the fraction.  *)
TimePiece(now) ==
  Chars(convert(now \div PerSecond) \o <<".">> \o Padded(now % PerSecond) \o <<" ">>)

(* Impl's constructor; TRACE and DEBUG lines name their function.                        *)
Begin(t, level, now) ==
  <<TimePiece(now), Number(t), Chars(<<" ">>), Chars(<<level>>)>> \o
  (IF Levels[level] <= Levels.DEBUG THEN <<Chars(<<"f">>), Chars(<<" ">>)>> ELSE <<>>)

(* finish: " - ", the file, ":", the line number, the end of the line.                   *)
Finish == <<Chars(<<" - ">>), Chars(<<"file">>), Chars(<<":">>), Number(7), Chars(<<"\n">>)>>

(* The LOG_ macros: a line below the level is not made; WARN and above always is.        *)
Enabled(level) == Levels[level] >= Levels.WARN \/ Levels[logLevel] <= Levels[level]

(* The whole of a LOG_ statement up to the output: the stream is the thread's own.        *)
MakeLine(t) ==
  /\ pc[t] = "log" /\ made < MaxMade
  /\ CacheTid(t)
  /\ \E level \in DOMAIN Levels, now \in Times, message \in Messages :
       IF Enabled(level)
       THEN LET pieces == Begin(t, level, now) \o message \o Finish
            IN /\ line' = [line EXCEPT ![t] = [pieces |-> pieces, text |-> Stream(pieces)]]
               /\ made' = made + 1
               /\ Goto(t, "output")
       ELSE Goto(t, "end") /\ UNCHANGED <<line, made>>
  /\ UNCHANGED <<tid, sem, mutex, latchCount, logLevel>>

MakeNone(t) ==
  /\ pc[t] = "log" /\ Goto(t, "end")
  /\ UNCHANGED <<cachedTid, tid, sem, mutex, latchCount, logLevel, line, made>>

(* g_output, under the mutex of the output; the stream ends with its Logger.              *)
Output(t) ==
  /\ pc[t] = "output" /\ lk[t] = "in"
  /\ line' = [line EXCEPT ![t] = NoLine]
  /\ LockGoes(t, "leaving")
  /\ UNCHANGED <<pc, cachedTid, tid, sem, lockedBy, holder, prev, latchCount, logLevel, made>>

--------------------------------------------------------------------------------
Step(t) == Output(t) \/ (ThreadSteps(t) /\ UNCHANGED <<logLevel, line, made>>)
Locking(t) == (Acquire(t) \/ Reacquire(t)) /\ UNCHANGED <<logLevel, line, made>>
Spurious(t) == SpuriousWakeup(t) /\ UNCHANGED <<logLevel, line, made>>

LineNext == \E t \in Threads : MakeLine(t) \/ MakeNone(t) \/ Step(t) \/ Locking(t) \/ Spurious(t)

LineSpec == LineInit /\ [][LineNext]_lineVars

(* A thread runs, whether or not it logs, and one that can get the mutex again and again    *)
(* gets it.                                                                              *)
LineLiveSpec == LineSpec /\ \A t \in Threads : WF_lineVars(Step(t)) /\ SF_lineVars(Locking(t))

--------------------------------------------------------------------------------
(* The text of a line is what its stream has made of the pieces.                          *)
LineInv ==
  /\ line \in [Threads -> [pieces : Seq(Piece), text : Seq(Character)]]
  /\ \A t \in Threads : line[t].text = Stream(line[t].pieces)

(* LogStream.cc:20: what a number is shown as reads back as the number, the least one       *)
(* included, with no digit to spare.                                                     *)
DigitValue(table, c) == (CHOOSE i \in DOMAIN table : table[i] = c) - 1
ValueOf(table, s) ==
  LET upTo[k \in 0..Len(s)] ==
        IF k = 0 THEN 0 ELSE Len(table) * upTo[k - 1] + DigitValue(table, s[k])
  IN upTo[Len(s)]
Decimal == SubSeq(digitsHex, 1, 10)

ReadsBack(p) ==
  LET s == Shown(p)
      minus == s[1] = "-"
      body == IF p.kind = "pointer" THEN SubSeq(s, 3, Len(s)) ELSE IF minus THEN Tail(s) ELSE s
      value == ValueOf(IF p.kind = "pointer" THEN digitsHex ELSE Decimal, body)
  IN /\ p.value = IF minus /\ p.kind = "number" THEN -value ELSE value
     /\ Len(body) > 1 => body[1] # "0"
     /\ Len(s) < MaxNumeric

(* All the pieces, one after the other.                                                 *)
Joined(pieces) ==
  LET upTo[k \in 0..Len(pieces)] == IF k = 0 THEN <<>> ELSE upTo[k - 1] \o Shown(pieces[k])
  IN upTo[Len(pieces)]

(* FixedBuffer.h:36: a line never fills its buffer, its numbers read back, and it is all     *)
(* there, newline and place included, if with the room a number asks for it fits.           *)
LinesReadBack ==
  \A t \in Threads :
    LET pieces == line[t].pieces
        whole == Joined(pieces)
    IN line[t] # NoLine =>
         /\ Len(line[t].text) < Size
         /\ \A k \in DOMAIN pieces : pieces[k].kind # "chars" => ReadsBack(pieces[k])
         /\ Len(whole) + MaxNumeric <= Size => line[t].text = whole

================================================================================
