---------------------------------- MODULE LogFile ----------------------------------
(* lim::LogFile over FileUtil::AppendFile: appends go through a stdio buffer into a   *)
(* file named by the second of its creation, and a new file is begun when the size    *)
(* limit is passed or, looked at every CheckEvery appends, the day has changed.        *)
(* A text is a sequence of lines; the used length of a line is 1.  The caller is one   *)
(* thread (threadSafe is false).                                                      *)
EXTENDS Integers, SequencesExt

CONSTANTS RollSize,       \* rollSize_
          CheckEvery,     \* checkEveryN_
          FlushInterval,  \* flushInterval_, in seconds
          Day,            \* kRollPerSeconds_
          StdioSize,      \* what the stdio buffer of 64 KB holds
          MaxTime,        \* bound: seconds
          MaxErrors       \* bound: failed writes

ASSUME LogFileAssumption ==
  /\ RollSize \in Nat /\ CheckEvery \in Nat \ {0} /\ FlushInterval \in Nat
  /\ Day \in Nat \ {0} /\ StdioSize \in Nat /\ MaxTime \in Nat \ {0} /\ MaxErrors \in Nat

VARIABLES now,            \* time(nullptr)
          count, startOfPeriod, lastRoll, lastFlush,   \* LogFile's members
          bytes, stdio,   \* AppendFile's writtenBytes_, and what its FILE buffers
          disk,           \* the texts of the files, by the second in their names
          lost,           \* history: lines of failed writes
          stale,          \* history: appends made to a file of an earlier day
          errors          \* failed writes so far

members == <<count, startOfPeriod, lastRoll, lastFlush, bytes, stdio, disk, lost, stale, errors>>
fvars == <<now, members>>

Period(t) == (t \div Day) * Day

FileInit ==
  /\ now = 1
  /\ count = 0 /\ startOfPeriod = 0 /\ lastRoll = 0 /\ lastFlush = 0
  /\ bytes = 0 /\ stdio = <<>> /\ disk = [t \in 1..MaxTime |-> <<>>]
  /\ lost = {} /\ stale = 0 /\ errors = 0

(* The clock, at least at its first second when a file is made.                       *)
Tick == now < MaxTime /\ now' = now + 1 /\ UNCHANGED members

(* The current file takes a text, its FILE keeping the rest.                           *)
ToDisk(text, rest) ==
  /\ disk' = IF lastRoll = 0 THEN disk ELSE [disk EXCEPT ![lastRoll] = @ \o text]
  /\ stdio' = rest

--------------------------------------------------------------------------------
(* Mutant of NewFile: the old file is not closed, and what it buffers is lost.         *)
NewFileUnclosed(text) ==
  /\ lastRoll' = now /\ lastFlush' = now /\ startOfPeriod' = Period(now)
  /\ bytes' = 0 /\ stdio' = <<>> /\ stale' = 0
  /\ UNCHANGED disk

(* The new file is opened; fclose of the old one puts what it buffers on disk.         *)
NewFile(text) ==
  /\ lastRoll' = now /\ lastFlush' = now /\ startOfPeriod' = Period(now)
  /\ bytes' = 0 /\ stale' = 0
  /\ ToDisk(text, <<>>)

(* The constructor's rollFile.                                                       *)
Open == NewFile(<<>>) /\ UNCHANGED <<now, count, lost, errors>>

(* fflush and fclose.                                                                *)
Flush == ToDisk(stdio, <<>>) /\ UNCHANGED <<now, count, startOfPeriod, lastRoll, lastFlush,
                                            bytes, lost, stale, errors>>

(* fwrite: a FILE writes when its buffer would overflow, and may then keep any rest    *)
(* that fits.                                                                        *)
Buffered(text) ==
  \E k \in 0..Len(text) :
    /\ IF Len(text) <= StdioSize THEN k = 0 ELSE Len(text) - k <= StdioSize
    /\ ToDisk(SubSeq(text, 1, k), SubSeq(text, k + 1, Len(text)))

(* Mutant of DayChecked: one append too late.                                         *)
DayCheckedLate == count + 1 > CheckEvery

(* count_, incremented, has reached checkEveryN_.                                     *)
DayChecked == count + 1 >= CheckEvery

(* append_unlocked, after text has been added to the buffer and size is the new        *)
(* writtenBytes_: roll by size, or count, and at every CheckEvery-th append roll by     *)
(* day or flush.  rollFile refuses a second file within a second.                      *)
Appended(text, size) ==
  LET big  == size > RollSize
      aged == ~big /\ DayChecked /\ Period(now) # startOfPeriod
      due  == ~big /\ DayChecked /\ ~aged /\ now - lastFlush > FlushInterval
      roll == (big \/ aged) /\ now > lastRoll
  IN /\ count' = IF big THEN count ELSE IF DayChecked THEN 0 ELSE count + 1
     /\ IF roll THEN NewFile(text)
        ELSE /\ UNCHANGED <<startOfPeriod, lastRoll>>
             /\ bytes' = size
             /\ stale' = stale + (IF Period(now) # startOfPeriod THEN 1 ELSE 0)
             /\ IF due THEN lastFlush' = now /\ ToDisk(text, <<>>)
                ELSE UNCHANGED lastFlush /\ Buffered(text)

(* append: all of the text is taken, or fwrite fails after n lines, which are then not *)
(* counted, and the others are lost.                                                  *)
FileAppend(text) ==
  /\ UNCHANGED now
  /\ \/ Appended(stdio \o text, bytes + Len(text)) /\ UNCHANGED <<lost, errors>>
     \/ \E n \in 0..(Len(text) - 1) :
          /\ errors < MaxErrors /\ errors' = errors + 1
          /\ lost' = lost \cup {text[i] : i \in (n + 1)..Len(text)}
          /\ Appended(stdio \o SubSeq(text, 1, n), bytes)

================================================================================
