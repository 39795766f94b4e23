---------------------------------- MODULE Logging ----------------------------------
(* AsyncLogging with the LogFile its back end writes to: threadFunc makes it, appends  *)
(* each buffer, flushes at the end of every round and closes it when it returns.       *)
EXTENDS AsyncLogging, LogFile

lvars == <<vars, fvars>>

LInit == Init /\ FileInit

(* The line by which the back end says that it has dropped others.                    *)
DropNote == 0

LPrepare == Prepare /\ Open

(* The loop goes on, or threadFunc returns: output is flushed and destroyed.           *)
LTestRunning == TestRunning /\ IF running THEN UNCHANGED fvars ELSE Flush

LTrim == Trim /\ IF Len(toWrite) > Limit THEN FileAppend(<<DropNote>>) ELSE UNCHANGED fvars

LWrite == Write /\ FileAppend(toWrite[written + 1])

LRecycle == Recycle /\ Flush

LBackEnd == \/ LPrepare \/ LTestRunning \/ LTrim \/ LWrite \/ LRecycle
            \/ (Wait \/ Exchange \/ WriteDone) /\ UNCHANGED fvars

LNext ==
  \/ (LogLine \/ LogFatal \/ Owner) /\ UNCHANGED fvars
  \/ LBackEnd
  \/ ~aborted /\ Tick /\ UNCHANGED vars

LSpec == LInit /\ [][LNext]_lvars

(* As AsyncLogging's; nothing makes the clock's seconds pass between two steps.        *)
LLiveSpec == LSpec /\ WF_lvars(LBackEnd) /\ WF_lvars((Started \/ Join) /\ UNCHANGED fvars)

--------------------------------------------------------------------------------
(* A line is known by its number, a note of lines dropped says nothing of the order.   *)
Below(X, Y) == \A x \in X \ {DropNote}, y \in Y \ {DropNote} : x < y
Rising(text) ==
  \A i, j \in DOMAIN text :
    i < j /\ text[i] # DropNote /\ text[j] # DropNote => text[i] < text[j]

Orderly(texts) ==
  /\ \A k \in DOMAIN texts : Rising(texts[k])
  /\ \A j, k \in DOMAIN texts : j < k => Below(ToSet(texts[j]), ToSet(texts[k]))

Held(texts) == UNION {ToSet(texts[k]) : k \in DOMAIN texts}

(* The files, by name, the buffer of the last one and the buffers on their way to it    *)
(* hold every line appended, once and in order, but for those dropped and for failed    *)
(* writes: neither an exchange of buffers nor a roll loses, repeats or reorders any.    *)
FilesHoldLines ==
  LET texts == Append(disk, stdio) \o InFlight
  IN /\ Orderly(texts)
     /\ Held(texts) \ {DropNote} = (1..lines) \ (dropped \cup lost)

(* What it rests on: the spares are empty, the files after the current one too, and     *)
(* whatever has left the buffers has a file to go to.                                   *)
Spare(buffer) == buffer = NoBuffer \/ buffer = <<>>

FileInv ==
  /\ disk \in [1..MaxTime -> Seq(Nat)] /\ stdio \in Seq(Nat) /\ lost \subseteq Nat
  /\ lastRoll \in 0..now /\ now \in 1..MaxTime
  /\ lastRoll = 0 <=> bpc \in {"unstarted", "init"}
  /\ lastRoll = 0 => stdio = <<>>
  /\ \A t \in 1..MaxTime : t > lastRoll => disk[t] = <<>>

SparesEmpty == Spare(next) /\ Spare(new1) /\ Spare(new2)

Filed == Held(disk) \cup ToSet(stdio)
FilesOrderly == Orderly(disk) /\ Rising(stdio) /\ Below(Held(disk), ToSet(stdio))
LinesInOrder == FilesOrderly /\ Orderly(InFlight) /\ Below(Filed, Held(InFlight))

LinesKept ==
  /\ dropped \cup lost \subseteq 0..lines
  /\ (Filed \cup Held(InFlight)) \ {DropNote} = (1..lines) \ (dropped \cup lost)

AllWritten == bpc = "recycle" => written = Len(toWrite)

HoldInv == IInv /\ FileInv /\ SparesEmpty /\ AllWritten /\ LinesInOrder /\ LinesKept

(* LogFile.cc:51 and :57: a file is left over the size limit only within the second of  *)
(* its creation, and one of an earlier day gets fewer than checkEveryN_ appends.        *)
RollsInTime ==
  [][/\ bytes' > bytes /\ bytes' > RollSize => lastRoll' = now
     /\ stale' < CheckEvery]_lvars

(* While the log runs, every line gets to the disk in the end, unless it was dropped    *)
(* or its write failed: no line waits for a full buffer, in AsyncLogging or in stdio.   *)
EveryLineOnDisk ==
  \A i \in 1..MaxLines :
    (running /\ lines >= i) ~>
      (i \in UNION {ToSet(disk[t]) : t \in 1..MaxTime} \cup dropped \cup lost \/ ~running \/ aborted)

================================================================================
