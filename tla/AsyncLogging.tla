------------------------------ MODULE AsyncLogging ------------------------------
(* lim::AsyncLogging, the double-buffered log of the three servers.  append, called  *)
(* by any thread, fills currentBuffer_ under a mutex; the back-end thread exchanges  *)
(* the full buffers and the current one for its two spares under the same mutex, and *)
(* writes them out without it.  A buffer is the sequence of the lines in it, a line  *)
(* the number of its append.                                                         *)
EXTENDS Naturals, SequencesExt

CONSTANTS Capacity,   \* lines a buffer holds (4 MB)
          Limit,      \* buffers taken at once before lines are dropped (25)
          MaxLines,   \* bound: lines appended in a behaviour
          NoBuffer    \* nullptr

ASSUME CapacityAssumption == Capacity \in Nat \ {0}
ASSUME LimitAssumption == Limit \in Nat \ {0, 1}
ASSUME LinesAssumption == MaxLines \in Nat
ASSUME BufferAssumption == NoBuffer \notin Seq(Nat)

VARIABLES current, next, buffers,    \* currentBuffer_, nextBuffer_, buffers_
          new1, new2, toWrite,       \* newBuffer1, newBuffer2, buffersToWrite
          written,                   \* how many of toWrite the back end has written
          bpc,                       \* where the back-end thread is
          running, latch, mpc,       \* running_, the count of latch_, where its owner is
          lines,                     \* lines appended so far
          file,                      \* lines written, in order
          dropped,                   \* lines dropped because there were too many
          aborted                    \* LOG_FATAL has aborted the process

front == <<current, next, buffers>>
back == <<new1, new2, toWrite, written>>
owner == <<running, latch, mpc>>
vars == <<front, back, owner, bpc, lines, file, dropped, aborted>>

Missing(buffer) == buffer = NoBuffer

Init ==
  /\ current = <<>> /\ next = <<>> /\ buffers = <<>>
  /\ new1 = NoBuffer /\ new2 = NoBuffer /\ toWrite = <<>> /\ written = 0
  /\ bpc = "unstarted"
  /\ running = FALSE /\ latch = 1 /\ mpc = "new"
  /\ lines = 0 /\ file = <<>> /\ dropped = {}
  /\ aborted = FALSE

--------------------------------------------------------------------------------
(* The front end.                                                                    *)

(* The line goes into the current buffer; when that is full it is queued, and the    *)
(* spare takes its place, or a new buffer when the back end has not brought one.      *)
AppendLine ==
  /\ ~aborted /\ mpc \in {"started", "joining"} /\ lines < MaxLines
  /\ lines' = lines + 1
  /\ IF Len(current) < Capacity
     THEN /\ current' = Append(current, lines')
          /\ UNCHANGED <<next, buffers>>
     ELSE /\ buffers' = Append(buffers, current)
          /\ current' = IF Missing(next) THEN <<lines'>> ELSE Append(next, lines')
          /\ next' = NoBuffer

(* append, from when start has returned until the log is destroyed.                  *)
LogLine ==
  /\ AppendLine
  /\ UNCHANGED <<back, owner, bpc, file, dropped, aborted>>

(* LOG_FATAL: append, g_flush, which flushes stdout, and abort.                      *)
LogFatal ==
  /\ AppendLine
  /\ aborted' = TRUE
  /\ UNCHANGED <<back, owner, bpc, file, dropped>>

--------------------------------------------------------------------------------
(* The owner: start, and stop, which the destructor calls when main returns.          *)

Start ==
  /\ ~aborted /\ mpc = "new"
  /\ running' = TRUE
  /\ bpc' = "init"
  /\ mpc' = "starting"
  /\ UNCHANGED <<front, back, latch, lines, file, dropped, aborted>>

Started ==
  /\ ~aborted /\ mpc = "starting" /\ latch = 0
  /\ mpc' = "started"
  /\ UNCHANGED <<front, back, running, latch, bpc, lines, file, dropped, aborted>>

(* The flag and the notification, without the mutex.                                 *)
Stop ==
  /\ ~aborted /\ mpc = "started"
  /\ running' = FALSE
  /\ mpc' = "joining"
  /\ UNCHANGED <<front, back, latch, bpc, lines, file, dropped, aborted>>

Join ==
  /\ ~aborted /\ mpc = "joining" /\ bpc = "done"
  /\ mpc' = "stopped"
  /\ UNCHANGED <<front, back, running, latch, bpc, lines, file, dropped, aborted>>

--------------------------------------------------------------------------------
(* The back end, threadFunc.                                                         *)

Prepare ==
  /\ ~aborted /\ bpc = "init"
  /\ latch' = 0
  /\ new1' = <<>> /\ new2' = <<>>
  /\ bpc' = "loop"
  /\ UNCHANGED <<front, toWrite, written, running, mpc, lines, file, dropped, aborted>>

TestRunning ==
  /\ ~aborted /\ bpc = "loop"
  /\ bpc' = IF running THEN "lock" ELSE "done"
  /\ UNCHANGED <<front, back, owner, lines, file, dropped, aborted>>

(* Nothing queued: wait for a notification or flushInterval_, once, without a test    *)
(* afterwards.                                                                       *)
Wait ==
  /\ ~aborted /\ bpc = "lock" /\ buffers = <<>>
  /\ bpc' = "wait"
  /\ UNCHANGED <<front, back, owner, lines, file, dropped, aborted>>

(* Mutant of HasMutex: the wait has no time limit, and waits again while there is     *)
(* nothing queued.                                                                   *)
HasMutexWhenFull == bpc \in {"wait", "lock"} /\ buffers # <<>>

(* The back end has the mutex, and need not or need no longer wait.                  *)
HasMutex == bpc = "wait" \/ (bpc = "lock" /\ buffers # <<>>)

(* The current buffer is queued whatever is in it, the whole queue taken, and the     *)
(* spares handed over.                                                               *)
Exchange ==
  /\ ~aborted /\ HasMutex
  /\ toWrite' = Append(buffers, current) /\ written' = 0
  /\ buffers' = <<>>
  /\ current' = new1 /\ new1' = NoBuffer
  /\ next' = IF Missing(next) THEN new2 ELSE next
  /\ new2' = IF Missing(next) THEN NoBuffer ELSE new2
  /\ bpc' = "trim"
  /\ UNCHANGED <<owner, lines, file, dropped, aborted>>

(* The lines of the buffers taken, from the k-th on.                                 *)
LinesFrom(k) == UNION {ToSet(toWrite[j]) : j \in k..Len(toWrite)}

(* Too many buffers: all but the first two are dropped.                              *)
Trim ==
  /\ ~aborted /\ bpc = "trim"
  /\ IF Len(toWrite) > Limit
     THEN /\ toWrite' = SubSeq(toWrite, 1, 2)
          /\ dropped' = dropped \cup LinesFrom(3)
     ELSE UNCHANGED <<toWrite, dropped>>
  /\ bpc' = "write"
  /\ UNCHANGED <<front, new1, new2, written, owner, lines, file, aborted>>

Write ==
  /\ ~aborted /\ bpc = "write" /\ written < Len(toWrite)
  /\ file' = file \o toWrite[written + 1]
  /\ written' = written + 1
  /\ UNCHANGED <<front, new1, new2, toWrite, owner, bpc, lines, dropped, aborted>>

WriteDone ==
  /\ ~aborted /\ bpc = "write" /\ written = Len(toWrite)
  /\ bpc' = "recycle"
  /\ UNCHANGED <<front, back, owner, lines, file, dropped, aborted>>

(* Of the buffers written at most two are kept, and reset, as the new spares.         *)
Recycle ==
  /\ ~aborted /\ bpc = "recycle"
  /\ new1' = IF Missing(new1) THEN <<>> ELSE new1
  /\ new2' = IF Missing(new2) THEN <<>> ELSE new2
  /\ toWrite' = <<>> /\ written' = 0
  /\ bpc' = "loop"
  /\ UNCHANGED <<front, owner, lines, file, dropped, aborted>>

--------------------------------------------------------------------------------
BackEnd == \/ Prepare \/ TestRunning \/ Wait \/ Exchange \/ Trim \/ Write \/ WriteDone \/ Recycle
Owner == Start \/ Started \/ Stop \/ Join

Next == LogLine \/ LogFatal \/ Owner \/ BackEnd

Spec == Init /\ [][Next]_vars

(* The back-end thread runs, and its wait is timed; stop and start, once called, end. *)
LiveSpec == Spec /\ WF_vars(BackEnd) /\ WF_vars(Started \/ Join)

--------------------------------------------------------------------------------
BufferPtr == Seq(Nat) \cup {NoBuffer}
BackPCs == {"unstarted", "init", "loop", "lock", "wait", "trim", "write", "recycle", "done"}

(* The front end and the queue hold buffers, never nullptr, which append and         *)
(* output.append would dereference.                                                  *)
TypeOK ==
  /\ current \in Seq(Nat) /\ next \in BufferPtr /\ buffers \in Seq(Seq(Nat))
  /\ new1 \in BufferPtr /\ new2 \in BufferPtr /\ toWrite \in Seq(Seq(Nat)) /\ written \in Nat
  /\ bpc \in BackPCs
  /\ running \in BOOLEAN /\ latch \in {0, 1} /\ mpc \in {"new", "starting", "started", "joining", "stopped"}
  /\ lines \in 0..MaxLines
  /\ file \in Seq(Nat) /\ dropped \subseteq Nat
  /\ aborted \in BOOLEAN

(* The two asserts of threadFunc: when the back end makes up its spares, it has kept   *)
(* a written buffer for each that it gave away.                                      *)
Kept == IF Len(toWrite) > 2 THEN 2 ELSE Len(toWrite)
AssertsHold ==
  bpc = "recycle" => /\ Missing(new1) => Kept >= 1
                     /\ Missing(new2) => Kept >= (IF Missing(new1) THEN 2 ELSE 1)

(* The buffers on their way to the file.                                             *)
InFlight == SubSeq(toWrite, written + 1, Len(toWrite)) \o Append(buffers, current)

(* While the back end is in its loop it has both spares, and a front end without a    *)
(* spare has queued something; outside, it has given the first away, and the second   *)
(* only if it took two buffers.                                                      *)
SpareInv ==
  /\ next = NoBuffer => buffers # <<>>
  /\ bpc \in {"loop", "lock", "wait"} => new1 # NoBuffer /\ new2 # NoBuffer
  /\ bpc \in {"unstarted", "init", "loop", "lock", "wait"} => toWrite = <<>>
  /\ bpc = "trim" => written = 0
  /\ mpc = "new" => bpc = "unstarted"
  /\ bpc \in {"trim", "write", "recycle"} =>
       /\ new1 = NoBuffer /\ Len(toWrite) >= 1 /\ written <= Len(toWrite)
       /\ new2 = NoBuffer => Len(toWrite) >= 2

IInv == TypeOK /\ AssertsHold /\ SpareInv

(* stop returns: its notification may be lost but the wait is timed.                 *)
StopReturns == (mpc = "joining") ~> (mpc = "stopped" \/ aborted)

================================================================================
