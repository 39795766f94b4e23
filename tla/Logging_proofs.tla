---------------------------- MODULE Logging_proofs -----------------------------
(* Proofs, for any buffer capacity, limit and number of lines, that the back end   *)
(* never runs out of spare buffers; for any sizes, intervals and clock, that         *)
(* LogFile behind it rolls in time, and that both lose, repeat and reorder no line    *)
(* but by dropping or a failed write; for any number of threads, that the mutex and    *)
(* the latch under both mean what they say; and, for any sizes and texts, that what a  *)
(* thread puts into its line can be read back.  This last part comes at the end, with  *)
(* what it needs of recursive functions and of digits.                              *)
EXTENDS Logging, LogLine, WellFoundedInduction, SequenceTheorems, FiniteSetTheorems, TLAPS

USE DEF front, back, owner

(* Every step is one of these.                                                     *)
LEMMA Steps ==
  ASSUME [Next]_vars
  PROVE  \/ LogLine \/ LogFatal
         \/ Start \/ Started \/ Stop \/ Join
         \/ Prepare \/ TestRunning \/ Wait \/ Exchange \/ Trim \/ Write \/ WriteDone \/ Recycle
         \/ UNCHANGED vars
  BY DEF Next, Owner, BackEnd

(* At start both front-end buffers are there and nothing is on its way.            *)
LEMMA InitIInv == Init => IInv
<1> SUFFICES ASSUME Init PROVE IInv
  OBVIOUS
<1>1. <<>> \in Seq(Nat) /\ <<>> \in Seq(Seq(Nat)) /\ <<>> # NoBuffer
  BY EmptySeq, BufferAssumption
<1>2. lines \in 0..MaxLines
  BY LinesAssumption DEF Init
<1>3. TypeOK
  <2>1. running \in BOOLEAN /\ aborted \in BOOLEAN
    BY DEF Init
  <2> QED
    BY <1>1, <1>2, <2>1 DEF Init, TypeOK, BufferPtr, BackPCs
<1>4. AssertsHold /\ SpareInv
  BY <1>1 DEF Init, AssertsHold, SpareInv
<1> QED
  BY <1>3, <1>4 DEF IInv

(* A line goes into a buffer that is there, and the queue only grows.              *)
LEMMA AppendStep ==
  ASSUME TypeOK, AppendLine
  PROVE  /\ current' \in Seq(Nat) /\ next' \in BufferPtr /\ buffers' \in Seq(Seq(Nat))
         /\ lines' \in 0..MaxLines
         /\ next' = NoBuffer /\ next # NoBuffer => buffers' # <<>>
         /\ buffers # <<>> => buffers' # <<>>
<1> USE DEF TypeOK, BufferPtr, Missing
<1>1. lines' \in 0..MaxLines /\ lines' \in Nat
  BY LinesAssumption DEF AppendLine
<1>2. CASE Len(current) < Capacity
  <2>1. current' = Append(current, lines') /\ UNCHANGED <<next, buffers>>
    BY <1>2 DEF AppendLine
  <2>2. current' \in Seq(Nat)
    BY <1>1, <2>1, AppendProperties
  <2> QED
    BY <1>1, <2>1, <2>2
<1>3. CASE ~(Len(current) < Capacity)
  <2>1. /\ buffers' = Append(buffers, current) /\ next' = NoBuffer
        /\ current' = IF next = NoBuffer THEN <<lines'>> ELSE Append(next, lines')
    BY <1>3 DEF AppendLine
  <2>2. buffers' \in Seq(Seq(Nat)) /\ Len(buffers') = Len(buffers) + 1
    BY <2>1, AppendProperties
  <2>3. buffers' # <<>>
    BY <2>2, EmptySeq, LenProperties
  <2>4. CASE next = NoBuffer
    BY <1>1, <2>1, <2>2, <2>3, <2>4
  <2>5. CASE next # NoBuffer
    <3>1. current' \in Seq(Nat)
      BY <1>1, <2>1, <2>5, AppendProperties
    <3> QED
      BY <1>1, <2>1, <2>2, <2>3, <3>1
  <2> QED
    BY <2>4, <2>5
<1> QED
  BY <1>2, <1>3

(* The exchange takes at least one buffer, two if it gives both spares away.       *)
LEMMA ExchangeStep ==
  ASSUME IInv, Exchange
  PROVE  TypeOK' /\ SpareInv'
<1> USE DEF IInv, TypeOK, SpareInv, Missing, BufferPtr, BackPCs
<1>1. bpc \in {"lock", "wait"} /\ new1 # NoBuffer /\ new2 # NoBuffer
  BY DEF Exchange, HasMutex
<1>2. /\ toWrite' = Append(buffers, current) /\ written' = 0 /\ buffers' = <<>>
      /\ current' = new1 /\ new1' = NoBuffer /\ bpc' = "trim"
      /\ next' = IF next = NoBuffer THEN new2 ELSE next
      /\ new2' = IF next = NoBuffer THEN NoBuffer ELSE new2
      /\ UNCHANGED <<owner, lines, file, dropped, aborted>>
  BY DEF Exchange
<1>3. toWrite' \in Seq(Seq(Nat)) /\ Len(toWrite') = Len(buffers) + 1
  BY <1>2, AppendProperties
<1>4. buffers # <<>> => Len(buffers) >= 1
  BY EmptySeq, LenProperties
<1>5. buffers' \in Seq(Seq(Nat)) /\ next' # NoBuffer
  BY <1>1, <1>2, EmptySeq
<1>6. TypeOK'
  BY <1>1, <1>2, <1>3, <1>5
<1>7. Len(buffers) \in Nat
  BY LenProperties
<1>8. SpareInv'
  BY <1>1, <1>2, <1>3, <1>4, <1>5, <1>7, SMTT(40)
<1> QED
  BY <1>6, <1>8

(* Trimming keeps two buffers of more than Limit.                                  *)
LEMMA TrimStep ==
  ASSUME IInv, Trim
  PROVE  TypeOK' /\ SpareInv'
<1> USE LimitAssumption DEF IInv, TypeOK, SpareInv, BackPCs
<1>1. bpc = "trim" /\ bpc' = "write"
      /\ UNCHANGED <<front, new1, new2, written, owner, lines, file, aborted>>
  BY DEF Trim
<1>2. CASE Len(toWrite) > Limit
  <2>1. toWrite' = SubSeq(toWrite, 1, 2) /\ dropped' = dropped \cup LinesFrom(3)
    BY <1>2 DEF Trim
  <2>2. Len(toWrite) \in Nat /\ 2 <= Len(toWrite)
    BY <1>2, LenProperties
  <2>3. toWrite' \in Seq(Seq(Nat)) /\ Len(toWrite') = 2
    BY <2>1, <2>2, SubSeqProperties
  <2>4. LinesFrom(3) \subseteq Nat
    <3>1. ASSUME NEW j \in 3..Len(toWrite) PROVE ToSet(toWrite[j]) \subseteq Nat
      <4>1. toWrite[j] \in Seq(Nat)
        BY <2>2, <3>1, ElementOfSeq
      <4> QED
        BY <4>1 DEF ToSet
    <3> QED
      BY <3>1 DEF LinesFrom
  <2>5. written' <= Len(toWrite')
    BY <1>1, <2>3
  <2>6. TypeOK'
    BY <1>1, <2>1, <2>3, <2>4
  <2>7. SpareInv'
    BY <1>1, <2>3, <2>5
  <2> QED
    BY <2>6, <2>7
<1>3. CASE ~(Len(toWrite) > Limit)
  BY <1>1, <1>3 DEF Trim
<1> QED
  BY <1>2, <1>3

(* Every step keeps the types and the bookkeeping of the spares.                   *)
LEMMA SpareStep == IInv /\ [Next]_vars => TypeOK' /\ SpareInv'
<1> SUFFICES ASSUME IInv, [Next]_vars PROVE TypeOK' /\ SpareInv'
  OBVIOUS
<1> USE LinesAssumption DEF IInv, TypeOK, SpareInv, BackPCs, BufferPtr
<1>1. CASE LogLine
  BY <1>1, AppendStep DEF LogLine
<1>2. CASE LogFatal
  BY <1>2, AppendStep DEF LogFatal
<1>3. CASE Start \/ Started \/ Stop \/ Join
  BY <1>3 DEF Start, Started, Stop, Join
<1>4. CASE Prepare
  <2>1. <<>> \in Seq(Nat) /\ <<>> # NoBuffer
    BY EmptySeq, BufferAssumption
  <2> QED
    BY <1>4, <2>1 DEF Prepare
<1>5. CASE TestRunning \/ Wait
  BY <1>5 DEF TestRunning, Wait
<1>6. CASE Exchange
  BY <1>6, ExchangeStep
<1>7. CASE Trim
  BY <1>7, TrimStep
<1>8. CASE Write
  <2>1. toWrite[written + 1] \in Seq(Nat)
    BY <1>8, ElementOfSeq, LenProperties DEF Write
  <2>2. file' \in Seq(Nat)
    BY <1>8, <2>1, ConcatProperties DEF Write
  <2>3. written' \in Nat /\ written' <= Len(toWrite)
    BY <1>8, LenProperties DEF Write
  <2> QED
    BY <1>8, <2>2, <2>3 DEF Write
<1>9. CASE WriteDone
  BY <1>9 DEF WriteDone
<1>10. CASE Recycle
  <2>1. <<>> \in Seq(Nat) /\ <<>> \in Seq(Seq(Nat)) /\ <<>> # NoBuffer
    BY EmptySeq, BufferAssumption
  <2> QED
    BY <1>10, <2>1 DEF Recycle, Missing
<1>11. CASE UNCHANGED vars
  BY <1>11 DEF vars
<1> QED
  BY <1>1, <1>2, <1>3, <1>4, <1>5, <1>6, <1>7, <1>8, <1>9, <1>10, <1>11, Steps

(* With the spares so kept the back end's asserts hold.                            *)
LEMMA SparesSuffice == TypeOK /\ SpareInv => AssertsHold
<1> SUFFICES ASSUME TypeOK, SpareInv, bpc = "recycle"
             PROVE  /\ Missing(new1) => Kept >= 1
                    /\ Missing(new2) => Kept >= (IF Missing(new1) THEN 2 ELSE 1)
  BY DEF AssertsHold
<1>1. Len(toWrite) \in Nat /\ Len(toWrite) >= 1 /\ (new2 = NoBuffer => Len(toWrite) >= 2)
  BY LenProperties DEF TypeOK, SpareInv
<1> QED
  BY <1>1 DEF Missing, Kept

(* The inductive invariant is kept by every step.                                   *)
LEMMA StepIInv == IInv /\ [Next]_vars => IInv'
<1>1. TypeOK' /\ SpareInv' => AssertsHold'
  BY SparesSuffice, PTL
<1> QED
  BY <1>1, SpareStep DEF IInv

(* The inductive invariant holds of every reachable state.                         *)
THEOREM Invariant == Spec => []IInv
<1>1. Init => IInv
  BY InitIInv
<1>2. IInv /\ [Next]_vars => IInv'
  BY StepIInv
<1> QED
  BY <1>1, <1>2, PTL DEF Spec

(* The asserts of threadFunc never fail: a back end that keeps two written buffers *)
(* can always make up the spares it gave to the front end.                         *)
THEOREM AssertsCorrect == Spec => []AssertsHold
<1>1. IInv => AssertsHold
  BY DEF IInv
<1> QED
  BY <1>1, Invariant, PTL

(* Neither the front end nor the back end ever meets a nullptr for a buffer.       *)
THEOREM TypeCorrect == Spec => []TypeOK
<1>1. IInv => TypeOK
  BY DEF IInv
<1> QED
  BY <1>1, Invariant, PTL

--------------------------------------------------------------------------------
(* LogFile.  The clock never goes back, and neither does the day.                   *)
LEMMA PeriodGrows ==
  ASSUME NEW t \in Nat, NEW u \in Nat, t <= u
  PROVE  Period(t) \in Nat /\ Period(t) <= Period(u)
<1> DEFINE a == t \div Day
           b == u \div Day
<1>1. Day \in Nat /\ Day >= 1
  BY LogFileAssumption
<1>2. a \in Nat /\ b \in Nat /\ a <= b
  BY <1>1
<1> HIDE DEF a, b
<1>3. a * Day \in Nat /\ a * Day <= b * Day
  BY <1>1, <1>2
<1> QED
  BY <1>3 DEF Period, a, b

(* The file's period is that of its name; since it was last looked at it has had as  *)
(* many appends of a later day as were counted, at most.                           *)
RollInv ==
  /\ now \in Nat /\ lastRoll \in Nat /\ bytes \in Nat /\ count \in Nat /\ stale \in Nat
  /\ lastRoll <= now /\ startOfPeriod = Period(lastRoll)
  /\ stale <= count /\ count < CheckEvery
  /\ stale > 0 => Period(now) # startOfPeriod

(* What RollsInTime says of one step.                                               *)
InTime == /\ bytes' > bytes /\ bytes' > RollSize => lastRoll' = now
          /\ stale' < CheckEvery

(* append_unlocked: a file over the limit is rolled or of this very second, and the   *)
(* count that meets checkEveryN_ finds every file of an earlier day.                *)
LEMMA AppendedInTime ==
  ASSUME RollInv, now' = now, NEW text, NEW size \in Nat, Appended(text, size)
  PROVE  RollInv' /\ InTime
<1> DEFINE big  == size > RollSize
           old  == Period(now) # startOfPeriod
           aged == ~big /\ DayChecked /\ old
           roll == (big \/ aged) /\ now > lastRoll
<1>1. /\ RollSize \in Nat /\ CheckEvery \in Nat /\ CheckEvery >= 1
      /\ count' = IF big THEN count ELSE IF DayChecked THEN 0 ELSE count + 1
      /\ DayChecked <=> count + 1 >= CheckEvery
  BY LogFileAssumption DEF Appended, DayChecked
<1>2. old => now > lastRoll
  BY DEF RollInv
<1>3. CASE roll
  <2>1. lastRoll' = now /\ startOfPeriod' = Period(now) /\ bytes' = 0 /\ stale' = 0
    BY <1>3 DEF Appended, NewFile
  <2>2. count' \in Nat /\ count' < CheckEvery
    BY <1>1 DEF RollInv
  <2>3. startOfPeriod' = Period(lastRoll')
    BY <2>1
  <2> HIDE DEF big, old, aged, roll
  <2> QED
    BY <1>1, <2>1, <2>2, <2>3 DEF RollInv, InTime, Period
<1>4. CASE ~roll
  <2>1. /\ lastRoll' = lastRoll /\ startOfPeriod' = startOfPeriod /\ bytes' = size
        /\ stale' = stale + (IF old THEN 1 ELSE 0)
    BY <1>4 DEF Appended
  <2>2. ~aged
    BY <1>2, <1>4
  <2>3. big => ~old
    BY <1>2, <1>4
  <2>4. ~old => stale = 0
    BY DEF RollInv
  <2>5. big => lastRoll = now
    BY <1>4 DEF RollInv
  <2>6. stale' \in Nat /\ count' \in Nat /\ stale' <= count' /\ count' < CheckEvery
    <3>1. CASE big
      BY <1>1, <2>1, <2>3, <2>4, <3>1 DEF RollInv
    <3>2. CASE ~big /\ DayChecked
      BY <1>1, <2>1, <2>2, <2>4, <3>2 DEF RollInv
    <3>3. CASE ~big /\ ~DayChecked
      BY <1>1, <2>1, <3>3 DEF RollInv
    <3> QED
      BY <3>1, <3>2, <3>3
  <2>7. stale' > 0 => old
    BY <2>1, <2>4
  <2>8. Period(now') = Period(now) /\ Period(lastRoll') = Period(lastRoll)
    BY <2>1
  <2>9. RollInv'
    BY <2>1, <2>6, <2>7, <2>8 DEF RollInv
  <2> QED
    BY <2>1, <2>5, <2>6, <2>9, <1>1 DEF InTime
<1> QED
  BY <1>3, <1>4

(* append of a text, all of it or what fwrite took.                                 *)
LEMMA FileAppendInTime ==
  ASSUME RollInv, NEW text \in Seq(Nat), FileAppend(text)
  PROVE  RollInv' /\ InTime
<1>1. Len(text) \in Nat /\ now' = now
  BY LenProperties DEF FileAppend
<1>2. CASE Appended(stdio \o text, bytes + Len(text))
  <2>1. bytes + Len(text) \in Nat
    BY <1>1 DEF RollInv
  <2> QED
    BY <1>1, <1>2, <2>1, AppendedInTime
<1>3. ASSUME NEW n, Appended(stdio \o SubSeq(text, 1, n), bytes) PROVE RollInv' /\ InTime
  <2>1. bytes \in Nat
    BY DEF RollInv
  <2> QED
    BY <1>1, <1>3, <2>1, AppendedInTime
<1> QED
  BY <1>2, <1>3 DEF FileAppend

(* A step that leaves LogFile alone, or only flushes.                               *)
LEMMA FileKeeps ==
  ASSUME RollInv, UNCHANGED <<now, count, startOfPeriod, lastRoll, bytes, stale>>
  PROVE  RollInv' /\ InTime
  BY LogFileAssumption DEF RollInv, InTime, Period

LEMMA RollStep == TypeOK /\ RollInv /\ [LNext]_lvars => RollInv' /\ InTime
<1> SUFFICES ASSUME TypeOK, RollInv, [LNext]_lvars PROVE RollInv' /\ InTime
  OBVIOUS
<1>1. CASE UNCHANGED fvars
  BY <1>1, FileKeeps DEF fvars, members
<1>2. CASE Flush
  BY <1>2, FileKeeps DEF Flush
<1>3. CASE LPrepare
  <2>1. /\ now' = now /\ count' = count /\ lastRoll' = now /\ startOfPeriod' = Period(now)
        /\ bytes' = 0 /\ stale' = 0
    BY <1>3 DEF LPrepare, Open, NewFile
  <2>2. Period(lastRoll') = Period(now)
    BY <2>1
  <2> QED
    BY <2>1, <2>2, LogFileAssumption DEF RollInv, InTime
<1>4. CASE LTrim
  <2>1. CASE FileAppend(<<DropNote>>)
    <3>1. <<DropNote>> \in Seq(Nat)
      BY DEF DropNote
    <3> QED
      BY <2>1, <3>1, FileAppendInTime
  <2> QED
    BY <1>1, <1>4, <2>1 DEF LTrim
<1>5. CASE LWrite
  <2>1. toWrite[written + 1] \in Seq(Nat)
    BY <1>5, ElementOfSeq, LenProperties DEF LWrite, Write, TypeOK
  <2> QED
    BY <1>5, <2>1, FileAppendInTime DEF LWrite
<1>6. CASE Tick
  <2>1. /\ now' = now + 1
        /\ UNCHANGED <<count, startOfPeriod, lastRoll, bytes, stale>>
    BY <1>6 DEF Tick, members
  <2>2. Period(lastRoll) <= Period(now) /\ Period(now) <= Period(now') /\ Period(lastRoll) \in Nat
        /\ Period(now) \in Nat /\ Period(now') \in Nat
    BY <2>1, PeriodGrows DEF RollInv
  <2>3. Period(lastRoll)' = Period(lastRoll)
    BY <2>1 DEF Period
  <2> QED
    BY <2>1, <2>2, <2>3, LogFileAssumption DEF RollInv, InTime
<1> QED
  BY <1>1, <1>2, <1>3, <1>4, <1>5, <1>6
  DEF LNext, LBackEnd, LTestRunning, LRecycle, lvars

(* With its LogFile, AsyncLogging does what it does without.                        *)
LEMMA LoggingStepsLog == [LNext]_lvars => [Next]_vars
  BY DEF LNext, LBackEnd, LPrepare, LTestRunning, LTrim, LWrite, LRecycle, lvars, Next, BackEnd

(* No file grows over the limit but within the second of its creation, and none is    *)
(* used for more than a day but for fewer than checkEveryN_ appends.                *)
THEOREM RollsCorrect == LSpec => RollsInTime
<1>1. LInit => IInv /\ RollInv
  <2>1. ASSUME LInit PROVE RollInv
    BY <2>1, LogFileAssumption DEF LInit, FileInit, RollInv, Period
  <2> QED
    BY <2>1, InitIInv DEF LInit
<1>2. IInv /\ RollInv /\ [LNext]_lvars => (IInv /\ RollInv)' /\ InTime
  <2>1. IInv /\ [Next]_vars => IInv'
    BY StepIInv
  <2> QED
    BY <2>1, LoggingStepsLog, RollStep DEF IInv
<1>3. InTime => [/\ bytes' > bytes /\ bytes' > RollSize => lastRoll' = now
                /\ stale' < CheckEvery]_lvars
  BY DEF InTime
<1> QED
  BY <1>1, <1>2, <1>3, PTL DEF LSpec, RollsInTime

(* The lines of a text, and of one put after another.                              *)
LEMMA LinesOf ==
  ASSUME NEW s \in Seq(Nat)
  PROVE  ToSet(s) = {s[i] : i \in 1..Len(s)} /\ ToSet(s) \subseteq Nat
<1>1. DOMAIN s = 1..Len(s) /\ \A i \in 1..Len(s) : s[i] \in Nat
  BY LenProperties, ElementOfSeq
<1> QED
  BY <1>1 DEF ToSet

LEMMA LinesConcat ==
  ASSUME NEW s \in Seq(Nat), NEW t \in Seq(Nat)
  PROVE  /\ s \o t \in Seq(Nat) /\ ToSet(s \o t) = ToSet(s) \cup ToSet(t)
         /\ Rising(s \o t) <=> Rising(s) /\ Rising(t) /\ Below(ToSet(s), ToSet(t))
<1> DEFINE u == s \o t
<1>1. /\ u \in Seq(Nat) /\ Len(u) = Len(s) + Len(t) /\ Len(s) \in Nat /\ Len(t) \in Nat
      /\ \A i \in 1..Len(u) : u[i] = IF i <= Len(s) THEN s[i] ELSE t[i - Len(s)]
  BY ConcatProperties, LenProperties
<1>2. /\ ToSet(s) = {s[i] : i \in 1..Len(s)} /\ ToSet(t) = {t[i] : i \in 1..Len(t)}
      /\ ToSet(u) = {u[i] : i \in 1..Len(u)}
  BY <1>1, LinesOf
<1>3. DOMAIN s = 1..Len(s) /\ DOMAIN t = 1..Len(t) /\ DOMAIN u = 1..Len(u)
  BY <1>1, LenProperties
<1> HIDE DEF u
<1>4. /\ \A i \in 1..Len(s) : i \in 1..Len(u) /\ u[i] = s[i]
      /\ \A i \in 1..Len(t) : i + Len(s) \in 1..Len(u) /\ u[i + Len(s)] = t[i]
  <2>1. ASSUME NEW i \in 1..Len(t) PROVE i + Len(s) \in 1..Len(u) /\ u[i + Len(s)] = t[i]
    <3>1. i + Len(s) \in 1..Len(u) /\ ~(i + Len(s) <= Len(s)) /\ (i + Len(s)) - Len(s) = i
      BY <1>1
    <3> QED
      BY <1>1, <3>1
  <2> QED
    BY <1>1, <2>1
<1>8. ASSUME NEW i \in 1..Len(u)
      PROVE  \/ i \in 1..Len(s) /\ u[i] = s[i]
             \/ i > Len(s) /\ i - Len(s) \in 1..Len(t) /\ u[i] = t[i - Len(s)]
  BY <1>1
<1>5. ToSet(u) = ToSet(s) \cup ToSet(t)
  <2>1. \A x \in ToSet(s) \cup ToSet(t) : x \in ToSet(u)
    BY <1>2, <1>4
  <2>2. \A i \in 1..Len(u) : u[i] \in ToSet(s) \cup ToSet(t)
    BY <1>2, <1>8
  <2> QED
    BY <1>2, <2>1, <2>2
<1>6. ASSUME Rising(u) PROVE Rising(s) /\ Rising(t) /\ Below(ToSet(s), ToSet(t))
  <2>1. Rising(s)
    BY <1>3, <1>4, <1>6 DEF Rising
  <2>2. Rising(t)
    <3> SUFFICES ASSUME NEW i \in 1..Len(t), NEW j \in 1..Len(t), i < j,
                        t[i] # DropNote, t[j] # DropNote
                 PROVE  t[i] < t[j]
      BY <1>3 DEF Rising
    <3>1. /\ i + Len(s) < j + Len(s) /\ i + Len(s) \in DOMAIN u /\ j + Len(s) \in DOMAIN u
          /\ u[i + Len(s)] = t[i] /\ u[j + Len(s)] = t[j]
      BY <1>1, <1>3, <1>4
    <3> QED
      BY <1>6, <3>1 DEF Rising
  <2>3. Below(ToSet(s), ToSet(t))
    <3> SUFFICES ASSUME NEW i \in 1..Len(s), NEW j \in 1..Len(t),
                        s[i] # DropNote, t[j] # DropNote
                 PROVE  s[i] < t[j]
      BY <1>2 DEF Below
    <3>1. /\ i < j + Len(s) /\ i \in DOMAIN u /\ j + Len(s) \in DOMAIN u
          /\ u[i] = s[i] /\ u[j + Len(s)] = t[j]
      BY <1>1, <1>3, <1>4
    <3> QED
      BY <1>6, <3>1 DEF Rising
  <2> QED
    BY <2>1, <2>2, <2>3
<1>7. ASSUME Rising(s), Rising(t), Below(ToSet(s), ToSet(t)) PROVE Rising(u)
  <2> SUFFICES ASSUME NEW i \in 1..Len(u), NEW j \in 1..Len(u), i < j,
                      u[i] # DropNote, u[j] # DropNote
               PROVE  u[i] < u[j]
    BY <1>3 DEF Rising
  <2>1. CASE j <= Len(s)
    <3>1. i \in 1..Len(s) /\ j \in 1..Len(s)
      BY <1>1, <2>1
    <3>2. u[i] = s[i] /\ u[j] = s[j]
      BY <1>4, <3>1
    <3> QED
      BY <1>3, <1>7, <3>1, <3>2 DEF Rising
  <2>2. CASE i <= Len(s) /\ j > Len(s)
    <3>1. u[i] = s[i] /\ i \in 1..Len(s) /\ u[j] = t[j - Len(s)] /\ j - Len(s) \in 1..Len(t)
      BY <1>1, <1>8, <2>2
    <3> QED
      BY <1>2, <1>7, <3>1 DEF Below
  <2>3. CASE i > Len(s)
    <3>1. /\ u[i] = t[i - Len(s)] /\ i - Len(s) \in 1..Len(t)
          /\ u[j] = t[j - Len(s)] /\ j - Len(s) \in 1..Len(t) /\ i - Len(s) < j - Len(s)
      BY <1>1, <1>8, <2>3
    <3> QED
      BY <1>3, <1>7, <3>1 DEF Rising
  <2> QED
    BY <1>1, <2>1, <2>2, <2>3
<1> QED
  BY <1>1, <1>5, <1>6, <1>7 DEF u

(* Texts in order, put after others.                                               *)
LEMMA TextsConcat ==
  ASSUME NEW p \in Seq(Seq(Nat)), NEW q \in Seq(Seq(Nat))
  PROVE  /\ p \o q \in Seq(Seq(Nat)) /\ Held(p \o q) = Held(p) \cup Held(q)
         /\ Orderly(p \o q) <=> Orderly(p) /\ Orderly(q) /\ Below(Held(p), Held(q))
<1> DEFINE r == p \o q
<1>1. /\ r \in Seq(Seq(Nat)) /\ Len(r) = Len(p) + Len(q) /\ Len(p) \in Nat /\ Len(q) \in Nat
      /\ \A i \in 1..Len(r) : r[i] = IF i <= Len(p) THEN p[i] ELSE q[i - Len(p)]
  BY ConcatProperties, LenProperties
<1>2. DOMAIN p = 1..Len(p) /\ DOMAIN q = 1..Len(q) /\ DOMAIN r = 1..Len(r)
  BY <1>1, LenProperties
<1> HIDE DEF r
<1>3. /\ \A i \in 1..Len(p) : i \in 1..Len(r) /\ r[i] = p[i]
      /\ \A i \in 1..Len(q) : i + Len(p) \in 1..Len(r) /\ r[i + Len(p)] = q[i]
  <2>1. ASSUME NEW i \in 1..Len(q) PROVE i + Len(p) \in 1..Len(r) /\ r[i + Len(p)] = q[i]
    <3>1. i + Len(p) \in 1..Len(r) /\ ~(i + Len(p) <= Len(p)) /\ (i + Len(p)) - Len(p) = i
      BY <1>1
    <3> QED
      BY <1>1, <3>1
  <2> QED
    BY <1>1, <2>1
<1>8. ASSUME NEW i \in 1..Len(r)
      PROVE  \/ i \in 1..Len(p) /\ r[i] = p[i]
             \/ i > Len(p) /\ i - Len(p) \in 1..Len(q) /\ r[i] = q[i - Len(p)]
  BY <1>1, SMTT(40)
<1>4. Held(r) = Held(p) \cup Held(q)
  <2>1. \A i \in 1..Len(r) : ToSet(r[i]) \subseteq Held(p) \cup Held(q)
    BY <1>2, <1>8 DEF Held
  <2>2. \A i \in 1..Len(p) : ToSet(p[i]) \subseteq Held(r)
    BY <1>2, <1>3 DEF Held
  <2>3. \A i \in 1..Len(q) : ToSet(q[i]) \subseteq Held(r)
    BY <1>2, <1>3 DEF Held
  <2>4. Held(r) \subseteq Held(p) \cup Held(q)
    BY <1>2, <2>1 DEF Held
  <2>5. Held(p) \subseteq Held(r)
    BY <1>2, <2>2 DEF Held
  <2>6. Held(q) \subseteq Held(r)
    BY <1>2, <2>3 DEF Held
  <2> QED
    BY <2>4, <2>5, <2>6
<1>5. ASSUME Orderly(r) PROVE Orderly(p) /\ Orderly(q) /\ Below(Held(p), Held(q))
  <2>1. Orderly(p)
    BY <1>2, <1>3, <1>5 DEF Orderly
  <2>2. Orderly(q)
    <3>1. \A i \in 1..Len(q) : Rising(q[i])
      BY <1>2, <1>3, <1>5 DEF Orderly
    <3>2. ASSUME NEW i \in 1..Len(q), NEW j \in 1..Len(q), i < j
          PROVE  Below(ToSet(q[i]), ToSet(q[j]))
      <4>1. /\ i + Len(p) < j + Len(p) /\ i + Len(p) \in DOMAIN r /\ j + Len(p) \in DOMAIN r
            /\ r[i + Len(p)] = q[i] /\ r[j + Len(p)] = q[j]
        BY <1>1, <1>2, <1>3, <3>2
      <4> QED
        BY <1>5, <4>1 DEF Orderly
    <3> QED
      BY <1>2, <3>1, <3>2 DEF Orderly
  <2>3. Below(Held(p), Held(q))
    <3> SUFFICES ASSUME NEW i \in 1..Len(p), NEW j \in 1..Len(q)
                 PROVE  Below(ToSet(p[i]), ToSet(q[j]))
      BY <1>2 DEF Below, Held
    <3>1. /\ i < j + Len(p) /\ i \in DOMAIN r /\ j + Len(p) \in DOMAIN r
          /\ r[i] = p[i] /\ r[j + Len(p)] = q[j]
      BY <1>1, <1>2, <1>3, SMTT(40)
    <3> QED
      BY <1>5, <3>1 DEF Orderly
  <2> QED
    BY <2>1, <2>2, <2>3
<1>6. ASSUME Orderly(p), Orderly(q), Below(Held(p), Held(q)) PROVE Orderly(r)
  <2>1. \A i \in 1..Len(r) : Rising(r[i])
    BY <1>2, <1>6, <1>8 DEF Orderly
  <2>2. ASSUME NEW i \in 1..Len(r), NEW j \in 1..Len(r), i < j
        PROVE  Below(ToSet(r[i]), ToSet(r[j]))
    <3>1. CASE j <= Len(p)
      <4>1. r[i] = p[i] /\ i \in DOMAIN p /\ r[j] = p[j] /\ j \in DOMAIN p
        BY <1>1, <1>2, <1>8, <2>2, <3>1
      <4> QED
        BY <1>6, <2>2, <4>1 DEF Orderly
    <3>2. CASE i <= Len(p) /\ j > Len(p)
      <4>1. r[i] = p[i] /\ i \in DOMAIN p /\ r[j] = q[j - Len(p)] /\ j - Len(p) \in DOMAIN q
        BY <1>1, <1>2, <1>8, <3>2
      <4>2. ToSet(r[i]) \subseteq Held(p) /\ ToSet(r[j]) \subseteq Held(q)
        BY <4>1 DEF Held
      <4> QED
        BY <1>6, <4>2 DEF Below
    <3>3. CASE i > Len(p)
      <4>1. /\ r[i] = q[i - Len(p)] /\ i - Len(p) \in DOMAIN q
            /\ r[j] = q[j - Len(p)] /\ j - Len(p) \in DOMAIN q /\ i - Len(p) < j - Len(p)
        BY <1>1, <1>2, <1>8, <2>2, <3>3, SMTT(40)
      <4> QED
        BY <1>6, <4>1 DEF Orderly
    <3> QED
      BY <1>1, <3>1, <3>2, <3>3
  <2> QED
    BY <1>2, <2>1, <2>2 DEF Orderly
<1> QED
  BY <1>1, <1>4, <1>5, <1>6 DEF r

(* One text alone.                                                                 *)
LEMMA TextAppended ==
  ASSUME NEW p \in Seq(Seq(Nat)), NEW s \in Seq(Nat)
  PROVE  /\ Append(p, s) \in Seq(Seq(Nat)) /\ Held(Append(p, s)) = Held(p) \cup ToSet(s)
         /\ Orderly(Append(p, s)) <=> Orderly(p) /\ Rising(s) /\ Below(Held(p), ToSet(s))
<1>1. Append(p, s) = p \o <<s>> /\ <<s>> \in Seq(Seq(Nat))
  BY AppendIsConcat
<1>2. Held(<<s>>) = ToSet(s) /\ (Orderly(<<s>>) <=> Rising(s))
  <2>1. DOMAIN <<s>> = {1} /\ <<s>>[1] = s
    OBVIOUS
  <2> QED
    BY <2>1 DEF Held, Orderly
<1>3. /\ p \o <<s>> \in Seq(Seq(Nat)) /\ Held(p \o <<s>>) = Held(p) \cup Held(<<s>>)
      /\ Orderly(p \o <<s>>) <=> Orderly(p) /\ Orderly(<<s>>) /\ Below(Held(p), Held(<<s>>))
  BY <1>1, TextsConcat
<1> QED
  BY <1>1, <1>2, <1>3

(* A text cut in two.                                                              *)
LEMMA TextCut ==
  ASSUME NEW s \in Seq(Nat), NEW k \in 0..Len(s)
  PROVE  /\ SubSeq(s, 1, k) \in Seq(Nat) /\ SubSeq(s, k + 1, Len(s)) \in Seq(Nat)
         /\ ToSet(s) = ToSet(SubSeq(s, 1, k)) \cup ToSet(SubSeq(s, k + 1, Len(s)))
         /\ Rising(s) => /\ Rising(SubSeq(s, 1, k)) /\ Rising(SubSeq(s, k + 1, Len(s)))
                         /\ Below(ToSet(SubSeq(s, 1, k)), ToSet(SubSeq(s, k + 1, Len(s))))
<1> DEFINE a == SubSeq(s, 1, k)
           b == SubSeq(s, k + 1, Len(s))
<1>1. Len(s) \in Nat /\ \A i \in 1..Len(s) : s[i] \in Nat
  BY LenProperties, ElementOfSeq
<1>2. /\ a \in Seq(Nat) /\ Len(a) = k /\ \A i \in 1..k : a[i] = s[i]
  <2>1. \A i \in 1..k : s[i] \in Nat
    BY <1>1
  <2>2. Len(a) = IF 1 <= k THEN k - 1 + 1 ELSE 0
    BY <2>1, SubSeqProperties
  <2>3. a \in Seq(Nat) /\ \A i \in 1..(k - 1 + 1) : a[i] = s[1 + i - 1]
    BY <2>1, SubSeqProperties
  <2> QED
    BY <2>2, <2>3
<1>3. /\ b \in Seq(Nat) /\ Len(b) = Len(s) - k /\ \A i \in 1..(Len(s) - k) : b[i] = s[k + i]
  <2>1. \A i \in (k + 1)..Len(s) : s[i] \in Nat
    BY <1>1
  <2>2. Len(b) = IF k + 1 <= Len(s) THEN Len(s) - (k + 1) + 1 ELSE 0
    BY <1>1, <2>1, SubSeqProperties
  <2>3. b \in Seq(Nat) /\ \A i \in 1..(Len(s) - (k + 1) + 1) : b[i] = s[(k + 1) + i - 1]
    BY <1>1, <2>1, SubSeqProperties
  <2> QED
    BY <1>1, <2>2, <2>3
<1>4. s = a \o b
  <2>1. 1 \in 1..(Len(s) + 1) /\ k \in (1 - 1)..Len(s) /\ Len(s) \in k..Len(s)
    BY <1>1
  <2> QED
    BY <2>1, ConcatAdjacentSubSeq, SubSeqFull
<1> HIDE DEF a, b
<1>5. /\ ToSet(a \o b) = ToSet(a) \cup ToSet(b)
      /\ Rising(a \o b) <=> Rising(a) /\ Rising(b) /\ Below(ToSet(a), ToSet(b))
  BY <1>2, <1>3, LinesConcat
<1> QED
  BY <1>2, <1>3, <1>4, <1>5 DEF a, b

(* A text that is to go behind what the files hold goes there, in two parts.        *)
LEMMA TextFiled ==
  ASSUME FileInv, Orderly(disk), lastRoll # 0,
         NEW text \in Seq(Nat), Rising(text), Below(Held(disk), ToSet(text)),
         NEW k \in 0..Len(text), ToDisk(SubSeq(text, 1, k), SubSeq(text, k + 1, Len(text)))
  PROVE  /\ disk' \in [1..MaxTime -> Seq(Nat)] /\ stdio' \in Seq(Nat)
         /\ \A t \in 1..MaxTime : t > lastRoll => disk'[t] = <<>>
         /\ FilesOrderly'
         /\ (Held(disk) \cup ToSet(stdio))' = Held(disk) \cup ToSet(text)
<1> DEFINE a == SubSeq(text, 1, k)
           b == SubSeq(text, k + 1, Len(text))
<1>1. /\ a \in Seq(Nat) /\ b \in Seq(Nat) /\ ToSet(text) = ToSet(a) \cup ToSet(b)
      /\ Rising(a) /\ Rising(b) /\ Below(ToSet(a), ToSet(b))
  BY TextCut
<1>2. lastRoll \in 1..MaxTime /\ disk[lastRoll] \in Seq(Nat) /\ MaxTime \in Nat
  BY LogFileAssumption DEF FileInv
<1>3. PICK d : d = disk'
  OBVIOUS
<1>4. d = [disk EXCEPT ![lastRoll] = disk[lastRoll] \o a] /\ stdio' = b
  BY <1>3 DEF ToDisk
<1> HIDE DEF a, b
<1>5. /\ disk[lastRoll] \o a \in Seq(Nat)
      /\ ToSet(disk[lastRoll] \o a) = ToSet(disk[lastRoll]) \cup ToSet(a)
      /\ Rising(disk[lastRoll] \o a) <=>
           Rising(disk[lastRoll]) /\ Rising(a) /\ Below(ToSet(disk[lastRoll]), ToSet(a))
  BY <1>1, <1>2, LinesConcat
<1>6. /\ DOMAIN disk = 1..MaxTime /\ DOMAIN d = 1..MaxTime /\ d \in [1..MaxTime -> Seq(Nat)]
      /\ d[lastRoll] = disk[lastRoll] \o a
      /\ \A t \in 1..MaxTime : t # lastRoll => d[t] = disk[t]
  BY <1>2, <1>4, <1>5 DEF FileInv
<1>7. ToSet(a) \subseteq ToSet(text) /\ ToSet(disk[lastRoll]) \subseteq Held(disk)
  BY <1>1, <1>2, <1>6 DEF Held
<1>8. Rising(d[lastRoll])
  <2>1. Below(ToSet(disk[lastRoll]), ToSet(a))
    BY <1>7 DEF Below
  <2> QED
    BY <1>1, <1>2, <1>5, <1>6, <2>1 DEF Orderly
<1>9. Orderly(d)
  <2>1. \A t \in 1..MaxTime : Rising(d[t])
    BY <1>6, <1>8 DEF Orderly
  <2>2. ASSUME NEW t \in 1..MaxTime, NEW u \in 1..MaxTime, t < u
        PROVE  Below(ToSet(d[t]), ToSet(d[u]))
    <3>1. Below(ToSet(disk[t]), ToSet(disk[u]))
      BY <1>6, <2>2 DEF Orderly
    <3>2. CASE t = lastRoll
      <4>1. d[u] = <<>>
        BY <1>2, <1>6, <2>2, <3>2 DEF FileInv
      <4>2. ToSet(d[u]) = {}
        BY <4>1 DEF ToSet
      <4> QED
        BY <4>2 DEF Below
    <3>3. CASE u = lastRoll
      <4>1. ToSet(d[u]) = ToSet(disk[u]) \cup ToSet(a) /\ d[t] = disk[t]
        <5>1. t # lastRoll /\ d[u] = disk[u] \o a
          BY <1>6, <2>2, <3>3
        <5> QED
          BY <1>5, <1>6, <3>3, <5>1
      <4>2. ToSet(d[t]) \subseteq Held(disk)
        BY <1>6, <4>1 DEF Held
      <4> QED
        BY <1>7, <3>1, <4>1, <4>2 DEF Below
    <3>4. CASE t # lastRoll /\ u # lastRoll
      BY <1>6, <3>1, <3>4
    <3> QED
      BY <3>2, <3>3, <3>4
  <2> QED
    BY <1>6, <2>1, <2>2 DEF Orderly
<1>10. Held(d) = Held(disk) \cup ToSet(a)
  <2>1. \A t \in 1..MaxTime : ToSet(d[t]) = IF t = lastRoll THEN ToSet(disk[t]) \cup ToSet(a)
                                                           ELSE ToSet(disk[t])
    BY <1>5, <1>6
  <2>2. /\ Held(d) = UNION {ToSet(d[t]) : t \in 1..MaxTime}
        /\ Held(disk) = UNION {ToSet(disk[t]) : t \in 1..MaxTime}
    BY <1>6 DEF Held
  <2>3. \A x : x \in Held(d) <=> \E t \in 1..MaxTime : x \in ToSet(d[t])
    BY <2>2
  <2>4. \A x : x \in Held(disk) <=> \E t \in 1..MaxTime : x \in ToSet(disk[t])
    BY <2>2
  <2> QED
    BY <1>2, <2>1, <2>3, <2>4
<1>11. Below(Held(d), ToSet(b))
  BY <1>1, <1>10 DEF Below
<1>12. \A t \in 1..MaxTime : t > lastRoll => d[t] = <<>>
  BY <1>2, <1>6 DEF FileInv
<1>13. FilesOrderly'
  BY <1>1, <1>3, <1>4, <1>9, <1>11 DEF FilesOrderly
<1>14. (Held(disk) \cup ToSet(stdio))' = Held(d) \cup ToSet(b)
  BY <1>3, <1>4
<1> QED
  BY <1>1, <1>3, <1>4, <1>6, <1>10, <1>12, <1>13, <1>14

(* The part of a text that is left.                                                *)
LEMMA TextLeft ==
  ASSUME NEW s \in Seq(Nat), NEW k \in 0..Len(s)
  PROVE  {s[i] : i \in (k + 1)..Len(s)} = ToSet(SubSeq(s, k + 1, Len(s)))
<1> DEFINE b == SubSeq(s, k + 1, Len(s))
<1>1. Len(s) \in Nat /\ \A i \in (k + 1)..Len(s) : s[i] \in Nat
  BY LenProperties, ElementOfSeq
<1>2. /\ b \in Seq(Nat) /\ Len(b) = Len(s) - k /\ \A i \in 1..(Len(s) - k) : b[i] = s[k + i]
  <2>1. Len(b) = IF k + 1 <= Len(s) THEN Len(s) - (k + 1) + 1 ELSE 0
    BY <1>1, SubSeqProperties
  <2>2. b \in Seq(Nat) /\ \A i \in 1..(Len(s) - (k + 1) + 1) : b[i] = s[(k + 1) + i - 1]
    BY <1>1, SubSeqProperties
  <2> QED
    BY <1>1, <2>1, <2>2
<1> HIDE DEF b
<1>3. ToSet(b) = {b[i] : i \in 1..(Len(s) - k)}
  BY <1>2, LinesOf
<1>4. ASSUME NEW i \in (k + 1)..Len(s) PROVE s[i] \in ToSet(b)
  <2>1. i - k \in 1..(Len(s) - k) /\ k + (i - k) = i
    BY <1>1
  <2> QED
    BY <1>2, <1>3, <2>1
<1>5. ASSUME NEW i \in 1..(Len(s) - k) PROVE k + i \in (k + 1)..Len(s) /\ b[i] = s[k + i]
  BY <1>1, <1>2
<1> QED
  BY <1>3, <1>4, <1>5 DEF b

(* However an append ends, with a new file, a flush or in the buffer, a part of the *)
(* text is on disk and the rest buffered.                                           *)
LEMMA AppendedText ==
  ASSUME FileInv, lastRoll # 0, now' = now,
         NEW text \in Seq(Nat), NEW size, Appended(text, size)
  PROVE  /\ lastRoll' \in {lastRoll, now}
         /\ \E k \in 0..Len(text) : ToDisk(SubSeq(text, 1, k), SubSeq(text, k + 1, Len(text)))
<1>1. Len(text) \in 0..Len(text) /\ Len(text) \in Nat
  BY LenProperties
<1>2. SubSeq(text, 1, Len(text)) = text /\ SubSeq(text, Len(text) + 1, Len(text)) = <<>>
  BY <1>1, SubSeqFull, SubSeqEmpty
<1>3. ToDisk(text, <<>>) => \E k \in 0..Len(text) :
        ToDisk(SubSeq(text, 1, k), SubSeq(text, k + 1, Len(text)))
  BY <1>1, <1>2
<1>4. \/ NewFile(text)
      \/ lastRoll' = lastRoll /\ (ToDisk(text, <<>>) \/ Buffered(text))
  BY DEF Appended
<1> QED
  BY <1>3, <1>4 DEF NewFile, Buffered

(* A text appended behind what the files hold is there, in its place, but for what   *)
(* a failed write loses of its end.                                                 *)
LEMMA TextTaken ==
  ASSUME FileInv, lastRoll # 0, FilesOrderly,
         NEW x \in Seq(Nat), Rising(x), Below(Filed, ToSet(x)), FileAppend(x)
  PROVE  /\ disk' \in [1..MaxTime -> Seq(Nat)] /\ stdio' \in Seq(Nat)
         /\ now' = now /\ lastRoll' \in {lastRoll, now}
         /\ \A t \in 1..MaxTime : t > lastRoll => disk'[t] = <<>>
         /\ FilesOrderly'
         /\ \E n \in 0..Len(x) : /\ Filed' = Filed \cup ToSet(SubSeq(x, 1, n))
                                 /\ lost' = lost \cup ToSet(SubSeq(x, n + 1, Len(x)))
<1>1. now' = now /\ stdio \in Seq(Nat)
  BY DEF FileAppend, FileInv
<1>2. PICK n, size :
        /\ n \in 0..Len(x)
        /\ Appended(stdio \o SubSeq(x, 1, n), size)
        /\ lost' = lost \cup ToSet(SubSeq(x, n + 1, Len(x)))
  <2>1. Len(x) \in Nat /\ Len(x) \in 0..Len(x)
    BY LenProperties
  <2>2. CASE Appended(stdio \o x, bytes + Len(x)) /\ UNCHANGED lost
    <3>1. SubSeq(x, 1, Len(x)) = x /\ SubSeq(x, Len(x) + 1, Len(x)) = <<>>
      BY <2>1, SubSeqFull, SubSeqEmpty
    <3>2. ToSet(<<>>) = {}
      BY DEF ToSet
    <3> QED
      BY <2>1, <2>2, <3>1, <3>2
  <2>3. ASSUME NEW n \in 0..(Len(x) - 1), lost' = lost \cup {x[i] : i \in (n + 1)..Len(x)},
               Appended(stdio \o SubSeq(x, 1, n), bytes)
        PROVE  \E m \in 0..Len(x) : /\ Appended(stdio \o SubSeq(x, 1, m), bytes)
                                    /\ lost' = lost \cup ToSet(SubSeq(x, m + 1, Len(x)))
    <3>1. n \in 0..Len(x)
      BY <2>1
    <3> QED
      BY <2>3, <3>1, TextLeft
  <2>4. CASE \E n \in 0..(Len(x) - 1) :
                /\ lost' = lost \cup {x[i] : i \in (n + 1)..Len(x)}
                /\ Appended(stdio \o SubSeq(x, 1, n), bytes)
    <3>1. PICK n \in 0..(Len(x) - 1) :
            /\ lost' = lost \cup {x[i] : i \in (n + 1)..Len(x)}
            /\ Appended(stdio \o SubSeq(x, 1, n), bytes)
      BY <2>4
    <3>2. \E m \in 0..Len(x) : /\ Appended(stdio \o SubSeq(x, 1, m), bytes)
                               /\ lost' = lost \cup ToSet(SubSeq(x, m + 1, Len(x)))
      BY <2>3, <3>1
    <3>3. PICK m \in 0..Len(x) : /\ Appended(stdio \o SubSeq(x, 1, m), bytes)
                                /\ lost' = lost \cup ToSet(SubSeq(x, m + 1, Len(x)))
      BY <3>2
    <3> QED
      BY <3>3
  <2>5. (Appended(stdio \o x, bytes + Len(x)) /\ UNCHANGED lost)
        \/ \E n \in 0..(Len(x) - 1) : /\ lost' = lost \cup {x[i] : i \in (n + 1)..Len(x)}
                                      /\ Appended(stdio \o SubSeq(x, 1, n), bytes)
    BY DEF FileAppend
  <2> QED
    BY <2>2, <2>4, <2>5
<1> DEFINE y == SubSeq(x, 1, n)
           text == stdio \o y
<1>3. y \in Seq(Nat) /\ Rising(y) /\ ToSet(y) \subseteq ToSet(x)
  BY <1>2, TextCut
<1> HIDE DEF y
<1>4. Below(Filed, ToSet(y))
  BY <1>3 DEF Below
<1>5. text \in Seq(Nat) /\ ToSet(text) = ToSet(stdio) \cup ToSet(y) /\ Rising(text)
  <2>1. Below(ToSet(stdio), ToSet(y))
    BY <1>4 DEF Below, Filed
  <2> QED
    BY <1>1, <1>3, <2>1, LinesConcat DEF FilesOrderly
<1>6. Below(Held(disk), ToSet(text)) /\ Orderly(disk)
  BY <1>4, <1>5 DEF Below, Filed, FilesOrderly
<1>7. Appended(text, size)
  BY <1>2 DEF y
<1> HIDE DEF text
<1>8. /\ lastRoll' \in {lastRoll, now}
      /\ \E k \in 0..Len(text) : ToDisk(SubSeq(text, 1, k), SubSeq(text, k + 1, Len(text)))
  BY <1>1, <1>5, <1>7, AppendedText
<1>9. /\ disk' \in [1..MaxTime -> Seq(Nat)] /\ stdio' \in Seq(Nat)
      /\ \A t \in 1..MaxTime : t > lastRoll => disk'[t] = <<>>
      /\ FilesOrderly'
      /\ (Held(disk) \cup ToSet(stdio))' = Held(disk) \cup ToSet(text)
  BY <1>5, <1>6, <1>8, TextFiled
<1>10. Filed' = Filed \cup ToSet(y)
  BY <1>5, <1>9 DEF Filed
<1> QED
  BY <1>1, <1>2, <1>8, <1>9, <1>10 DEF y

(* What the buffers on their way hold, part by part.                               *)
LEMMA FlightForm ==
  ASSUME NEW w \in Seq(Seq(Nat)), NEW b \in Seq(Seq(Nat)), NEW c \in Seq(Nat)
  PROVE  /\ Held(w \o Append(b, c)) = Held(w) \cup Held(b) \cup ToSet(c)
         /\ Orderly(w \o Append(b, c)) <=>
              /\ Orderly(w) /\ Orderly(b) /\ Rising(c) /\ Below(Held(b), ToSet(c))
              /\ Below(Held(w), Held(b) \cup ToSet(c))
<1> DEFINE q == Append(b, c)
<1>1. /\ q \in Seq(Seq(Nat)) /\ Held(q) = Held(b) \cup ToSet(c)
      /\ Orderly(q) <=> Orderly(b) /\ Rising(c) /\ Below(Held(b), ToSet(c))
  BY TextAppended
<1> HIDE DEF q
<1>2. /\ Held(w \o q) = Held(w) \cup Held(q)
      /\ Orderly(w \o q) <=> Orderly(w) /\ Orderly(q) /\ Below(Held(w), Held(q))
  BY <1>1, TextsConcat
<1>3. /\ Held(w \o q) = Held(w) \cup Held(b) \cup ToSet(c)
      /\ Orderly(w \o q) <=>
              /\ Orderly(w) /\ Orderly(b) /\ Rising(c) /\ Below(Held(b), ToSet(c))
              /\ Below(Held(w), Held(b) \cup ToSet(c))
  BY <1>1, <1>2
<1> QED
  BY <1>3 DEF q

(* What is left to write is a sequence of texts.                                   *)
ToGo == SubSeq(toWrite, written + 1, Len(toWrite))

LEMMA ToGoType ==
  ASSUME TypeOK
  PROVE  ToGo \in Seq(Seq(Nat)) /\ InFlight = ToGo \o Append(buffers, current)
<1>1. \A i \in (written + 1)..Len(toWrite) : toWrite[i] \in Seq(Nat)
  BY LenProperties, ElementOfSeq DEF TypeOK
<1>2. written + 1 \in Int /\ Len(toWrite) \in Int
  BY LenProperties DEF TypeOK
<1> QED
  BY <1>1, <1>2, SubSeqProperties DEF ToGo, InFlight, TypeOK

(* No line is numbered above the last appended.                                    *)
LEMMA LinesBounded ==
  ASSUME LinesKept, lines \in Nat
  PROVE  \A x \in (Filed \cup Held(InFlight)) \ {DropNote} : x \in 1..lines
  BY DEF LinesKept

(* A line goes behind all others, and nothing else moves.                          *)
LEMMA LineKept ==
  ASSUME HoldInv, AppendLine, UNCHANGED <<back, dropped, fvars>>
  PROVE  SparesEmpty' /\ LinesInOrder' /\ LinesKept'
<1> USE DEF HoldInv
<1>1. /\ current \in Seq(Nat) /\ buffers \in Seq(Seq(Nat)) /\ ToGo \in Seq(Seq(Nat))
      /\ InFlight = ToGo \o Append(buffers, current) /\ lines \in Nat
  <2>1. TypeOK
    BY DEF IInv
  <2>2. ToGo \in Seq(Seq(Nat)) /\ InFlight = ToGo \o Append(buffers, current)
    BY <2>1, ToGoType
  <2> QED
    BY <2>1, <2>2, LinesAssumption DEF TypeOK
<1>2. PICK n : n = lines + 1
  OBVIOUS
<1>3. n \in Nat /\ n # DropNote /\ <<n>> \in Seq(Nat) /\ ToSet(<<n>>) = {n} /\ Rising(<<n>>)
  <2>1. n \in Nat /\ n # DropNote
    BY <1>1, <1>2 DEF DropNote
  <2>2. DOMAIN <<n>> = {1} /\ <<n>>[1] = n
    OBVIOUS
  <2> QED
    BY <2>1, <2>2 DEF ToSet, Rising
<1>4. ASSUME NEW X, \A x \in X \ {DropNote} : x \in 1..lines PROVE Below(X, {n})
  BY <1>1, <1>2, <1>4 DEF Below
<1>5. /\ Held(InFlight) = Held(ToGo) \cup Held(buffers) \cup ToSet(current)
      /\ Orderly(ToGo) /\ Orderly(buffers) /\ Rising(current)
      /\ Below(Held(buffers), ToSet(current))
      /\ Below(Held(ToGo), Held(buffers) \cup ToSet(current))
  BY <1>1, FlightForm DEF LinesInOrder
<1>6. /\ Below(Filed, {n}) /\ Below(Held(ToGo), {n}) /\ Below(Held(buffers), {n})
      /\ Below(ToSet(current), {n})
  BY <1>1, <1>4, <1>5, LinesBounded
<1>7. ToGo' = ToGo /\ UNCHANGED <<disk, stdio, lost, dropped, new1, new2>> /\ lines' = n
  BY <1>2 DEF ToGo, back, fvars, members, AppendLine
<1>8. PICK b, c : b = buffers' /\ c = current'
  OBVIOUS
<1>9. /\ b \in Seq(Seq(Nat)) /\ c \in Seq(Nat) /\ Orderly(b) /\ Rising(c) /\ Below(Held(b), ToSet(c))
      /\ Held(b) \cup ToSet(c) = Held(buffers) \cup ToSet(current) \cup {n}
      /\ next' \in {next, NoBuffer}
  <2>1. CASE Len(current) < Capacity
    <3>1. b = buffers /\ c = Append(current, n) /\ next' = next
      BY <1>2, <1>8, <2>1 DEF AppendLine
    <3>2. c = current \o <<n>>
      BY <1>1, <1>3, <3>1, AppendIsConcat
    <3>3. c \in Seq(Nat) /\ ToSet(c) = ToSet(current) \cup {n} /\ Rising(c)
      BY <1>1, <1>3, <1>5, <1>6, <3>2, LinesConcat, ZenonT(60)
    <3>4. Below(Held(b), ToSet(c))
      BY <1>5, <1>6, <3>1, <3>3 DEF Below
    <3> QED
      BY <1>1, <1>5, <3>1, <3>3, <3>4
  <2>2. CASE ~(Len(current) < Capacity)
    <3>1. b = Append(buffers, current) /\ next' = NoBuffer
          /\ c = IF next = NoBuffer THEN <<n>> ELSE Append(next, n)
      BY <1>2, <1>8, <2>2 DEF AppendLine, Missing
    <3>2. next # NoBuffer => next = <<>>
      BY DEF SparesEmpty, Spare
    <3>3. c = <<n>>
      <4>1. Append(<<>>, n) = <<n>>
        BY <1>3
      <4> QED
        BY <3>1, <3>2, <4>1
    <3>4. /\ b \in Seq(Seq(Nat)) /\ Held(b) = Held(buffers) \cup ToSet(current) /\ Orderly(b)
      BY <1>1, <1>5, <3>1, TextAppended
    <3>5. Below(Held(b), {n})
      BY <1>6, <3>4 DEF Below
    <3> QED
      BY <1>3, <3>1, <3>3, <3>4, <3>5
  <2> QED
    BY <2>1, <2>2
<1>10. Below(Held(ToGo), Held(b) \cup ToSet(c))
  BY <1>5, <1>6, <1>9 DEF Below
<1>11. PICK q : q = InFlight'
  OBVIOUS
<1>12. q = ToGo \o Append(b, c)
  BY <1>7, <1>8, <1>11 DEF InFlight, ToGo
<1>13. Held(q) = Held(ToGo) \cup Held(b) \cup ToSet(c) /\ Orderly(q)
  BY <1>1, <1>5, <1>9, <1>10, <1>12, FlightForm
<1>14. Held(q) = Held(InFlight) \cup {n}
  BY <1>5, <1>9, <1>13
<1>15. Below(Filed, Held(q))
  BY <1>6, <1>14 DEF Below, LinesInOrder
<1>16. Filed' = Filed /\ FilesOrderly'
  BY <1>7 DEF Filed, FilesOrderly, LinesInOrder
<1>17. LinesInOrder'
  BY <1>11, <1>13, <1>15, <1>16 DEF LinesInOrder
<1>18. LinesKept'
  <2>1. /\ dropped \cup lost \subseteq 0..lines
        /\ (Filed \cup Held(InFlight)) \ {DropNote} = (1..lines) \ (dropped \cup lost)
    BY DEF LinesKept
  <2>2. (Filed \cup Held(q)) \ {DropNote} = ((1..lines) \ (dropped \cup lost)) \cup {n}
    BY <1>3, <1>14, <2>1
  <2>3. n \notin dropped \cup lost /\ dropped \cup lost \subseteq 0..n
    BY <1>1, <1>2, <2>1
  <2>4. 1..n = (1..lines) \cup {n}
    BY <1>1, <1>2
  <2>5. (Filed \cup Held(q)) \ {DropNote} = (1..n) \ (dropped \cup lost)
    BY <2>2, <2>3, <2>4
  <2> QED
    BY <1>7, <1>11, <1>16, <2>3, <2>5 DEF LinesKept
<1>19. SparesEmpty'
  BY <1>7, <1>9 DEF SparesEmpty, Spare
<1> QED
  BY <1>17, <1>18, <1>19

(* No text at all.                                                                 *)
LEMMA NoTexts ==
  /\ <<>> \in Seq(Seq(Nat)) /\ <<>> \in Seq(Nat)
  /\ ToSet(<<>>) = {} /\ Held(<<>>) = {} /\ Rising(<<>>) /\ Orderly(<<>>)
<1>1. DOMAIN <<>> = {} /\ <<>> \in Seq(Seq(Nat)) /\ <<>> \in Seq(Nat)
  BY EmptySeq
<1> QED
  BY <1>1 DEF ToSet, Held, Rising, Orderly

(* The exchange takes every buffer, in order, and puts an empty one behind.         *)
LEMMA ExchangeKept ==
  ASSUME HoldInv, Exchange, UNCHANGED fvars
  PROVE  SparesEmpty' /\ LinesInOrder' /\ LinesKept'
<1> USE DEF HoldInv
<1>1. TypeOK /\ SpareInv /\ current \in Seq(Nat) /\ buffers \in Seq(Seq(Nat))
  BY DEF IInv, TypeOK
<1>2. toWrite = <<>> /\ new1 # NoBuffer
  BY <1>1 DEF Exchange, HasMutex, SpareInv
<1>3. /\ toWrite' = Append(buffers, current) /\ written' = 0 /\ buffers' = <<>> /\ current' = <<>>
      /\ UNCHANGED <<disk, stdio, lost, dropped, lines>>
  BY <1>2 DEF Exchange, fvars, members, SparesEmpty, Spare
<1>4. SparesEmpty'
  BY DEF Exchange, SparesEmpty, Spare
<1>5. PICK w : w = Append(buffers, current)
  OBVIOUS
<1>6. w \in Seq(Seq(Nat)) /\ SubSeq(w, 1, Len(w)) = w
  BY <1>1, <1>5, AppendProperties, SubSeqFull
<1>7. InFlight' = w \o Append(<<>>, <<>>)
  <2>1. 0 + 1 = 1
    OBVIOUS
  <2> QED
    BY <1>3, <1>5, <1>6, <2>1 DEF InFlight
<1>8. InFlight = w
  <2>1. ToGo = <<>>
    <3>1. Len(toWrite) = 0 /\ written + 1 \in Int /\ 0 < written + 1
      BY <1>1, <1>2, EmptySeq DEF TypeOK
    <3> QED
      BY <3>1, SubSeqEmpty DEF ToGo
  <2> QED
    BY <1>1, <1>5, <1>6, <2>1, ToGoType, ConcatEmptySeq
<1>9. PICK q : q = InFlight'
  OBVIOUS
<1>10. Held(q) = Held(InFlight) /\ Orderly(q)
  <2>1. Orderly(w)
    BY <1>8 DEF LinesInOrder
  <2>2. Below(Held(w), {})
    BY DEF Below
  <2>3. /\ Held(q) = Held(w) \cup Held(<<>>) \cup ToSet(<<>>)
        /\ Orderly(q) <=>
             /\ Orderly(w) /\ Orderly(<<>>) /\ Rising(<<>>) /\ Below(Held(<<>>), ToSet(<<>>))
             /\ Below(Held(w), Held(<<>>) \cup ToSet(<<>>))
    BY <1>6, <1>7, <1>9, NoTexts, FlightForm
  <2>4. Below(Held(<<>>), ToSet(<<>>))
    BY NoTexts DEF Below
  <2> QED
    BY <1>8, <2>1, <2>2, <2>3, <2>4, NoTexts
<1>11. Filed' = Filed /\ FilesOrderly'
  BY <1>3 DEF Filed, FilesOrderly, LinesInOrder
<1> QED
  BY <1>3, <1>4, <1>9, <1>10, <1>11 DEF LinesInOrder, LinesKept

(* What a text appended to the files loses is lost to all.                          *)
LEMMA TextKept ==
  ASSUME HoldInv, NEW x \in Seq(Nat), Rising(x), Below(Filed, ToSet(x)), FileAppend(x),
         bpc \notin {"unstarted", "init"}, bpc' \notin {"unstarted", "init"}, NEW q, q = InFlight',
         Orderly(q), Below(Filed \cup ToSet(x), Held(q)),
         ToSet(x) \subseteq 0..lines, lines' = lines, dropped' \subseteq 0..lines,
         (Filed \cup ToSet(x) \cup Held(q)) \ {DropNote} = (1..lines) \ (dropped' \cup lost)
  PROVE  FileInv' /\ LinesInOrder' /\ LinesKept'
<1> USE DEF HoldInv
<1>9. lastRoll # 0
  BY DEF FileInv
<1>1. /\ disk' \in [1..MaxTime -> Seq(Nat)] /\ stdio' \in Seq(Nat)
      /\ now' = now /\ lastRoll' \in {lastRoll, now}
      /\ \A t \in 1..MaxTime : t > lastRoll => disk'[t] = <<>>
      /\ FilesOrderly'
      /\ \E n \in 0..Len(x) : /\ Filed' = Filed \cup ToSet(SubSeq(x, 1, n))
                              /\ lost' = lost \cup ToSet(SubSeq(x, n + 1, Len(x)))
  BY <1>9, TextTaken DEF LinesInOrder
<1>2. PICK n \in 0..Len(x) : /\ Filed' = Filed \cup ToSet(SubSeq(x, 1, n))
                             /\ lost' = lost \cup ToSet(SubSeq(x, n + 1, Len(x)))
  BY <1>1
<1>3. PICK Y, Z : Y = ToSet(SubSeq(x, 1, n)) /\ Z = ToSet(SubSeq(x, n + 1, Len(x)))
  OBVIOUS
<1>4. ToSet(x) = Y \cup Z /\ Below(Y, Z)
  BY <1>3, TextCut
<1>5. Filed' = Filed \cup Y /\ lost' = lost \cup Z /\ Z \subseteq Nat
  <2>1. ToSet(x) \subseteq Nat
    BY LinesOf
  <2> QED
    BY <1>2, <1>3, <1>4, <2>1
<1>6. FileInv'
  <2>1. lost' \subseteq Nat
    BY <1>5 DEF FileInv
  <2>2. /\ lastRoll' \in 0..now' /\ lastRoll' # 0 /\ lastRoll <= lastRoll' /\ now' \in 1..MaxTime
        /\ lastRoll \in Nat /\ lastRoll' \in Nat
    BY <1>1, <1>9, LogFileAssumption DEF FileInv
  <2>3. \A t \in 1..MaxTime : t > lastRoll' => disk'[t] = <<>>
    BY <1>1, <2>2, LogFileAssumption
  <2> QED
    BY <1>1, <2>1, <2>2, <2>3 DEF FileInv
<1>7. LinesInOrder'
  BY <1>1, <1>4, <1>5 DEF LinesInOrder, Below
<1>8. LinesKept'
  <2>1. dropped' \cup lost' \subseteq 0..lines
    BY <1>4, <1>5 DEF LinesKept
  <2>2. ASSUME NEW z \in Z, z # DropNote PROVE z \notin Filed \cup Y \cup Held(q)
    <3>1. z \in Nat
      BY <1>5
    <3>2. Below(Filed, Z) /\ Below(Z, Held(q))
      BY <1>4 DEF Below
    <3>3. \A y \in Filed \cup Y : y # DropNote => y < z
      BY <1>4, <2>2, <3>2 DEF Below
    <3>4. \A y \in Held(q) : y # DropNote => z < y
      BY <2>2, <3>2 DEF Below
    <3> QED
      BY <2>2, <3>1, <3>3, <3>4
  <2>3. (Filed \cup Y \cup Held(q)) \ {DropNote} = (1..lines) \ (dropped' \cup lost \cup Z)
    <3>1. DropNote \notin 1..lines
      BY DEF DropNote
    <3> QED
      BY <1>4, <2>2, <3>1
  <2> QED
    BY <1>5, <2>1, <2>3 DEF LinesKept
<1> QED
  BY <1>6, <1>7, <1>8

(* The first two texts, and the others.                                            *)
LEMMA BuffersCut ==
  ASSUME NEW s \in Seq(Seq(Nat)), 2 <= Len(s)
  PROVE  /\ SubSeq(s, 1, 2) \in Seq(Seq(Nat)) /\ SubSeq(s, 3, Len(s)) \in Seq(Seq(Nat))
         /\ s = SubSeq(s, 1, 2) \o SubSeq(s, 3, Len(s))
         /\ UNION {ToSet(s[j]) : j \in 3..Len(s)} = Held(SubSeq(s, 3, Len(s)))
<1> DEFINE a == SubSeq(s, 1, 2)
           b == SubSeq(s, 3, Len(s))
<1>1. Len(s) \in Nat /\ \A i \in 1..Len(s) : s[i] \in Seq(Nat)
  BY LenProperties, ElementOfSeq
<1>2. a \in Seq(Seq(Nat))
  <2>1. \A i \in 1..2 : s[i] \in Seq(Nat)
    BY <1>1
  <2> QED
    BY <2>1, SubSeqProperties
<1>3. /\ b \in Seq(Seq(Nat)) /\ Len(b) = Len(s) - 2 /\ \A i \in 1..(Len(s) - 2) : b[i] = s[i + 2]
  <2>1. \A i \in 3..Len(s) : s[i] \in Seq(Nat)
    BY <1>1
  <2>2. Len(b) = IF 3 <= Len(s) THEN Len(s) - 3 + 1 ELSE 0
    BY <1>1, <2>1, SubSeqProperties
  <2>3. b \in Seq(Seq(Nat)) /\ \A i \in 1..(Len(s) - 3 + 1) : b[i] = s[3 + i - 1]
    BY <1>1, <2>1, SubSeqProperties
  <2>4. ASSUME NEW i \in 1..(Len(s) - 2) PROVE b[i] = s[i + 2]
    <3>1. i \in 1..(Len(s) - 3 + 1) /\ 3 + i - 1 = i + 2
      BY <1>1
    <3> QED
      BY <2>3, <3>1
  <2>5. PICK n \in Nat : n = Len(s)
    BY <1>1
  <2> HIDE DEF a, b
  <2>6. 2 <= n /\ Len(b) = IF 3 <= n THEN n - 3 + 1 ELSE 0
    BY <2>2, <2>5
  <2>7. Len(b) = n - 2
    BY <2>6
  <2> QED
    BY <2>3, <2>4, <2>5, <2>7
<1>4. s = a \o b
  <2>1. /\ 1 \in 1..(Len(s) + 1) /\ 2 \in (1 - 1)..Len(s) /\ Len(s) \in 2..Len(s) /\ 2 + 1 = 3
    BY <1>1
  <2> QED
    BY <2>1, ConcatAdjacentSubSeq, SubSeqFull
<1> HIDE DEF a, b
<1>5. ASSUME NEW j \in 3..Len(s) PROVE j - 2 \in 1..(Len(s) - 2) /\ s[j] = b[j - 2]
  <2>1. j - 2 \in 1..(Len(s) - 2) /\ (j - 2) + 2 = j
    BY <1>1
  <2> QED
    BY <1>3, <2>1
<1>6. ASSUME NEW i \in 1..(Len(s) - 2) PROVE i + 2 \in 3..Len(s) /\ s[i + 2] = b[i]
  BY <1>1, <1>3
<1>7. \A x : x \in Held(b) <=> \E i \in 1..(Len(s) - 2) : x \in ToSet(b[i])
  BY <1>3, LenProperties DEF Held
<1>8. UNION {ToSet(s[j]) : j \in 3..Len(s)} = Held(b)
  BY <1>5, <1>6, <1>7
<1> QED
  BY <1>2, <1>3, <1>4, <1>8 DEF a, b

(* Dropping takes the buffers after the second out of the middle; the note goes to   *)
(* the files.                                                                      *)
LEMMA TrimKept ==
  ASSUME HoldInv, LTrim
  PROVE  FileInv' /\ SparesEmpty' /\ LinesInOrder' /\ LinesKept'
<1> USE DEF HoldInv
<1>1. TypeOK /\ SpareInv /\ current \in Seq(Nat) /\ buffers \in Seq(Seq(Nat))
      /\ toWrite \in Seq(Seq(Nat)) /\ Len(toWrite) \in Nat /\ lines \in Nat
  BY LenProperties, LinesAssumption DEF IInv, TypeOK
<1>2. /\ bpc = "trim" /\ bpc' = "write" /\ written = 0
      /\ UNCHANGED <<current, next, buffers, new1, new2, written, lines>>
  BY <1>1 DEF LTrim, Trim, SpareInv, front
<1>3. SparesEmpty'
  BY <1>2 DEF SparesEmpty
<1>4. CASE ~(Len(toWrite) > Limit)
  <2>1. UNCHANGED <<toWrite, dropped, fvars>>
    BY <1>4 DEF LTrim, Trim
  <2>2. UNCHANGED <<disk, stdio, lastRoll, now, lost>>
    BY <2>1 DEF fvars, members
  <2>3. FileInv'
    BY <1>2, <2>2 DEF FileInv
  <2>4. InFlight' = InFlight /\ Filed' = Filed /\ FilesOrderly'
    BY <1>2, <2>1, <2>2 DEF InFlight, Filed, FilesOrderly, LinesInOrder
  <2> QED
    BY <1>2, <1>3, <2>1, <2>2, <2>3, <2>4 DEF LinesInOrder, LinesKept
<1>5. CASE Len(toWrite) > Limit
  <2>1. 2 <= Len(toWrite)
    BY <1>1, <1>5, LimitAssumption
  <2> DEFINE a == SubSeq(toWrite, 1, 2)
             b == SubSeq(toWrite, 3, Len(toWrite))
             c == Append(buffers, current)
  <2>2. /\ toWrite' = a /\ dropped' = dropped \cup LinesFrom(3) /\ FileAppend(<<DropNote>>)
    BY <1>5 DEF LTrim, Trim
  <2>3. a \in Seq(Seq(Nat)) /\ b \in Seq(Seq(Nat)) /\ toWrite = a \o b
    BY <1>1, <2>1, BuffersCut
  <2>5. c \in Seq(Seq(Nat))
    BY <1>1, AppendProperties
  <2> HIDE DEF a, b, c
  <2>6. LinesFrom(3) = Held(b)
    BY <1>1, <2>1, BuffersCut DEF LinesFrom, b
  <2>7. InFlight = toWrite \o c
    <3>1. SubSeq(toWrite, 0 + 1, Len(toWrite)) = toWrite
      BY <1>1, SubSeqFull
    <3> QED
      BY <1>2, <3>1 DEF InFlight, c
  <2>8. PICK q : q = InFlight'
    OBVIOUS
  <2>9. q = a \o c
    <3>1. SubSeq(a, 0 + 1, Len(a)) = a
      BY <2>3, SubSeqFull
    <3> QED
      BY <1>2, <2>2, <2>8, <3>1 DEF InFlight, c
  <2>10. /\ Orderly(a) /\ Orderly(b) /\ Orderly(c) /\ Below(Held(a), Held(b))
         /\ Below(Held(a) \cup Held(b), Held(c))
         /\ Held(InFlight) = Held(a) \cup Held(b) \cup Held(c)
    <3>1. Held(toWrite) = Held(a) \cup Held(b)
          /\ (Orderly(toWrite) <=> Orderly(a) /\ Orderly(b) /\ Below(Held(a), Held(b)))
      BY <2>3, TextsConcat
    <3>2. /\ Held(InFlight) = Held(toWrite) \cup Held(c)
          /\ Orderly(InFlight) <=>
               Orderly(toWrite) /\ Orderly(c) /\ Below(Held(toWrite), Held(c))
      BY <1>1, <2>5, <2>7, TextsConcat
    <3> QED
      BY <3>1, <3>2 DEF LinesInOrder
  <2>11. Held(q) = Held(a) \cup Held(c) /\ Orderly(q)
    <3>1. Below(Held(a), Held(c))
      BY <2>10 DEF Below
    <3>2. /\ Held(a \o c) = Held(a) \cup Held(c)
          /\ Orderly(a \o c) <=> Orderly(a) /\ Orderly(c) /\ Below(Held(a), Held(c))
      BY <2>3, <2>5, TextsConcat
    <3> QED
      BY <2>9, <2>10, <3>1, <3>2
  <2>12. /\ <<DropNote>> \in Seq(Nat) /\ ToSet(<<DropNote>>) = {DropNote} /\ Rising(<<DropNote>>)
         /\ Below(Filed, {DropNote})
    <3>1. DOMAIN <<DropNote>> = {1} /\ <<DropNote>>[1] = DropNote /\ DropNote \in Nat
      BY DEF DropNote
    <3> QED
      BY <3>1 DEF ToSet, Rising, Below
  <2>13. Below(Filed \cup {DropNote}, Held(q))
    BY <2>10, <2>11 DEF Below, LinesInOrder
  <2>14. ASSUME NEW x \in Held(b) PROVE x \in 0..lines /\ (x # DropNote => x \notin Filed \cup Held(q))
    <3>1. x = 0 \/ x \in 1..lines
      BY <2>10 DEF LinesKept, DropNote
    <3>2. x \in Nat
      BY <1>1, <3>1
    <3>3. \A y \in Filed \cup Held(a) : y # DropNote /\ x # DropNote => y < x
      BY <2>10 DEF LinesInOrder, Below
    <3>4. \A y \in Held(c) : y # DropNote /\ x # DropNote => x < y
      BY <2>10 DEF Below
    <3>5. x # DropNote => x \notin Filed \cup Held(a) \cup Held(c)
      BY <3>2, <3>3, <3>4
    <3> QED
      BY <1>1, <2>11, <3>1, <3>5
  <2>15. (Filed \cup {DropNote} \cup Held(q)) \ {DropNote} = (1..lines) \ (dropped' \cup lost)
    <3>1. (Filed \cup Held(a) \cup Held(b) \cup Held(c)) \ {DropNote} = (1..lines) \ (dropped \cup lost)
      BY <2>10 DEF LinesKept
    <3>2. DropNote \notin 1..lines
      BY DEF DropNote
    <3> QED
      BY <2>2, <2>6, <2>11, <2>14, <3>1, <3>2
  <2>16. dropped' \subseteq 0..lines
    BY <2>2, <2>6, <2>14 DEF LinesKept
  <2>17. {DropNote} \subseteq 0..lines
    BY <1>1 DEF DropNote
  <2> QED
    BY <1>2, <1>3, <2>2, <2>8, <2>11, <2>12, <2>13, <2>15, <2>16, <2>17, TextKept
<1> QED
  BY <1>4, <1>5

(* The first buffer to go goes to the files.                                        *)
LEMMA WriteKept ==
  ASSUME HoldInv, LWrite
  PROVE  FileInv' /\ SparesEmpty' /\ LinesInOrder' /\ LinesKept'
<1> USE DEF HoldInv
<1>1. TypeOK /\ current \in Seq(Nat) /\ buffers \in Seq(Seq(Nat)) /\ written \in Nat
      /\ toWrite \in Seq(Seq(Nat)) /\ Len(toWrite) \in Nat /\ lines \in Nat
  BY LenProperties, LinesAssumption DEF IInv, TypeOK
<1>2. /\ bpc = "write" /\ bpc' = "write" /\ written < Len(toWrite) /\ written' = written + 1
      /\ UNCHANGED <<current, next, buffers, new1, new2, toWrite, lines, dropped>>
      /\ FileAppend(toWrite[written + 1])
  BY DEF LWrite, Write, front
<1>3. SparesEmpty'
  BY <1>2 DEF SparesEmpty
<1> DEFINE x == toWrite[written + 1]
           w == SubSeq(toWrite, written + 2, Len(toWrite))
           c == Append(buffers, current)
<1>4. x \in Seq(Nat) /\ w \in Seq(Seq(Nat)) /\ c \in Seq(Seq(Nat))
  <2>1. \A i \in 1..Len(toWrite) : toWrite[i] \in Seq(Nat)
    BY <1>1, ElementOfSeq
  <2>2. written + 1 \in 1..Len(toWrite)
    BY <1>1, <1>2
  <2>3. w \in Seq(Seq(Nat))
    <3>1. \A i \in (written + 2)..Len(toWrite) : toWrite[i] \in Seq(Nat)
      BY <1>1, <2>1
    <3> QED
      BY <1>1, <3>1, SubSeqProperties
  <2> QED
    BY <1>1, <2>1, <2>2, <2>3, AppendProperties
<1>5. ToGo = <<x>> \o w
  <2>1. written + 1 \in 1..Len(toWrite) /\ Len(toWrite) \in (written + 1)..Len(toWrite)
        /\ (written + 1) + 1 = written + 2
    BY <1>1, <1>2
  <2>2. SubSeq(toWrite, written + 1, Len(toWrite)) =
          <<toWrite[written + 1]>> \o SubSeq(toWrite, (written + 1) + 1, Len(toWrite))
    BY <1>1, <2>1, SubSeqRecursiveFirst
  <2> QED
    BY <2>1, <2>2 DEF ToGo
<1>6. PICK q : q = InFlight'
  OBVIOUS
<1>7. q = w \o c
  <2>1. (written + 1) + 1 = written + 2
    BY <1>1
  <2> QED
    BY <1>2, <1>6, <2>1 DEF InFlight
<1>8. InFlight = ToGo \o c
  BY <1>1, ToGoType
<1>9. FileAppend(x)
  BY <1>2
<1> HIDE DEF x, w, c
<1>10. <<x>> \in Seq(Seq(Nat)) /\ Held(<<x>>) = ToSet(x) /\ (Orderly(<<x>>) <=> Rising(x))
  <2>1. DOMAIN <<x>> = {1} /\ <<x>>[1] = x /\ <<x>> \in Seq(Seq(Nat))
    BY <1>4
  <2> QED
    BY <2>1 DEF Held, Orderly
<1>11. /\ ToGo \in Seq(Seq(Nat)) /\ Held(ToGo) = ToSet(x) \cup Held(w)
       /\ Orderly(ToGo) <=> Rising(x) /\ Orderly(w) /\ Below(ToSet(x), Held(w))
  <2>1. /\ <<x>> \o w \in Seq(Seq(Nat)) /\ Held(<<x>> \o w) = Held(<<x>>) \cup Held(w)
        /\ Orderly(<<x>> \o w) <=> Orderly(<<x>>) /\ Orderly(w) /\ Below(Held(<<x>>), Held(w))
    BY <1>4, <1>10, TextsConcat
  <2> QED
    BY <1>5, <1>10, <2>1
<1>12. /\ Held(InFlight) = ToSet(x) \cup Held(w) \cup Held(c)
       /\ Rising(x) /\ Orderly(w) /\ Orderly(c) /\ Below(ToSet(x), Held(w))
       /\ Below(ToSet(x) \cup Held(w), Held(c))
  <2>1. /\ Held(InFlight) = Held(ToGo) \cup Held(c)
        /\ Orderly(InFlight) <=> Orderly(ToGo) /\ Orderly(c) /\ Below(Held(ToGo), Held(c))
    BY <1>4, <1>8, <1>11, TextsConcat
  <2> QED
    BY <1>11, <2>1 DEF LinesInOrder
<1>13. Held(q) = Held(w) \cup Held(c) /\ Orderly(q)
  <2>1. Below(Held(w), Held(c))
    BY <1>12 DEF Below
  <2>2. /\ Held(w \o c) = Held(w) \cup Held(c)
        /\ Orderly(w \o c) <=> Orderly(w) /\ Orderly(c) /\ Below(Held(w), Held(c))
    BY <1>4, TextsConcat
  <2> QED
    BY <1>7, <1>12, <2>1, <2>2
<1>14. Below(Filed, ToSet(x)) /\ Below(Filed \cup ToSet(x), Held(q))
  BY <1>12, <1>13 DEF LinesInOrder, Below
<1>15. (Filed \cup ToSet(x) \cup Held(q)) \ {DropNote} = (1..lines) \ (dropped' \cup lost)
  BY <1>2, <1>12, <1>13 DEF LinesKept
<1>16. ToSet(x) \subseteq 0..lines
  BY <1>1, <1>12, LinesBounded DEF DropNote
<1>17. dropped' \subseteq 0..lines
  BY <1>2 DEF LinesKept
<1> QED
  BY <1>2, <1>3, <1>4, <1>6, <1>9, <1>12, <1>13, <1>14, <1>15, <1>16, <1>17, TextKept

(* fflush and fclose move what is buffered behind what is on disk.                  *)
LEMMA FlushKept ==
  ASSUME HoldInv, Flush, bpc \notin {"unstarted", "init"}, bpc' \notin {"unstarted", "init"},
         InFlight' = InFlight, UNCHANGED <<lines, dropped>>
  PROVE  FileInv' /\ LinesInOrder' /\ LinesKept'
<1> USE DEF HoldInv
<1>1. /\ stdio \in Seq(Nat) /\ lastRoll # 0 /\ Len(stdio) \in Nat /\ Len(stdio) \in 0..Len(stdio)
      /\ UNCHANGED <<now, lastRoll, lost>>
  BY LenProperties DEF FileInv, Flush
<1>2. SubSeq(stdio, 1, Len(stdio)) = stdio /\ SubSeq(stdio, Len(stdio) + 1, Len(stdio)) = <<>>
  BY <1>1, SubSeqFull, SubSeqEmpty
<1>3. ToDisk(SubSeq(stdio, 1, Len(stdio)), SubSeq(stdio, Len(stdio) + 1, Len(stdio)))
  BY <1>2 DEF Flush
<1>4. /\ disk' \in [1..MaxTime -> Seq(Nat)] /\ stdio' \in Seq(Nat)
      /\ \A t \in 1..MaxTime : t > lastRoll => disk'[t] = <<>>
      /\ FilesOrderly'
      /\ (Held(disk) \cup ToSet(stdio))' = Held(disk) \cup ToSet(stdio)
  BY <1>1, <1>3, TextFiled DEF LinesInOrder, FilesOrderly
<1>5. FileInv'
  BY <1>1, <1>4 DEF FileInv
<1>6. Filed' = Filed
  BY <1>4 DEF Filed
<1> QED
  BY <1>1, <1>4, <1>5, <1>6 DEF LinesInOrder, LinesKept

(* The first file finds nothing to put in it.                                       *)
LEMMA OpenKept ==
  ASSUME HoldInv, LPrepare
  PROVE  FileInv' /\ SparesEmpty' /\ LinesInOrder' /\ LinesKept'
<1> USE DEF HoldInv
<1>1. /\ bpc = "init" /\ bpc' = "loop" /\ new1' = <<>> /\ new2' = <<>>
      /\ UNCHANGED <<current, next, buffers, toWrite, written, lines, dropped, now, lost>>
      /\ NewFile(<<>>)
  BY DEF LPrepare, Prepare, Open, front
<1>2. lastRoll = 0 /\ stdio = <<>> /\ now \in 1..MaxTime /\ MaxTime \in Nat
  BY <1>1, LogFileAssumption DEF FileInv
<1>3. UNCHANGED <<disk, stdio>> /\ lastRoll' = now
  BY <1>1, <1>2 DEF NewFile, ToDisk
<1>4. FileInv'
  BY <1>1, <1>2, <1>3 DEF FileInv
<1>5. InFlight' = InFlight /\ Filed' = Filed /\ FilesOrderly'
  BY <1>1, <1>3 DEF InFlight, Filed, FilesOrderly, LinesInOrder
<1>6. SparesEmpty'
  BY <1>1 DEF SparesEmpty, Spare
<1> QED
  BY <1>1, <1>4, <1>5, <1>6 DEF LinesInOrder, LinesKept

(* Where nothing is appended, written or dropped, nothing is lost.                  *)
LEMMA NothingMoved ==
  ASSUME HoldInv, InFlight' = InFlight, UNCHANGED <<disk, stdio, lost, lastRoll, lines, dropped>>,
         now' \in now..MaxTime, SparesEmpty',
         bpc \in {"unstarted", "init"} <=> bpc' \in {"unstarted", "init"}
  PROVE  FileInv' /\ SparesEmpty' /\ LinesInOrder' /\ LinesKept'
<1> USE DEF HoldInv
<1>1. FileInv'
  BY LogFileAssumption DEF FileInv
<1>2. Filed' = Filed /\ FilesOrderly'
  BY DEF Filed, FilesOrderly, LinesInOrder
<1> QED
  BY <1>1, <1>2 DEF LinesInOrder, LinesKept

(* Every step keeps every line, in its place.                                       *)
LEMMA HoldStep ==
  ASSUME HoldInv, [LNext]_lvars
  PROVE  FileInv' /\ SparesEmpty' /\ LinesInOrder' /\ LinesKept'
<1>1. TypeOK /\ SpareInv /\ now \in now..MaxTime
  BY LogFileAssumption DEF HoldInv, IInv, FileInv
<1>2. ASSUME UNCHANGED <<front, new1, new2, toWrite, written, lines, dropped, fvars>>,
             bpc \in {"unstarted", "init"} <=> bpc' \in {"unstarted", "init"}
      PROVE  FileInv' /\ SparesEmpty' /\ LinesInOrder' /\ LinesKept'
  <2>1. InFlight' = InFlight /\ UNCHANGED <<disk, stdio, lost, lastRoll, now, lines, dropped>>
    BY <1>2 DEF front, fvars, members, InFlight
  <2>2. SparesEmpty'
    BY <1>2 DEF front, HoldInv, SparesEmpty
  <2> QED
    BY <1>1, <1>2, <2>1, <2>2, NothingMoved
<1>3. CASE UNCHANGED lvars
  BY <1>2, <1>3 DEF lvars, vars, back
<1>4. CASE (LogLine \/ LogFatal) /\ UNCHANGED fvars
  <2>1. AppendLine /\ UNCHANGED <<back, dropped, bpc, fvars>>
    BY <1>4 DEF LogLine, LogFatal
  <2>2. UNCHANGED <<disk, stdio, lost, lastRoll, now>>
    BY <2>1 DEF fvars, members
  <2>3. FileInv'
    BY <2>1, <2>2 DEF FileInv, HoldInv
  <2> QED
    BY <2>1, <2>3, LineKept
<1>5. CASE Owner /\ UNCHANGED fvars
  <2>1. /\ UNCHANGED <<front, back, lines, dropped, fvars>>
        /\ bpc \in {"unstarted", "init"} <=> bpc' \in {"unstarted", "init"}
    BY <1>1, <1>5 DEF Owner, Start, Started, Stop, Join, SpareInv
  <2> QED
    BY <1>2, <2>1 DEF back
<1>6. CASE LPrepare
  BY <1>6, OpenKept
<1>7. CASE LTestRunning
  <2>1. /\ UNCHANGED <<front, back, lines, dropped>> /\ bpc = "loop" /\ bpc' \in {"lock", "done"}
        /\ UNCHANGED fvars \/ Flush
    BY <1>7 DEF LTestRunning, TestRunning
  <2>2. InFlight' = InFlight /\ SparesEmpty'
    BY <2>1 DEF front, back, InFlight, HoldInv, SparesEmpty
  <2>3. CASE UNCHANGED fvars
    BY <1>2, <2>1, <2>3 DEF back
  <2>4. CASE Flush
    BY <2>1, <2>2, <2>4, FlushKept
  <2> QED
    BY <2>1, <2>3, <2>4
<1>8. CASE (Wait \/ WriteDone) /\ UNCHANGED fvars
  BY <1>2, <1>8 DEF Wait, WriteDone, back
<1>9. CASE Exchange /\ UNCHANGED fvars
  <2>1. bpc \notin {"unstarted", "init"} /\ bpc' = "trim"
    BY <1>9 DEF Exchange, HasMutex
  <2>2. UNCHANGED <<disk, stdio, lost, lastRoll, now>>
    BY <1>9 DEF fvars, members
  <2>3. FileInv'
    BY <2>1, <2>2 DEF FileInv, HoldInv
  <2> QED
    BY <1>9, <2>3, ExchangeKept
<1>10. CASE LTrim
  BY <1>10, TrimKept
<1>11. CASE LWrite
  BY <1>11, WriteKept
<1>12. CASE LRecycle
  <2>1. /\ bpc = "recycle" /\ bpc' = "loop" /\ toWrite' = <<>> /\ written' = 0
        /\ UNCHANGED <<current, next, buffers, lines, dropped>> /\ Flush
        /\ new1' \in {new1, <<>>} /\ new2' \in {new2, <<>>}
    BY <1>12 DEF LRecycle, Recycle, front
  <2>2. SparesEmpty'
    BY <2>1 DEF SparesEmpty, Spare, HoldInv
  <2>3. InFlight' = InFlight
    <3>1. ToGo = <<>>
      <4>1. written = Len(toWrite) /\ Len(toWrite) \in Nat
        BY <1>1, <2>1, LenProperties DEF HoldInv, AllWritten, TypeOK
      <4> QED
        BY <4>1, SubSeqEmpty DEF ToGo
    <3>2. SubSeq(<<>>, 0 + 1, Len(<<>>)) = <<>>
      BY EmptySeq, SubSeqEmpty
    <3> QED
      BY <1>1, <2>1, <3>1, <3>2, ToGoType DEF InFlight
  <2> QED
    BY <2>1, <2>2, <2>3, FlushKept
<1>13. CASE Tick /\ UNCHANGED vars
  <2>1. now' \in now..MaxTime /\ UNCHANGED <<disk, stdio, lost, lastRoll>>
    BY <1>1, <1>13, LogFileAssumption DEF Tick, members, HoldInv, FileInv
  <2>2. InFlight' = InFlight /\ SparesEmpty' /\ UNCHANGED <<bpc, lines, dropped>>
    BY <1>13 DEF vars, front, back, InFlight, SparesEmpty, HoldInv
  <2> QED
    BY <2>1, <2>2, NothingMoved
<1> QED
  BY <1>3, <1>4, <1>5, <1>6, <1>7, <1>8, <1>9, <1>10, <1>11, <1>12, <1>13 DEF LNext, LBackEnd

(* In order, what the files and the buffers hold is one sequence of texts.          *)
LEMMA HoldMeansHeld == HoldInv => FilesHoldLines
<1> SUFFICES ASSUME HoldInv PROVE FilesHoldLines
  OBVIOUS
<1> USE DEF HoldInv
<1>1. disk \in Seq(Seq(Nat)) /\ stdio \in Seq(Nat)
  BY LogFileAssumption, IsASeq DEF FileInv
<1>2. InFlight \in Seq(Seq(Nat))
  <2>1. TypeOK /\ Append(buffers, current) \in Seq(Seq(Nat))
    BY AppendProperties DEF IInv, TypeOK
  <2> QED
    BY <2>1, ToGoType, ConcatProperties
<1> DEFINE files == Append(disk, stdio)
<1>3. files \in Seq(Seq(Nat)) /\ Held(files) = Filed /\ Orderly(files)
  BY <1>1, TextAppended DEF Filed, LinesInOrder, FilesOrderly
<1> HIDE DEF files
<1>4. /\ Held(files \o InFlight) = Held(files) \cup Held(InFlight)
      /\ Orderly(files \o InFlight)
  BY <1>2, <1>3, TextsConcat DEF LinesInOrder
<1> QED
  BY <1>3, <1>4 DEF FilesHoldLines, LinesKept, files

(* Whatever the sizes, the clock, the rolls and the failed writes, every line is in   *)
(* the files or on its way there, once and in its place, or known to be dropped or    *)
(* lost.                                                                           *)
THEOREM HoldInvariant == LSpec => []HoldInv
<1>1. LInit => HoldInv
  <2> SUFFICES ASSUME LInit PROVE HoldInv
    OBVIOUS
  <2>1. IInv
    BY InitIInv DEF LInit
  <2>2. FileInv
    BY LogFileAssumption, EmptySeq DEF LInit, Init, FileInit, FileInv
  <2>3. SparesEmpty /\ AllWritten
    BY DEF LInit, Init, SparesEmpty, Spare, AllWritten
  <2>4. Held(disk) = {} /\ ToSet(stdio) = {} /\ Rising(stdio) /\ Orderly(disk)
    <3>1. DOMAIN disk = 1..MaxTime /\ \A t \in 1..MaxTime : disk[t] = <<>>
      BY DEF LInit, FileInit
    <3>2. Held(disk) = {}
      BY <3>1, NoTexts DEF Held
    <3>3. Below(ToSet(<<>>), ToSet(<<>>))
      BY NoTexts DEF Below
    <3> QED
      BY <3>1, <3>2, <3>3, NoTexts DEF LInit, FileInit, Orderly
  <2>5. Held(InFlight) = {} /\ Orderly(InFlight)
    <3>1. InFlight = <<>> \o Append(<<>>, <<>>)
      <4>1. SubSeq(<<>>, 0 + 1, Len(<<>>)) = <<>>
        BY EmptySeq, SubSeqEmpty
      <4> QED
        BY <4>1 DEF LInit, Init, InFlight
    <3>2. Below(Held(<<>>), ToSet(<<>>)) /\ Below(Held(<<>>), Held(<<>>) \cup ToSet(<<>>))
      BY NoTexts DEF Below
    <3>3. /\ Held(InFlight) = Held(<<>>) \cup Held(<<>>) \cup ToSet(<<>>)
          /\ Orderly(InFlight) <=>
               /\ Orderly(<<>>) /\ Orderly(<<>>) /\ Rising(<<>>) /\ Below(Held(<<>>), ToSet(<<>>))
               /\ Below(Held(<<>>), Held(<<>>) \cup ToSet(<<>>))
      BY <3>1, NoTexts, FlightForm
    <3> QED
      BY <3>2, <3>3, NoTexts
  <2>6. LinesInOrder
    BY <2>4, <2>5 DEF LinesInOrder, FilesOrderly, Below
  <2>7. LinesKept
    <3>1. lines = 0 /\ dropped = {} /\ lost = {} /\ 1..0 = {}
      BY DEF LInit, Init, FileInit
    <3> QED
      BY <2>4, <2>5, <3>1 DEF LinesKept, Filed
  <2> QED
    BY <2>1, <2>2, <2>3, <2>6, <2>7 DEF HoldInv
<1>2. HoldInv /\ [LNext]_lvars => HoldInv'
  <2> SUFFICES ASSUME HoldInv, [LNext]_lvars PROVE HoldInv'
    OBVIOUS
  <2>1. [Next]_vars /\ IInv
    BY LoggingStepsLog DEF HoldInv
  <2>2. IInv'
    BY <2>1, StepIInv
  <2>3. AllWritten'
    <3>1. CASE bpc' = bpc /\ UNCHANGED <<toWrite, written>>
      BY <3>1 DEF HoldInv, AllWritten
    <3>2. CASE WriteDone
      BY <3>2 DEF WriteDone, back, AllWritten
    <3>3. ASSUME LogLine \/ LogFatal \/ Started \/ Stop \/ Join \/ UNCHANGED vars
          PROVE  bpc' = bpc /\ UNCHANGED <<toWrite, written>>
      BY <3>3 DEF LogLine, LogFatal, Started, Stop, Join, vars, back
    <3>4. ASSUME Start \/ Prepare \/ TestRunning \/ Wait \/ Exchange \/ Trim \/ Write \/ Recycle
          PROVE  bpc' # "recycle"
      BY <3>4 DEF Start, Prepare, TestRunning, Wait, Exchange, Trim, Write, Recycle
    <3> QED
      BY <2>1, <3>1, <3>2, <3>3, <3>4, Steps DEF AllWritten
  <2> QED
    BY <2>2, <2>3, HoldStep DEF HoldInv
<1> QED
  BY <1>1, <1>2, PTL DEF LSpec

(* AsyncLogging.h, LogFile.h: no line is lost, repeated or put before an earlier one *)
(* but by the drop of too many buffers and by failed writes.                        *)
THEOREM LinesCorrect == LSpec => []FilesHoldLines
  BY HoldInvariant, HoldMeansHeld, PTL

--------------------------------------------------------------------------------
(* Of main and the workers, each is one, and none is nobody.                       *)
LEMMA TidsDiffer ==
  /\ Main \in Threads /\ Workers \subseteq Threads /\ Main \notin Workers
  /\ 0 \notin Threads /\ Nobody = 0 /\ IsFiniteSet(Workers)
  BY ThreadsAssumption DEF Threads, Nobody

(* A thread's way through its logging statement: to the output or past it.          *)
Logs(t) ==
  /\ pc[t] = "log" /\ (Goto(t, "output") \/ Goto(t, "end"))
  /\ cachedTid' \in {cachedTid, [cachedTid EXCEPT ![t] = t]}
  /\ UNCHANGED <<tid, sem, mutex, latchCount>>

(* What it does to the mutex when its line is out.                                  *)
Leaves(t) ==
  /\ pc[t] = "output" /\ lk[t] = "in" /\ LockGoes(t, "leaving")
  /\ UNCHANGED <<pc, cachedTid, tid, sem, lockedBy, holder, prev, latchCount>>

(* What a step of the line's specification is for the threads.                      *)
LEMMA ThreadMoves ==
  ASSUME [LineNext]_lineVars
  PROVE  \/ \E t \in Threads :
              \/ Logs(t) \/ Leaves(t) \/ MutexSteps(t)
              \/ Acquire(t) \/ Reacquire(t) \/ SpuriousWakeup(t)
         \/ \E w \in Workers :
              StartThread(w) \/ StartReturns(w) \/ NoteTid(w) \/ SemPost(w) \/ CountDown(w)
         \/ LatchWait \/ JoinThreads \/ UNCHANGED tvars
<1>1. ASSUME NEW t \in Threads, MakeLine(t) PROVE Logs(t)
  BY <1>1 DEF MakeLine, Logs, CacheTid
<1>2. ASSUME NEW t \in Threads, MakeNone(t) PROVE Logs(t)
  BY <1>2 DEF MakeNone, Logs
<1>3. ASSUME NEW t \in Threads, Output(t) PROVE Leaves(t)
  BY <1>3 DEF Output, Leaves
<1>4. ASSUME UNCHANGED lineVars PROVE UNCHANGED tvars
  BY <1>4 DEF lineVars
<1> QED
  BY <1>1, <1>2, <1>3, <1>4 DEF LineNext, Step, Locking, Spurious, ThreadSteps

(* Every step of a thread with the mutex keeps the invariant; the latch's own       *)
(* steps are below.                                                                 *)
LEMMA MutexStep ==
  ASSUME ThreadInv, NEW t \in Threads,
         \/ Logs(t) \/ Leaves(t) \/ MutexSteps(t)
         \/ Acquire(t) \/ Reacquire(t) \/ SpuriousWakeup(t)
  PROVE  ThreadInv'
<1> USE TidsDiffer
    DEF ThreadInv, MutexSteps, Logs, Leaves, Acquire, NoteHolder, ForgetHolder, Release, SetAside,
        Block, SpuriousWakeup, Reacquire, PutBack, Goto, LockGoes, CacheTid, mutex, Noted, Bare,
        Waiting, Guarded, ThreadTypeOK
<1>1. ThreadTypeOK'
  <2>1. pc[t] \in Guarded => After[pc[t]] \in PCs
    BY DEF After, PCs
  <2>2. pc' \in [Threads -> PCs]
    BY <2>1 DEF MutexInv, PCs
  <2> QED
    BY <2>2
<1>2. MutexInv'
  BY DEF MutexInv, StartInv, After
<1>3. StartInv'
  BY DEF MutexInv, StartInv, Starting, After
<1>4. Uncounted' = Uncounted
  BY DEF MutexInv, StartInv, Uncounted, After
<1>5. LatchInv'
  BY <1>4 DEF MutexInv, StartInv, LatchInv, LatchHolds, PastLatch, After
<1> QED
  BY <1>1, <1>2, <1>3, <1>5

(* So does every step of a start and a join: one worker at a time.                  *)
LEMMA StartStep ==
  ASSUME ThreadInv,
         \/ JoinThreads
         \/ \E w \in Workers : StartThread(w) \/ StartReturns(w) \/ NoteTid(w) \/ SemPost(w)
  PROVE  ThreadInv'
<1> USE TidsDiffer
    DEF ThreadInv, JoinThreads, StartThread, StartReturns, NoteTid, SemPost, Goto, CacheTid, mutex,
        ThreadTypeOK
<1>1. ThreadTypeOK'
  BY DEF PCs
<1>2. MutexInv'
  BY DEF MutexInv, Guarded
<1>3. StartInv'
  BY DEF StartInv, Starting
<1>4. Uncounted' = Uncounted
  BY DEF MutexInv, Uncounted, Guarded
<1>5. LatchInv'
  BY <1>4 DEF MutexInv, StartInv, LatchInv, LatchHolds, PastLatch, Guarded
<1> QED
  BY <1>1, <1>2, <1>3, <1>5

(* Main leaves the latch when the count, which is of those it still waits for, is   *)
(* down; and until then it waits.                                                   *)
LEMMA LatchWaitStep ==
  ASSUME ThreadInv, LatchWait
  PROVE  ThreadInv'
<1> USE TidsDiffer DEF ThreadInv, LatchWait, LockGoes, ThreadTypeOK
<1>1. ThreadTypeOK'
  BY DEF Noted
<1>2. MutexInv'
  BY DEF MutexInv, Noted, Bare, Waiting
<1>3. StartInv'
  BY DEF StartInv, Starting
<1>4. Uncounted' = Uncounted
  BY DEF Uncounted
<1>5. IsFiniteSet(Uncounted)
  BY FS_Subset DEF Uncounted
<1>6. latchCount = Cardinality(Uncounted) /\ latchCount \in Nat
  BY <1>5, FS_CardinalityType DEF LatchInv
<1>7. ~(latchCount > 0) => Uncounted = {}
  BY <1>5, <1>6, FS_EmptySet
<1>8. LatchInv'
  BY <1>4, <1>6, <1>7 DEF MutexInv, StartInv, LatchInv, LatchHolds, PastLatch
<1> QED
  BY <1>1, <1>2, <1>3, <1>8

(* A worker counts itself, once; whom it wakes has put its note aside.              *)
LEMMA CountDownStep ==
  ASSUME ThreadInv, NEW w \in Workers, CountDown(w)
  PROVE  ThreadInv'
<1> USE TidsDiffer DEF ThreadInv, CountDown, ThreadTypeOK
<1>1. ThreadTypeOK'
  BY DEF Noted, Waiting
<1>2. MutexInv'
  BY DEF MutexInv, Noted, Bare, Waiting
<1>3. StartInv'
  BY DEF StartInv, Starting
<1>4. Uncounted' = Uncounted \ {w} /\ w \in Uncounted
  BY DEF Uncounted
<1>5. IsFiniteSet(Uncounted)
  BY FS_Subset DEF Uncounted
<1>6. Cardinality(Uncounted') = Cardinality(Uncounted) - 1
  BY <1>4, <1>5, FS_RemoveElement
<1>7. LatchInv'
  BY <1>4, <1>6 DEF LatchInv, LatchHolds, PastLatch
<1> QED
  BY <1>1, <1>2, <1>3, <1>7

(* At first no thread but main runs, and nobody has the mutex.                      *)
LEMMA ThreadInit == TInit => ThreadInv
<1> SUFFICES ASSUME TInit PROVE ThreadInv
  OBVIOUS
<1> USE TidsDiffer DEF TInit
<1>1. ThreadTypeOK
  BY DEF ThreadTypeOK, PCs
<1>2. MutexInv
  BY DEF MutexInv, Noted, Bare, Waiting
<1>3. StartInv
  BY DEF StartInv, Starting
<1>4. Uncounted = Workers
  BY DEF Uncounted
<1>5. LatchInv
  BY <1>4 DEF LatchInv, LatchHolds, PastLatch
<1> QED
  BY <1>1, <1>2, <1>3, <1>5 DEF ThreadInv

(* The threads' invariant holds of every run of main and its workers.               *)
THEOREM ThreadsInvariant == LineSpec => []ThreadInv
<1>1. LineInit => ThreadInv
  BY ThreadInit DEF LineInit
<1>2. ThreadInv /\ [LineNext]_lineVars => ThreadInv'
  <2> SUFFICES ASSUME ThreadInv, [LineNext]_lineVars PROVE ThreadInv'
    OBVIOUS
  <2>1. ASSUME UNCHANGED tvars PROVE ThreadInv'
    BY <2>1 DEF tvars, mutex, ThreadInv, ThreadTypeOK, MutexInv, StartInv, LatchInv, Starting,
                Uncounted, LatchHolds, PastLatch
  <2> QED
    BY <2>1, ThreadMoves, MutexStep, StartStep, LatchWaitStep, CountDownStep
<1> QED
  BY <1>1, <1>2, PTL DEF LineSpec

(* MutexLock.h:27: holder_ says who is between lock and unlock, through every wait  *)
(* and every spurious wakeup, for any number of threads; and a started thread has   *)
(* its tid (Thread.cc:42).                                                          *)
THEOREM HolderCorrect == LineSpec => []HolderTruth
<1>1. ThreadInv => HolderTruth
  <2> SUFFICES ASSUME ThreadInv PROVE HolderTruth
    OBVIOUS
  <2>1. \A w \in Workers : pc[w] # "none" /\ pc[Main] # "semWait" => tid[w] = w
    BY DEF ThreadInv, StartInv, Starting
  <2>2. pc[Main] = "joined" => holder = 0
    BY TidsDiffer DEF ThreadInv, ThreadTypeOK, StartInv, MutexInv, Guarded, Noted, Threads
  <2> QED
    BY <2>1, <2>2 DEF ThreadInv, MutexInv, HolderTruth, Noted
<1> QED
  BY <1>1, ThreadsInvariant, PTL

(* CountDownLatch::wait lets nobody through before the last countDown.              *)
THEOREM LatchCorrect == LineSpec => []LatchHolds
<1>1. ThreadInv => LatchHolds
  BY DEF ThreadInv, LatchInv
<1> QED
  BY <1>1, ThreadsInvariant, PTL

--------------------------------------------------------------------------------
(* Induction over the natural numbers, by sets of them: a set that is not empty has a least *)
(* number.                                                                             *)
LEMMA LeastNat ==
  ASSUME NEW T \in SUBSET Nat, T # {}
  PROVE  \E n \in T : \A m \in T : n <= m
<1> DEFINE R == OpToRel(<, Nat)
<1>1. IsWellFoundedOn(R, Nat)
  BY NatLessThanWellFounded
<1>2. \A m, n \in Nat : <<m, n>> \in R <=> m < n
  BY DEF OpToRel
<1> HIDE DEF R
<1>3. PICK n \in T : \A m \in T : ~ (<<m, n>> \in R)
  BY <1>1, WFMin
<1>4. \A m \in T : n <= m
  <2> TAKE m \in T
  <2>1. m \in Nat /\ n \in Nat
    OBVIOUS
  <2>2. ~ (m < n)
    BY <1>2, <1>3, <2>1
  <2> QED
    BY <2>1, <2>2
<1> QED
  BY <1>4

(* A set with zero that has with each number the next has them all.                    *)
LEMMA NatSetInduction ==
  ASSUME NEW T, 0 \in T, \A n \in Nat : n \in T => n + 1 \in T
  PROVE  Nat \subseteq T
<1>1. SUFFICES ASSUME Nat \ T # {} PROVE FALSE
  OBVIOUS
<1>2. PICK n \in Nat \ T : \A m \in Nat \ T : n <= m
  <2>1. Nat \ T \in SUBSET Nat
    OBVIOUS
  <2> QED
    BY <1>1, <2>1, LeastNat
<1>3. n # 0 /\ n \in Nat
  OBVIOUS
<1>4. n - 1 \in Nat /\ ~ (n <= n - 1)
  BY <1>3
<1>5. n - 1 \in T
  BY <1>2, <1>4
<1>6. (n - 1) + 1 \in T
  BY <1>4, <1>5
<1> QED
  BY <1>3, <1>6

(* g goes from a through the steps.                                                    *)
Iteration(g, a, n, step) == g[0] = a /\ \A k \in 1..n : g[k] = step[k][g[k - 1]]

(* There is such a g, for every number of steps.                                       *)
LEMMA Iterates ==
  ASSUME NEW A, NEW a \in A, NEW n \in Nat, NEW step \in [1..n -> [A -> A]]
  PROVE  \E g \in [0..n -> A] : Iteration(g, a, n, step)
<1> DEFINE Upto(m, g) == g[0] = a /\ \A k \in 1..n : k <= m => g[k] = step[k][g[k - 1]]
           T == {m \in Nat : m <= n => \E g \in [0..n -> A] : Upto(m, g)}
<1>1. 0 \in T
  <2>1. [k \in 0..n |-> a] \in [0..n -> A] /\ Upto(0, [k \in 0..n |-> a])
    OBVIOUS
  <2> QED
    BY <2>1
<1>2. ASSUME NEW m \in Nat, m \in T PROVE m + 1 \in T
  <2>1. SUFFICES ASSUME m + 1 <= n PROVE \E g \in [0..n -> A] : Upto(m + 1, g)
    OBVIOUS
  <2>2. PICK g \in [0..n -> A] : Upto(m, g)
    BY <1>2, <2>1
  <2>3. m \in 0..n /\ m + 1 \in 1..n
    BY <2>1
  <2> DEFINE h == [g EXCEPT ![m + 1] = step[m + 1][g[m]]]
  <2>4. h \in [0..n -> A]
    BY <2>3
  <2>5. h[0] = a
    BY <2>2, <2>3
  <2>6. ASSUME NEW k \in 1..n, k <= m + 1 PROVE h[k] = step[k][h[k - 1]]
    <3>1. k - 1 \in 0..n /\ k - 1 # m + 1
      BY <2>6
    <3>2. h[k - 1] = g[k - 1]
      BY <3>1
    <3>3. CASE k = m + 1
      BY <2>3, <3>2, <3>3
    <3>4. CASE k # m + 1
      <4>1. k <= m /\ k \in 0..n
        BY <2>6, <3>4
      <4>2. h[k] = g[k] /\ g[k] = step[k][g[k - 1]]
        BY <2>2, <3>4, <4>1
      <4> QED
        BY <3>2, <4>2
    <3> QED
      BY <3>3, <3>4
  <2> QED
    BY <2>4, <2>5, <2>6
<1> HIDE DEF T
<1>3. n \in T
  BY <1>1, <1>2, NatSetInduction
<1> QED
  BY <1>3 DEF T, Iteration

(* f gives what comes first of i, and after it what it gives of the rest of i, if there is one. *)
Unwinds(f, D, first, rest, E) ==
  \A i \in D : f[i] = <<first[i]>> \o (IF i \in E THEN <<>> ELSE f[rest[i]])
(* The rest is smaller.                                                                *)
Shrinks(D, size, rest, E) == \A i \in D \ E : size[rest[i]] < size[i]

(* Where the rest is smaller there is such an f.                                       *)
LEMMA Unwinding ==
  ASSUME NEW C, NEW D, NEW size \in [D -> Nat], NEW first \in [D -> C],
         NEW rest \in [D -> D], NEW E \in SUBSET D, Shrinks(D, size, rest, E)
  PROVE  \E f \in [D -> Seq(C)] : Unwinds(f, D, first, rest, E)
<1> USE DEF Shrinks
<1> DEFINE Turn(f, i) == <<first[i]>> \o (IF i \in E THEN <<>> ELSE f[rest[i]])
           Upto(m, f) == \A i \in D : size[i] < m => f[i] = Turn(f, i)
           Fs == [D -> Seq(C)]
<1>1. \A f \in Fs : \A i \in D : Turn(f, i) \in Seq(C)
  OBVIOUS
<1>2. ASSUME NEW f \in Fs, NEW g \in Fs, NEW i \in D, i \in E \/ f[rest[i]] = g[rest[i]]
      PROVE  Turn(f, i) = Turn(g, i)
  BY <1>2
<1> HIDE DEF Turn
<1>3. \A m \in Nat : \E f \in Fs : Upto(m, f)
  <2> DEFINE T == {m \in Nat : \E f \in Fs : Upto(m, f)}
  <2>1. 0 \in T
    <3>1. [i \in D |-> <<>>] \in Fs
      OBVIOUS
    <3>2. Upto(0, [i \in D |-> <<>>])
      OBVIOUS
    <3> QED
      BY <3>1, <3>2
  <2>2. ASSUME NEW m \in Nat, m \in T PROVE m + 1 \in T
    <3>1. PICK f \in Fs : Upto(m, f)
      BY <2>2
    <3>2. PICK g \in Fs : \A i \in D : g[i] = Turn(f, i)
      <4>1. [i \in D |-> Turn(f, i)] \in Fs
        BY <1>1
      <4> QED
        BY <4>1
    <3>3. ASSUME NEW i \in D, size[i] < m + 1 PROVE g[i] = Turn(g, i)
      <4>1. CASE i \in E
        BY <1>2, <3>2, <4>1
      <4>2. CASE i \notin E
        <5>1. rest[i] \in D /\ size[rest[i]] < m
          BY <3>3, <4>2
        <5>2. g[rest[i]] = f[rest[i]]
          BY <3>1, <3>2, <5>1
        <5> QED
          BY <1>2, <3>2, <5>2
      <4> QED
        BY <4>1, <4>2
    <3> QED
      BY <3>3
  <2> HIDE DEF T
  <2>3. Nat \subseteq T
    BY <2>1, <2>2, NatSetInduction
  <2> QED
    BY <2>3 DEF T
<1>4. \A m \in Nat : \A j, k \in Nat : \A f, g \in Fs : \A i \in D :
        size[i] < m /\ m <= j /\ m <= k /\ Upto(j, f) /\ Upto(k, g) => f[i] = g[i]
  <2> DEFINE T == {m \in Nat : \A j, k \in Nat : \A f, g \in Fs : \A i \in D :
        size[i] < m /\ m <= j /\ m <= k /\ Upto(j, f) /\ Upto(k, g) => f[i] = g[i]}
  <2>1. 0 \in T
    <3>1. \A i \in D : ~ (size[i] < 0)
      <4>1. \A x \in Nat : ~ (x < 0)
        OBVIOUS
      <4>2. \A i \in D : size[i] \in Nat
        OBVIOUS
      <4> QED
        BY <4>1, <4>2
    <3> QED
      BY <3>1
  <2>2. ASSUME NEW m \in Nat, m \in T PROVE m + 1 \in T
    <3> SUFFICES ASSUME NEW j \in Nat, NEW k \in Nat, NEW f \in Fs, NEW g \in Fs, NEW i \in D,
                        size[i] < m + 1, m + 1 <= j, m + 1 <= k, Upto(j, f), Upto(k, g)
                 PROVE  f[i] = g[i]
      <4>1. m + 1 \in Nat
        OBVIOUS
      <4> HIDE DEF Upto, Fs
      <4> QED
        BY <4>1
    <3>1. f[i] = Turn(f, i) /\ g[i] = Turn(g, i)
      <4>1. size[i] \in Nat
        OBVIOUS
      <4>2. size[i] < j /\ size[i] < k
        BY <4>1
      <4> QED
        BY <4>2
    <3>2. CASE i \in E
      BY <1>2, <3>1, <3>2
    <3>3. CASE i \notin E
      <4>1. rest[i] \in D /\ size[rest[i]] < m /\ m <= j /\ m <= k
        BY <3>3
      <4>2. f[rest[i]] = g[rest[i]]
        BY <2>2, <4>1, ZenonT(60)
      <4> QED
        BY <1>2, <3>1, <4>2
    <3> QED
      BY <3>2, <3>3
  <2> HIDE DEF T
  <2>3. Nat \subseteq T
    BY <2>1, <2>2, NatSetInduction
  <2> QED
    BY <2>3 DEF T
<1> DEFINE F(m) == CHOOSE f \in Fs : Upto(m, f)
<1>5. \A m \in Nat : F(m) \in Fs /\ Upto(m, F(m))
  BY <1>3
<1> HIDE DEF F
<1>6. PICK h \in Fs : \A i \in D : h[i] = F(size[i] + 1)[i]
  <2>1. [i \in D |-> F(size[i] + 1)[i]] \in Fs
    BY <1>5
  <2> QED
    BY <2>1
<1>7. ASSUME NEW i \in D PROVE h[i] = Turn(h, i)
  <2>1. F(size[i] + 1) \in Fs /\ F(size[i] + 1)[i] = Turn(F(size[i] + 1), i)
    BY <1>5
  <2>2. CASE i \in E
    BY <1>2, <1>6, <2>1, <2>2
  <2>3. CASE i \notin E
    <3>1. rest[i] \in D /\ size[rest[i]] + 1 \in Nat /\ size[i] + 1 \in Nat
          /\ size[rest[i]] + 1 <= size[i] + 1
      BY <2>3
    <3>2. h[rest[i]] = F(size[rest[i]] + 1)[rest[i]]
      BY <1>6, <3>1
    <3>3. F(size[rest[i]] + 1)[rest[i]] = F(size[i] + 1)[rest[i]]
      <4>1. /\ F(size[rest[i]] + 1) \in Fs /\ Upto(size[rest[i]] + 1, F(size[rest[i]] + 1))
            /\ F(size[i] + 1) \in Fs /\ Upto(size[i] + 1, F(size[i] + 1))
        BY <1>5, <3>1
      <4> HIDE DEF Fs, Upto
      <4>2. size[rest[i]] < size[rest[i]] + 1 /\ size[rest[i]] + 1 <= size[rest[i]] + 1
        BY <3>1
      <4> QED
        BY <1>4, <3>1, <4>1, <4>2
    <3> QED
      BY <1>2, <1>6, <2>1, <3>2, <3>3
  <2> QED
    BY <2>2, <2>3
<1> QED
  BY <1>7 DEF Turn, Unwinds

(* The tables of digits, which none of their characters is twice in; none is a minus.  *)
LEMMA TableFacts ==
  /\ digitsHex \in Seq(ToSet(digitsHex)) /\ Len(digitsHex) = 16
  /\ Decimal \in Seq(ToSet(digitsHex)) /\ Len(Decimal) = 10
  /\ "0" \in ToSet(digitsHex)
  /\ \A i \in 1..10 : Decimal[i] = digitsHex[i]
  /\ \A i, j \in 1..16 : digitsHex[i] = digitsHex[j] => i = j
  /\ \A i \in 1..16 : digitsHex[i] # "-" /\ (digitsHex[i] = "0" => i = 1)
<1> DEFINE S == ToSet(digitsHex)
<1>1. digitsHex \in Seq(S) /\ Len(digitsHex) = 16
  <2>1. Len(digitsHex) = 16
    BY DEF digitsHex
  <2>2. DOMAIN digitsHex = 1..16
    BY DEF digitsHex
  <2>3. digitsHex = [i \in 1..16 |-> digitsHex[i]]
    BY DEF digitsHex
  <2>4. \A i \in 1..16 : digitsHex[i] \in S
    BY <2>2 DEF ToSet
  <2> HIDE DEF S
  <2>5. digitsHex \in [1..16 -> S]
    BY <2>3, <2>4
  <2>6. Seq(S) = UNION {[1..n -> S] : n \in Nat} /\ 16 \in Nat
    BY SeqDef
  <2> QED
    BY <2>1, <2>5, <2>6
<1>2. Decimal \in Seq(S) /\ Len(Decimal) = 10 /\ \A i \in 1..10 : Decimal[i] = digitsHex[i]
  <2> HIDE DEF S
  <2>1. \A i \in 1..16 : digitsHex[i] \in S
    <3> TAKE i \in 1..16
    <3> QED
      BY <1>1, ElementOfSeq
  <2> QED
    BY <2>1, SubSeqProperties DEF Decimal
<1>5. "0" \in S
  <2>1. DOMAIN digitsHex = 1..16 /\ digitsHex[1] = "0"
    BY DEF digitsHex
  <2> QED
    BY <2>1 DEF ToSet
<1>3. \A i, j \in 1..16 : digitsHex[i] = digitsHex[j] => i = j
  BY DEF digitsHex
<1>4. \A i \in 1..16 : digitsHex[i] # "-" /\ (digitsHex[i] = "0" => i = 1)
  BY DEF digitsHex
<1> QED
  BY <1>1, <1>2, <1>3, <1>4, <1>5

(* digits is the decimal digits, on both sides of zero.                                *)
LEMMA DigitFacts ==
  ASSUME NEW r \in -9..9
  PROVE  /\ digits[zero + r] = Decimal[1 + (IF r < 0 THEN -r ELSE r)]
<1>1. digits[zero + r] = digitsHex[1 + (IF r < 0 THEN -r ELSE r)]
  BY DEF digits, digitsHex, zero
<1>2. 1 + (IF r < 0 THEN -r ELSE r) \in 1..10
  OBVIOUS
<1> QED
  BY <1>1, <1>2, TableFacts

(* A digit of a table is worth its place.                                              *)
LEMMA Values ==
  ASSUME NEW S, NEW table \in Seq(S), \A i, j \in DOMAIN table : table[i] = table[j] => i = j
  PROVE  \A i \in DOMAIN table : DigitValue(table, table[i]) = i - 1
BY DEF DigitValue

(* C++ division by ten: quotient and remainder have the sign of the number.            *)
LEMMA DivisionFacts ==
  ASSUME NEW i \in Int
  PROVE  /\ Quotient(i, 10) \in Int /\ Remainder(i, 10) \in -9..9
         /\ i = 10 * Quotient(i, 10) + Remainder(i, 10)
         /\ i >= 0 => Quotient(i, 10) >= 0 /\ Remainder(i, 10) >= 0
         /\ i < 0 => Quotient(i, 10) <= 0 /\ Remainder(i, 10) <= 0
<1>1. \A n \in Nat : /\ n \div 10 \in Nat /\ n - 10 * (n \div 10) \in 0..9
  OBVIOUS
<1>2. CASE i >= 0
  BY <1>1, <1>2 DEF Quotient, Remainder
<1>3. CASE i < 0
  <2> DEFINE n == -i
             q == n \div 10
  <2>1. n \in Nat /\ q \in Nat /\ n - 10 * q \in 0..9
    BY <1>1, <1>3
  <2>2. Quotient(i, 10) = -q /\ Remainder(i, 10) = i - 10 * (-q)
    BY <1>3 DEF Quotient, Remainder
  <2>3. i = -n
    OBVIOUS
  <2> HIDE DEF n, q
  <2> QED
    BY <2>1, <2>2, <2>3, <1>3
<1> QED
  BY <1>2, <1>3

(* The powers of ten.                                                                  *)
LEMMA TenToFacts ==
  /\ TenTo \in [0..MaxNumeric -> Nat] /\ TenTo[0] = 1
  /\ \A k \in 1..MaxNumeric : TenTo[k] = 10 * TenTo[k - 1]
  /\ \A k \in 0..MaxNumeric : TenTo[k] >= 1
<1>1. MaxNumeric \in Nat
  BY LineAssumption
<1> DEFINE step == [k \in 1..MaxNumeric |-> [x \in Nat |-> 10 * x]]
<1>2. step \in [1..MaxNumeric -> [Nat -> Nat]]
  OBVIOUS
<1>3. PICK g \in [0..MaxNumeric -> Nat] :
        g[0] = 1 /\ \A k \in 1..MaxNumeric : g[k] = step[k][g[k - 1]]
  <2> DEFINE one == 1
             N == Nat
  <2>1. one \in N /\ step \in [1..MaxNumeric -> [N -> N]]
    BY <1>2
  <2> HIDE DEF step, one, N
  <2>2. \E g \in [0..MaxNumeric -> N] : Iteration(g, one, MaxNumeric, step)
    BY <1>1, <2>1, Iterates
  <2> QED
    BY <2>2 DEF one, N, Iteration
<1>4. \A k \in 1..MaxNumeric : g[k - 1] \in Nat /\ g[k] = 10 * g[k - 1]
  <2> TAKE k \in 1..MaxNumeric
  <2>1. k \in Int /\ k - 1 \in 0..MaxNumeric
    BY <1>1
  <2>2. g[k - 1] \in Nat
    BY <2>1
  <2>3. step[k][g[k - 1]] = 10 * g[k - 1]
    BY <2>2
  <2> QED
    BY <1>3, <2>2, <2>3
<1>5. g = [k \in 0..MaxNumeric |-> IF k = 0 THEN 1 ELSE 10 * g[k - 1]]
  <2>1. \A k \in 0..MaxNumeric : g[k] = IF k = 0 THEN 1 ELSE 10 * g[k - 1]
    BY <1>1, <1>3, <1>4
  <2> QED
    BY <2>1
<1>6. TenTo = [k \in 0..MaxNumeric |-> IF k = 0 THEN 1 ELSE 10 * TenTo[k - 1]]
  BY <1>5 DEF TenTo
<1> HIDE DEF step
<1>7. TenTo[0] = 1 /\ \A k \in 1..MaxNumeric : TenTo[k] = 10 * TenTo[k - 1]
  BY <1>1, <1>6
<1> DEFINE T == {k \in Nat : k <= MaxNumeric => TenTo[k] \in Nat /\ TenTo[k] >= 1}
<1>8. 0 \in T
  BY <1>7
<1>9. ASSUME NEW k \in Nat, k \in T PROVE k + 1 \in T
  <2>1. SUFFICES ASSUME k + 1 <= MaxNumeric
                 PROVE  TenTo[k + 1] \in Nat /\ TenTo[k + 1] >= 1
    OBVIOUS
  <2>2. TenTo[k] \in Nat /\ TenTo[k] >= 1 /\ k + 1 \in 1..MaxNumeric /\ (k + 1) - 1 = k
    BY <1>1, <1>9, <2>1
  <2>3. TenTo[k + 1] = 10 * TenTo[k]
    BY <1>7, <2>2
  <2> QED
    BY <2>2, <2>3
<1> HIDE DEF T
<1>10. Nat \subseteq T
  BY <1>8, <1>9, NatSetInduction
<1>11. \A k \in 0..MaxNumeric : TenTo[k] \in Nat /\ TenTo[k] >= 1
  BY <1>1, <1>10 DEF T
<1>12. TenTo \in [0..MaxNumeric -> Nat]
  BY <1>6, <1>11
<1> QED
  BY <1>7, <1>11, <1>12

(* Horner's scheme, of the digits d to the base b.  *)
Accumulation(g, b, d, n) == g[0] = 0 /\ \A k \in 1..n : g[k] = b * g[k - 1] + d[k]

(* There is one, whatever the digits.                                                  *)
LEMMA Horner ==
  ASSUME NEW n \in Nat, NEW b \in Nat, NEW d \in [1..n -> Int]
  PROVE  \E g \in [0..n -> Int] : Accumulation(g, b, d, n)
<1> DEFINE More(x, k) == b * x + d[k]
           step == [k \in 1..n |-> [x \in Int |-> More(x, k)]]
           nought == 0
           N == Int
<1>1. \A x \in Int : \A k \in 1..n : More(x, k) \in Int
  OBVIOUS
<1> HIDE DEF More
<1>2. step \in [1..n -> [N -> N]] /\ nought \in N
  BY <1>1
<1>3. \A k \in 1..n : \A x \in Int : step[k][x] = More(x, k)
  OBVIOUS
<1> HIDE DEF step, nought, N
<1>4. PICK g \in [0..n -> N] : g[0] = nought /\ \A k \in 1..n : g[k] = step[k][g[k - 1]]
  <2>1. \E g \in [0..n -> N] : Iteration(g, nought, n, step)
    BY <1>2, Iterates
  <2> QED
    BY <2>1 DEF Iteration
<1>5. g \in [0..n -> Int] /\ g[0] = 0
  BY <1>4 DEF N, nought
<1>6. \A k \in 1..n : g[k] = More(g[k - 1], k)
  <2> TAKE k \in 1..n
  <2>1. k - 1 \in 0..n
    OBVIOUS
  <2>2. g[k - 1] \in Int
    BY <1>5, <2>1
  <2> QED
    BY <1>3, <1>4, <2>2
<1> QED
  BY <1>5, <1>6 DEF More, Accumulation

(* ValueOf reads a text digit by digit.                                                *)
LEMMA ValueSteps ==
  ASSUME NEW S, NEW table \in Seq(S), \A i, j \in DOMAIN table : table[i] = table[j] => i = j,
         NEW s \in Seq(ToSet(table))
  PROVE  \E g \in [0..Len(s) -> Int] :
           /\ g[0] = 0 /\ ValueOf(table, s) = g[Len(s)]
           /\ \A k \in 1..Len(s) : g[k] = Len(table) * g[k - 1] + DigitValue(table, s[k])
<1> DEFINE More(x, k) == Len(table) * x + DigitValue(table, s[k])
           n == Len(s)
           d == [k \in 1..n |-> DigitValue(table, s[k])]
<1>1. n \in Nat /\ Len(table) \in Nat /\ DOMAIN table = 1..Len(table)
  BY LenProperties
<1>2. \A k \in 1..n : DigitValue(table, s[k]) \in Int
  <2> TAKE k \in 1..n
  <2>1. s[k] \in ToSet(table)
    BY ElementOfSeq
  <2>2. PICK i \in DOMAIN table : s[k] = table[i]
    BY <2>1 DEF ToSet
  <2>3. DigitValue(table, s[k]) = i - 1
    BY <2>2, Values
  <2> QED
    BY <1>1, <2>2, <2>3
<1>3. d \in [1..n -> Int]
  BY <1>2
<1>4. \A k \in 1..n : d[k] = DigitValue(table, s[k])
  OBVIOUS
<1> HIDE DEF d
<1>5. PICK g \in [0..n -> Int] : g[0] = 0 /\ \A k \in 1..n : g[k] = Len(table) * g[k - 1] + d[k]
  <2> HIDE DEF n
  <2>1. \E g \in [0..n -> Int] : Accumulation(g, Len(table), d, n)
    BY <1>1, <1>3, Horner
  <2> QED
    BY <2>1 DEF Accumulation
<1>7. g \in [0..n -> Int] /\ g[0] = 0
  BY <1>5
<1>8. \A k \in 1..n : g[k] = More(g[k - 1], k)
  BY <1>4, <1>5
<1> HIDE DEF More
<1> DEFINE Def(f) == [k \in 0..Len(s) |->
                        IF k = 0 THEN 0 ELSE Len(table) * f[k - 1] + DigitValue(table, s[k])]
<1>9. \A f : f = Def(f) => f[0] = 0 /\ \A k \in 1..n : f[k] = More(f[k - 1], k)
  BY <1>1 DEF More
<1>10. g = Def(g)
  BY <1>1, <1>7, <1>8 DEF More
<1> DEFINE u == CHOOSE f : f = Def(f)
<1>11. u = Def(u)
  <2> HIDE DEF Def
  <2> QED
    BY <1>10
<1>12. ValueOf(table, s) = u[Len(s)]
  BY DEF ValueOf
<1> HIDE DEF u
<1>13. DOMAIN u = 0..n
  BY <1>11
<1> HIDE DEF Def
<1>14. u[0] = 0 /\ \A k \in 1..n : u[k] = More(u[k - 1], k)
  BY <1>9, <1>11
<1> DEFINE T == {k \in Nat : k <= n => u[k] = g[k]}
<1>15. 0 \in T
  BY <1>7, <1>14
<1>16. ASSUME NEW k \in Nat, k \in T PROVE k + 1 \in T
  <2>1. SUFFICES ASSUME k + 1 <= n PROVE u[k + 1] = g[k + 1]
    OBVIOUS
  <2>2. k + 1 \in 1..n /\ (k + 1) - 1 = k /\ u[k] = g[k]
    BY <1>1, <1>16, <2>1
  <2> QED
    BY <1>8, <1>14, <2>2
<1> HIDE DEF T
<1>17. Nat \subseteq T
  BY <1>15, <1>16, NatSetInduction
<1>18. u[n] = g[n]
  BY <1>1, <1>17 DEF T
<1> QED
  BY <1>7, <1>8, <1>12, <1>18 DEF More

(* A digit more: what was read, times the base, and the digit.                         *)
LEMMA ValueAppended ==
  ASSUME NEW S, NEW table \in Seq(S), \A i, j \in DOMAIN table : table[i] = table[j] => i = j,
         NEW s \in Seq(ToSet(table)), NEW c \in ToSet(table)
  PROVE  /\ ValueOf(table, s) \in Int /\ ValueOf(table, <<>>) = 0
         /\ ValueOf(table, s \o <<c>>) = Len(table) * ValueOf(table, s) + DigitValue(table, c)
<1> DEFINE C == ToSet(table)
           t == s \o <<c>>
           More(x, d) == Len(table) * x + DigitValue(table, d)
<1>1. ASSUME NEW w \in Seq(ToSet(table))
      PROVE  \E g \in [0..Len(w) -> Int] :
               /\ g[0] = 0 /\ ValueOf(table, w) = g[Len(w)]
               /\ \A k \in 1..Len(w) : g[k] = Len(table) * g[k - 1] + DigitValue(table, w[k])
  BY ValueSteps
<1>2. PICK g \in [0..Len(s) -> Int] :
        /\ g[0] = 0 /\ ValueOf(table, s) = g[Len(s)]
        /\ \A k \in 1..Len(s) : g[k] = More(g[k - 1], s[k])
  BY <1>1
<1>3. t \in Seq(C) /\ Len(s) \in Nat /\ Len(t) = Len(s) + 1 /\ t[Len(s) + 1] = c
      /\ \A k \in 1..Len(s) : t[k] = s[k]
  OBVIOUS
<1> HIDE DEF t
<1>4. PICK h \in [0..Len(t) -> Int] :
        /\ h[0] = 0 /\ ValueOf(table, t) = h[Len(t)]
        /\ \A k \in 1..Len(t) : h[k] = More(h[k - 1], t[k])
  <2>1. t \in Seq(ToSet(table))
    BY <1>3
  <2>2. \E h \in [0..Len(t) -> Int] :
          /\ h[0] = 0 /\ ValueOf(table, t) = h[Len(t)]
          /\ \A k \in 1..Len(t) : h[k] = Len(table) * h[k - 1] + DigitValue(table, t[k])
    BY <1>1, <2>1
  <2> QED
    BY <2>2
<1>5. ValueOf(table, <<>>) = 0
  <2>1. <<>> \in Seq(C) /\ Len(<<>>) = 0
    BY EmptySeq
  <2>2. PICK e \in [0..Len(<<>>) -> Int] : e[0] = 0 /\ ValueOf(table, <<>>) = e[Len(<<>>)]
    BY <1>1, <2>1
  <2> QED
    BY <2>1, <2>2
<1> HIDE DEF More
<1> DEFINE n == Len(s)
           T == {k \in Nat : k <= n => h[k] = g[k]}
<1>6. 0 \in T
  BY <1>2, <1>4
<1>7. ASSUME NEW k \in Nat, k \in T PROVE k + 1 \in T
  <2>1. SUFFICES ASSUME k + 1 <= n PROVE h[k + 1] = g[k + 1]
    OBVIOUS
  <2>2. k + 1 \in 1..n /\ k + 1 \in 1..Len(t) /\ (k + 1) - 1 = k /\ h[k] = g[k]
    BY <1>3, <1>7, <2>1
  <2>3. h[k + 1] = More(h[k], t[k + 1]) /\ g[k + 1] = More(g[k], s[k + 1])
    BY <1>2, <1>4, <2>2
  <2> QED
    BY <1>3, <2>2, <2>3
<1> HIDE DEF T
<1>8. Nat \subseteq T
  BY <1>6, <1>7, NatSetInduction
<1>9. h[n] = g[n]
  BY <1>3, <1>8 DEF T
<1>10. Len(t) \in 1..Len(t) /\ Len(t) - 1 = n
  BY <1>3
<1>11. h[Len(t)] = More(h[n], c)
  BY <1>3, <1>4, <1>10
<1>12. ValueOf(table, t) = More(ValueOf(table, s), c)
  BY <1>2, <1>4, <1>9, <1>11
<1>13. n \in 0..n
  BY <1>3
<1>14. ValueOf(table, s) \in Int
  BY <1>2, <1>13
<1> QED
  BY <1>5, <1>12, <1>14 DEF More, t

(* What std::reverse leaves where.                                                     *)
LEMMA Turned ==
  ASSUME NEW S, NEW t \in Seq(S)
  PROVE  /\ Reverse(t) \in Seq(S) /\ Len(Reverse(t)) = Len(t)
         /\ \A i \in 1..Len(t) : Reverse(t)[i] = t[Len(t) - i + 1]
<1>1. \A i \in 1..Len(t) : Len(t) - i + 1 \in 1..Len(t)
  OBVIOUS
<1>2. \A i \in 1..Len(t) : t[Len(t) - i + 1] \in S
  BY <1>1, ElementOfSeq
<1>3. Reverse(t) \in [1..Len(t) -> S]
  BY <1>2 DEF Reverse
<1>4. Len(t) \in Nat
  OBVIOUS
<1> QED
  BY <1>3, <1>4 DEF Reverse

(* The character put at one end comes out at the other.                                *)
LEMMA Reversal ==
  ASSUME NEW S, NEW s \in Seq(S), NEW c \in S
  PROVE  /\ Reverse(<<c>> \o s) = Reverse(s) \o <<c>>
         /\ Reverse(s \o <<c>>) = <<c>> \o Reverse(s)
<1>1. ASSUME NEW t \in Seq(S)
      PROVE  /\ Reverse(t) \in Seq(S) /\ Len(Reverse(t)) = Len(t)
             /\ \A i \in 1..Len(t) : Reverse(t)[i] = t[Len(t) - i + 1]
  BY Turned
<1> DEFINE n == Len(s)
           l == <<c>> \o s
           r == s \o <<c>>
<1>2. n \in Nat /\ <<c>> \in Seq(S) /\ Len(<<c>>) = 1 /\ <<c>>[1] = c
  OBVIOUS
<1>3. l \in Seq(S) /\ Len(l) = n + 1 /\ \A i \in 1..(n + 1) : l[i] = IF i = 1 THEN c ELSE s[i - 1]
  OBVIOUS
<1>4. r \in Seq(S) /\ Len(r) = n + 1 /\ \A i \in 1..(n + 1) : r[i] = IF i = n + 1 THEN c ELSE s[i]
  OBVIOUS
<1> HIDE DEF l, r
<1>5. Reverse(s) \in Seq(S) /\ Len(Reverse(s)) = n /\ \A i \in 1..n : Reverse(s)[i] = s[n - i + 1]
  BY <1>1
<1>6. /\ Reverse(l) \in Seq(S) /\ Len(Reverse(l)) = n + 1
      /\ \A i \in 1..(n + 1) : Reverse(l)[i] = l[(n + 1) - i + 1]
  BY <1>1, <1>3
<1>7. /\ Reverse(r) \in Seq(S) /\ Len(Reverse(r)) = n + 1
      /\ \A i \in 1..(n + 1) : Reverse(r)[i] = r[(n + 1) - i + 1]
  BY <1>1, <1>4
<1>8. Reverse(l) = Reverse(s) \o <<c>>
  <2> DEFINE x == Reverse(s) \o <<c>>
  <2>1. x \in Seq(S) /\ Len(x) = n + 1
        /\ \A i \in 1..(n + 1) : x[i] = IF i = n + 1 THEN c ELSE Reverse(s)[i]
    BY <1>2, <1>5
  <2> HIDE DEF x
  <2>2. ASSUME NEW i \in 1..(n + 1) PROVE Reverse(l)[i] = x[i]
    <3>1. i \in Int /\ (n + 1) - i + 1 \in 1..(n + 1) /\ (n + 1) - i + 1 - 1 = n - i + 1
      BY <1>2
    <3>2. Reverse(l)[i] = IF (n + 1) - i + 1 = 1 THEN c ELSE s[n - i + 1]
      BY <1>3, <1>6, <3>1
    <3>3. (n + 1) - i + 1 = 1 <=> i = n + 1
      BY <1>2, <3>1
    <3>4. i # n + 1 => i \in 1..n
      BY <1>2
    <3> QED
      BY <1>5, <2>1, <3>2, <3>3, <3>4
  <2> QED
    BY <1>6, <2>1, <2>2, SeqEqual DEF x
<1>9. Reverse(r) = <<c>> \o Reverse(s)
  <2> DEFINE x == <<c>> \o Reverse(s)
  <2>1. x \in Seq(S) /\ Len(x) = n + 1
        /\ \A i \in 1..(n + 1) : x[i] = IF i = 1 THEN c ELSE Reverse(s)[i - 1]
    BY <1>2, <1>5
  <2> HIDE DEF x
  <2>2. ASSUME NEW i \in 1..(n + 1) PROVE Reverse(r)[i] = x[i]
    <3>1. i \in Int /\ (n + 1) - i + 1 \in 1..(n + 1)
      BY <1>2
    <3>2. Reverse(r)[i] = IF (n + 1) - i + 1 = n + 1 THEN c ELSE s[(n + 1) - i + 1]
      BY <1>4, <1>7, <3>1
    <3>3. (n + 1) - i + 1 = n + 1 <=> i = 1
      BY <1>2, <3>1
    <3>4. i # 1 => i - 1 \in 1..n /\ n - (i - 1) + 1 = (n + 1) - i + 1
      BY <1>2
    <3> QED
      BY <1>5, <2>1, <3>2, <3>3, <3>4
  <2> QED
    BY <1>7, <2>1, <2>2, SeqEqual DEF x
<1> QED
  BY <1>8, <1>9 DEF l, r

(* The digit found last is the last one written.                                       *)
LEMMA DigitPrepended ==
  ASSUME NEW S, NEW table \in Seq(S), \A i, j \in DOMAIN table : table[i] = table[j] => i = j,
         NEW t \in Seq(ToSet(table)), NEW c \in ToSet(table)
  PROVE  /\ Reverse(t) \in Seq(ToSet(table)) /\ Len(Reverse(t)) = Len(t)
         /\ Reverse(<<c>> \o t) = Reverse(t) \o <<c>>
         /\ ValueOf(table, <<>>) = 0
         /\ ValueOf(table, t \o <<c>>) = Len(table) * ValueOf(table, t) + DigitValue(table, c)
<1>1. ValueOf(table, <<>>) = 0 /\ ValueOf(table, t \o <<c>>)
                                 = Len(table) * ValueOf(table, t) + DigitValue(table, c)
  BY ValueAppended
<1>2. Reverse(t) \in Seq(ToSet(table)) /\ Len(Reverse(t)) = Len(t)
  BY Turned
<1>3. Reverse(<<c>> \o t) = Reverse(t) \o <<c>>
  BY Reversal
<1> QED
  BY <1>1, <1>2, <1>3

(* What is shown of a magnitude n: the digits s of a table, the last one first.  *)
Spells(s, table, n) ==
  /\ s \in Seq(ToSet(table)) /\ Len(s) \in Nat \ {0} /\ ValueOf(table, Reverse(s)) = n
  /\ Len(s) > 1 => DigitValue(table, s[Len(s)]) # 0
  /\ \A k \in 1..MaxNumeric : n < TenTo[k] => Len(s) <= k

(* Each number of D is its first digit and the rest, times the base; those of E have   *)
(* no rest.                                                                            *)
Places(D, size, table, first, rest, E) ==
  /\ \A i \in D : size[i] = Len(table) * size[rest[i]] + DigitValue(table, first[i])
  /\ \A i \in E : size[rest[i]] = 0
  /\ \A i \in D \ E : size[rest[i]] > 0 /\ size[rest[i]] < size[i]
                       /\ 10 * size[rest[i]] <= size[i]

(* What is unwound from a number spells it.                                            *)
LEMMA Spelling ==
  ASSUME NEW S, NEW table \in Seq(S), \A i, j \in DOMAIN table : table[i] = table[j] => i = j,
         NEW D, NEW size \in [D -> Nat], NEW rest \in [D -> D], NEW E \in SUBSET D,
         NEW first \in [D -> ToSet(table)], NEW f \in [D -> Seq(ToSet(table))],
         Unwinds(f, D, first, rest, E), Places(D, size, table, first, rest, E)
  PROVE  \A i \in D : Spells(f[i], table, size[i])
<1> USE DEF Unwinds, Places
<1> DEFINE C == ToSet(table)
           Leads(i) == DigitValue(table, f[i][Len(f[i])]) # 0
           Value(i) == Len(f[i]) \in Nat \ {0} /\ ValueOf(table, Reverse(f[i])) = size[i]
           Width(i) == \A k \in 1..MaxNumeric : size[i] < TenTo[k] => Len(f[i]) <= k
           Right(i) == Value(i) /\ (size[i] # 0 => Leads(i)) /\ (Len(f[i]) > 1 => Leads(i))
                       /\ Width(i)
           T == {m \in Nat : \A i \in D : size[i] < m => Right(i)}
<1>1. MaxNumeric \in Nat
  BY LineAssumption
<1>2. \A i \in D : size[i] \in Nat /\ rest[i] \in D /\ first[i] \in C /\ f[i] \in Seq(C)
  OBVIOUS
<1>9. \A j \in DOMAIN table : DigitValue(table, table[j]) = j - 1
  BY Values
<1>10. ASSUME NEW t \in Seq(C), NEW c \in C
       PROVE  /\ Reverse(t) \in Seq(C) /\ Len(Reverse(t)) = Len(t)
              /\ Reverse(<<c>> \o t) = Reverse(t) \o <<c>>
              /\ ValueOf(table, <<>>) = 0
              /\ ValueOf(table, t \o <<c>>) = Len(table) * ValueOf(table, t) + DigitValue(table, c)
  BY DigitPrepended
<1>3. ASSUME NEW i \in E PROVE Right(i)
  <2> DEFINE d == first[i]
  <2>1. i \in D /\ d \in C /\ f[i] = <<d>>
    <3>1. f[i] = <<first[i]>> \o <<>>
      OBVIOUS
    <3> QED
      BY <3>1
  <2>2. size[i] = DigitValue(table, d)
    <3>1. size[i] = Len(table) * 0 + DigitValue(table, d)
      OBVIOUS
    <3>2. size[i] \in Nat /\ Len(table) \in Nat
      OBVIOUS
    <3>3. DigitValue(table, d) \in Int
      <4>1. PICK j \in DOMAIN table : d = table[j]
        BY <2>1 DEF ToSet
      <4>2. DigitValue(table, d) = j - 1 /\ j \in Int
        BY <1>9, <4>1
      <4> QED
        BY <4>2
    <3> QED
      BY <3>1, <3>2, <3>3
  <2> HIDE DEF d, C
  <2>3. Len(f[i]) = 1 /\ f[i][Len(f[i])] = d
    BY <2>1
  <2>4. Reverse(f[i]) = <<>> \o <<d>> /\ <<>> \in Seq(C)
    <3>1. Reverse(<<d>> \o <<>>) = Reverse(<<>>) \o <<d>>
      <4>1. <<>> \in Seq(C)
        OBVIOUS
      <4> QED
        BY <1>10, <2>1, <4>1
    <3>2. <<d>> \o <<>> = <<d>>
      BY <2>1
    <3>3. Reverse(<<>>) = <<>>
      <4>1. <<>> \in Seq(C)
        OBVIOUS
      <4>2. Reverse(<<>>) \in Seq(C) /\ Len(Reverse(<<>>)) = Len(<<>>)
        BY <1>10, <2>1, <4>1
      <4>3. Len(<<>>) = 0
        OBVIOUS
      <4> QED
        BY <4>2, <4>3, EmptySeq
    <3>4. <<>> \in Seq(C)
      OBVIOUS
    <3> QED
      BY <2>1, <3>1, <3>2, <3>3, <3>4
  <2>5. ValueOf(table, <<>> \o <<d>>) = Len(table) * 0 + DigitValue(table, d)
    BY <1>10, <2>1, <2>4
  <2>6. Len(table) * 0 + DigitValue(table, d) = size[i]
    BY <2>2, <1>2, <2>1
  <2> QED
    BY <1>1, <2>2, <2>3, <2>4, <2>5, <2>6
<1>4. ASSUME NEW i \in D \ E, Right(rest[i]) PROVE Right(i)
  <2> DEFINE d == first[i]
             q == rest[i]
             s == f[q]
  <2>1. d \in C /\ s \in Seq(C) /\ f[i] = <<d>> \o s /\ q \in D
    OBVIOUS
  <2>2. /\ size[i] \in Nat /\ size[q] \in Nat /\ size[q] > 0 /\ size[q] < size[i]
        /\ 10 * size[q] <= size[i]
    OBVIOUS
  <2>3. size[i] = Len(table) * size[q] + DigitValue(table, d)
    OBVIOUS
  <2>4. Len(s) \in Nat \ {0} /\ ValueOf(table, Reverse(s)) = size[q] /\ Leads(q)
    BY <1>4, <2>2
  <2>5. Len(f[i]) = Len(s) + 1 /\ f[i][Len(f[i])] = s[Len(s)]
    BY <2>1, <2>4
  <2>6. Reverse(f[i]) = Reverse(s) \o <<d>> /\ Reverse(s) \in Seq(C)
    BY <1>10, <2>1, ZenonT(60)
  <2>7. ValueOf(table, Reverse(s) \o <<d>>)
          = Len(table) * ValueOf(table, Reverse(s)) + DigitValue(table, d)
    BY <1>10, <2>1, <2>6
  <2>8. ValueOf(table, Reverse(f[i])) = size[i]
    BY <2>3, <2>4, <2>6, <2>7
  <2>9. Leads(i)
    BY <2>4, <2>5
  <2>10. ASSUME NEW k \in 1..MaxNumeric, size[i] < TenTo[k] PROVE Len(f[i]) <= k
    <3>1. k - 1 \in 0..MaxNumeric /\ TenTo[k] = 10 * TenTo[k - 1] /\ TenTo[k - 1] \in Nat
      BY <1>1, TenToFacts, SMTT(40)
    <3>2. size[q] < TenTo[k - 1]
      BY <2>2, <2>10, <3>1, SMTT(40)
    <3>3. k # 1
      BY <2>2, <3>2, TenToFacts
    <3>4. k - 1 \in 1..MaxNumeric
      BY <3>1, <3>3
    <3>5. Len(s) <= k - 1
      BY <1>4, <3>2, <3>4
    <3> QED
      BY <2>4, <2>5, <3>5
  <2> QED
    BY <2>4, <2>5, <2>8, <2>9, <2>10
<1> HIDE DEF Right
<1>5. 0 \in T
  <2>1. \A x \in Nat : ~ (x < 0)
    OBVIOUS
  <2> QED
    BY <1>2, <2>1
<1>6. ASSUME NEW m \in Nat, m \in T PROVE m + 1 \in T
  <2>1. ASSUME NEW i \in D, size[i] < m + 1 PROVE Right(i)
    <3>1. CASE i \in E
      BY <1>3, <3>1
    <3>2. CASE i \notin E
      <4>1. size[rest[i]] < m /\ rest[i] \in D
        <5>1. size[i] \in Nat /\ size[rest[i]] \in Nat /\ size[rest[i]] < size[i]
          BY <1>2, <3>2
        <5> QED
          BY <1>2, <2>1, <5>1
      <4>2. Right(rest[i])
        BY <1>6, <4>1
      <4> QED
        BY <1>4, <3>2, <4>2
    <3> QED
      BY <3>1, <3>2
  <2> QED
    BY <2>1
<1> HIDE DEF T
<1>7. Nat \subseteq T
  BY <1>5, <1>6, NatSetInduction
<1>8. ASSUME NEW i \in D PROVE Right(i)
  <2>1. size[i] + 1 \in T /\ size[i] < size[i] + 1
    BY <1>2, <1>7
  <2> QED
    BY <2>1 DEF T
<1> QED
  BY <1>8 DEF Right, Spells

(* On D they are the same.                                                             *)
Alike(f, g, D) == \A i \in D : f[i] = g[i]

(* There is only one such f.                                                           *)
LEMMA UnwoundAlike ==
  ASSUME NEW D, NEW size \in [D -> Nat], NEW first, NEW rest \in [D -> D], NEW E \in SUBSET D,
         Shrinks(D, size, rest, E),
         NEW f, Unwinds(f, D, first, rest, E), NEW g, Unwinds(g, D, first, rest, E)
  PROVE  Alike(f, g, D)
<1> USE DEF Unwinds, Shrinks
<1> DEFINE T == {m \in Nat : \A i \in D : size[i] < m => f[i] = g[i]}
<1>1. \A i \in D : size[i] \in Nat /\ rest[i] \in D
  OBVIOUS
<1>2. 0 \in T
  <2>1. \A x \in Nat : ~ (x < 0)
    OBVIOUS
  <2> QED
    BY <1>1, <2>1
<1>3. ASSUME NEW m \in Nat, m \in T PROVE m + 1 \in T
  <2>1. ASSUME NEW i \in D, size[i] < m + 1 PROVE f[i] = g[i]
    <3>1. CASE i \in E
      BY <3>1
    <3>2. CASE i \notin E
      <4>1. size[rest[i]] < m
        <5>1. size[i] \in Nat /\ size[rest[i]] \in Nat /\ size[rest[i]] < size[i]
          BY <1>1, <3>2
        <5> QED
          BY <2>1, <5>1
      <4>2. f[rest[i]] = g[rest[i]]
        BY <1>1, <1>3, <4>1
      <4> QED
        BY <3>2, <4>2
    <3> QED
      BY <3>1, <3>2
  <2> QED
    BY <2>1
<1> HIDE DEF T
<1>4. Nat \subseteq T
  BY <1>2, <1>3, NatSetInduction
<1>5. ASSUME NEW i \in D PROVE f[i] = g[i]
  <2>1. size[i] + 1 \in T /\ size[i] < size[i] + 1
    BY <1>1, <1>4
  <2> QED
    BY <2>1 DEF T
<1> QED
  BY <1>5 DEF Alike

(* How convert takes an integer apart: its magnitude, what is left of it, the digit it gives, *)
(* and when nothing is left.                                                           *)
Size10 == [i \in Int |-> IF i < 0 THEN -i ELSE i]
Rest10 == [i \in Int |-> Quotient(i, 10)]
First10 == [i \in Int |-> digits[zero + Remainder(i, 10)]]
Last10 == {i \in Int : Quotient(i, 10) = 0}

(* The magnitude is ten times that of the rest, and the digit.                         *)
LEMMA Decimals ==
  /\ Size10 \in [Int -> Nat] /\ Rest10 \in [Int -> Int] /\ Last10 \in SUBSET Int
  /\ First10 \in [Int -> ToSet(Decimal)]
  /\ \A i \in Int : Size10[i] = Len(Decimal) * Size10[Rest10[i]] + DigitValue(Decimal, First10[i])
  /\ \A i \in Last10 : Size10[Rest10[i]] = 0
  /\ \A i \in Int \ Last10 : Size10[Rest10[i]] > 0 /\ Size10[Rest10[i]] < Size10[i]
                             /\ 10 * Size10[Rest10[i]] <= Size10[i]
<1> DEFINE Abs(i) == IF i < 0 THEN -i ELSE i
<1>1. Decimal \in Seq(ToSet(digitsHex)) /\ Len(Decimal) = 10 /\ DOMAIN Decimal = 1..10
  BY TableFacts, LenProperties
<1>2. \A j \in 1..10 : DigitValue(Decimal, Decimal[j]) = j - 1
  <2>1. \A j, k \in DOMAIN Decimal : Decimal[j] = Decimal[k] => j = k
    BY <1>1, TableFacts
  <2> QED
    BY <1>1, <2>1, Values
<1>3. ASSUME NEW i \in Int
      PROVE  /\ Rest10[i] \in Int /\ First10[i] \in ToSet(Decimal)
             /\ Size10[i] = Abs(i) /\ Size10[Rest10[i]] = Abs(Quotient(i, 10))
             /\ DigitValue(Decimal, First10[i]) = Abs(Remainder(i, 10))
  <2>1. Quotient(i, 10) \in Int /\ Remainder(i, 10) \in -9..9
    BY DivisionFacts
  <2>2. First10[i] = Decimal[1 + Abs(Remainder(i, 10))]
    BY <2>1, DigitFacts DEF First10
  <2>3. 1 + Abs(Remainder(i, 10)) \in 1..10
    BY <2>1
  <2> HIDE DEF Abs
  <2>4. First10[i] \in ToSet(Decimal)
    BY <1>1, <2>2, <2>3 DEF ToSet
  <2>5. Abs(Remainder(i, 10)) \in Int
    BY <2>1 DEF Abs
  <2>6. DigitValue(Decimal, First10[i]) = Abs(Remainder(i, 10))
    <3>1. PICK j \in 1..10 : j = 1 + Abs(Remainder(i, 10))
      BY <2>3
    <3>2. First10[i] = Decimal[j] /\ DigitValue(Decimal, Decimal[j]) = j - 1
      BY <1>2, <2>2, <3>1
    <3>3. j - 1 = Abs(Remainder(i, 10))
      BY <2>5, <3>1
    <3> QED
      BY <3>2, <3>3
  <2> QED
    BY <2>1, <2>4, <2>5, <2>6 DEF Rest10, Size10, Abs
<1>4. ASSUME NEW i \in Int
      PROVE  /\ Abs(i) = 10 * Abs(Quotient(i, 10)) + Abs(Remainder(i, 10))
             /\ Abs(i) \in Nat /\ Abs(Quotient(i, 10)) \in Nat
             /\ Quotient(i, 10) = 0 => Abs(Quotient(i, 10)) = 0
             /\ Quotient(i, 10) # 0 => /\ Abs(Quotient(i, 10)) > 0
                                       /\ Abs(Quotient(i, 10)) < Abs(i)
                                       /\ 10 * Abs(Quotient(i, 10)) <= Abs(i)
  <2>1. PICK q \in Int, d \in -9..9 :
          /\ q = Quotient(i, 10) /\ d = Remainder(i, 10) /\ i = 10 * q + d
          /\ i >= 0 => q >= 0 /\ d >= 0
          /\ i < 0 => q <= 0 /\ d <= 0
    BY DivisionFacts
  <2> QED
    BY <2>1
<1>5. Size10 \in [Int -> Nat]
  BY DEF Size10
<1>6. Rest10 \in [Int -> Int] /\ First10 \in [Int -> ToSet(Decimal)]
  BY <1>3 DEF Rest10, First10
<1> HIDE DEF Abs
<1> QED
  BY <1>1, <1>3, <1>4, <1>5, <1>6, ZenonT(60) DEF Last10

(* The loop of convert ends for every integer, with the digits it has unwound.         *)
LEMMA ReversedFacts ==
  /\ Reversed \in [Int -> Seq(ToSet(Decimal))]
  /\ \A i \in Int :
       Reversed[i] = <<First10[i]>> \o (IF i \in Last10 THEN <<>> ELSE Reversed[Rest10[i]])
<1> DEFINE C == ToSet(Decimal)
           Def(f) == [i \in Int |-> <<digits[zero + Remainder(i, 10)]>> \o
                        (IF Quotient(i, 10) = 0 THEN <<>> ELSE f[Quotient(i, 10)])]
           Chain(f) == Unwinds(f, Int, First10, Rest10, Last10)
<1>0. Shrinks(Int, Size10, Rest10, Last10)
  BY Decimals DEF Shrinks
<1>1. \A f : f = Def(f) => Chain(f)
  BY DEF First10, Last10, Rest10, Unwinds
<1>2. PICK f \in [Int -> Seq(C)] : Chain(f)
  <2>1. \E f \in [Int -> Seq(C)] : Chain(f)
    BY <1>0, Decimals, Unwinding
  <2> QED
    BY <2>1
<1>3. f = Def(f)
  <2>1. \A i \in Int : f[i] = <<digits[zero + Remainder(i, 10)]>> \o
                        (IF Quotient(i, 10) = 0 THEN <<>> ELSE f[Quotient(i, 10)])
    BY <1>2 DEF First10, Last10, Rest10, Unwinds
  <2> QED
    BY <2>1
<1>4. Reversed = CHOOSE g : g = Def(g)
  BY DEF Reversed
<1> HIDE DEF Def
<1>5. Reversed = Def(Reversed)
  BY <1>3, <1>4
<1>6. Chain(Reversed)
  BY <1>1, <1>5
<1>7. Alike(f, Reversed, Int)
  BY <1>0, <1>2, <1>6, Decimals, UnwoundAlike
<1>8. Reversed = f
  <2>1. Reversed = [i \in Int |-> Reversed[i]]
    BY <1>5 DEF Def
  <2>2. f = [i \in Int |-> f[i]]
    OBVIOUS
  <2> QED
    BY <1>7, <2>1, <2>2 DEF Alike
<1> QED
  BY <1>6, <1>8 DEF Unwinds

(* How convertHex takes a number apart.                                                *)
Size16 == [i \in Nat |-> i]
Rest16 == [i \in Nat |-> i \div 16]
First16 == [i \in Nat |-> digitsHex[1 + (i % 16)]]
Last16 == {i \in Nat : i \div 16 = 0}

(* The number is sixteen times the rest, and the digit.                                *)
LEMMA Hexadecimals ==
  /\ Size16 \in [Nat -> Nat] /\ Rest16 \in [Nat -> Nat] /\ Last16 \in SUBSET Nat
  /\ First16 \in [Nat -> ToSet(digitsHex)]
  /\ \A i \in Nat :
       Size16[i] = Len(digitsHex) * Size16[Rest16[i]] + DigitValue(digitsHex, First16[i])
  /\ \A i \in Last16 : Size16[Rest16[i]] = 0
  /\ \A i \in Nat \ Last16 : Size16[Rest16[i]] > 0 /\ Size16[Rest16[i]] < Size16[i]
                             /\ 10 * Size16[Rest16[i]] <= Size16[i]
<1>1. digitsHex \in Seq(ToSet(digitsHex)) /\ Len(digitsHex) = 16 /\ DOMAIN digitsHex = 1..16
  BY TableFacts, LenProperties
<1>2. \A j \in 1..16 : DigitValue(digitsHex, digitsHex[j]) = j - 1
  <2>1. \A j, k \in DOMAIN digitsHex : digitsHex[j] = digitsHex[k] => j = k
    BY <1>1, TableFacts
  <2> QED
    BY <1>1, <2>1, Values
<1>3. ASSUME NEW i \in Nat
      PROVE  /\ (i \div 16) \in Nat /\ (i % 16) \in 0..15 /\ i = 16 * (i \div 16) + (i % 16)
             /\ i \div 16 # 0 => /\ (i \div 16) > 0 /\ (i \div 16) < i
                                 /\ 10 * (i \div 16) <= i
  OBVIOUS
<1>4. ASSUME NEW i \in Nat
      PROVE  /\ First16[i] \in ToSet(digitsHex)
             /\ DigitValue(digitsHex, First16[i]) = (i % 16)
  <2>1. PICK d \in 0..15 : d = (i % 16)
    BY <1>3
  <2>2. First16[i] = digitsHex[1 + d] /\ 1 + d \in 1..16 /\ (1 + d) - 1 = d
    BY <2>1 DEF First16
  <2>3. DigitValue(digitsHex, digitsHex[1 + d]) = (1 + d) - 1
    BY <1>2, <2>2
  <2>4. digitsHex[1 + d] \in ToSet(digitsHex)
    BY <1>1, <2>2 DEF ToSet
  <2> QED
    BY <2>1, <2>2, <2>3, <2>4
<1>5. Size16 \in [Nat -> Nat] /\ Rest16 \in [Nat -> Nat] /\ First16 \in [Nat -> ToSet(digitsHex)]
  BY <1>3, <1>4 DEF Size16, Rest16, First16
<1>6. ASSUME NEW i \in Nat
      PROVE  Size16[i] = i /\ Rest16[i] = (i \div 16) /\ Size16[Rest16[i]] = (i \div 16)
  BY <1>3 DEF Size16, Rest16
<1>7. Last16 \in SUBSET Nat /\ \A i \in Nat : i \in Last16 <=> (i \div 16) = 0
  BY DEF Last16
<1>8. ASSUME NEW i \in Nat
      PROVE  /\ Size16[i] = Len(digitsHex) * Size16[Rest16[i]] + DigitValue(digitsHex, First16[i])
             /\ i \in Last16 => Size16[Rest16[i]] = 0
             /\ i \notin Last16 => /\ Size16[Rest16[i]] > 0 /\ Size16[Rest16[i]] < Size16[i]
                                   /\ 10 * Size16[Rest16[i]] <= Size16[i]
  <2>1. PICK q, d : q = (i \div 16) /\ d = (i % 16)
    OBVIOUS
  <2>2. /\ q \in Nat /\ d \in 0..15 /\ i = 16 * q + d
        /\ q # 0 => q > 0 /\ q < i /\ 10 * q <= i
    BY <1>3, <2>1
  <2>3. Size16[i] = i /\ Size16[Rest16[i]] = q /\ (i \in Last16 <=> q = 0)
    BY <1>6, <1>7, <2>1
  <2>4. DigitValue(digitsHex, First16[i]) = d
    BY <1>4, <2>1
  <2> QED
    BY <1>1, <2>2, <2>3, <2>4
<1> QED
  BY <1>5, <1>7, <1>8

(* The loop of convertHex ends for every number.                                       *)
LEMMA ReversedHexFacts ==
  /\ ReversedHex \in [Nat -> Seq(ToSet(digitsHex))]
  /\ \A i \in Nat :
       ReversedHex[i] = <<First16[i]>> \o (IF i \in Last16 THEN <<>> ELSE ReversedHex[Rest16[i]])
<1> DEFINE C == ToSet(digitsHex)
           Def(f) == [i \in Nat |-> <<digitsHex[1 + (i % 16)]>> \o
                        (IF i \div 16 = 0 THEN <<>> ELSE f[i \div 16])]
           Chain(f) == Unwinds(f, Nat, First16, Rest16, Last16)
<1>0. Shrinks(Nat, Size16, Rest16, Last16)
  BY Hexadecimals DEF Shrinks
<1>1. \A f : f = Def(f) => Chain(f)
  BY DEF First16, Last16, Rest16, Unwinds
<1>2. PICK f \in [Nat -> Seq(C)] : Chain(f)
  <2>1. \E f \in [Nat -> Seq(C)] : Chain(f)
    BY <1>0, Hexadecimals, Unwinding
  <2> QED
    BY <2>1
<1>3. f = Def(f)
  <2>1. \A i \in Nat : f[i] = <<digitsHex[1 + (i % 16)]>> \o
                        (IF i \div 16 = 0 THEN <<>> ELSE f[i \div 16])
    BY <1>2 DEF First16, Last16, Rest16, Unwinds
  <2> QED
    BY <2>1
<1>4. ReversedHex = CHOOSE g : g = Def(g)
  BY DEF ReversedHex
<1> HIDE DEF Def
<1>5. ReversedHex = Def(ReversedHex)
  BY <1>3, <1>4
<1>6. Chain(ReversedHex)
  BY <1>1, <1>5
<1>7. Alike(f, ReversedHex, Nat)
  BY <1>0, <1>2, <1>6, Hexadecimals, UnwoundAlike
<1>8. ReversedHex = f
  <2>1. ReversedHex = [i \in Nat |-> ReversedHex[i]]
    BY <1>5 DEF Def
  <2>2. f = [i \in Nat |-> f[i]]
    OBVIOUS
  <2> QED
    BY <1>7, <2>1, <2>2 DEF Alike
<1> QED
  BY <1>6, <1>8 DEF Unwinds

(* The digits that convert makes spell the magnitude, the least integer's too.         *)
LEMMA DecimalSpelled == \A i \in Int : Spells(Reversed[i], Decimal, IF i < 0 THEN -i ELSE i)
<1>1. \A j, k \in DOMAIN Decimal : Decimal[j] = Decimal[k] => j = k
  <2>1. DOMAIN Decimal = 1..10
    BY TableFacts, LenProperties
  <2> QED
    BY <2>1, TableFacts
<1>2. Decimal \in Seq(ToSet(digitsHex))
  BY TableFacts
<1>3. Places(Int, Size10, Decimal, First10, Rest10, Last10)
  BY Decimals DEF Places
<1>4. Unwinds(Reversed, Int, First10, Rest10, Last10)
  BY ReversedFacts DEF Unwinds
<1>5. \A i \in Int : Spells(Reversed[i], Decimal, Size10[i])
  BY <1>1, <1>2, <1>3, <1>4, Decimals, ReversedFacts, Spelling
<1> QED
  BY <1>5 DEF Size10

(* Those that convertHex makes spell the number.                                       *)
LEMMA HexSpelled == \A i \in Nat : Spells(ReversedHex[i], digitsHex, i)
<1>1. \A j, k \in DOMAIN digitsHex : digitsHex[j] = digitsHex[k] => j = k
  <2>1. DOMAIN digitsHex = 1..16
    BY TableFacts, LenProperties
  <2> QED
    BY <2>1, TableFacts
<1>2. digitsHex \in Seq(ToSet(digitsHex))
  BY TableFacts
<1>3. Places(Nat, Size16, digitsHex, First16, Rest16, Last16)
  BY Hexadecimals DEF Places
<1>4. Unwinds(ReversedHex, Nat, First16, Rest16, Last16)
  BY ReversedHexFacts DEF Unwinds
<1>5. \A i \in Nat : Spells(ReversedHex[i], digitsHex, Size16[i])
  BY <1>1, <1>2, <1>3, <1>4, Hexadecimals, ReversedHexFacts, Spelling
<1> QED
  BY <1>5 DEF Size16

(* What Written needs of the decimal digits.                                           *)
LEMMA DecimalTable ==
  /\ Decimal \in Seq(ToSet(digitsHex)) /\ DOMAIN Decimal = 1..10 /\ Decimal[1] = "0"
  /\ DigitValue(Decimal, "0") = 0 /\ ToSet(Decimal) \subseteq Character \ {"-"}
<1>1. Decimal \in Seq(ToSet(digitsHex)) /\ DOMAIN Decimal = 1..10
  BY TableFacts, LenProperties
<1>2. digitsHex[1] = "0" /\ DOMAIN digitsHex = 1..16
  BY DEF digitsHex
<1>3. \A j \in 1..10 : Decimal[j] = digitsHex[j] /\ j \in 1..16
  BY TableFacts
<1>4. Decimal[1] = "0"
  BY <1>2, <1>3
<1>5. DigitValue(Decimal, "0") = 0
  <2>1. \A j, k \in DOMAIN Decimal : Decimal[j] = Decimal[k] => j = k
    BY <1>1, TableFacts
  <2>2. DigitValue(Decimal, Decimal[1]) = 1 - 1 /\ 1 - 1 = 0
    BY <1>1, <2>1, Values
  <2> QED
    BY <1>4, <2>2
<1>6. ASSUME NEW c \in ToSet(Decimal) PROVE c \in Character \ {"-"}
  <2>1. PICK j \in 1..10 : c = Decimal[j]
    BY <1>1 DEF ToSet
  <2>2. c = digitsHex[j] /\ j \in 1..16
    BY <1>3, <2>1
  <2>3. c \in ToSet(digitsHex)
    BY <1>2, <2>2 DEF ToSet
  <2> QED
    BY <2>2, <2>3, TableFacts DEF Character
<1> QED
  BY <1>1, <1>4, <1>5, <1>6

(* ... and of the hexadecimal ones.                                                    *)
LEMMA HexTable ==
  /\ digitsHex \in Seq(ToSet(digitsHex)) /\ DOMAIN digitsHex = 1..16
  /\ DigitValue(digitsHex, "0") = 0 /\ ToSet(digitsHex) \subseteq Character \ {"-"}
<1>1. digitsHex[1] = "0" /\ DOMAIN digitsHex = 1..16 /\ digitsHex \in Seq(ToSet(digitsHex))
  <2>1. digitsHex[1] = "0" /\ DOMAIN digitsHex = 1..16
    BY DEF digitsHex
  <2> QED
    BY <2>1, TableFacts
<1>2. DigitValue(digitsHex, "0") = 0
  <2>1. \A j, k \in DOMAIN digitsHex : digitsHex[j] = digitsHex[k] => j = k
    BY <1>1, TableFacts
  <2>2. \A j \in DOMAIN digitsHex : DigitValue(digitsHex, digitsHex[j]) = j - 1
    BY <1>1, <2>1, Values
  <2>3. DigitValue(digitsHex, digitsHex[1]) = 1 - 1
    BY <1>1, <2>2
  <2> QED
    BY <1>1, <2>3
<1>3. ASSUME NEW c \in ToSet(digitsHex) PROVE c \in Character \ {"-"}
  <2>1. PICK j \in 1..16 : c = digitsHex[j]
    BY <1>1 DEF ToSet
  <2> QED
    BY <2>1, TableFacts DEF Character
<1> QED
  BY <1>1, <1>2, <1>3

(* The digits in the order written.    *)
LEMMA Written ==
  ASSUME NEW table, DigitValue(table, "0") = 0, ToSet(table) \subseteq Character \ {"-"},
         NEW n, NEW s, Spells(s, table, n)
  PROVE  /\ Reverse(s) \in Seq(Character) /\ Len(Reverse(s)) = Len(s) /\ Len(s) \in Nat \ {0}
         /\ ValueOf(table, Reverse(s)) = n
         /\ Reverse(s)[1] # "-" /\ (Len(Reverse(s)) > 1 => Reverse(s)[1] # "0")
<1>1. s \in Seq(ToSet(table)) /\ Len(s) \in Nat \ {0} /\ ValueOf(table, Reverse(s)) = n
      /\ (Len(s) > 1 => DigitValue(table, s[Len(s)]) # 0)
  BY DEF Spells
<1>2. s \in Seq(Character)
  BY <1>1, SeqMonotonic
<1>3. Len(s) \in 1..Len(s) /\ 1 \in 1..Len(s)
  BY <1>1
<1>4. s[Len(s)] \in ToSet(table)
  BY <1>1, <1>3, ElementOfSeq
<1>5. /\ Reverse(s) \in Seq(Character) /\ Len(Reverse(s)) = Len(s)
      /\ \A i \in 1..Len(s) : Reverse(s)[i] = s[Len(s) - i + 1]
  BY <1>2, Turned
<1>6. Reverse(s)[1] = s[Len(s)]
  <2>1. Len(s) - 1 + 1 = Len(s)
    BY <1>1
  <2> QED
    BY <1>3, <1>5, <2>1
<1> QED
  BY <1>1, <1>4, <1>5, <1>6

(* The sizes of a stream.                                                              *)
LEMMA StreamSizes ==
  /\ NumberBound \in Nat /\ NumberBound >= 10 /\ MaxNumeric - 3 \in 1..MaxNumeric
  /\ MaxNumeric \in Nat /\ MaxNumeric > 3 /\ Size \in Nat /\ Size > 0
<1>1. MaxNumeric \in Nat /\ MaxNumeric > 3 /\ Size \in Nat /\ Size > 0
  BY LineAssumption, WidthAssumption
<1>2. PICK k \in 1..MaxNumeric : k = MaxNumeric - 3
  BY <1>1
<1>3. TenTo[k] \in Nat /\ TenTo[k] >= 10
  <2>1. k - 1 \in 0..MaxNumeric
    BY <1>1
  <2>2. TenTo[k - 1] \in Nat /\ TenTo[k - 1] >= 1 /\ TenTo[k] = 10 * TenTo[k - 1]
    BY <2>1, TenToFacts
  <2> QED
    BY <2>2
<1> QED
  BY <1>1, <1>2, <1>3 DEF NumberBound

(* convert puts a minus before the digits of a negative number, and nothing before the others. *)
LEMMA NumberShown ==
  ASSUME NEW v \in Int
  PROVE  /\ convert(v) \in Seq(Character) /\ Len(convert(v)) \in Nat \ {0}
         /\ v < 0 => /\ convert(v)[1] = "-" /\ Tail(convert(v)) = Reverse(Reversed[v])
                     /\ Len(convert(v)) = Len(Reversed[v]) + 1
         /\ v >= 0 => convert(v) = Reverse(Reversed[v])
<1> DEFINE R == Reversed[v]
<1>1. /\ Spells(R, Decimal, IF v < 0 THEN -v ELSE v)
      /\ R \in Seq(ToSet(Decimal)) /\ Len(R) \in Nat \ {0}
  BY DecimalSpelled DEF Spells
<1>2. Reverse(R) \in Seq(Character) /\ Len(Reverse(R)) = Len(R)
  BY <1>1, DecimalTable, Written
<1>3. R \in Seq(Character)
  BY <1>1, DecimalTable, SeqMonotonic
<1> HIDE DEF R
<1>4. CASE v < 0
  <2>1. "-" \in Character
    BY DEF Character
  <2>2. convert(v) = Reverse(R \o <<"-">>)
    BY <1>4 DEF convert, R
  <2>3. convert(v) = <<"-">> \o Reverse(R)
    BY <1>3, <2>1, <2>2, Reversal
  <2>4. <<"-">> \in Seq(Character)
    BY <2>1
  <2>5. convert(v) \in Seq(Character) /\ Len(convert(v)) = Len(R) + 1 /\ convert(v)[1] = "-"
    BY <1>1, <1>2, <2>3, <2>4
  <2>6. Tail(convert(v)) = Reverse(R)
    <3> DEFINE w == Reverse(R)
               x == <<"-">> \o w
    <3>1. w \in Seq(Character) /\ "-" \in Character
      BY <1>2, <2>1
    <3> HIDE DEF w
    <3>2. x \in Seq(Character) /\ Len(x) = Len(w) + 1 /\ x # <<>>
          /\ \A i \in 1..Len(w) : x[i + 1] = w[i]
      BY <3>1
    <3> HIDE DEF x
    <3>3. Tail(x) \in Seq(Character) /\ Len(Tail(x)) = Len(w)
          /\ \A i \in 1..Len(w) : Tail(x)[i] = x[i + 1]
      BY <3>1, <3>2, HeadTailProperties
    <3>4. \A i \in 1..Len(w) : Tail(x)[i] = w[i]
      BY <3>2, <3>3
    <3>5. Tail(x) = w
      BY <3>1, <3>3, <3>4, SeqEqual
    <3> QED
      BY <2>3, <3>5 DEF x, w
  <2> QED
    BY <1>1, <1>4, <2>5, <2>6 DEF R
<1>5. CASE v >= 0
  <2>1. R \o <<>> = R
    BY <1>3
  <2>2. convert(v) = Reverse(R)
    <3>1. ~ (v < 0)
      BY <1>5
    <3>2. convert(v) = Reverse(R \o <<>>)
      BY <3>1 DEF convert, R
    <3> QED
      BY <2>1, <3>2
  <2> QED
    BY <1>1, <1>2, <1>5, <2>2 DEF R
<1> QED
  BY <1>4, <1>5

(* A number of a line reads back, and is shorter than the room it asks for.            *)
LEMMA NumberReadsBack ==
  ASSUME NEW p \in Piece, p.kind = "number"
  PROVE  ReadsBack(p) /\ Shown(p) \in Seq(Character) /\ Len(Shown(p)) < MaxNumeric
<1> DEFINE v == p.value
           R == Reversed[v]
           n == IF v < 0 THEN -v ELSE v
<1>1. v \in Int /\ v < NumberBound /\ -v < NumberBound
  BY StreamSizes DEF Piece
<1>2. Shown(p) = convert(v)
  BY DEF Shown
<1>3. /\ Reverse(R)[1] # "-" /\ (Len(Reverse(R)) > 1 => Reverse(R)[1] # "0")
      /\ ValueOf(Decimal, Reverse(R)) = n /\ Len(Reverse(R)) = Len(R)
  <2>1. Spells(R, Decimal, n)
    BY <1>1, DecimalSpelled
  <2> HIDE DEF R, n
  <2> QED
    BY <2>1, DecimalTable, Written
<1>4. Len(R) \in Nat \ {0} /\ Len(R) <= MaxNumeric - 3
  <2>1. n < TenTo[MaxNumeric - 3]
    BY <1>1 DEF NumberBound
  <2>2. /\ Len(R) \in Nat \ {0}
        /\ \A k \in 1..MaxNumeric : n < TenTo[k] => Len(R) <= k
    BY <1>1, DecimalSpelled DEF Spells
  <2> QED
    BY <2>1, <2>2, StreamSizes
<1>5. /\ convert(v) \in Seq(Character) /\ Len(convert(v)) \in Nat \ {0}
      /\ v < 0 => /\ convert(v)[1] = "-" /\ Tail(convert(v)) = Reverse(R)
                  /\ Len(convert(v)) = Len(R) + 1
      /\ v >= 0 => convert(v) = Reverse(R)
  BY <1>1, NumberShown
<1> HIDE DEF R, v, n
<1>6. CASE v < 0
  <2>1. n = -v /\ v = -n
    BY <1>1, <1>6 DEF n
  <2>2. Len(convert(v)) < MaxNumeric
    BY <1>4, <1>5, <1>6, StreamSizes
  <2>3. ReadsBack(p)
    BY <1>2, <1>3, <1>5, <1>6, <2>1, <2>2 DEF ReadsBack, v
  <2> QED
    BY <1>2, <1>5, <2>2, <2>3
<1>7. CASE v >= 0
  <2>1. n = v
    BY <1>1, <1>7 DEF n
  <2>2. Len(convert(v)) < MaxNumeric
    BY <1>3, <1>4, <1>5, <1>7, StreamSizes
  <2>3. ReadsBack(p)
    BY <1>2, <1>3, <1>5, <1>7, <2>1, <2>2 DEF ReadsBack, v
  <2> QED
    BY <1>2, <1>5, <2>2, <2>3
<1> QED
  BY <1>1, <1>6, <1>7

(* So does a pointer.                                                                  *)
LEMMA PointerReadsBack ==
  ASSUME NEW p \in Piece, p.kind = "pointer"
  PROVE  ReadsBack(p) /\ Shown(p) \in Seq(Character) /\ Len(Shown(p)) < MaxNumeric
<1> DEFINE v == p.value
           w == Reverse(ReversedHex[v])
           s == <<"0", "x">> \o w
<1>1. v \in Nat /\ v < NumberBound
  BY StreamSizes DEF Piece
<1>2. Shown(p) = s
  BY DEF Shown, convertHex
<1>3. /\ w \in Seq(Character) /\ Len(w) = Len(ReversedHex[v]) /\ Len(w) \in Nat \ {0}
      /\ (Len(w) > 1 => w[1] # "0") /\ ValueOf(digitsHex, w) = v
  <2> DEFINE h == ReversedHex[v]
  <2>1. Spells(h, digitsHex, v)
    BY <1>1, HexSpelled
  <2> HIDE DEF h, v
  <2>2. /\ Reverse(h) \in Seq(Character) /\ Len(Reverse(h)) = Len(h) /\ Len(h) \in Nat \ {0}
        /\ ValueOf(digitsHex, Reverse(h)) = v
        /\ (Len(Reverse(h)) > 1 => Reverse(h)[1] # "0")
    BY <2>1, HexTable, Written
  <2> QED
    BY <2>2 DEF h
<1>4. Len(w) <= MaxNumeric - 3
  <2>1. v < TenTo[MaxNumeric - 3]
    BY <1>1 DEF NumberBound
  <2>2. \A k \in 1..MaxNumeric : v < TenTo[k] => Len(ReversedHex[v]) <= k
    BY <1>1, HexSpelled DEF Spells
  <2> QED
    BY <1>3, <2>1, <2>2, StreamSizes
<1> HIDE DEF w
<1>5. <<"0", "x">> \in Seq(Character) /\ Len(<<"0", "x">>) = 2 /\ <<"0", "x">>[1] = "0"
  <2>1. "0" \in Character /\ "x" \in Character
    BY TableFacts DEF Character
  <2> QED
    BY <2>1
<1>6. s \in Seq(Character) /\ Len(s) = Len(w) + 2 /\ s[1] = "0"
      /\ \A i \in 1..Len(w) : s[i + 2] = w[i]
  BY <1>3, <1>5
<1> HIDE DEF s
<1>7. SubSeq(s, 3, Len(s)) = w
  <2> DEFINE x == SubSeq(s, 3, Len(s))
  <2>1. 3 \in Int /\ Len(s) \in Int /\ Len(s) - 3 + 1 = Len(w) /\ 3 <= Len(s)
    BY <1>3, <1>6
  <2>2. \A i \in 3..Len(s) : s[i] \in Character
    <3> TAKE i \in 3..Len(s)
    <3>1. i \in 1..Len(s)
      BY <2>1
    <3> QED
      BY <1>6, <3>1, ElementOfSeq
  <2>3. x \in Seq(Character) /\ Len(x) = Len(w) /\ \A i \in 1..Len(w) : x[i] = s[3 + i - 1]
    BY <2>1, <2>2, SubSeqProperties
  <2> HIDE DEF x
  <2>4. \A i \in 1..Len(w) : x[i] = w[i]
    <3> TAKE i \in 1..Len(w)
    <3>1. 3 + i - 1 = i + 2
      BY <1>3
    <3> QED
      BY <1>6, <2>3, <3>1
  <2> QED
    BY <1>3, <2>3, <2>4, SeqEqual DEF x
<1>8. Len(s) < MaxNumeric
  BY <1>3, <1>4, <1>6, StreamSizes
<1>9. ReadsBack(p)
  BY <1>1, <1>2, <1>3, <1>6, <1>7, <1>8 DEF ReadsBack, v
<1> QED
  BY <1>2, <1>6, <1>8, <1>9

(* What a piece of a line is shown as.                                                 *)
LEMMA PieceShown ==
  ASSUME NEW p \in Piece
  PROVE  /\ Shown(p) \in Seq(Character) /\ Len(Shown(p)) \in Nat
         /\ p.kind = "chars" => Shown(p) = p.chars
         /\ p.kind # "chars" => ReadsBack(p) /\ Len(Shown(p)) < MaxNumeric
<1>1. CASE p.kind = "chars"
  <2>1. p.chars \in Seq(Character)
    BY <1>1 DEF Piece
  <2> QED
    BY <1>1, <2>1 DEF Shown
<1>2. CASE p.kind # "chars"
  <2>1. p.kind = "number" \/ p.kind = "pointer"
    BY <1>2 DEF Piece
  <2>2. ReadsBack(p) /\ Shown(p) \in Seq(Character) /\ Len(Shown(p)) < MaxNumeric
    BY <2>1, NumberReadsBack, PointerReadsBack
  <2> QED
    BY <1>2, <2>2
<1> QED
  BY <1>1, <1>2

(* A text that leaves room for one character.                                          *)
LineText == {t \in Seq(Character) : Len(t) < Size}

(* A piece fits with that room, or is left out, and goes in whole when there           *)
(* is room for any number.                                                             *)
LEMMA PutFacts ==
  ASSUME NEW text \in LineText, NEW p \in Piece
  PROVE  /\ Put(text, p) \in LineText
         /\ Len(text) + Len(Shown(p)) + MaxNumeric <= Size => Put(text, p) = text \o Shown(p)
<1>1. text \in Seq(Character) /\ Len(text) \in Nat /\ Len(text) < Size
  BY DEF LineText
<1>2. Shown(p) \in Seq(Character) /\ Len(Shown(p)) \in Nat
      /\ (p.kind = "chars" => Shown(p) = p.chars)
      /\ (p.kind # "chars" => Len(Shown(p)) < MaxNumeric)
  BY PieceShown
<1>3. HasRoom(Len(text), p) <=> IF p.kind = "chars" THEN Size - Len(text) > Len(Shown(p))
                                ELSE Size - Len(text) >= MaxNumeric
  BY <1>2 DEF HasRoom
<1>4. text \o Shown(p) \in Seq(Character) /\ Len(text \o Shown(p)) = Len(text) + Len(Shown(p))
  BY <1>1, <1>2
<1>5. CASE HasRoom(Len(text), p)
  <2>1. Put(text, p) = text \o Shown(p)
    BY <1>5 DEF Put
  <2>2. Len(text) + Len(Shown(p)) < Size
    BY <1>1, <1>2, <1>3, <1>5, StreamSizes
  <2> QED
    BY <1>4, <2>1, <2>2 DEF LineText
<1>6. CASE ~ HasRoom(Len(text), p)
  <2>1. Put(text, p) = text
    BY <1>1, <1>6 DEF Put
  <2>2. ~ (Len(text) + Len(Shown(p)) + MaxNumeric <= Size)
    BY <1>1, <1>2, <1>3, <1>6, StreamSizes
  <2> QED
    BY <2>1, <2>2
<1> QED
  BY <1>5, <1>6

(* A stream takes its pieces one by one.                                               *)
LEMMA StreamSteps ==
  ASSUME NEW pieces \in Seq(Piece)
  PROVE  \E g \in [0..Len(pieces) -> LineText] :
           /\ g[0] = <<>> /\ Stream(pieces) = g[Len(pieces)]
           /\ \A k \in 1..Len(pieces) : g[k] = Put(g[k - 1], pieces[k])
<1> DEFINE step == [k \in 1..Len(pieces) |-> [x \in LineText |-> Put(x, pieces[k])]]
           Def(f) == [k \in 0..Len(pieces) |-> IF k = 0 THEN <<>> ELSE Put(f[k - 1], pieces[k])]
<1>1. PICK n \in Nat : n = Len(pieces)
  OBVIOUS
<1>2. \A k \in 1..n : pieces[k] \in Piece
  <2> TAKE k \in 1..n
  <2> QED
    BY <1>1, ElementOfSeq
<1>3. \A k \in 1..n : \A x \in LineText : Put(x, pieces[k]) \in LineText
  BY <1>2, PutFacts
<1>4. step \in [1..n -> [LineText -> LineText]]
  BY <1>1, <1>3
<1>5. \A k \in 1..n : \A x \in LineText : step[k][x] = Put(x, pieces[k])
  BY <1>1
<1>6. <<>> \in LineText
  BY StreamSizes DEF LineText
<1> HIDE DEF step
<1>7. PICK g \in [0..n -> LineText] : Iteration(g, <<>>, n, step)
  <2>1. \E g \in [0..n -> LineText] : Iteration(g, <<>>, n, step)
    <3>1. PICK e : e = <<>>
      OBVIOUS
    <3>2. \E g \in [0..n -> LineText] : Iteration(g, e, n, step)
      BY <1>4, <1>6, <3>1, Iterates
    <3> QED
      BY <3>1, <3>2
  <2> QED
    BY <2>1
<1>8. g[0] = <<>> /\ \A k \in 1..n : g[k] = Put(g[k - 1], pieces[k])
  <2>1. g[0] = <<>> /\ \A k \in 1..n : g[k] = step[k][g[k - 1]]
    BY <1>7 DEF Iteration
  <2>2. ASSUME NEW k \in 1..n PROVE g[k] = Put(g[k - 1], pieces[k])
    <3>1. k - 1 \in 0..n
      OBVIOUS
    <3>2. g[k - 1] \in LineText
      BY <1>7, <3>1
    <3> QED
      BY <1>5, <2>1, <3>2
  <2> QED
    BY <2>1, <2>2
<1>9. g = Def(g)
  BY <1>1, <1>7, <1>8
<1>10. \A f : f = Def(f) => f[0] = <<>> /\ \A k \in 1..n : f[k] = Put(f[k - 1], pieces[k])
  BY <1>1
<1> DEFINE u == CHOOSE f : f = Def(f)
<1>11. Stream(pieces) = u[Len(pieces)]
  BY DEF Stream
<1> HIDE DEF Def
<1>12. u = Def(u)
  BY <1>9
<1> HIDE DEF u
<1>13. u[0] = <<>> /\ \A k \in 1..n : u[k] = Put(u[k - 1], pieces[k])
  BY <1>10, <1>12
<1> DEFINE T == {k \in Nat : k <= n => u[k] = g[k]}
<1>14. 0 \in T
  BY <1>8, <1>13
<1>15. ASSUME NEW k \in Nat, k \in T PROVE k + 1 \in T
  <2>1. SUFFICES ASSUME k + 1 <= n PROVE u[k + 1] = g[k + 1]
    OBVIOUS
  <2>2. k + 1 \in 1..n /\ (k + 1) - 1 = k /\ u[k] = g[k]
    BY <1>15, <2>1
  <2> QED
    BY <1>8, <1>13, <2>2
<1> HIDE DEF T
<1>16. Nat \subseteq T
  BY <1>14, <1>15, NatSetInduction
<1>17. u[n] = g[n]
  BY <1>16 DEF T
<1> QED
  BY <1>1, <1>7, <1>8, <1>11, <1>17

(* The pieces are joined one by one.                                                   *)
LEMMA JoinedSteps ==
  ASSUME NEW pieces \in Seq(Piece)
  PROVE  \E g \in [0..Len(pieces) -> Seq(Character)] :
           /\ g[0] = <<>> /\ Joined(pieces) = g[Len(pieces)]
           /\ \A k \in 1..Len(pieces) : g[k] = g[k - 1] \o Shown(pieces[k])
<1> DEFINE step == [k \in 1..Len(pieces) |-> [x \in Seq(Character) |-> x \o Shown(pieces[k])]]
           Def(f) == [k \in 0..Len(pieces) |-> IF k = 0 THEN <<>> ELSE f[k - 1] \o Shown(pieces[k])]
<1>1. PICK n \in Nat : n = Len(pieces)
  OBVIOUS
<1>2. \A k \in 1..n : pieces[k] \in Piece
  <2> TAKE k \in 1..n
  <2> QED
    BY <1>1, ElementOfSeq
<1>3. \A k \in 1..n : \A x \in Seq(Character) : x \o Shown(pieces[k]) \in Seq(Character)
  BY <1>2, PieceShown
<1>4. step \in [1..n -> [Seq(Character) -> Seq(Character)]]
  BY <1>1, <1>3
<1>5. \A k \in 1..n : \A x \in Seq(Character) : step[k][x] = x \o Shown(pieces[k])
  BY <1>1
<1>6. <<>> \in Seq(Character)
  OBVIOUS
<1> HIDE DEF step
<1>7. PICK g \in [0..n -> Seq(Character)] : Iteration(g, <<>>, n, step)
  <2>1. \E g \in [0..n -> Seq(Character)] : Iteration(g, <<>>, n, step)
    <3>1. PICK e : e = <<>>
      OBVIOUS
    <3>2. \E g \in [0..n -> Seq(Character)] : Iteration(g, e, n, step)
      BY <1>4, <1>6, <3>1, Iterates
    <3> QED
      BY <3>1, <3>2
  <2> QED
    BY <2>1
<1>8. g[0] = <<>> /\ \A k \in 1..n : g[k] = g[k - 1] \o Shown(pieces[k])
  <2>1. g[0] = <<>> /\ \A k \in 1..n : g[k] = step[k][g[k - 1]]
    BY <1>7 DEF Iteration
  <2>2. ASSUME NEW k \in 1..n PROVE g[k] = g[k - 1] \o Shown(pieces[k])
    <3>1. k - 1 \in 0..n
      OBVIOUS
    <3>2. g[k - 1] \in Seq(Character)
      BY <1>7, <3>1
    <3> QED
      BY <1>5, <2>1, <3>2
  <2> QED
    BY <2>1, <2>2
<1>9. g = Def(g)
  BY <1>1, <1>7, <1>8
<1>10. ASSUME NEW f, f = Def(f)
       PROVE  f[0] = <<>> /\ \A k \in 1..n : f[k] = f[k - 1] \o Shown(pieces[k])
  <2>1. \A k \in 0..n : f[k] = IF k = 0 THEN <<>> ELSE f[k - 1] \o Shown(pieces[k])
    BY <1>1, <1>10
  <2>2. 0 \in 0..n /\ \A k \in 1..n : k \in 0..n /\ k # 0
    OBVIOUS
  <2> HIDE DEF Def
  <2>3. f[0] = <<>>
    BY <2>1, <2>2
  <2>4. ASSUME NEW k \in 1..n PROVE f[k] = f[k - 1] \o Shown(pieces[k])
    <3>1. k \in 0..n /\ k # 0
      BY <2>2
    <3> QED
      BY <2>1, <3>1, Zenon
  <2> QED
    BY <2>3, <2>4
<1> DEFINE u == CHOOSE f : f = Def(f)
<1>11. Joined(pieces) = u[Len(pieces)]
  BY DEF Joined
<1> HIDE DEF Def
<1>12. u = Def(u)
  BY <1>9
<1> HIDE DEF u
<1>13. u[0] = <<>> /\ \A k \in 1..n : u[k] = u[k - 1] \o Shown(pieces[k])
  BY <1>10, <1>12
<1> DEFINE T == {k \in Nat : k <= n => u[k] = g[k]}
<1>14. 0 \in T
  BY <1>8, <1>13
<1>15. ASSUME NEW k \in Nat, k \in T PROVE k + 1 \in T
  <2>1. SUFFICES ASSUME k + 1 <= n PROVE u[k + 1] = g[k + 1]
    OBVIOUS
  <2>2. k + 1 \in 1..n /\ (k + 1) - 1 = k /\ u[k] = g[k]
    BY <1>15, <2>1
  <2> QED
    BY <1>8, <1>13, <2>2
<1> HIDE DEF T
<1>16. Nat \subseteq T
  BY <1>14, <1>15, NatSetInduction
<1>17. u[n] = g[n]
  BY <1>16 DEF T
<1> QED
  BY <1>1, <1>7, <1>8, <1>11, <1>17

(* What a stream makes of its pieces has room for a character more, and is all of them when they *)
(* leave room for any number.                                                          *)
LEMMA StreamFacts ==
  ASSUME NEW pieces \in Seq(Piece)
  PROVE  /\ Stream(pieces) \in LineText
         /\ Len(Joined(pieces)) + MaxNumeric <= Size => Stream(pieces) = Joined(pieces)
<1>1. PICK n \in Nat : n = Len(pieces)
  OBVIOUS
<1>2. \A k \in 1..n : pieces[k] \in Piece
  <2> TAKE k \in 1..n
  <2> QED
    BY <1>1, ElementOfSeq
<1>3. PICK g \in [0..n -> LineText] :
        /\ g[0] = <<>> /\ Stream(pieces) = g[n]
        /\ \A k \in 1..n : g[k] = Put(g[k - 1], pieces[k])
  BY <1>1, StreamSteps
<1>4. PICK h \in [0..n -> Seq(Character)] :
        /\ h[0] = <<>> /\ Joined(pieces) = h[n]
        /\ \A k \in 1..n : h[k] = h[k - 1] \o Shown(pieces[k])
  BY <1>1, JoinedSteps
<1>5. \A k \in 0..n : g[k] \in LineText /\ h[k] \in Seq(Character) /\ Len(h[k]) \in Nat
  OBVIOUS
<1>6. g[n] \in LineText
  BY <1>5
<1>7. ASSUME Len(h[n]) + MaxNumeric <= Size PROVE g[n] = h[n]
  <2> DEFINE S == {m \in Nat : m <= n => Len(h[n - m]) + MaxNumeric <= Size}
             T == {k \in Nat : k <= n => g[k] = h[k]}
  <2>1. \A m \in Nat : m \in S
    <3>1. 0 \in S
      BY <1>7
    <3>2. ASSUME NEW m \in Nat, m \in S PROVE m + 1 \in S
      <4>1. SUFFICES ASSUME m + 1 <= n PROVE Len(h[n - (m + 1)]) + MaxNumeric <= Size
        OBVIOUS
      <4>2. PICK k \in 1..n : k = n - m
        BY <4>1
      <4>3. n - (m + 1) = k - 1 /\ k - 1 \in 0..n /\ Len(h[k]) + MaxNumeric <= Size
        BY <3>2, <4>1, <4>2
      <4>4. h[k] = h[k - 1] \o Shown(pieces[k]) /\ h[k - 1] \in Seq(Character)
            /\ Shown(pieces[k]) \in Seq(Character)
        BY <1>2, <1>4, <1>5, <4>3, PieceShown
      <4>5. Len(h[k]) = Len(h[k - 1]) + Len(Shown(pieces[k]))
            /\ Len(h[k - 1]) \in Nat /\ Len(Shown(pieces[k])) \in Nat
        BY <4>4
      <4> QED
        BY <4>3, <4>5, StreamSizes
    <3> HIDE DEF S
    <3> QED
      BY <3>1, <3>2, NatSetInduction
  <2>2. ASSUME NEW k \in 0..n PROVE Len(h[k]) + MaxNumeric <= Size
    <3>1. n - k \in Nat /\ n - k <= n /\ n - (n - k) = k
      OBVIOUS
    <3> QED
      BY <2>1, <3>1
  <2>3. 0 \in T
    BY <1>3, <1>4
  <2>4. ASSUME NEW k \in Nat, k \in T PROVE k + 1 \in T
    <3>1. SUFFICES ASSUME k + 1 <= n PROVE g[k + 1] = h[k + 1]
      OBVIOUS
    <3>2. k + 1 \in 1..n /\ (k + 1) - 1 = k /\ k \in 0..n /\ k + 1 \in 0..n /\ g[k] = h[k]
      BY <2>4, <3>1
    <3>3. g[k + 1] = Put(g[k], pieces[k + 1]) /\ h[k + 1] = g[k] \o Shown(pieces[k + 1])
      BY <1>3, <1>4, <3>2
    <3>4. g[k] \in LineText /\ g[k] \in Seq(Character) /\ pieces[k + 1] \in Piece
      BY <1>2, <1>5, <3>2 DEF LineText
    <3>5. Shown(pieces[k + 1]) \in Seq(Character)
      BY <3>4, PieceShown
    <3>6. Len(h[k + 1]) = Len(g[k]) + Len(Shown(pieces[k + 1]))
      BY <3>3, <3>4, <3>5
    <3>7. Len(g[k]) + Len(Shown(pieces[k + 1])) + MaxNumeric <= Size
      BY <2>2, <3>2, <3>6
    <3> QED
      BY <3>3, <3>4, <3>7, PutFacts
  <2> HIDE DEF T
  <2>5. n \in T
    BY <2>3, <2>4, NatSetInduction
  <2> QED
    BY <2>5 DEF T
<1> QED
  BY <1>3, <1>4, <1>6, <1>7

(* A new stream is empty.                                                              *)
LEMMA StreamOfNone == Stream(<<>>) = <<>> /\ <<>> \in Seq(Piece)
<1>1. PICK e : e = <<>>
  OBVIOUS
<1>2. e \in Seq(Piece) /\ Len(e) = 0
  BY <1>1
<1>3. Stream(e) = <<>>
  BY <1>2, StreamSteps
<1> QED
  BY <1>1, <1>2, <1>3

(* Texts of characters and small numbers are pieces of a line.                         *)
LEMMA CharsPieces ==
  /\ \A s \in Seq(Character) : Chars(s) \in Piece
  /\ \A c \in Character : Chars(<<c>>) \in Piece
  /\ \A v \in Nat : v < NumberBound => Number(v) \in Piece
<1>1. ASSUME NEW s \in Seq(Character) PROVE Chars(s) \in Piece
  BY DEF Chars, Piece
<1>2. ASSUME NEW c \in Character PROVE Chars(<<c>>) \in Piece
  <2>1. <<c>> \in Seq(Character)
    OBVIOUS
  <2> QED
    BY <1>1, <2>1
<1>3. ASSUME NEW v \in Nat, v < NumberBound PROVE Number(v) \in Piece
  <2>1. v \in (-NumberBound + 1)..(NumberBound - 1)
    BY <1>3, StreamSizes
  <2> QED
    BY <2>1 DEF Number, Piece
<1> QED
  BY <1>1, <1>2, <1>3

(* Texts put together are texts.                                                       *)
LEMMA Texts ==
  /\ \A c \in Character : <<c>> \in Seq(Character)
  /\ \A s, w \in Seq(Character) : s \o w \in Seq(Character)
<1>1. ASSUME NEW c \in Character PROVE <<c>> \in Seq(Character)
  OBVIOUS
<1>2. ASSUME NEW s \in Seq(Character), NEW w \in Seq(Character) PROVE s \o w \in Seq(Character)
  BY ConcatProperties
<1> QED
  BY <1>1, <1>2

(* So is the time.                                                                     *)
LEMMA TimePieces ==
  ASSUME NEW at \in Times
  PROVE  TimePiece(at) \in Piece
<1>1. at \in Nat /\ PerSecond \in Nat \ {0}
  BY LineAssumption
<1>2. (at \div PerSecond) \in Int /\ (at % PerSecond) \in Int
  BY <1>1
<1>3. "." \in Character /\ " " \in Character /\ "0" \in Character
  BY TableFacts DEF Character
<1>4. convert(at \div PerSecond) \in Seq(Character) /\ convert(at % PerSecond) \in Seq(Character)
  BY <1>2, NumberShown
<1>5. Padded(at % PerSecond) \in Seq(Character)
  <2> DEFINE s == convert(at % PerSecond)
  <2>1. s \in Seq(Character) /\ <<"0">> \in Seq(Character)
    BY <1>3, <1>4, Texts
  <2>2. Padded(at % PerSecond) \in {s, <<"0">> \o s}
    BY DEF Padded
  <2> HIDE DEF s
  <2>3. <<"0">> \o s \in Seq(Character)
    BY <2>1, Texts
  <2> QED
    BY <2>1, <2>2, <2>3
<1> DEFINE a == convert(at \div PerSecond)
           b == Padded(at % PerSecond)
<1>6. TimePiece(at) = Chars(a \o <<".">> \o b \o <<" ">>)
  BY DEF TimePiece
<1> HIDE DEF a, b
<1>7. a \in Seq(Character) /\ b \in Seq(Character)
  BY <1>4, <1>5 DEF a, b
<1>8. a \o <<".">> \o b \o <<" ">> \in Seq(Character)
  <2>1. <<".">> \in Seq(Character) /\ <<" ">> \in Seq(Character)
    BY <1>3, Texts
  <2>2. a \o <<".">> \in Seq(Character)
    BY <1>7, <2>1, Texts
  <2>3. a \o <<".">> \o b \in Seq(Character)
    BY <1>7, <2>2, Texts
  <2> QED
    BY <2>1, <2>3, Texts
<1> QED
  BY <1>6, <1>8, CharsPieces

(* All that Logger and its caller put into a line is pieces.                           *)
LEMMA LinePieces ==
  ASSUME NEW t \in Threads, NEW level \in DOMAIN Levels, NEW at \in Times,
         NEW message \in Messages
  PROVE  Begin(t, level, at) \o message \o Finish \in Seq(Piece)
<1>1. \A c \in {".", " ", "f", " - ", "file", ":", "\n"} : c \in Character
  BY DEF Character
<1>2. level \in Character
  BY DEF Character
<1>3. \A c \in Character : Chars(<<c>>) \in Piece
  BY CharsPieces
<1>4. Number(t) \in Piece /\ Number(7) \in Piece
  <2>1. t \in Nat /\ t < NumberBound
    BY ThreadsAssumption, WidthAssumption DEF Threads
  <2>2. 7 < NumberBound
    BY StreamSizes
  <2> QED
    BY <2>1, <2>2, CharsPieces
<1> DEFINE head == <<TimePiece(at), Number(t), Chars(<<" ">>), Chars(<<level>>)>>
           place == IF Levels[level] <= Levels.DEBUG THEN <<Chars(<<"f">>), Chars(<<" ">>)>>
                                                     ELSE <<>>
<1>5. head \in Seq(Piece)
  <2>1. PICK a \in Piece, b \in Piece, c \in Piece, d \in Piece :
          a = TimePiece(at) /\ b = Number(t) /\ c = Chars(<<" ">>) /\ d = Chars(<<level>>)
    BY <1>1, <1>2, <1>3, <1>4, TimePieces
  <2>2. <<a, b, c, d>> \in Seq(Piece)
    OBVIOUS
  <2> QED
    BY <2>1, <2>2
<1>6. place \in Seq(Piece)
  <2>1. PICK a \in Piece, b \in Piece : a = Chars(<<"f">>) /\ b = Chars(<<" ">>)
    BY <1>1, <1>3
  <2>2. <<a, b>> \in Seq(Piece) /\ <<>> \in Seq(Piece)
    OBVIOUS
  <2> QED
    BY <2>1, <2>2
<1>7. Finish \in Seq(Piece)
  <2>1. PICK a \in Piece, b \in Piece, c \in Piece, d \in Piece, e \in Piece :
          a = Chars(<<" - ">>) /\ b = Chars(<<"file">>) /\ c = Chars(<<":">>) /\ d = Number(7)
          /\ e = Chars(<<"\n">>)
    BY <1>1, <1>3, <1>4
  <2>2. <<a, b, c, d, e>> \in Seq(Piece)
    OBVIOUS
  <2> QED
    BY <2>1, <2>2 DEF Finish
<1>8. message \in Seq(Piece)
  BY WidthAssumption
<1>9. Begin(t, level, at) = head \o place
  BY DEF Begin
<1> HIDE DEF head, place
<1> QED
  BY <1>5, <1>6, <1>7, <1>8, <1>9

(* Only a new line and its end change the line.                                        *)
LEMMA LineMade ==
  ASSUME LineInv, [LineNext]_lineVars
  PROVE  LineInv'
<1>1. ASSUME line' = line PROVE LineInv'
  BY <1>1 DEF LineInv
<1>2. ASSUME NEW t \in Threads, NEW pieces \in Seq(Piece),
             line' = [line EXCEPT ![t] = [pieces |-> pieces, text |-> Stream(pieces)]]
      PROVE  LineInv'
  <2>1. Stream(pieces) \in Seq(Character)
    BY StreamFacts DEF LineText
  <2> QED
    BY <1>2, <2>1 DEF LineInv
<1>3. ASSUME NEW t \in Threads, MakeLine(t) PROVE LineInv'
  <2>1. ASSUME NEW level \in DOMAIN Levels, NEW at \in Times, NEW message \in Messages,
               line' = [line EXCEPT ![t] =
                          [pieces |-> Begin(t, level, at) \o message \o Finish,
                           text |-> Stream(Begin(t, level, at) \o message \o Finish)]]
        PROVE  LineInv'
    <3>1. PICK pieces \in Seq(Piece) : pieces = Begin(t, level, at) \o message \o Finish
      BY LinePieces
    <3> QED
      BY <1>2, <2>1, <3>1
  <2> QED
    BY <1>1, <1>3, <2>1 DEF MakeLine
<1>4. ASSUME NEW t \in Threads, Output(t) PROVE LineInv'
  <2>1. PICK none \in Seq(Piece) : none = <<>> /\ Stream(none) = <<>>
    BY StreamOfNone
  <2>2. line' = [line EXCEPT ![t] = [pieces |-> none, text |-> Stream(none)]]
    BY <1>4, <2>1 DEF Output, NoLine
  <2> QED
    BY <1>2, <2>2
<1>5. ASSUME UNCHANGED lineVars PROVE line' = line
  BY <1>5 DEF lineVars
<1> QED
  BY <1>1, <1>3, <1>4, <1>5 DEF LineNext, MakeNone, Step, Locking, Spurious

(* LogStream.h: what a thread holds of its line is what the stream made of its pieces, whatever *)
(* the other threads do.                                                               *)
THEOREM LineInvariant == LineSpec => []LineInv
<1>1. LineInit => LineInv
  <2>1. NoLine \in [pieces : Seq(Piece), text : Seq(Character)]
        /\ NoLine.text = Stream(NoLine.pieces)
    <3>1. PICK none : none = <<>>
      OBVIOUS
    <3>2. none \in Seq(Piece) /\ none \in Seq(Character) /\ Stream(none) = none
      BY <3>1, StreamOfNone
    <3>3. NoLine = [pieces |-> none, text |-> none]
      BY <3>1 DEF NoLine
    <3> QED
      BY <3>2, <3>3
  <2> HIDE DEF NoLine
  <2> QED
    BY <2>1 DEF LineInit, LineInv
<1>2. LineInv /\ [LineNext]_lineVars => LineInv'
  BY LineMade
<1> QED
  BY <1>1, <1>2, PTL DEF LineSpec

(* FixedBuffer.h:36, LogStream.cc:20: a line never fills its buffer; every number and pointer in *)
(* it reads back, the least integer too; and with the room a number asks for the line is whole. *)
THEOREM LinesReadable == LineSpec => []LinesReadBack
<1>1. LineInv => LinesReadBack
  <2> SUFFICES ASSUME LineInv, NEW t \in Threads
               PROVE  /\ Len(line[t].text) < Size
                      /\ \A k \in DOMAIN line[t].pieces :
                           line[t].pieces[k].kind # "chars" => ReadsBack(line[t].pieces[k])
                      /\ Len(Joined(line[t].pieces)) + MaxNumeric <= Size
                           => line[t].text = Joined(line[t].pieces)
    BY DEF LinesReadBack
  <2>1. PICK pieces \in Seq(Piece) : pieces = line[t].pieces /\ line[t].text = Stream(pieces)
    BY DEF LineInv
  <2>2. ASSUME NEW k \in DOMAIN pieces, pieces[k].kind # "chars" PROVE ReadsBack(pieces[k])
    <3>1. pieces[k] \in Piece
      OBVIOUS
    <3> QED
      BY <2>2, <3>1, PieceShown
  <2> QED
    BY <2>1, <2>2, StreamFacts DEF LineText
<1> QED
  BY <1>1, LineInvariant, PTL

================================================================================
