--------------------------- MODULE WorkloadProofs ---------------------------
(***************************************************************************)
(* What a replay keeps and leaves behind, for workloads of any length,     *)
(* any keys, limit and signals.  runWorkload uses its buffers as Buffer    *)
(* allows, so what BufferProofs proves of them holds of it.                *)
(***************************************************************************)
EXTENDS Workload, BufferProofs, MaxTheorems, FiniteSetTheorems

-----------------------------------------------------------------------------
(* runWorkload is a program that uses Buffer.                               *)

LEMMA WorkloadStepIsBufferStep == [WorkloadNext]_allVars => [BufferNext]_bufferVars
<1> SUFFICES ASSUME WorkloadNext PROVE [BufferNext]_bufferVars
  BY DEF allVars, bufferVars
<1>0. buffer \in Buffers /\ stats \in Buffers
  BY WorkloadAssumption
<1> USE <1>0 DEF BufferNext
<1>1. CASE BufferStep \/ SignalStep
  BY <1>1
<1>2. CASE OpenLogs
  BY <1>2 DEF OpenLogs
<1>3. CASE PrintExperimentalSetup \/ OpenDB
  BY <1>3 DEF PrintExperimentalSetup, OpenDB
<1>4. CASE ReadLine \/ Operate \/ NewIteratorFails
  BY <1>4 DEF ReadLine, Operate, NewIteratorFails
<1>5. CASE LogScanError \/ LogTime \/ LogNoMatch
  BY <1>5 DEF LogScanError, LogTime, LogNoMatch
<1>6. CASE UpdateProgressBar
  BY <1>6 DEF UpdateProgressBar
<1>7. CASE LogSummary \/ CloseDB \/ PrintRocksDBPerfStats
  BY <1>7 DEF LogSummary, CloseDB, PrintRocksDBPerfStats
<1>8. CASE FlushLogs \/ DestroyLogs \/ Return
  BY <1>8 DEF FlushLogs, FlushIfAny, DestroyLogs, Return
<1> QED
  BY <1>1, <1>2, <1>3, <1>4, <1>5, <1>6, <1>7, <1>8 DEF WorkloadNext, MainThread, runWorkload

\* Every behaviour of runWorkload is one of its buffers: it constructs, fills
\* and destroys them only in the ways Buffer is proved for.
THEOREM WorkloadUsesBuffers == WorkloadSpec => BufferSpec
<1>1. WorkloadInit => BufferInit
  BY DEF WorkloadInit
<1> QED BY <1>1, WorkloadStepIsBufferStep, PTL DEF WorkloadSpec, BufferSpec

-----------------------------------------------------------------------------
(* The timings.                                                             *)

\* Each operation that was timed has its entry in stats, but the one at hand
TimedOnce ==
    /\ timed \in Nat
    /\ timed = IF step \in {"time", "scanError"} THEN logged[stats] + 1 ELSE logged[stats]

LEMMA TimedOnceHolds == WorkloadSpec => []TimedOnce
<1>1. WorkloadInit => TimedOnce
  BY WorkloadAssumption DEF WorkloadInit, BufferInit, TimedOnce
<1>2. BufferInv /\ TimedOnce /\ [WorkloadNext]_allVars => TimedOnce'
  <2> SUFFICES ASSUME BufferInv, TimedOnce, [WorkloadNext]_allVars PROVE TimedOnce'
    OBVIOUS
  <2>0. /\ logged \in [Buffers -> Nat] /\ buffer \in Buffers /\ stats \in Buffers
        /\ buffer # stats
    BY WorkloadAssumption, BufferAssumption DEF BufferInv, ControlOK
  <2> USE <2>0 DEF TimedOnce, At, GoOn, bufferVars, workloadVars
  <2>1. CASE (BufferStep \/ SignalStep) /\ UNCHANGED workloadVars
    <3>1. UNCHANGED logged
      BY <2>1 DEF BufferStep, SignalStep, LockMutex, Register, RegisterSignals, TestLimit, Write,
         Clear, Unregister, Interrupt, InterruptHandler, HandlerLock, HandlerFlush, HandlerExit
    <3> QED BY <2>1, <3>1
  <2>2. CASE OpenLogs
    BY <2>2 DEF OpenLogs, Construct
  <2>3. CASE PrintExperimentalSetup \/ OpenDB
    BY <2>3 DEF PrintExperimentalSetup, OpenDB, Log, Abort
  <2>4. CASE ReadLine \/ NewIteratorFails
    BY <2>4 DEF ReadLine, NewIteratorFails, Abort
  <2>5. CASE Operate
    <3>1. logged' = logged /\ step = "operate"
      BY <2>5 DEF Operate
    <3>2. \/ timed' = timed + 1 /\ step' \in {"time", "scanError"}
          \/ timed' = timed /\ step' = "progress"
      BY <2>5 DEF Operate, Fail, IsTimed
    <3> QED BY <3>1, <3>2
  <2>6. CASE LogScanError \/ LogNoMatch
    BY <2>6 DEF LogScanError, LogNoMatch, Log
  <2>7. CASE LogTime
    BY <2>7 DEF LogTime, Log
  <2>8. CASE UpdateProgressBar
    BY <2>8 DEF UpdateProgressBar, Abort
  <2>9. CASE LogSummary \/ CloseDB \/ PrintRocksDBPerfStats
    BY <2>9 DEF LogSummary, CloseDB, PrintRocksDBPerfStats, Log, Abort
  <2>10. CASE FlushLogs
    BY <2>10 DEF FlushLogs, FlushIfAny, Flush
  <2>11. CASE DestroyLogs \/ Return
    BY <2>11 DEF DestroyLogs, Destroy, Return
  <2>12. CASE UNCHANGED allVars
    BY <2>12 DEF allVars
  <2> QED
    BY <2>1, <2>2, <2>3, <2>4, <2>5, <2>6, <2>7, <2>8, <2>9, <2>10, <2>11, <2>12
    DEF WorkloadNext, MainThread, runWorkload
<1> QED BY <1>1, <1>2, WorkloadUsesBuffers, BufferInvariant, PTL DEF WorkloadSpec

LEMMA EntriesCover ==
  ASSUME NEW n \in Nat, NEW k \in 0 .. n, NEW m \in 1 .. k + 1
  PROVE  1 .. n \subseteq ToSet(Entries(1, k) \o Entries(m, n))
<1> DEFINE text == Entries(1, k) \o Entries(m, n)
<1>1. DOMAIN text = 1 .. k + (n - m + 1)
  BY DEF Entries
<1>2. \A i \in 1 .. k : text[i] = i
  BY DEF Entries
<1>3. \A i \in 1 .. n - m + 1 : text[k + i] = m + i - 1
  BY DEF Entries
<1> HIDE DEF text
<1> SUFFICES ASSUME NEW e \in 1 .. n PROVE \E i \in DOMAIN text : text[i] = e
  BY DEF ToSet, text
<1>4. CASE e <= k
  BY <1>1, <1>2, <1>4
<1>5. CASE e > k
  <2>1. e - m + 1 \in 1 .. n - m + 1 /\ k + (e - m + 1) \in DOMAIN text
    BY <1>1, <1>5
  <2>2. text[k + (e - m + 1)] = m + (e - m + 1) - 1
    BY <1>3, <2>1
  <2> QED BY <2>1, <2>2
<1> QED BY <1>4, <1>5

\* A signal that ends the replay of a workload of any length, at whatever step,
\* leaves in stats.log the timing of every operation but perhaps the last.
THEOREM TimingsAreSaved == WorkloadSpec => []TimingsSurviveSignal
<1>1. BufferInv /\ TimedOnce /\ LogsSurviveSignal => TimingsSurviveSignal
  <2> SUFFICES ASSUME BufferInv, TimedOnce, LogsSurviveSignal, status = "exited"
               PROVE  1 .. timed - 1 \subseteq ToSet(file[stats])
    BY DEF TimingsSurviveSignal
  <2>1. stats \in Buffers /\ logged[stats] \in Nat /\ timed - 1 <= logged[stats] /\ timed \in Nat
    BY WorkloadAssumption, BufferAssumption DEF BufferInv, ControlOK, TimedOnce
  <2>2. CASE stats \notin instances \cup gone
    BY <2>1, <2>2 DEF BufferInv, NothingLost, Kept, Fresh
  <2>3. CASE stats \in instances
    <3>1. PICK k \in 0 .. logged[stats] : \E m \in 1 .. k + 1 :
            file[stats] = Entries(1, k) \o Entries(m, logged[stats])
      BY <2>3 DEF LogsSurviveSignal
    <3>2. 1 .. logged[stats] \subseteq ToSet(file[stats])
      BY <2>1, <3>1, EntriesCover
    <3> QED BY <2>1, <3>2
  <2>4. CASE stats \in gone
    <3>1. file[stats] = Entries(1, logged[stats])
      BY <2>1, <2>4 DEF BufferInv, NothingLost, Kept, Complete
    <3>2. 1 .. logged[stats] \subseteq ToSet(Entries(1, logged[stats]))
      BY <2>1 DEF Entries, ToSet
    <3> QED BY <2>1, <3>1, <3>2
  <2> QED BY <2>2, <2>3, <2>4
<1>2. WorkloadSpec => []BufferInv /\ []LogsSurviveSignal
  BY WorkloadUsesBuffers, BufferInvariant, SignalsLoseNothing
<1> QED BY <1>1, <1>2, TimedOnceHolds, PTL

-----------------------------------------------------------------------------
(* The replay.                                                              *)

ReplayVarsOK ==
    /\ workload \in Seq(Line) /\ ith_op \in 0 .. Len(workload)
    /\ step \in {"openLog", "openStats", "setup", "openDb", "readLine", "operate",
                 "scanError", "time", "progress", "summary", "assert", "assertClose",
                 "flushLog", "flushStats", "destroyStats", "destroyLog", "return", "done"}
    /\ s \in {"OK", "NotFound", "IOError"}
    /\ db \subseteq Keys /\ found \subseteq Keys

\* How many lines have been executed
Reached ==
    IF step \in {"scanError", "time"} \/ (step = "progress" /\ status # "aborted")
    THEN ith_op + 1 ELSE ith_op

WritersTo(n, key) ==
    {i \in (1 .. n) \ failed : workload[i].op \in {"I", "U", "D", "R"} /\ key \in workload[i].keys}

\* The last of the lines that wrote a key put it there or removed it
KeysAfter(n) ==
    \A key \in Keys :
        \/ WritersTo(n, key) = {} /\ (key \in db <=> key \in found)
        \/ \E last \in WritersTo(n, key) :
              /\ \A i \in WritersTo(n, key) : i <= last
              /\ key \in db <=> workload[last].op \in {"I", "U"}

SettersTo(n) == {i \in 1 .. n : workload[i].op \in {"I", "U", "D", "P", "R"}}

\* The status is that of the last line that sets it
StatusAfter(n) ==
    s = "OK" =>
        \A last \in SettersTo(n) : (\A i \in SettersTo(n) : i <= last) =>
            /\ last \notin failed
            /\ workload[last].op = "P" => workload[last].keys \subseteq db

TimedTo(n) == {i \in 1 .. n : IsTimed(workload[i].op)}

ReplayedTo(n) ==
    /\ n \in 0 .. Len(workload)
    /\ failed \subseteq 1 .. n
    /\ \A i \in 1 .. n : workload[i].op # "empty"
    /\ timed = Cardinality(TimedTo(n))
    /\ KeysAfter(n)
    /\ StatusAfter(n)

\* A line that is being executed is there, and after the loop none is left
AtLine ==
    /\ step \in {"operate", "scanError", "time", "progress"} /\ status # "aborted" =>
         ith_op < Len(workload) /\ Current.op # "empty"
    /\ step \in {"summary", "assert", "assertClose", "flushLog", "flushStats", "destroyStats",
                 "destroyLog", "return", "done"} /\ ith_op < Len(workload) =>
         Current.op = "empty"
    /\ step \in {"flushLog", "flushStats", "destroyStats", "destroyLog", "return", "done"} =>
         s = "OK"

\* A log whose destruction began is written, or being written
Gone(b) == b \in gone \/ (at = b /\ main \in {"lastWrite", "lastClear", "unregister", "remove"})

LogsGone ==
    /\ step \in {"destroyLog", "return", "done"} => Gone(stats)
    /\ step \in {"return", "done"} => stats \in gone /\ Gone(buffer)
    /\ step = "done" => main = "idle"

ReplayInv == ReplayVarsOK /\ ReplayedTo(Reached) /\ AtLine /\ LogsGone

LEMMA ReplayInit == WorkloadInit => ReplayInv
<1> SUFFICES ASSUME WorkloadInit PROVE ReplayInv
  OBVIOUS
<1> USE DEF WorkloadInit
<1>1. PICK n \in 0 .. MaxLines : workload \in [1 .. n -> Line]
  OBVIOUS
<1>2. workload \in Seq(Line) /\ Len(workload) \in Nat
  BY <1>1, WorkloadAssumption
<1>3. ReplayVarsOK /\ AtLine /\ LogsGone
  BY <1>2 DEF ReplayVarsOK, AtLine, LogsGone
<1>4. TimedTo(0) = {} /\ SettersTo(0) = {} /\ \A key \in Keys : WritersTo(0, key) = {}
  BY DEF TimedTo, SettersTo, WritersTo
<1>5. Cardinality({}) = 0
  BY FS_EmptySet
<1>6. ReplayedTo(0)
  BY <1>2, <1>4, <1>5 DEF ReplayedTo, KeysAfter, StatusAfter
<1>7. Reached = 0
  BY DEF Reached
<1> QED BY <1>3, <1>6, <1>7 DEF ReplayInv

\* Steps that execute no line
LEMMA ReplayedSame ==
  ASSUME NEW n, ReplayedTo(n), UNCHANGED <<workload, db, found, failed, timed, s>>
  PROVE  ReplayedTo(n)'
  BY DEF ReplayedTo, KeysAfter, StatusAfter, WritersTo, SettersTo, TimedTo

LEMMA CurrentIsALine ==
  ASSUME ReplayVarsOK, ith_op < Len(workload)
  PROVE  /\ ith_op + 1 \in 1 .. Len(workload)
         /\ Current = workload[ith_op + 1]
         /\ Current.op \in AllOperations /\ Current.keys \subseteq Keys
<1>1. ith_op + 1 \in 1 .. Len(workload) /\ Current \in Line
  BY DEF ReplayVarsOK, Current
<1> QED BY <1>1, WorkloadAssumption DEF Line, Current

\* One more line, and its effect on the count of the timed ones
LEMMA TimedToNext ==
  ASSUME NEW n \in Nat, timed = Cardinality(TimedTo(n))
  PROVE  Cardinality(TimedTo(n + 1)) = IF IsTimed(workload[n + 1].op) THEN timed + 1 ELSE timed
<1>1. IsFiniteSet(TimedTo(n)) /\ n + 1 \notin TimedTo(n)
  <2>1. IsFiniteSet(1 .. n)
    BY FS_Interval
  <2>2. TimedTo(n) \subseteq 1 .. n
    BY DEF TimedTo
  <2> QED BY <2>1, <2>2, FS_Subset
<1>2. CASE IsTimed(workload[n + 1].op)
  <2>1. TimedTo(n + 1) = TimedTo(n) \cup {n + 1}
    BY <1>2 DEF TimedTo
  <2> QED BY <1>1, <1>2, <2>1, FS_AddElement
<1>3. CASE ~IsTimed(workload[n + 1].op)
  <2>1. TimedTo(n + 1) = TimedTo(n)
    BY <1>3 DEF TimedTo
  <2> QED BY <1>3, <2>1
<1> QED BY <1>2, <1>3

\* A line that writes nothing and sets no status
LEMMA ReplayedNoMatch ==
  ASSUME NEW n \in Nat, ReplayedTo(n), n + 1 <= Len(workload),
         workload[n + 1].op = "other",
         UNCHANGED <<workload, db, found, failed, timed, s>>
  PROVE  ReplayedTo(n + 1)'
<1>1. SettersTo(n + 1) = SettersTo(n)
  BY DEF SettersTo
<1>2. \A key \in Keys : WritersTo(n + 1, key) = WritersTo(n, key)
  BY DEF WritersTo
<1>3. Cardinality(TimedTo(n + 1)) = timed
  BY TimedToNext DEF ReplayedTo, IsTimed
<1>4. ReplayedTo(n + 1)
  BY <1>1, <1>2, <1>3 DEF ReplayedTo, KeysAfter, StatusAfter
<1> QED BY <1>4, ReplayedSame

\* A line that RocksDB executes
LEMMA ReplayedOperation ==
  ASSUME NEW n \in Nat, n = ith_op,
         ReplayVarsOK, ReplayedTo(n), ith_op < Len(workload),
         Current.op \notin {"other", "empty"},
         db' = Applied(Current), s' = StatusOf(Current),
         timed' = IF IsTimed(Current.op) THEN timed + 1 ELSE timed,
         UNCHANGED <<workload, found, failed>>
  PROVE  ReplayedTo(n + 1)'
<1> DEFINE new == n + 1
           line == workload[new]
<1>1. new = n + 1 /\ new \in 1 .. Len(workload) /\ Current = line
  BY CurrentIsALine DEF ReplayVarsOK
<1>2. line.op \in {"I", "U", "D", "P", "S", "R"}
  BY <1>1, CurrentIsALine DEF AllOperations
<1>3. new \notin failed
  BY <1>1 DEF ReplayedTo
<1> HIDE DEF new, line
<1>4. timed' = Cardinality(TimedTo(new)) /\ TimedTo(new)' = TimedTo(new)
  BY <1>1, TimedToNext DEF ReplayedTo, TimedTo, line
<1>5. KeysAfter(new)'
  <2> SUFFICES ASSUME NEW key \in Keys
               PROVE  \/ WritersTo(new, key)' = {} /\ (key \in db' <=> key \in found')
                      \/ \E last \in WritersTo(new, key)' :
                            /\ \A i \in WritersTo(new, key)' : i <= last
                            /\ key \in db' <=> workload'[last].op \in {"I", "U"}
    BY DEF KeysAfter
  <2>1. WritersTo(new, key)' =
          IF line.op \in {"I", "U", "D", "R"} /\ key \in line.keys
          THEN WritersTo(n, key) \cup {new} ELSE WritersTo(n, key)
    BY <1>1, <1>3 DEF WritersTo, line
  <2>2. \A i \in WritersTo(n, key) : i <= n /\ i \in Nat
    BY <1>1 DEF WritersTo
  <2>3. CASE line.op \in {"I", "U", "D", "R"} /\ key \in line.keys
    <3>1. key \in db' <=> line.op \in {"I", "U"}
      BY <1>1, <2>3 DEF Applied
    <3>2. \A i \in WritersTo(new, key)' : i <= new
      BY <1>1, <2>1, <2>2, <2>3
    <3> QED BY <2>1, <2>3, <3>1, <3>2 DEF line
  <2>4. CASE ~(line.op \in {"I", "U", "D", "R"} /\ key \in line.keys)
    <3>1. key \in db' <=> key \in db
      BY <1>1, <1>2, <2>4 DEF Applied
    <3>2. WritersTo(new, key)' = WritersTo(n, key)
      BY <2>1, <2>4
    <3> QED BY <3>1, <3>2 DEF ReplayedTo, KeysAfter
  <2> QED BY <2>3, <2>4
<1>6. StatusAfter(new)'
  <2> SUFFICES ASSUME s' = "OK", NEW last \in SettersTo(new), \A i \in SettersTo(new) : i <= last
               PROVE  last \notin failed /\ (workload[last].op = "P" => workload[last].keys \subseteq db')
    BY DEF StatusAfter, SettersTo
  <2>1. CASE line.op = "S"
    <3>1. SettersTo(new) = SettersTo(n)
      BY <1>1, <2>1 DEF SettersTo, line
    <3>2. db' = db /\ s = "OK"
      BY <1>1, <2>1 DEF Applied, StatusOf
    <3> QED BY <3>1, <3>2 DEF ReplayedTo, StatusAfter
  <2>2. CASE line.op # "S"
    <3>1. new \in SettersTo(new) /\ \A i \in SettersTo(new) : i <= new /\ i \in Nat
      BY <1>1, <1>2, <2>2 DEF SettersTo, line
    <3>2. last = new
      BY <1>1, <3>1
    <3>3. line.op = "P" => db' = db /\ line.keys \subseteq db
      BY <1>1, <2>2 DEF Applied, StatusOf
    <3> QED BY <1>3, <3>2, <3>3 DEF line
  <2> QED BY <2>1, <2>2
<1>7. \A i \in 1 .. new : workload[i].op # "empty"
  BY <1>1, <1>2 DEF ReplayedTo, line
<1>8. new \in 0 .. Len(workload) /\ failed \subseteq 1 .. new
  BY <1>1 DEF ReplayedTo
<1>9. ReplayedTo(new)'
  BY <1>4, <1>5, <1>6, <1>7, <1>8 DEF ReplayedTo
<1> QED BY <1>9 DEF new

\* A line that RocksDB fails
LEMMA ReplayedFailure ==
  ASSUME NEW n \in Nat, n = ith_op,
         ReplayVarsOK, ReplayedTo(n), ith_op < Len(workload),
         Current.op \notin {"other", "empty"},
         db' = db, failed' = failed \cup {n + 1},
         s' = IF Current.op = "S" THEN s ELSE "IOError",
         timed' = IF IsTimed(Current.op) THEN timed + 1 ELSE timed,
         UNCHANGED <<workload, found>>
  PROVE  ReplayedTo(n + 1)'
<1> DEFINE new == n + 1
           line == workload[new]
<1>1. new = n + 1 /\ new \in 1 .. Len(workload) /\ Current = line
  BY CurrentIsALine DEF ReplayVarsOK
<1>2. line.op # "empty"
  BY <1>1
<1> HIDE DEF new, line
<1>3. timed' = Cardinality(TimedTo(new)) /\ TimedTo(new)' = TimedTo(new)
  BY <1>1, TimedToNext DEF ReplayedTo, TimedTo, line
<1>4. KeysAfter(new)'
  <2>1. failed' = failed \cup {new}
    BY DEF new
  <2>2. \A key \in Keys : WritersTo(new, key)' = WritersTo(n, key)
    BY <1>1, <2>1 DEF WritersTo
  <2> QED BY <2>2 DEF ReplayedTo, KeysAfter
<1>5. StatusAfter(new)'
  <2> SUFFICES ASSUME s' = "OK" PROVE StatusAfter(new)'
    BY DEF StatusAfter
  <2>1. line.op = "S" /\ s = "OK"
    BY <1>1
  <2>2. SettersTo(new)' = SettersTo(n) /\ \A i \in SettersTo(n) : i # new
    BY <1>1, <2>1 DEF SettersTo, line
  <2>3. failed' = failed \cup {new}
    BY DEF new
  <2> QED BY <2>1, <2>2, <2>3 DEF ReplayedTo, StatusAfter
<1>6. \A i \in 1 .. new : workload[i].op # "empty"
  BY <1>1, <1>2 DEF ReplayedTo, line
<1>7. new \in 0 .. Len(workload) /\ failed' \subseteq 1 .. new
  BY <1>1 DEF ReplayedTo, new
<1>8. ReplayedTo(new)'
  BY <1>3, <1>4, <1>5, <1>6, <1>7 DEF ReplayedTo
<1> QED BY <1>8 DEF new

\* The steps inside a buffer and of signals
LEMMA BufferStepsKeepReplay ==
  ASSUME BufferInv, ReplayInv, UNCHANGED workloadVars, BufferStep \/ SignalStep
  PROVE  ReplayInv'
<1> USE DEF workloadVars
<1>0. status' # "aborted" /\ status # "aborted"
  BY DEF BufferStep, SignalStep, LockMutex, Register, RegisterSignals, TestLimit, Write, Clear,
     Unregister, Interrupt, InterruptHandler, HandlerLock, HandlerFlush, HandlerExit, MainRuns
<1>1. ReplayVarsOK' /\ AtLine'
  BY <1>0 DEF ReplayInv, ReplayVarsOK, AtLine, Current
<1>2. Reached' = Reached
  BY <1>0 DEF Reached
<1>3. ReplayedTo(Reached)'
  <2> DEFINE n == Reached
  <2>1. ReplayedTo(n)
    BY DEF ReplayInv
  <2> HIDE DEF n
  <2>2. \A m : ReplayedTo(m) => ReplayedTo(m)'
    BY ReplayedSame
  <2> QED BY <1>2, <2>1, <2>2 DEF n
<1>4. /\ gone \subseteq gone'
      /\ \A b : Gone(b) => Gone(b)'
      /\ main = "idle" => main' = "idle"
  BY DEF BufferStep, SignalStep, LockMutex, Register, RegisterSignals, TestLimit, Write, Clear,
     Unregister, Interrupt, InterruptHandler, HandlerLock, HandlerFlush, HandlerExit, Gone, BufferInv,
     HeldByOne, MainRuns
<1>5. LogsGone'
  BY <1>4 DEF ReplayInv, LogsGone
<1> QED BY <1>1, <1>3, <1>5 DEF ReplayInv

\* The steps of runWorkload that execute no line
LEMMA OtherStepsKeepReplay ==
  ASSUME ReplayInv, UNCHANGED <<workload, db, found, failed, timed>>,
         Reached' = Reached, s' = s \/ (s = "OK" /\ s' = "IOError")
  PROVE  ReplayedTo(Reached)'
<1>1. \A m : ReplayedTo(m) => ReplayedTo(m)'
  <2>1. CASE s' = s
    BY <2>1, ReplayedSame
  <2>2. CASE s' = "IOError"
    BY <2>2 DEF ReplayedTo, KeysAfter, StatusAfter, WritersTo, TimedTo
  <2> QED BY <2>1, <2>2
<1> DEFINE n == Reached
<1>2. ReplayedTo(n)
  BY DEF ReplayInv
<1> HIDE DEF n
<1> QED BY <1>1, <1>2 DEF n

LEMMA ReplayStep == BufferInv /\ ReplayInv /\ [WorkloadNext]_allVars => ReplayInv'
<1> SUFFICES ASSUME BufferInv, ReplayInv, [WorkloadNext]_allVars PROVE ReplayInv'
  OBVIOUS
<1>0. /\ ReplayVarsOK /\ ReplayedTo(Reached) /\ AtLine /\ LogsGone
      /\ workload \in Seq(Line) /\ Len(workload) \in Nat /\ ith_op \in 0 .. Len(workload)
  BY DEF ReplayInv, ReplayVarsOK
<1> USE DEF At, GoOn, MainRuns
<1>1. CASE (BufferStep \/ SignalStep) /\ UNCHANGED workloadVars
  BY <1>1, BufferStepsKeepReplay
\* The steps before the loop, of the loop and after it that execute no line
<1>2. ASSUME UNCHANGED <<workload, db, found, failed, timed>>, Reached' = Reached,
             s' = s \/ (s = "OK" /\ s' = "IOError"),
             ReplayVarsOK', AtLine', LogsGone'
      PROVE  ReplayInv'
  BY <1>2, OtherStepsKeepReplay DEF ReplayInv
<1>3. CASE OpenLogs \/ PrintExperimentalSetup \/ OpenDB
  <2>1. UNCHANGED <<workload, ith_op, s, db, found, failed, timed>>
    BY <1>3 DEF OpenLogs, PrintExperimentalSetup, OpenDB
  <2>2. /\ step \in {"openLog", "openStats", "setup", "openDb"}
        /\ step' \in {"openStats", "setup", "openDb", "readLine"}
    BY <1>3 DEF OpenLogs, PrintExperimentalSetup, OpenDB
  <2>3. Reached' = Reached /\ ReplayVarsOK'
    BY <1>0, <2>1, <2>2 DEF Reached, ReplayVarsOK
  <2>4. AtLine' /\ LogsGone'
    BY <2>2 DEF AtLine, LogsGone
  <2> QED BY <1>2, <2>1, <2>3, <2>4
<1>4. CASE ReadLine
  <2>1. UNCHANGED <<workload, ith_op, s, db, found, failed, timed, status>>
    BY <1>4 DEF ReadLine, bufferVars
  <2>2. step = "readLine" /\ step' = IF MoreLines THEN "operate" ELSE "summary"
    BY <1>4 DEF ReadLine
  <2>3. Reached' = Reached /\ ReplayVarsOK'
    BY <1>0, <2>1, <2>2 DEF Reached, ReplayVarsOK
  <2>4. AtLine' /\ LogsGone'
    BY <2>1, <2>2 DEF AtLine, LogsGone, MoreLines, Current
  <2> QED BY <1>2, <2>1, <2>3, <2>4
<1>5. CASE NewIteratorFails
  <2>1. UNCHANGED workloadVars /\ step = "operate" /\ status' = "aborted"
    BY <1>5 DEF NewIteratorFails, Abort
  <2>2. Reached' = Reached /\ ReplayVarsOK' /\ AtLine' /\ LogsGone'
    BY <1>0, <2>1 DEF Reached, ReplayVarsOK, AtLine, LogsGone, workloadVars
  <2> QED BY <1>2, <2>1, <2>2 DEF workloadVars
<1>6. CASE Operate
  <2>1. /\ step = "operate" /\ status = "running" /\ UNCHANGED bufferVars
        /\ UNCHANGED <<workload, ith_op, found>>
        /\ Current.op \notin {"other", "empty"} /\ ith_op < Len(workload)
        /\ step' \in {"time", "progress", "scanError"}
        /\ timed' = IF IsTimed(Current.op) THEN timed + 1 ELSE timed
    BY <1>0, <1>6 DEF Operate, AtLine
  <2>2. PICK n \in Nat : n = ith_op
    BY <1>0
  <2>3. ReplayedTo(n) /\ Reached' = n + 1
    BY <1>0, <2>1, <2>2 DEF Reached, bufferVars
  <2>4. \/ db' = Applied(Current) /\ s' = StatusOf(Current) /\ failed' = failed
        \/ /\ db' = db /\ failed' = failed \cup {n + 1}
           /\ s' = IF Current.op = "S" THEN s ELSE "IOError"
    BY <1>6, <2>2 DEF Operate, Fail
  <2>5. ReplayVarsOK'
    <3>1. Current.op \in AllOperations /\ Current.keys \subseteq Keys
      BY <1>0, <2>1, CurrentIsALine
    <3>2. db' \subseteq Keys /\ s' \in {"OK", "NotFound", "IOError"}
      BY <1>0, <2>1, <2>4, <3>1 DEF Applied, StatusOf, AllOperations, ReplayVarsOK
    <3> QED BY <1>0, <2>1, <3>2 DEF ReplayVarsOK
  <2>6. AtLine' /\ LogsGone'
    BY <1>0, <2>1 DEF AtLine, LogsGone, Current
  <2>7. ReplayedTo(n + 1)'
    <3>1. CASE db' = Applied(Current) /\ s' = StatusOf(Current) /\ failed' = failed
      BY <1>0, <2>1, <2>2, <2>3, <3>1, ReplayedOperation
    <3>2. CASE /\ db' = db /\ failed' = failed \cup {n + 1}
               /\ s' = IF Current.op = "S" THEN s ELSE "IOError"
      BY <1>0, <2>1, <2>2, <2>3, <3>2, ReplayedFailure
    <3> QED BY <2>4, <3>1, <3>2
  <2> QED BY <2>3, <2>5, <2>6, <2>7 DEF ReplayInv
<1>7. CASE LogNoMatch
  <2>1. /\ step = "operate" /\ step' = "progress" /\ status = "running" /\ status' = status
        /\ UNCHANGED <<workload, ith_op, s, db, found, failed, timed>>
        /\ Current.op = "other" /\ ith_op < Len(workload)
    BY <1>0, <1>7 DEF LogNoMatch, Log, AtLine
  <2>2. PICK n \in Nat : n = ith_op
    BY <1>0
  <2>3. ReplayedTo(n) /\ Reached' = n + 1
    BY <1>0, <2>1, <2>2 DEF Reached
  <2>4. ReplayedTo(n + 1)'
    BY <1>0, <2>1, <2>2, <2>3, ReplayedNoMatch DEF Current
  <2>5. ReplayVarsOK' /\ AtLine' /\ LogsGone'
    BY <1>0, <2>1 DEF ReplayVarsOK, AtLine, LogsGone, Current
  <2> QED BY <2>3, <2>4, <2>5 DEF ReplayInv
<1>8. CASE LogScanError \/ LogTime
  <2>1. /\ step \in {"scanError", "time"} /\ step' \in {"time", "progress"}
        /\ status = "running" /\ status' = status
        /\ UNCHANGED <<workload, ith_op, s, db, found, failed, timed>>
    BY <1>8 DEF LogScanError, LogTime, Log
  <2>2. Reached' = Reached /\ ReplayVarsOK' /\ AtLine' /\ LogsGone'
    BY <1>0, <2>1 DEF Reached, ReplayVarsOK, AtLine, LogsGone, Current
  <2> QED BY <1>2, <2>1, <2>2
<1>9. CASE UpdateProgressBar
  <2>1. /\ step = "progress" /\ status = "running" /\ ith_op' = ith_op + 1
        /\ UNCHANGED <<workload, s, db, found, failed, timed>>
        /\ ith_op < Len(workload)
        /\ \/ step' = "progress" /\ status' = "aborted"
           \/ step' = "readLine" /\ status' = "running"
           \/ step' = "summary" /\ status' = "running" /\ ith_op' = Len(workload)
    BY <1>0, <1>9 DEF UpdateProgressBar, Abort, bufferVars, AtLine
  <2>2. Reached' = Reached /\ ReplayVarsOK'
    BY <1>0, <2>1 DEF Reached, ReplayVarsOK
  <2>3. AtLine' /\ LogsGone'
    BY <1>0, <2>1 DEF AtLine, LogsGone
  <2> QED BY <1>2, <2>1, <2>2, <2>3
<1>10. CASE LogSummary \/ CloseDB \/ PrintRocksDBPerfStats
  <2>1. /\ UNCHANGED <<workload, ith_op, db, found, failed, timed>>
        /\ \/ step \in {"summary", "assert", "assertClose"} /\ s' = s
           \/ step = "assert" /\ s = "OK" /\ s' = "IOError"
        /\ step' \in {"assert", "assertClose", "flushLog"}
        /\ step' = "flushLog" => s' = "OK"
        /\ step \in {"summary", "assert", "assertClose"}
    BY <1>10 DEF LogSummary, CloseDB, AssertHolds, PrintRocksDBPerfStats, Abort
  <2>2. Reached' = Reached /\ ReplayVarsOK' /\ AtLine' /\ LogsGone'
    BY <1>0, <2>1 DEF Reached, ReplayVarsOK, AtLine, LogsGone, Current
  <2> QED BY <1>2, <2>1, <2>2
<1>11. CASE FlushLogs
  <2>1. /\ UNCHANGED <<workload, ith_op, s, db, found, failed, timed>>
        /\ step \in {"flushLog", "flushStats"} /\ step' \in {"flushStats", "destroyStats"}
    BY <1>11 DEF FlushLogs
  <2>2. Reached' = Reached /\ ReplayVarsOK' /\ AtLine' /\ LogsGone'
    BY <1>0, <2>1 DEF Reached, ReplayVarsOK, AtLine, LogsGone, Current
  <2> QED BY <1>2, <2>1, <2>2
<1>12. CASE DestroyLogs
  <2>1. /\ UNCHANGED <<workload, ith_op, s, db, found, failed, timed>>
        /\ step \in {"destroyStats", "destroyLog"} /\ step' \in {"destroyLog", "return"}
        /\ main = "idle" /\ gone' = gone
        /\ \/ step' = "destroyLog" /\ at' = stats
           \/ step = "destroyLog" /\ step' = "return" /\ at' = buffer
        /\ main' \in {"unregister", "lastWrite"}
    BY <1>12 DEF DestroyLogs, Destroy, GoTo, AfterLastEntry
  <2>2. Reached' = Reached /\ ReplayVarsOK' /\ AtLine'
    BY <1>0, <2>1 DEF Reached, ReplayVarsOK, AtLine, Current
  <2>3. LogsGone'
    BY <1>0, <2>1 DEF LogsGone, Gone
  <2> QED BY <1>2, <2>1, <2>2, <2>3
<1>13. CASE Return
  <2>1. /\ UNCHANGED <<workload, ith_op, s, db, found, failed, timed>>
        /\ step = "return" /\ step' = "done" /\ UNCHANGED bufferVars /\ main = "idle"
    BY <1>13 DEF Return
  <2>2. Reached' = Reached /\ ReplayVarsOK' /\ AtLine' /\ LogsGone'
    BY <1>0, <2>1 DEF Reached, ReplayVarsOK, AtLine, LogsGone, Gone, Current, bufferVars
  <2> QED BY <1>2, <2>1, <2>2
<1>14. CASE UNCHANGED allVars
  <2>1. Reached' = Reached /\ ReplayVarsOK' /\ AtLine' /\ LogsGone'
        /\ UNCHANGED <<workload, db, found, failed, timed, s>>
    BY <1>0, <1>14 DEF Reached, ReplayVarsOK, AtLine, LogsGone, Gone, Current, allVars, bufferVars,
       workloadVars
  <2> QED BY <1>2, <2>1
<1> QED
  BY <1>1, <1>3, <1>4, <1>5, <1>6, <1>7, <1>8, <1>9, <1>10, <1>11, <1>12, <1>13, <1>14
  DEF WorkloadNext, MainThread, runWorkload

LEMMA ReplayInvariant == WorkloadSpec => []ReplayInv
<1> QED BY ReplayInit, ReplayStep, WorkloadUsesBuffers, BufferInvariant, PTL DEF WorkloadSpec

\* Whatever the workload: the lines that were counted are lines of it.
THEOREM WorkloadTypeCorrect == WorkloadSpec => []WorkloadTypeOK
<1>1. ReplayInv /\ BufferTypeOK => WorkloadTypeOK
  <2> SUFFICES ASSUME ReplayInv, BufferTypeOK PROVE WorkloadTypeOK
    OBVIOUS
  <2>1. PICK n \in 0 .. Len(workload) : n = Reached /\ ReplayedTo(n)
    BY DEF ReplayInv, ReplayedTo
  <2>2. n \in Nat /\ IsFiniteSet(1 .. n) /\ Cardinality(1 .. n) = n
    BY FS_Interval, <2>1 DEF ReplayInv, ReplayVarsOK
  <2>3. TimedTo(n) \subseteq 1 .. n
    BY DEF TimedTo
  <2>4. IsFiniteSet(TimedTo(n)) /\ Cardinality(TimedTo(n)) <= n
    BY <2>2, <2>3, FS_Subset
  <2>5. Cardinality(TimedTo(n)) \in Nat
    BY <2>4, FS_CardinalityType
  <2>6. timed \in 0 .. Len(workload) /\ failed \subseteq DOMAIN workload
    BY <2>1, <2>2, <2>4, <2>5 DEF ReplayedTo, ReplayInv, ReplayVarsOK
  <2> QED BY <2>6 DEF WorkloadTypeOK, ReplayInv, ReplayVarsOK
<1> QED BY <1>1, ReplayInvariant, WorkloadUsesBuffers, BufferTypeCorrect, PTL

\* After the loop the lines up to the first empty one have been executed
LEMMA ExecutedAtEnd ==
  ASSUME ReplayInv, step = "done"
  PROVE  Executed = 1 .. ith_op /\ ReplayedTo(ith_op) /\ s = "OK" /\ ith_op \in Nat
<1>1. ReplayedTo(ith_op) /\ s = "OK" /\ workload \in Seq(Line) /\ ith_op \in 0 .. Len(workload)
  BY DEF ReplayInv, Reached, AtLine, ReplayVarsOK
<1>2. ith_op < Len(workload) => workload[ith_op + 1].op = "empty"
  BY DEF ReplayInv, AtLine, Current
<1>3. \A i \in 1 .. ith_op : i \in Executed
  BY <1>1 DEF ReplayedTo, Executed
<1>4. ASSUME NEW i \in Executed PROVE i \in 1 .. ith_op
  <2>1. i \in 1 .. Len(workload) /\ \A j \in 1 .. i : workload[j].op # "empty"
    BY <1>1, <1>4 DEF Executed
  <2>2. CASE i > ith_op
    <3>1. ith_op + 1 \in 1 .. i /\ ith_op < Len(workload)
      BY <1>1, <2>1, <2>2
    <3> QED BY <1>2, <2>1, <3>1
  <2> QED BY <1>1, <2>1, <2>2 DEF Executed
<1>5. Executed = 1 .. ith_op
  BY <1>3, <1>4
<1> QED BY <1>1, <1>5

\* Whatever the lines, the keys and the calls that fail, a run that returns left
\* each key that its lines write as the last line that RocksDB executed on it left it,
\* and no other key that was not there when the database was opened.
THEOREM KeysAreReplayed == WorkloadSpec => []ReplayIsFaithful
<1>1. ReplayInv => ReplayIsFaithful
  <2> SUFFICES ASSUME ReplayInv, step = "done", NEW key \in Keys
               PROVE  IF Writers(key) = {} THEN key \in db => key \in found
                      ELSE key \in db <=> workload[Max(Writers(key))].op \in {"I", "U"}
    BY DEF ReplayIsFaithful
  <2>1. Writers(key) = WritersTo(ith_op, key) /\ Writers(key) \subseteq Nat
    BY ExecutedAtEnd DEF Writers, WritersTo
  <2>2. \/ Writers(key) = {} /\ (key \in db <=> key \in found)
        \/ \E last \in Writers(key) : /\ \A i \in Writers(key) : i <= last
                                      /\ key \in db <=> workload[last].op \in {"I", "U"}
    BY <2>1, ExecutedAtEnd DEF ReplayedTo, KeysAfter
  <2> QED BY <2>1, <2>2, MaxIsLast
<1> QED BY <1>1, ReplayInvariant, PTL

\* A run that returns was not failed by RocksDB at the last line that sets s.
THEOREM ReturnIsOK == WorkloadSpec => []ReturnMeansLastOK
<1>1. ReplayInv => ReturnMeansLastOK
  <2> SUFFICES ASSUME ReplayInv, step = "done", Setters # {}
               PROVE  /\ Max(Setters) \notin failed
                      /\ workload[Max(Setters)].op = "P" =>
                           workload[Max(Setters)].keys \subseteq db
    BY DEF ReturnMeansLastOK
  <2>1. Setters = SettersTo(ith_op) /\ Setters \subseteq 1 .. ith_op
    BY ExecutedAtEnd DEF Setters, SettersTo
  <2>2. Max(Setters) \in Setters /\ \A i \in Setters : i <= Max(Setters)
    BY <2>1, ExecutedAtEnd, HasLast
  <2> QED BY <2>1, <2>2, ExecutedAtEnd DEF ReplayedTo, StatusAfter
<1> QED BY <1>1, ReplayInvariant, PTL

\* However long the workload and small the buffers, a run that returns leaves
\* the two logs whole, with one timing of each timed line.
THEOREM LogsAreComplete == WorkloadSpec => []ReturnMeansLogged
<1>1. BufferInv /\ ReplayInv /\ TimedOnce => ReturnMeansLogged
  <2> SUFFICES ASSUME BufferInv, ReplayInv, TimedOnce, step = "done" PROVE ReturnMeansLogged
    BY DEF ReturnMeansLogged
  <2>1. buffer \in gone /\ stats \in gone /\ buffer \in Buffers /\ stats \in Buffers
    BY WorkloadAssumption DEF ReplayInv, LogsGone, Gone
  <2>2. file[buffer] = Entries(1, logged[buffer]) /\ file[stats] = Entries(1, logged[stats])
    BY <2>1 DEF BufferInv, NothingLost, Kept, Complete
  <2>3. logged[stats] = timed
    BY DEF TimedOnce
  <2>4. TimedTo(ith_op) = {i \in Executed : IsTimed(workload[i].op)}
    BY ExecutedAtEnd DEF TimedTo
  <2>5. timed = Cardinality({i \in Executed : IsTimed(workload[i].op)})
    BY <2>4, ExecutedAtEnd DEF ReplayedTo
  <2> QED BY <2>2, <2>3, <2>5 DEF ReturnMeansLogged
<1> QED BY <1>1, ReplayInvariant, TimedOnceHolds, WorkloadUsesBuffers, BufferInvariant, PTL
=============================================================================
