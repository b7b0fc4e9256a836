---------------------------- MODULE BufferProofs ----------------------------
(***************************************************************************)
(* What the log buffers keep, for any buffers, limit, number of entries    *)
(* and signals: wherever a signal interrupts the program, every entry is   *)
(* in the file or in memory until the file has it.                         *)
(***************************************************************************)
EXTENDS Buffer, TLAPS

-----------------------------------------------------------------------------
(* Runs of consecutive entries.                                             *)

LEMMA EntriesInSeq ==
  ASSUME NEW n \in 0 .. MaxEntries, NEW m \in 1 .. n + 1
  PROVE  /\ Entries(m, n) \in Seq(1 .. MaxEntries)
         /\ Len(Entries(m, n)) = n - m + 1
  BY BufferAssumption DEF Entries

LEMMA NoEntries == \A n \in Nat : Entries(n + 1, n) = <<>>
  BY DEF Entries

\* One run after the other
LEMMA EntriesJoin ==
  ASSUME NEW n \in Nat, NEW k \in 0 .. n, NEW m \in 1 .. k + 1
  PROVE  Entries(m, k) \o Entries(k + 1, n) = Entries(m, n)
  BY DEF Entries

\* operator<<
LEMMA EntriesAppend ==
  ASSUME NEW n \in Nat, NEW m \in 1 .. n + 1
  PROVE  Append(Entries(m, n), n + 1) = Entries(m, n + 1)
  BY DEF Entries

\* A write that is cut off
LEMMA EntriesPrefix ==
  ASSUME NEW n \in Nat, NEW m \in 1 .. n + 1, NEW j \in 0 .. n - m + 1
  PROVE  SubSeq(Entries(m, n), 1, j) = Entries(m, m + j - 1)
  BY DEF Entries

-----------------------------------------------------------------------------
(* The invariant.                                                           *)

InFlush == {"testLimit", "write", "clear", "lastWrite", "lastClear"}
Leaving == {"unregister", "remove"}
Uninterrupted == {"uninstalled", "ready"}

ControlOK ==
    /\ logged \in [Buffers -> 0 .. MaxEntries]
    /\ mem \in [Buffers -> Seq(1 .. MaxEntries)]
    /\ file \in [Buffers -> Seq(1 .. MaxEntries)]
    /\ instances \subseteq Buffers /\ gone \subseteq Buffers /\ instances \cap gone = {}
    /\ unsaved \subseteq instances
    /\ handler # "saving" => unsaved = {}
    /\ main \in {"idle", "register", "push", "signal"} \cup InFlush \cup Leaving
    /\ at \in Buffers /\ handling \in Signals
    /\ handler \in Uninterrupted \cup {"locking", "saving"}
    /\ status \in {"running", "exited", "aborted", "killed", "hung"}

\* mutex_ is held by the function between its lock_guard and its end
HeldByOne ==
    /\ mutex \in {"nobody", "main", "handler"}
    /\ mutex = "main" <=> main \in {"push", "remove"}
    /\ mutex = "handler" <=> handler = "saving"

\* The buffer a function of the main thread works on
AtHand ==
    /\ main \in {"register", "push"} => at \notin instances \cup gone
    /\ main \in {"signal"} \cup InFlush \cup Leaving => at \in instances

StatusOK ==
    /\ status = "exited" => handler = "saving" /\ unsaved = {}
    /\ status = "aborted" => handler \in Uninterrupted /\ main = "idle"

\* Nothing was given to a buffer that is not constructed
Fresh(b) == logged[b] = 0 /\ mem[b] = <<>> /\ file[b] = <<>>

\* The file has what the memory has not
Buffered(b) ==
    \E k \in 0 .. logged[b] :
        /\ file[b] = Entries(1, k) /\ mem[b] = Entries(k + 1, logged[b])
        /\ logged[b] - k <= Limit
        /\ logged[b] - k = Limit => at = b /\ main \in InFlush

\* The file has everything, the memory may still have its end
Twice(b) ==
    /\ file[b] = Entries(1, logged[b])
    /\ \E m \in 1 .. logged[b] + 1 : mem[b] = Entries(m, logged[b])

Complete(b) == file[b] = Entries(1, logged[b]) /\ mem[b] = <<>>

\* What a signal finds
Caught(b) ==
    \E k \in 0 .. logged[b] : \E m \in 1 .. k + 1 :
        file[b] = Entries(1, k) /\ mem[b] = Entries(m, logged[b])

\* What the handler makes of it
Saved(b) ==
    \E k \in 0 .. logged[b] : \E m \in 1 .. k + 1 :
        file[b] = Entries(1, k) \o Entries(m, logged[b])

InMain(b) ==
    IF at = b /\ main \in {"clear", "lastClear"} THEN Twice(b)
    ELSE IF at = b /\ main \in Leaving THEN Complete(b) ELSE Buffered(b)

Kept(b) ==
    /\ b \notin instances \cup gone => Fresh(b)
    /\ b \in gone => Complete(b)
    /\ b \in instances =>
         /\ handler \in Uninterrupted => InMain(b)
         /\ handler = "locking" \/ b \in unsaved => Caught(b)
         /\ handler = "saving" /\ b \notin unsaved => Saved(b)

NothingLost == \A b \in Buffers : Kept(b)

BufferInv == ControlOK /\ HeldByOne /\ AtHand /\ StatusOK /\ NothingLost

LEMMA BufferInitHolds == BufferInit => BufferInv
  BY BufferAssumption DEF BufferInit, BufferInv, ControlOK, HeldByOne, AtHand, StatusOK,
     NothingLost, Kept, Fresh, InFlush, Leaving, Uninterrupted

-----------------------------------------------------------------------------
(* The control: who holds mutex_, where each function is.                   *)

LEMMA ControlStep ==
  ASSUME BufferInv, [BufferNext]_bufferVars
  PROVE  (ControlOK /\ HeldByOne /\ AtHand /\ StatusOK)'
<1> USE BufferAssumption DEF BufferInv, ControlOK, HeldByOne, AtHand, StatusOK, InFlush, Leaving,
        Uninterrupted, MainRuns, GoTo
<1>1. ASSUME NEW b \in Buffers, Construct(b) PROVE (ControlOK /\ HeldByOne /\ AtHand /\ StatusOK)'
  <2>1. file' \in [Buffers -> Seq(1 .. MaxEntries)] /\ at' \in Buffers
    <3>1. <<>> \in Seq(1 .. MaxEntries)
      OBVIOUS
    <3>2. file' = [file EXCEPT ![b] = <<>>] \/ file' = file
      BY <1>1 DEF Construct
    <3> QED BY <1>1, <3>1, <3>2 DEF Construct
  <2>2. ControlOK' /\ HeldByOne'
    BY <1>1, <2>1 DEF Construct
  <2>3. AtHand' /\ StatusOK'
    BY <1>1 DEF Construct
  <2> QED BY <2>2, <2>3
<1>2. ASSUME NEW b \in Buffers, Log(b) PROVE (ControlOK /\ HeldByOne /\ AtHand /\ StatusOK)'
  BY <1>2 DEF Log
<1>3. ASSUME NEW b \in Buffers, Flush(b) PROVE (ControlOK /\ HeldByOne /\ AtHand /\ StatusOK)'
  BY <1>3 DEF Flush
<1>4. ASSUME NEW b \in Buffers, Destroy(b) PROVE (ControlOK /\ HeldByOne /\ AtHand /\ StatusOK)'
  BY <1>4 DEF Destroy, AfterLastEntry
<1>5. CASE LockMutex
  BY <1>5 DEF LockMutex
<1>6. CASE Register
  BY <1>6 DEF Register
<1>7. CASE RegisterSignals
  BY <1>7 DEF RegisterSignals
<1>8. CASE TestLimit
  BY <1>8 DEF TestLimit, Full
<1>9. CASE Write
  BY <1>9 DEF Write
<1>10. CASE Clear
  BY <1>10 DEF Clear
<1>11. CASE Unregister
  BY <1>11 DEF Unregister
<1>12. ASSUME NEW signal \in Signals, Interrupt(signal) PROVE (ControlOK /\ HeldByOne /\ AtHand /\ StatusOK)'
  <2>1. file' \in [Buffers -> Seq(1 .. MaxEntries)]
    <3>1. \A k \in 0 .. Len(mem[at]) : SubSeq(mem[at], 1, k) \in Seq(1 .. MaxEntries)
      OBVIOUS
    <3>2. \A t \in Seq(1 .. MaxEntries) :
            [file EXCEPT ![at] = @ \o t] \in [Buffers -> Seq(1 .. MaxEntries)]
      OBVIOUS
    <3>3. CASE handler = "ready"
      <4>1. PICK k \in IF main \in {"write", "lastWrite"} THEN 0 .. Len(mem[at]) ELSE {0} :
              file' = [file EXCEPT ![at] = @ \o SubSeq(mem[at], 1, k)]
        BY <1>12, <3>3 DEF Interrupt
      <4>2. Len(mem[at]) \in Nat
        OBVIOUS
      <4>3. k \in 0 .. Len(mem[at])
        BY <4>1, <4>2
      <4> HIDE DEF BufferInv
      <4> QED BY <3>1, <3>2, <4>1, <4>3
    <3>4. CASE handler # "ready"
      BY <1>12, <3>4 DEF Interrupt
    <3> QED BY <3>3, <3>4
  <2>2. ControlOK' /\ HeldByOne'
    BY <1>12, <2>1 DEF Interrupt
  <2>3. AtHand' /\ StatusOK'
    BY <1>12 DEF Interrupt
  <2> QED BY <2>2, <2>3
<1>13. ASSUME NEW signal \in Signals, InterruptHandler(signal) PROVE (ControlOK /\ HeldByOne /\ AtHand /\ StatusOK)'
  BY <1>13 DEF InterruptHandler
<1>14. CASE HandlerLock
  BY <1>14 DEF HandlerLock
<1>15. CASE HandlerFlush
  BY <1>15 DEF HandlerFlush
<1>16. CASE HandlerExit
  BY <1>16 DEF HandlerExit
<1>17. CASE Abort
  BY <1>17 DEF Abort
<1>18. CASE UNCHANGED bufferVars
  BY <1>18 DEF bufferVars
<1> QED
  BY <1>1, <1>2, <1>3, <1>4, <1>5, <1>6, <1>7, <1>8, <1>9, <1>10, <1>11, <1>12, <1>13, <1>14, <1>15, <1>16, <1>17, <1>18
  DEF BufferNext, BufferStep, SignalStep

-----------------------------------------------------------------------------
(* The text: each entry is in the file or in memory.                        *)

\* What is true of a buffer stays true as long as its text does
LEMMA SameText ==
  ASSUME NEW c \in Buffers,
         mem'[c] = mem[c], file'[c] = file[c], logged'[c] = logged[c]
  PROVE  /\ Fresh(c) => Fresh(c)'
         /\ Complete(c) => Complete(c)'
         /\ Caught(c) => Caught(c)'
         /\ Saved(c) => Saved(c)'
         /\ Twice(c) => Twice(c)'
         /\ Buffered(c) /\ ((at = c /\ main \in InFlush) => (at = c /\ main \in InFlush)') => Buffered(c)'
  BY DEF Fresh, Complete, Caught, Saved, Twice, Buffered

\* Whatever the main thread does with a buffer, a signal finds it all
LEMMA InMainIsCaught ==
  ASSUME BufferInv, NEW c \in Buffers, InMain(c)
  PROVE  Caught(c)
<1>0. logged[c] \in Nat
  BY DEF BufferInv, ControlOK
<1>1. CASE Twice(c)
  BY <1>0, <1>1 DEF Twice, Caught
<1>2. CASE Complete(c)
  BY <1>0, <1>2, NoEntries DEF Complete, Caught
<1>3. CASE Buffered(c)
  <2>1. PICK k \in 0 .. logged[c] :
          file[c] = Entries(1, k) /\ mem[c] = Entries(k + 1, logged[c])
    BY <1>3 DEF Buffered
  <2>2. k + 1 \in 1 .. k + 1
    BY <1>0
  <2> QED BY <2>1, <2>2 DEF Caught
<1> QED BY <1>1, <1>2, <1>3 DEF InMain

LEMMA LogKeeps ==
  ASSUME BufferInv, NEW b \in Buffers, Log(b)
  PROVE  Buffered(b)'
<1>1. /\ logged[b] \in Nat /\ logged'[b] = logged[b] + 1
      /\ mem'[b] = Append(mem[b], logged[b] + 1) /\ file'[b] = file[b]
      /\ at' = b /\ main' \in InFlush
  BY DEF Log, BufferInv, ControlOK, GoTo, InFlush
<1>2. Buffered(b)
  BY DEF Log, BufferInv, NothingLost, Kept, InMain, MainRuns, Uninterrupted, Leaving
<1>3. PICK k \in 0 .. logged[b] :
        /\ file[b] = Entries(1, k) /\ mem[b] = Entries(k + 1, logged[b])
        /\ logged[b] - k < Limit
  BY <1>1, <1>2, BufferAssumption DEF Buffered, Log, InFlush
<1>a. k + 1 \in 1 .. logged[b] + 1
  BY <1>1
<1>b. Append(Entries(k + 1, logged[b]), logged[b] + 1) = Entries(k + 1, logged[b] + 1)
  BY <1>1, <1>a, EntriesAppend
<1>4. mem'[b] = Entries(k + 1, logged[b] + 1)
  BY <1>1, <1>3, <1>b
<1> QED BY <1>1, <1>3, <1>4, BufferAssumption DEF Buffered

LEMMA WriteKeeps ==
  ASSUME BufferInv, Write
  PROVE  Twice(at)'
<1>1. /\ at \in Buffers /\ at' = at /\ logged[at] \in Nat
      /\ mem' = mem /\ logged' = logged
  <2>1. at \in Buffers /\ logged[at] \in Nat
    BY BufferAssumption DEF BufferInv, ControlOK
  <2> QED BY <2>1 DEF Write
<1>a. file'[at] = file[at] \o mem[at]
  BY <1>1 DEF Write, BufferInv, ControlOK
<1>2. Buffered(at)
  BY DEF Write, BufferInv, ControlOK, AtHand, NothingLost, Kept, InMain, MainRuns, Uninterrupted,
     InFlush, Leaving
<1>3. PICK k \in 0 .. logged[at] :
        file[at] = Entries(1, k) /\ mem[at] = Entries(k + 1, logged[at])
  BY <1>2 DEF Buffered
<1>4. Entries(1, k) \o Entries(k + 1, logged[at]) = Entries(1, logged[at])
  <2>1. 1 \in 1 .. k + 1
    BY <1>1
  <2> QED BY <1>1, <2>1, EntriesJoin
<1>5. file'[at] = Entries(1, logged[at]) /\ k + 1 \in 1 .. logged[at] + 1
  BY <1>1, <1>a, <1>3, <1>4
<1> QED BY <1>1, <1>3, <1>5 DEF Twice

LEMMA ClearKeeps ==
  ASSUME BufferInv, Clear
  PROVE  Complete(at)' /\ Buffered(at)'
<1>1. /\ at \in Buffers /\ at' = at /\ logged[at] \in Nat
      /\ file' = file /\ logged' = logged /\ mem'[at] = <<>>
  BY DEF Clear, BufferInv, ControlOK
<1>2. Twice(at)
  BY DEF Clear, BufferInv, ControlOK, AtHand, NothingLost, Kept, InMain, MainRuns, Uninterrupted,
     InFlush
<1>3. Complete(at)'
  BY <1>1, <1>2 DEF Twice, Complete
<1>4. Entries(logged[at] + 1, logged[at]) = <<>>
  BY <1>1, NoEntries
<1>5. Buffered(at)'
  <2>1. logged[at] \in 0 .. logged[at] /\ logged[at] - logged[at] = 0 /\ 0 < Limit
    BY <1>1, BufferAssumption
  <2>2. logged'[at'] = logged[at] /\ mem'[at'] = <<>> /\ file'[at'] = Entries(1, logged[at])
    BY <1>1, <1>3 DEF Complete
  <2> DEFINE n == logged[at]
  <2>3. /\ n \in 0 .. logged'[at']
        /\ file'[at'] = Entries(1, n) /\ mem'[at'] = Entries(n + 1, logged'[at'])
        /\ logged'[at'] - n <= Limit /\ logged'[at'] - n # Limit
    BY <1>4, <2>1, <2>2, BufferAssumption
  <2> HIDE DEF n
  <2> QED BY <2>3 DEF Buffered
<1> QED BY <1>3, <1>5

LEMMA DestroyKeeps ==
  ASSUME BufferInv, NEW b \in Buffers, Destroy(b)
  PROVE  Buffered(b) /\ (main' = "unregister" => Complete(b))
<1>1. Buffered(b)
  BY DEF Destroy, BufferInv, NothingLost, Kept, InMain, MainRuns, Uninterrupted, Leaving
<1>2. PICK k \in 0 .. logged[b] :
        file[b] = Entries(1, k) /\ mem[b] = Entries(k + 1, logged[b])
  BY <1>1 DEF Buffered
<1>a. logged[b] \in 0 .. MaxEntries /\ k + 1 \in 1 .. logged[b] + 1
  BY BufferAssumption DEF BufferInv, ControlOK
<1>b. Len(Entries(k + 1, logged[b])) = logged[b] - (k + 1) + 1
  BY <1>a, EntriesInSeq
<1>3. logged[b] \in 0 .. MaxEntries /\ Len(mem[b]) = logged[b] - k
  BY <1>2, <1>a, <1>b, BufferAssumption
<1>4. mem[b] = <<>> => logged[b] = k
  BY <1>3
<1> QED BY <1>1, <1>2, <1>4 DEF Destroy, AfterLastEntry, GoTo, Complete

LEMMA TestLimitKeeps ==
  ASSUME BufferInv, TestLimit
  PROVE  Buffered(at)'
<1>1. /\ at \in Buffers /\ at' = at /\ logged[at] \in 0 .. MaxEntries
      /\ file' = file /\ logged' = logged /\ mem' = mem
  BY DEF TestLimit, BufferInv, ControlOK
<1>2. Buffered(at)
  BY DEF TestLimit, BufferInv, ControlOK, AtHand, NothingLost, Kept, InMain, MainRuns,
     Uninterrupted, InFlush, Leaving
<1>3. PICK k \in 0 .. logged[at] :
        /\ file[at] = Entries(1, k) /\ mem[at] = Entries(k + 1, logged[at])
        /\ logged[at] - k <= Limit
  BY <1>2 DEF Buffered
<1>a. Len(Entries(k + 1, logged[at])) = logged[at] - (k + 1) + 1
  <2>1. k + 1 \in 1 .. logged[at] + 1
    BY <1>1, BufferAssumption
  <2> QED BY <1>1, <2>1, EntriesInSeq
<1>4. Len(mem[at]) = logged[at] - k
  BY <1>1, <1>3, <1>a, BufferAssumption
<1>5. logged[at] - k = Limit => main' \in InFlush
  BY <1>4, BufferAssumption DEF TestLimit, Full, InFlush
<1> QED BY <1>1, <1>3, <1>5 DEF Buffered

\* A signal touches no file but that of a write it interrupts
LEMMA InterruptLeaves ==
  ASSUME BufferInv, NEW signal \in Signals, Interrupt(signal), NEW c \in Buffers,
         at # c \/ main \notin {"write", "lastWrite"}
  PROVE  file'[c] = file[c]
<1> USE DEF BufferInv, ControlOK
<1>1. CASE handler = "ready"
  <2>1. PICK j \in IF main \in {"write", "lastWrite"} THEN 0 .. Len(mem[at]) ELSE {0} :
          file' = [file EXCEPT ![at] = @ \o SubSeq(mem[at], 1, j)]
    BY <1>1 DEF Interrupt
  <2>2. CASE at # c
    BY <2>1, <2>2
  <2>3. CASE at = c /\ j = 0
    BY <2>1, <2>3
  <2> QED BY <2>1, <2>2, <2>3
<1>2. CASE handler # "ready"
  BY <1>2 DEF Interrupt
<1> QED BY <1>1, <1>2

\* A signal that interrupts a write leaves a part of it in the file
LEMMA InterruptKeeps ==
  ASSUME BufferInv, NEW signal \in Signals, Interrupt(signal), NEW c \in instances, handler = "ready"
  PROVE  Caught(c)'
<1> USE DEF BufferInv, ControlOK
<1>1. /\ c \in Buffers /\ at \in Buffers /\ logged[c] \in Nat
      /\ mem' = mem /\ logged' = logged /\ at' = at
  BY BufferAssumption DEF Interrupt
<1>2. InMain(c)
  BY <1>1 DEF Interrupt, NothingLost, Kept, Uninterrupted
<1>3. PICK j \in IF main \in {"write", "lastWrite"} THEN 0 .. Len(mem[at]) ELSE {0} :
        file' = [file EXCEPT ![at] = @ \o SubSeq(mem[at], 1, j)]
  BY DEF Interrupt
<1>4. CASE at # c \/ main \notin {"write", "lastWrite"}
  <2>1. file'[c] = file[c]
    BY <1>1, <1>4, InterruptLeaves
  <2> QED BY <1>1, <1>2, <2>1, InMainIsCaught, SameText
<1>5. CASE at = c /\ main \in {"write", "lastWrite"}
  <2>1. PICK k \in 0 .. logged[c] :
          file[c] = Entries(1, k) /\ mem[c] = Entries(k + 1, logged[c])
    BY <1>2, <1>5 DEF InMain, Buffered, Leaving
  <2>2. k + 1 \in 1 .. logged[c] + 1 /\ k \in Nat
    BY <1>1
  <2>3. Len(Entries(k + 1, logged[c])) = logged[c] - (k + 1) + 1
    BY <1>1, <2>2, EntriesInSeq
  <2>4. j \in 0 .. logged[c] - (k + 1) + 1
    BY <1>3, <1>5, <2>1, <2>3
  <2>5. SubSeq(mem[c], 1, j) = Entries(k + 1, k + j)
    <3>1. SubSeq(Entries(k + 1, logged[c]), 1, j) = Entries(k + 1, k + 1 + j - 1)
      BY <1>1, <2>2, <2>4, EntriesPrefix
    <3>2. k + 1 + j - 1 = k + j
      BY <2>2, <2>4
    <3> QED BY <2>1, <3>1, <3>2
  <2>6. Entries(1, k) \o Entries(k + 1, k + j) = Entries(1, k + j)
    <3>1. k + j \in Nat /\ k \in 0 .. k + j /\ 1 \in 1 .. k + 1
      BY <2>2, <2>4
    <3> QED BY <3>1, EntriesJoin
  <2>7. file'[c] = Entries(1, k + j)
    BY <1>1, <1>3, <1>5, <2>1, <2>5, <2>6
  <2>8. k + j \in 0 .. logged[c] /\ k + 1 \in 1 .. k + j + 1
    BY <1>1, <2>2, <2>4
  <2> QED BY <1>1, <2>1, <2>7, <2>8 DEF Caught
<1> QED BY <1>4, <1>5

LEMMA TextStep ==
  ASSUME BufferInv, [BufferNext]_bufferVars
  PROVE  NothingLost'
<1> SUFFICES ASSUME NEW c \in Buffers PROVE Kept(c)'
  BY DEF NothingLost
<1> USE BufferAssumption DEF BufferInv, ControlOK, HeldByOne, AtHand, StatusOK, MainRuns, GoTo,
        InFlush, Leaving, Uninterrupted
<1>0. Kept(c)
  BY DEF NothingLost
<1>1. ASSUME NEW b \in Buffers, Construct(b) PROVE Kept(c)'
  <2>1. CASE b = c
    BY <1>0, <1>1, <2>1 DEF Construct, Kept, Fresh
  <2>2. CASE b # c
    BY <1>0, <1>1, <2>2, SameText DEF Construct, Kept, InMain
  <2> QED BY <2>1, <2>2
<1>2. ASSUME NEW b \in Buffers, Log(b) PROVE Kept(c)'
  <2>1. CASE b = c
    BY <1>0, <1>2, <2>1, LogKeeps DEF Log, Kept, InMain
  <2>2. CASE b # c
    BY <1>0, <1>2, <2>2, SameText DEF Log, Kept, InMain
  <2> QED BY <2>1, <2>2
<1>3. ASSUME NEW b \in Buffers, Flush(b) PROVE Kept(c)'
  BY <1>0, <1>3, SameText DEF Flush, Kept, InMain
<1>4. ASSUME NEW b \in Buffers, Destroy(b) PROVE Kept(c)'
  BY <1>0, <1>4, SameText, DestroyKeeps DEF Destroy, AfterLastEntry, Kept, InMain
<1>5. CASE LockMutex
  BY <1>0, <1>5, SameText DEF LockMutex, Kept, InMain
<1>6. CASE Register
  <2>1. CASE c = at
    <3>1. Fresh(c)
      BY <1>0, <1>6, <2>1 DEF Register, Kept
    <3>2. Buffered(c)'
      BY <1>6, <3>1, NoEntries DEF Register, Fresh, Buffered
    <3> QED BY <1>0, <1>6, <2>1, <3>2 DEF Register, Kept, InMain
  <2>2. CASE c # at
    BY <1>0, <1>6, <2>2, SameText DEF Register, Kept, InMain
  <2> QED BY <2>1, <2>2
<1>7. CASE RegisterSignals
  BY <1>0, <1>7, SameText DEF RegisterSignals, Kept, InMain
<1>8. CASE TestLimit
  <2>1. CASE c = at
    BY <1>0, <1>8, <2>1, TestLimitKeeps DEF TestLimit, Kept, InMain
  <2>2. CASE c # at
    BY <1>0, <1>8, <2>2, SameText DEF TestLimit, Kept, InMain
  <2> QED BY <2>1, <2>2
<1>9. CASE Write
  <2>1. CASE c = at
    BY <1>0, <1>9, <2>1, WriteKeeps DEF Write, Kept, InMain
  <2>2. CASE c # at
    BY <1>0, <1>9, <2>2, SameText DEF Write, Kept, InMain
  <2> QED BY <2>1, <2>2
<1>10. CASE Clear
  <2>1. CASE c = at
    BY <1>0, <1>10, <2>1, ClearKeeps DEF Clear, Kept, InMain
  <2>2. CASE c # at
    BY <1>0, <1>10, <2>2, SameText DEF Clear, Kept, InMain
  <2> QED BY <2>1, <2>2
<1>11. CASE Unregister
  BY <1>0, <1>11, SameText DEF Unregister, Kept, InMain
<1>12. ASSUME NEW signal \in Signals, Interrupt(signal) PROVE Kept(c)'
  <2>1. CASE c \in instances /\ handler = "ready"
    BY <1>0, <1>12, <2>1, InterruptKeeps DEF Interrupt, Kept
  <2>2. CASE handler # "ready"
    BY <1>0, <1>12, <2>2, SameText DEF Interrupt, Kept, InMain
  <2>3. CASE c \notin instances
    <3>1. file'[c] = file[c]
      BY <1>12, <2>3, InterruptLeaves
    <3> QED BY <1>0, <1>12, <2>3, <3>1, SameText DEF Interrupt, Kept
  <2> QED BY <2>1, <2>2, <2>3
<1>13. ASSUME NEW signal \in Signals, InterruptHandler(signal) PROVE Kept(c)'
  BY <1>0, <1>13, SameText DEF InterruptHandler, Kept
<1>14. CASE HandlerLock
  BY <1>0, <1>14, SameText DEF HandlerLock, Kept
<1>15. CASE HandlerFlush
  <2>1. PICK b \in unsaved :
          /\ file' = [file EXCEPT ![b] = @ \o mem[b]]
          /\ mem' = [mem EXCEPT ![b] = <<>>]
          /\ unsaved' = unsaved \ {b}
    BY <1>15 DEF HandlerFlush
  <2>2. CASE b = c
    <3>1. Caught(c)
      BY <1>0, <2>1, <2>2 DEF Kept
    <3>2. Saved(c)'
      BY <1>15, <2>1, <2>2, <3>1 DEF HandlerFlush, Caught, Saved
    <3> QED BY <1>0, <1>15, <2>1, <2>2, <3>2 DEF HandlerFlush, Kept
  <2>3. CASE b # c
    BY <1>0, <1>15, <2>1, <2>3, SameText DEF HandlerFlush, Kept
  <2> QED BY <2>2, <2>3
<1>16. CASE HandlerExit
  BY <1>0, <1>16, SameText DEF HandlerExit, Kept
<1>17. CASE Abort
  BY <1>0, <1>17, SameText DEF Abort, Kept, InMain
<1>18. CASE UNCHANGED bufferVars
  BY <1>0, <1>18, SameText DEF bufferVars, Kept, InMain
<1> QED
  BY <1>1, <1>2, <1>3, <1>4, <1>5, <1>6, <1>7, <1>8, <1>9, <1>10, <1>11, <1>12, <1>13, <1>14,
     <1>15, <1>16, <1>17, <1>18
  DEF BufferNext, BufferStep, SignalStep

-----------------------------------------------------------------------------

LEMMA BufferInvariant == BufferSpec => []BufferInv
<1>1. BufferInv /\ [BufferNext]_bufferVars => BufferInv'
  BY ControlStep, TextStep DEF BufferInv
<1> QED BY BufferInitHolds, <1>1, PTL DEF BufferSpec

\* Every variable keeps its type, and mutex_ is held by the function that is
\* between its lock_guard and its end: the constructor, the destructor or the
\* handler.
THEOREM BufferTypeCorrect == BufferSpec => []BufferTypeOK
<1>1. BufferInv => BufferTypeOK
  BY DEF BufferInv, ControlOK, HeldByOne, BufferTypeOK, InFlush, Leaving, Uninterrupted
<1> QED BY <1>1, BufferInvariant, PTL

\* The handler of SIGINT and SIGTERM, wherever it interrupts the program, leaves
\* in the file of each buffer in instances_ all its entries in order, with at
\* most the end of them twice.
THEOREM SignalsLoseNothing == BufferSpec => []LogsSurviveSignal
<1>1. BufferInv => LogsSurviveSignal
  <2> SUFFICES ASSUME BufferInv, status = "exited", NEW b \in instances
               PROVE  Saved(b)
    BY DEF LogsSurviveSignal, Saved
  <2> QED BY DEF BufferInv, ControlOK, StatusOK, NothingLost, Kept
<1> QED BY <1>1, BufferInvariant, PTL

\* When an assertion fails, each log misses less than buffer_limit of its end.
THEOREM AbortLosesLittle == BufferSpec => []AbortLosesTail
<1>1. BufferInv => AbortLosesTail
  <2> SUFFICES ASSUME BufferInv, status = "aborted", NEW b \in instances
               PROVE  \E k \in 0 .. logged[b] : logged[b] - k < Limit /\ file[b] = Entries(1, k)
    BY DEF AbortLosesTail
  <2>1. Buffered(b)
    BY DEF BufferInv, ControlOK, StatusOK, NothingLost, Kept, InMain, Leaving
  <2>2. PICK k \in 0 .. logged[b] :
          /\ file[b] = Entries(1, k) /\ logged[b] - k <= Limit
          /\ logged[b] - k = Limit => at = b /\ main \in InFlush
    BY <2>1 DEF Buffered
  <2>3. logged[b] - k # Limit
    BY <2>2 DEF BufferInv, StatusOK, InFlush
  <2>4. logged[b] \in Nat
    BY BufferAssumption DEF BufferInv, ControlOK
  <2> QED BY <2>2, <2>3, <2>4, BufferAssumption
<1> QED BY <1>1, BufferInvariant, PTL

\* ~Buffer writes what is left: the file of a destroyed buffer has each entry
\* once.
THEOREM DestructorWritesAll == BufferSpec => []DestroyedIsComplete
<1>1. BufferInv => DestroyedIsComplete
  BY DEF BufferInv, ControlOK, NothingLost, Kept, Complete, DestroyedIsComplete
<1> QED BY <1>1, BufferInvariant, PTL
=============================================================================
