------------------------ MODULE CompactionWaitProofs ------------------------
(***************************************************************************)
(* The wait, for any number of compaction threads and of flushes: mtx is   *)
(* held by one thread at a time and where the code says so, no wake-up is  *)
(* lost, and what the loop's own three reads are worth when it breaks.     *)
(***************************************************************************)
EXTENDS CompactionWait, TLAPS

Label == {"workload", "idle", "compact", "lock", "read1", "read2", "read3", "decide",
          "notified", "test", "wait", "returned"}
Reading == {"read1", "read2", "read3", "decide"}

CountsOK ==
    /\ flushes \in Nat /\ followUps \in Nat /\ due \in Nat /\ calledAt \in Nat
    /\ flushes <= MaxFlushes /\ followUps <= MaxFollowUps
    /\ due <= flushes + followUps /\ calledAt <= flushes

ThreadsOK ==
    /\ counted \subseteq Workers /\ begun \subseteq Workers /\ raisers \subseteq Workers
    /\ flushed \in BOOLEAN
    /\ pc \in [Threads -> Label]
    /\ read \in [Threads -> SUBSET Property]
    /\ mtx \in Threads \cup {NoThread}
    /\ asleep \in BOOLEAN /\ compaction_complete \in BOOLEAN

\* mtx is held from the lock to the unlock, and released while the waiter sleeps
HeldWhereLocked == \A t \in Threads : mtx = t <=> pc[t] \in Reading \cup {"test"}

\* Each thread runs its own function
OwnCode ==
    /\ pc[Waiter] \notin {"idle", "compact", "notified"}
    /\ \A w \in Workers : pc[w] \notin {"workload", "test", "wait", "returned"}

\* The waiter has found the flag unset and holds mtx, or sleeps since
FlagUnset == pc[Waiter] \in Reading \/ asleep => ~compaction_complete
AsleepInWait == asleep => pc[Waiter] = "wait"

\* What the waiter has read of the properties, against what they are now: whatever
\* is counted since it read that nothing was, and so whatever can make a compaction
\* due, began since
RunningRead ==
    /\ Busy \subseteq counted
    /\ pc[Waiter] \in {"read2", "read3", "decide"} /\ 1 \notin read[Waiter] =>
        counted \cup raisers \subseteq begun
DueRead ==
    pc[Waiter] = "decide" /\ 3 \notin read[Waiter] /\ ~flushed /\ raisers = {} => due = 0

WaitInv ==
    /\ CountsOK /\ ThreadsOK /\ HeldWhereLocked /\ OwnCode /\ FlagUnset /\ AsleepInWait
    /\ RunningRead /\ DueRead

LEMMA WaiterIsNoWorker == Waiter \in Threads /\ Workers \subseteq Threads /\ Waiter \notin Workers
                          /\ NoThread \notin Threads
  BY WaitAssumption DEF Threads

LEMMA WaitInit == Init => WaitInv
<1> SUFFICES ASSUME Init PROVE WaitInv
  OBVIOUS
<1> USE WaitAssumption, WaiterIsNoWorker DEF Init
<1>0. CountsOK
  BY DEF CountsOK
<1>1. ThreadsOK
  BY DEF ThreadsOK, Label
<1>2. HeldWhereLocked /\ OwnCode
  BY DEF HeldWhereLocked, OwnCode, Reading
<1>3. FlagUnset /\ AsleepInWait /\ RunningRead /\ DueRead
  BY DEF FlagUnset, AsleepInWait, RunningRead, DueRead, Busy
<1> QED BY <1>0, <1>1, <1>2, <1>3 DEF WaitInv

LEMMA ReadLabels == \A i \in Property :
    /\ ReadLabel[i] \in Reading \ {"decide"}
    /\ i < 3 => ReadLabel[i + 1] \in Reading \ {"decide"}
<1>1. ReadLabel[1] = "read1" /\ ReadLabel[2] = "read2" /\ ReadLabel[3] = "read3"
  BY DEF ReadLabel
<1>2. \A i \in Property : i = 1 \/ i = 2 \/ i = 3
  BY DEF Property
<1> QED BY <1>1, <1>2 DEF Reading

LEMMA ReadStep ==
  ASSUME WaitInv, NEW t \in Threads, ReadProperty(t)
  PROVE  WaitInv'
<1> USE WaitAssumption, WaiterIsNoWorker DEF rocksdb
<1>1. PICK i \in Property :
        /\ pc[t] = ReadLabel[i]
        /\ read' = [read EXCEPT ![t] = IF Nonzero(i) THEN @ \cup {i} ELSE @ \ {i}]
        /\ pc' = [pc EXCEPT ![t] = IF i < 3 THEN ReadLabel[i + 1] ELSE "decide"]
        /\ begun' = IF t = Waiter /\ i = 1 THEN {} ELSE begun
        /\ IF t = Waiter THEN flushed' = FALSE /\ raisers' = {}
                         ELSE UNCHANGED <<flushed, raisers>>
        /\ UNCHANGED <<rocksdb, mtx, asleep, compaction_complete, calledAt>>
  BY DEF ReadProperty
<1> DEFINE next == IF i < 3 THEN ReadLabel[i + 1] ELSE "decide"
<1>a. \/ i = 1 /\ ReadLabel[i] = "read1" /\ next = "read2"
      \/ i = 2 /\ ReadLabel[i] = "read2" /\ next = "read3"
      \/ i = 3 /\ ReadLabel[i] = "read3" /\ next = "decide"
  <2>1. ReadLabel[1] = "read1" /\ ReadLabel[2] = "read2" /\ ReadLabel[3] = "read3"
    BY DEF ReadLabel
  <2>2. i = 1 \/ i = 2 \/ i = 3
    BY DEF Property
  <2> QED BY <2>1, <2>2
<1>b. /\ pc[t] = ReadLabel[i]
      /\ pc' = [pc EXCEPT ![t] = next]
      /\ pc \in [Threads -> Label]
  BY <1>1 DEF WaitInv, ThreadsOK
<1>c. pc'[t] = next
  BY <1>b
<1> HIDE DEF next
<1>2. /\ pc[t] \in {"read1", "read2", "read3"}
      /\ pc'[t] \in {"read2", "read3", "decide"}
      /\ \A u \in Threads \ {t} : pc'[u] = pc[u] /\ read'[u] = read[u]
      /\ pc' \in [Threads -> Label] /\ read' \in [Threads -> SUBSET Property]
  <2>1. pc'[t] = next /\ \A u \in Threads \ {t} : pc'[u] = pc[u] /\ read'[u] = read[u]
    BY <1>1, <1>b DEF WaitInv, ThreadsOK
  <2>2. read' \in [Threads -> SUBSET Property]
    BY <1>1 DEF WaitInv, ThreadsOK
  <2>3. next \in Label
    BY <1>a DEF Label
  <2>4. pc' \in [Threads -> Label]
    BY <1>b, <2>3
  <2> QED BY <1>a, <1>b, <2>1, <2>2, <2>4
<1>0. CountsOK'
  BY <1>1 DEF WaitInv, CountsOK
<1>3. ThreadsOK'
  BY <1>1, <1>2 DEF WaitInv, ThreadsOK
<1>4. HeldWhereLocked'
  BY <1>1, <1>2 DEF WaitInv, HeldWhereLocked, Reading
<1>5. OwnCode'
  BY <1>1, <1>2 DEF WaitInv, OwnCode
<1>6. FlagUnset' /\ AsleepInWait'
  BY <1>1, <1>2 DEF WaitInv, FlagUnset, AsleepInWait, Reading
<1>7. Busy' = Busy
  BY <1>1, <1>2 DEF Busy
<1>8. CASE t # Waiter
  <2>1. RunningRead' /\ DueRead'
    BY <1>1, <1>2, <1>7, <1>8 DEF WaitInv, RunningRead, DueRead
  <2> QED BY <1>0, <1>3, <1>4, <1>5, <1>6, <2>1 DEF WaitInv
<1>9. CASE t = Waiter /\ i = 1
  <2>1. pc'[t] = "read2"
    BY <1>a, <1>c, <1>9
  <2>2. 1 \notin read'[t] => counted = {}
    BY <1>1, <1>9 DEF Nonzero, WaitInv, ThreadsOK
  <2>3. RunningRead' /\ DueRead'
    BY <1>1, <1>7, <1>9, <2>1, <2>2 DEF WaitInv, RunningRead, DueRead
  <2> QED BY <1>0, <1>3, <1>4, <1>5, <1>6, <2>3 DEF WaitInv
<1>10. CASE t = Waiter /\ i = 2
  <2>1. pc[t] = "read2" /\ pc'[t] = "read3"
    BY <1>a, <1>b, <1>c, <1>10
  <2>2. 1 \in read'[t] <=> 1 \in read[t]
    BY <1>1, <1>10 DEF WaitInv, ThreadsOK
  <2>3. RunningRead'
    BY <1>1, <1>7, <1>10, <2>1, <2>2 DEF WaitInv, RunningRead
  <2>4. DueRead'
    BY <1>10, <2>1 DEF DueRead
  <2> QED BY <1>0, <1>3, <1>4, <1>5, <1>6, <2>3, <2>4 DEF WaitInv
<1>11. CASE t = Waiter /\ i = 3
  <2>1. pc[t] = "read3" /\ pc'[t] = "decide"
    BY <1>a, <1>b, <1>c, <1>11
  <2>2. 1 \in read'[t] <=> 1 \in read[t]
    BY <1>1, <1>11 DEF WaitInv, ThreadsOK
  <2>3. 3 \notin read'[t] => due = 0
    BY <1>1, <1>11 DEF Nonzero, WaitInv, ThreadsOK, CountsOK
  <2>4. RunningRead'
    BY <1>1, <1>7, <1>11, <2>1, <2>2 DEF WaitInv, RunningRead
  <2>5. DueRead'
    BY <1>1, <1>11, <2>1, <2>3 DEF DueRead
  <2> QED BY <1>0, <1>3, <1>4, <1>5, <1>6, <2>4, <2>5 DEF WaitInv
<1> QED BY <1>8, <1>9, <1>10, <1>11 DEF Property

\* The results of a compaction
LEMMA FollowUpStep ==
  ASSUME CountsOK, NEW w \in Workers, FollowUp(w)
  PROVE  /\ followUps' \in Nat /\ followUps' <= MaxFollowUps
         /\ due' \in Nat /\ due' - due = followUps' - followUps
         /\ \/ due' = due /\ raisers' = raisers
            \/ w \in counted /\ raisers' = raisers \cup {w}
  BY WaitAssumption DEF FollowUp, CountsOK

LEMMA WaitStep == WaitInv /\ [Next]_vars => WaitInv'
<1> SUFFICES ASSUME WaitInv, [Next]_vars PROVE WaitInv'
  OBVIOUS
<1> USE WaitAssumption, WaiterIsNoWorker DEF WaitInv, CountsOK, ThreadsOK, HeldWhereLocked, OwnCode,
        FlagUnset, AsleepInWait, RunningRead, DueRead, Busy, Label, Reading, rocksdb, history
<1>1. CASE Flush
  BY <1>1 DEF Flush
<1>2. CASE TimeOut
  BY <1>2 DEF TimeOut
<1>3. CASE CallWait
  BY <1>3 DEF CallWait
<1>4. ASSUME NEW t \in Threads, Lock(t) PROVE WaitInv'
  BY <1>4 DEF Lock
<1>5. CASE TestFlag
  BY <1>5 DEF TestFlag
<1>6. CASE Decide
  BY <1>6 DEF Decide, Quiet
<1>7. CASE Wake
  BY <1>7 DEF Wake
<1>8. ASSUME NEW w \in Workers, BeginCompaction(w) PROVE WaitInv'
  BY <1>8 DEF BeginCompaction
<1>9. ASSUME NEW w \in Workers, Notify(w) PROVE WaitInv'
  BY <1>9, FollowUpStep DEF Notify
<1>10. ASSUME NEW w \in Workers, OnCompactionCompleted(w) PROVE WaitInv'
  BY <1>10 DEF OnCompactionCompleted
<1>11. ASSUME NEW w \in Workers, EndCompaction(w) PROVE WaitInv'
  BY <1>11, FollowUpStep DEF EndCompaction
<1>12. ASSUME NEW t \in Threads, ReadProperty(t) PROVE WaitInv'
  BY <1>12, ReadStep
<1>13. CASE UNCHANGED vars
  BY <1>13 DEF vars
<1> QED
  BY <1>1, <1>2, <1>3, <1>4, <1>5, <1>6, <1>7, <1>8, <1>9, <1>10, <1>11, <1>12, <1>13
  DEF Next, Wait, Compaction

LEMMA WaitInvariant == Spec => []WaitInv
  BY WaitInit, WaitStep, PTL DEF Spec

-----------------------------------------------------------------------------

\* Every variable keeps its type, and mtx is held by exactly the thread that is
\* between lock and unlock in WaitForCompactions or OnCompactionCompleted.
THEOREM MutexDiscipline == Spec => []TypeOK
<1>1. WaitInv => TypeOK
  BY WaitAssumption DEF WaitInv, CountsOK, ThreadsOK, HeldWhereLocked, TypeOK, Label, Reading
<1> QED BY <1>1, WaitInvariant, PTL

\* Once OnCompactionCompleted has set compaction_complete the waiter does not
\* sleep in cv.wait_for, with any number of compaction threads.
THEOREM WakeUpsAreKept == Spec => []NoLostWakeup
<1>1. WaitInv => NoLostWakeup
  BY DEF WaitInv, FlagUnset, NoLostWakeup
<1> QED BY <1>1, WaitInvariant, PTL

\* When WaitForCompactions breaks out of its loop, each compaction that runs, and each
\* whose results made another due since its last read, began after its first read, and
\* a compaction is due only if a flush or such results came after the last.
THEOREM BreakIsWorthItsReads == Spec => BreakIsNearlySafe
<1>1. WaitInv /\ [Next]_vars =>
        [ Returns /\ pc[Waiter] = "decide" =>
            /\ Busy \cup raisers \subseteq begun
            /\ ~flushed /\ raisers = {} => due = 0 ]_vars
  <2> SUFFICES ASSUME WaitInv, Next, Returns, pc[Waiter] = "decide"
               PROVE  /\ Busy \cup raisers \subseteq begun
                      /\ ~flushed /\ raisers = {} => due = 0
    BY DEF vars
  <2>1. Decide
    <3>1. \A t \in Threads : Lock(t) => pc'[Waiter] # "returned" \/ pc[Waiter] = "returned"
      BY WaiterIsNoWorker DEF Lock, WaitInv, ThreadsOK
    <3>2. ASSUME NEW t \in Threads, ReadProperty(t) PROVE pc'[Waiter] # "returned"
      <4>1. PICK i \in Property :
              /\ pc[t] = ReadLabel[i]
              /\ pc' = [pc EXCEPT ![t] = IF i < 3 THEN ReadLabel[i + 1] ELSE "decide"]
        BY <3>2 DEF ReadProperty
      <4> DEFINE next == IF i < 3 THEN ReadLabel[i + 1] ELSE "decide"
      <4>2. next # "returned"
        BY ReadLabels DEF Reading
      <4>3. pc[t] = ReadLabel[i] /\ pc' = [pc EXCEPT ![t] = next]
        BY <4>1
      <4> HIDE DEF next
      <4>4. pc[t] # "returned"
        BY <4>3, ReadLabels DEF Reading
      <4> QED BY <4>2, <4>3, WaiterIsNoWorker DEF WaitInv, ThreadsOK, Returns
    <3>3. \A w \in Workers : Compaction(w) => pc'[Waiter] = pc[Waiter] \/ ReadProperty(w)
      BY WaiterIsNoWorker DEF Compaction, BeginCompaction, Notify, Lock, OnCompactionCompleted,
         EndCompaction, WaitInv, ThreadsOK
    <3> QED
      BY WaiterIsNoWorker, <3>1, <3>2, <3>3 DEF Next, Wait, Returns, Flush, TimeOut, CallWait,
         TestFlag, Wake, WaitInv, ThreadsOK
  <2>2. read[Waiter] = {}
    BY <2>1, WaiterIsNoWorker DEF Decide, Quiet, Returns, WaitInv, ThreadsOK
  <2> QED BY <2>2 DEF WaitInv, RunningRead, DueRead
<1> QED BY <1>1, WaitInvariant, PTL DEF Spec, BreakIsNearlySafe
=============================================================================
