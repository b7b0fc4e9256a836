--------------------------- MODULE CompactionWait ---------------------------
(***************************************************************************)
(* WaitForCompactions and CompactionsListner (src/src/event_listners.cc):  *)
(* the thread that ran the workload waits until RocksDB has no compaction  *)
(* left, and the compaction threads report each compaction that ends.  The *)
(* two share the mutex mtx, the condition variable cv and the global       *)
(* compaction_complete; both decide from three properties of RocksDB that  *)
(* they read one after the other while RocksDB goes on.                    *)
(*                                                                         *)
(* RocksDB is external: due is the number of compactions it needs and has  *)
(* not begun.  A flush can raise it at any time, and so can the results of *)
(* a compaction, which may fill the next level.                            *)
(***************************************************************************)
EXTENDS Naturals, FiniteSets

CONSTANTS
    Workers,       \* RocksDB's compaction threads
    MaxFlushes,    \* bound: flushes that make a compaction necessary
    MaxFollowUps,  \* bound: compactions that other compactions make necessary
    Waiter,        \* the thread that runs the workload
    NoThread

ASSUME WaitAssumption ==
    /\ IsFiniteSet(Workers)
    /\ Waiter \notin Workers /\ NoThread \notin Workers \cup {Waiter}
    /\ MaxFlushes \in Nat /\ MaxFollowUps \in Nat

Threads == Workers \cup {Waiter}

VARIABLES
    flushes,    \* how many flushes were done
    followUps,  \* how many compactions others made necessary
    due,        \* compactions needed and not begun
    counted,    \* the workers num-running-compactions counts
    pc,         \* where each thread is
    read,       \* per thread, which of the three properties it read as nonzero
    mtx,        \* the holder of mtx, or NoThread
    asleep,     \* the waiter is blocked in cv.wait_for
    compaction_complete,
    calledAt,   \* history: flushes when WaitForCompactions was called
    begun,      \* history: the workers that began since the waiter's first read
    flushed,    \* history: there was a flush since the waiter's last read
    raisers     \* history: the workers whose results made a compaction due since then

rocksdb == <<flushes, followUps, due, counted>>
history == <<calledAt, begun, flushed, raisers>>
vars == <<rocksdb, pc, read, mtx, asleep, compaction_complete, history>>

Property == 1 .. 3   \* in the order the code reads them

\* GetIntProperty: num-running-compactions, estimate-pending-compaction-bytes,
\* compaction-pending
\*
\* Mutant: the running compactions last.
NonzeroRunningLast(i) == IF i = 3 THEN counted # {} ELSE due > 0

Nonzero(i) == IF i = 1 THEN counted # {} ELSE due > 0

Init ==
    /\ flushes = 0 /\ followUps = 0 /\ due = 0 /\ counted = {}
    /\ pc = [t \in Threads |-> IF t = Waiter THEN "workload" ELSE "idle"]
    /\ read = [t \in Threads |-> {}]
    /\ mtx = NoThread
    /\ asleep = FALSE
    /\ compaction_complete = FALSE
    /\ calledAt = 0 /\ begun = {} /\ flushed = FALSE /\ raisers = {}

-----------------------------------------------------------------------------
(* RocksDB (external).                                                      *)

Flush ==
    /\ flushes < MaxFlushes
    /\ flushes' = flushes + 1
    /\ due' = due + 1
    /\ flushed' = TRUE
    /\ UNCHANGED <<followUps, counted, pc, read, mtx, asleep, compaction_complete, calledAt,
                   begun, raisers>>

BeginCompaction(w) ==
    /\ pc[w] = "idle" /\ due > 0
    /\ due' = due - 1
    /\ counted' = counted \cup {w}
    /\ pc' = [pc EXCEPT ![w] = "compact"]
    /\ begun' = begun \cup {w}
    /\ UNCHANGED <<flushes, followUps, read, mtx, asleep, compaction_complete, calledAt,
                   flushed, raisers>>

\* While w is counted, its results may make other compactions due.
FollowUp(w) ==
    \E n \in 0 .. MaxFollowUps - followUps :
        /\ n > 0 => w \in counted
        /\ followUps' = followUps + n
        /\ due' = due + n
        /\ raisers' = IF n > 0 THEN raisers \cup {w} ELSE raisers

\* The results are in and RocksDB notifies its listeners.  A background compaction
\* is still counted while it does, a manual one is not.
Notify(w) ==
    /\ pc[w] = "compact"
    /\ FollowUp(w)
    /\ \E still \in BOOLEAN : counted' = IF still THEN counted ELSE counted \ {w}
    /\ pc' = [pc EXCEPT ![w] = "lock"]
    /\ UNCHANGED <<flushes, read, mtx, asleep, compaction_complete, calledAt, begun,
                   flushed>>

\* RocksDB looks for more to do as it takes the compaction off its count.
EndCompaction(w) ==
    /\ pc[w] = "notified"
    /\ FollowUp(w)
    /\ counted' = counted \ {w}
    /\ pc' = [pc EXCEPT ![w] = "idle"]
    /\ UNCHANGED <<flushes, read, mtx, asleep, compaction_complete, calledAt, begun,
                   flushed>>

-----------------------------------------------------------------------------
(* What both functions do: take mtx, read the three properties in turn.     *)

\* Mutant: goes on without the mutex.
LockWithoutWaiting(t) ==
    /\ pc[t] = "lock"
    /\ mtx' = t
    /\ pc' = [pc EXCEPT ![t] = IF t = Waiter THEN "test" ELSE "read1"]
    /\ UNCHANGED <<rocksdb, read, asleep, compaction_complete, history>>

Lock(t) ==
    /\ pc[t] = "lock"
    /\ mtx = NoThread
    /\ mtx' = t
    /\ pc' = [pc EXCEPT ![t] = IF t = Waiter THEN "test" ELSE "read1"]
    /\ UNCHANGED <<rocksdb, read, asleep, compaction_complete, history>>

ReadLabel == <<"read1", "read2", "read3">>

ReadProperty(t) ==
    \E i \in Property :
        /\ pc[t] = ReadLabel[i]
        /\ read' = [read EXCEPT ![t] = IF Nonzero(i) THEN @ \cup {i} ELSE @ \ {i}]
        /\ pc' = [pc EXCEPT ![t] = IF i < 3 THEN ReadLabel[i + 1] ELSE "decide"]
        /\ begun' = IF t = Waiter /\ i = 1 THEN {} ELSE begun
        /\ IF t = Waiter THEN flushed' = FALSE /\ raisers' = {}
                         ELSE UNCHANGED <<flushed, raisers>>
        /\ UNCHANGED <<rocksdb, mtx, asleep, compaction_complete, calledAt>>

Quiet(t) == read[t] = {}

-----------------------------------------------------------------------------
(* OnCompactionCompleted, from its last read to its return.                 *)

\* Mutant: sets the flag and does not notify.
OnCompactionCompletedSilently(w) ==
    /\ pc[w] = "decide"
    /\ compaction_complete' = (compaction_complete \/ Quiet(w))
    /\ mtx' = NoThread
    /\ read' = [read EXCEPT ![w] = {}]
    /\ pc' = [pc EXCEPT ![w] = "notified"]
    /\ UNCHANGED <<rocksdb, asleep, history>>

OnCompactionCompleted(w) ==
    /\ pc[w] = "decide"
    /\ compaction_complete' = (compaction_complete \/ Quiet(w))
    /\ asleep' = FALSE              \* cv.notify_one
    /\ mtx' = NoThread
    /\ read' = [read EXCEPT ![w] = {}]
    /\ pc' = [pc EXCEPT ![w] = "notified"]
    /\ UNCHANGED <<rocksdb, history>>

-----------------------------------------------------------------------------
(* WaitForCompactions.                                                      *)

CallWait ==
    /\ pc[Waiter] = "workload"
    /\ pc' = [pc EXCEPT ![Waiter] = "lock"]
    /\ calledAt' = flushes
    /\ UNCHANGED <<rocksdb, read, mtx, asleep, compaction_complete, begun, flushed,
                   raisers>>

\* while (!compaction_complete)
TestFlag ==
    /\ pc[Waiter] = "test"
    /\ IF compaction_complete
       THEN /\ pc' = [pc EXCEPT ![Waiter] = "returned"]
            /\ mtx' = NoThread
       ELSE /\ pc' = [pc EXCEPT ![Waiter] = "read1"]
            /\ UNCHANGED mtx
    /\ UNCHANGED <<rocksdb, read, asleep, compaction_complete, history>>

\* break, or cv.wait_for, which gives up mtx as it goes to sleep
Decide ==
    /\ pc[Waiter] = "decide"
    /\ IF Quiet(Waiter)
       THEN pc' = [pc EXCEPT ![Waiter] = "returned"] /\ UNCHANGED asleep
       ELSE pc' = [pc EXCEPT ![Waiter] = "wait"] /\ asleep' = TRUE
    /\ mtx' = NoThread
    /\ UNCHANGED <<rocksdb, read, compaction_complete, history>>

\* Mutant: wait instead of wait_for.
TimeOutNever == FALSE /\ UNCHANGED vars

\* The 10 milliseconds are over.
TimeOut ==
    /\ asleep
    /\ asleep' = FALSE
    /\ UNCHANGED <<rocksdb, pc, read, mtx, compaction_complete, history>>

\* wait_for returns with mtx held
Wake ==
    /\ pc[Waiter] = "wait" /\ ~asleep
    /\ mtx = NoThread
    /\ mtx' = Waiter
    /\ pc' = [pc EXCEPT ![Waiter] = "test"]
    /\ UNCHANGED <<rocksdb, read, asleep, compaction_complete, history>>

Wait == CallWait \/ Lock(Waiter) \/ TestFlag \/ ReadProperty(Waiter) \/ Decide \/ Wake

Compaction(w) ==
    \/ BeginCompaction(w) \/ Notify(w) \/ Lock(w) \/ ReadProperty(w)
    \/ OnCompactionCompleted(w) \/ EndCompaction(w)

Next == Flush \/ TimeOut \/ Wait \/ \E w \in Workers : Compaction(w)

\* Threads that can run do.  mtx is free again and again while the others poll
\* it, so that taking it needs the strong form.
Fairness ==
    /\ SF_vars(Wait) /\ WF_vars(TimeOut)
    /\ \A w \in Workers : SF_vars(Compaction(w))

Spec == Init /\ [][Next]_vars /\ Fairness

-----------------------------------------------------------------------------
(* The properties.                                                          *)

\* Every variable holds a value of its kind, and mtx is held by the thread that
\* is between its lock and its unlock, in wait_for by nobody.
TypeOK ==
    /\ flushes \in 0 .. MaxFlushes
    /\ followUps \in 0 .. MaxFollowUps
    /\ due \in 0 .. MaxFlushes + MaxFollowUps
    /\ counted \subseteq Workers
    /\ pc \in [Threads -> {"workload", "idle", "compact", "lock", "read1", "read2",
                           "read3", "decide", "notified", "test", "wait", "returned"}]
    /\ read \in [Threads -> SUBSET Property]
    /\ mtx \in Threads \cup {NoThread}
    /\ \A t \in Threads : mtx = t <=> pc[t] \in {"read1", "read2", "read3", "decide", "test"}
    /\ asleep \in BOOLEAN
    /\ compaction_complete \in BOOLEAN /\ flushed \in BOOLEAN
    /\ calledAt \in 0 .. flushes /\ begun \cup raisers \subseteq Workers

\* No wake-up is lost between the test of the flag and the sleep: once a
\* listener has set it the waiter is not asleep.
NoLostWakeup == compaction_complete => ~asleep

Busy == {w \in Workers : pc[w] = "compact"}
Returns == pc[Waiter] # "returned" /\ pc'[Waiter] = "returned"

\* What the loop's own reads are worth, one after the other as they are: when the
\* waiter breaks out of it, each compaction that is running, and each whose results
\* made another one due since the last read, began after the first read; and none is
\* due unless a flush or such results came after the last (event_listners.cc 15-25).
BreakIsNearlySafe ==
    [][ Returns /\ pc[Waiter] = "decide" =>
            /\ Busy \cup raisers \subseteq begun
            /\ ~flushed /\ raisers = {} => due = 0 ]_vars

\* With flushes and follow-ups over the waiter returns, whoever RocksDB counts as running
\* and whether or not a notification finds the waiter asleep.
WaitReturns == (pc[Waiter] = "lock") ~> (pc[Waiter] = "returned")

\* "Wait for compactions that are running (or will run) to make the LSM tree in
\* its shape": when the flag ends the wait, with no flush since the call, no
\* compaction is running and none is due.
FlagReturnIsSafe ==
    [][ Returns /\ pc[Waiter] = "test" /\ flushes = calledAt
            => Busy = {} /\ due = 0 ]_vars
=============================================================================
