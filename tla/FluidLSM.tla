------------------------------ MODULE FluidLSM ------------------------------
(***************************************************************************)
(* The compaction picker of src/src/fluid_lsm.cc with the threads that run *)
(* it: RocksDB's flush threads enter through OnFlushCompleted, the threads *)
(* of RocksDB's low-priority pool through the scheduled CompactFiles.  The *)
(* structure lazy_levels_ is rebuilt under lazy_levels_mutex_ and then     *)
(* scanned, pointed into and written without it, so a scan can be          *)
(* overtaken by another thread's rebuild.  Each read is therefore a step   *)
(* of its own, a read that meets a rebuild in progress sees any part of    *)
(* what is being built, and a pointer taken before a rebuild is a dangling *)
(* one: what it reads is open, and the program may die of it.              *)
(*                                                                         *)
(* RocksDB itself is external: it installs flushed files, runs CompactFiles*)
(* requests and answers metadata queries.                                  *)
(***************************************************************************)
EXTENDS FluidTree, Sequences

CONSTANTS
    FlushThreads,  \* RocksDB's high-priority pool
    Workers,       \* RocksDB's low-priority pool, which env->Schedule uses
    MaxFlushes,    \* bound: flushes of a behaviour
    NoThread

Threads == FlushThreads \cup Workers

ASSUME ThreadAssumption ==
    /\ IsFiniteSet(FlushThreads) /\ FlushThreads # {}
    /\ IsFiniteSet(Workers)
    /\ FlushThreads \cap Workers = {}
    /\ NoThread \notin Threads
    /\ MaxFlushes \in Nat

VARIABLES
    db,        \* the files RocksDB holds, as GetColumnFamilyMetaData shows them
    nextName,  \* the next file number
    flushes,   \* how many flushes were done
    lazy,      \* lazy_levels_
    lock,      \* the holder of lazy_levels_mutex_, or NoThread
    running,   \* parallel_compactions_running_
    queue,     \* the tasks given to env->Schedule and not yet started
    pc,        \* where each thread is
    pick,      \* each thread's locals of PickCompaction
    job,       \* each worker's CompactFiles request while RocksDB runs it
    crashed    \* the process died of undefined behaviour

vars == <<db, nextName, flushes, lazy, lock, running, queue, pc, pick, job, crashed>>

parallel_compactions_allowed == 1

\* A request in the hands of env->Schedule or of a worker
\* clean (a history variable): picked without a race, for a level that RocksDB
\* has every slot of
Task == [names : SUBSET Nat, out : Int, clean : BOOLEAN]
NoTask == [names |-> {}, out |-> 0, clean |-> FALSE]

\* dangling: the pointers in input were taken before the last rebuild.
\* raced (a history variable): since this thread's rebuild another thread has
\* rebuilt too, or a compaction has ended.
NoPick == [lvl |-> 0, largest |-> 0, input |-> {}, target |-> 0, out |-> 0,
           dangling |-> FALSE, raced |-> FALSE]
Pick == [lvl : FluidLevels, largest : FluidLevels, input : SUBSET File,
         target : 0 .. NumLevels, out : Int, dangling : BOOLEAN, raced : BOOLEAN]

Scanning == {"largest", "count", "add", "check", "slot", "enqueue"}
HoldsPointers == {"check", "slot", "enqueue"}
PC == Scanning \cup {"idle", "build", "locked", "compact", "decrement"}

Init ==
    /\ db = {} /\ nextName = 1 /\ flushes = 0
    /\ lazy = [lvl \in FluidLevels |-> {}]
    /\ lock = NoThread
    /\ running = 0
    /\ queue = <<>>
    /\ pc = [p \in Threads |-> "idle"]
    /\ pick = [p \in Threads |-> NoPick]
    /\ job = [w \in Workers |-> NoTask]
    /\ crashed = FALSE

-----------------------------------------------------------------------------
(* A flush thread installs a file on level 0 and calls OnFlushCompleted.    *)

OnFlushCompleted(f) ==
    /\ pc[f] = "idle"
    /\ flushes < MaxFlushes
    /\ \E size \in 1 .. WriteBuffer :
          db' = db \cup {[name |-> nextName, level |-> 0, size |-> size,
                          being_compacted |-> FALSE]}
    /\ nextName' = nextName + 1
    /\ flushes' = flushes + 1
    /\ pc' = [pc EXCEPT ![f] = "build"]
    /\ UNCHANGED <<lazy, lock, running, queue, pick, job, crashed>>

-----------------------------------------------------------------------------
(* PickCompaction, run by a flush thread or by a worker after its job.      *)

Racing(p) == {q \in Threads \ {p} : pc[q] \in Scanning \cup {"locked"}}

\* The rebuild of p leaves the pointers of the other scanning threads dangling.
Overtake(p) ==
    [q \in Threads |->
        IF q \in Racing(p)
        THEN [pick[q] EXCEPT !.raced = TRUE,
                             !.dangling = @ \/ pc[q] \in HoldsPointers]
        ELSE pick[q]]

\* BuildStructure from the lock to the unlock: the levels are cleared and
\* refilled in place, under the eyes of every scanning thread.
BuildStructureLock(p) ==
    /\ pc[p] = "build"
    /\ lock = NoThread
    /\ lock' = p
    /\ lazy' = BuildStructure(db)
    /\ pick' = Overtake(p)
    /\ pc' = [pc EXCEPT ![p] = "locked"]
    /\ UNCHANGED <<db, nextName, flushes, running, queue, job, crashed>>

BuildStructureUnlock(p) ==
    /\ pc[p] = "locked"
    /\ lock' = NoThread
    /\ pc' = [pc EXCEPT ![p] = "largest"]
    /\ UNCHANGED <<db, nextName, flushes, lazy, running, queue, pick, job, crashed>>

Rebuilding == lock # NoThread

\* What a thread that scans a level sees of it
Seen(lvl) == IF Rebuilding THEN SUBSET lazy[lvl] ELSE {lazy[lvl]}

FindLargestOccupiedLevel(p) ==
    /\ pc[p] = "largest"
    /\ \E lvl \in FluidLevels :
          /\ IF Rebuilding THEN lvl = 0 \/ Occupied(lazy[lvl])
                           ELSE IsLargestOccupied(lazy, lvl)
          /\ pick' = [pick EXCEPT ![p].largest = lvl, ![p].lvl = lvl]
    /\ pc' = [pc EXCEPT ![p] = "count"]
    /\ UNCHANGED <<db, nextName, flushes, lazy, lock, running, queue, job, crashed>>

\* Mutant: lvl >= 0 tested before the decrement.
MoreLevelsOffByOne(lvl) == lvl >= 0

MoreLevels(lvl) == lvl > 0

\* The loop goes on with the next smaller level, or PickCompaction returns:
\* to RocksDB on a flush thread, to the decrement of CompactFiles on a worker.
NextLevel(p) ==
    IF MoreLevels(pick[p].lvl)
    THEN /\ pick' = [pick EXCEPT ![p] = [NoPick EXCEPT !.lvl = pick[p].lvl - 1,
                                                      !.largest = pick[p].largest,
                                                      !.raced = pick[p].raced]]
         /\ pc' = [pc EXCEPT ![p] = "count"]
    ELSE /\ pick' = [pick EXCEPT ![p] = NoPick]
         /\ pc' = [pc EXCEPT ![p] = IF p \in Workers THEN "decrement" ELSE "idle"]

CountRuns(p) ==
    /\ pc[p] = "count"
    /\ \E level \in Seen(pick[p].lvl) :
          IF NeedsCompaction(pick[p].lvl, pick[p].largest, NumLiveRuns(level))
          THEN pc' = [pc EXCEPT ![p] = "add"] /\ UNCHANGED pick
          ELSE NextLevel(p)
    /\ UNCHANGED <<db, nextName, flushes, lazy, lock, running, queue, job, crashed>>

AddFiles(p) ==
    /\ pc[p] = "add"
    /\ \E level \in Seen(pick[p].lvl) :
          pick' = [pick EXCEPT ![p].input = AddFilesToCompaction(level),
                               ![p].dangling = Rebuilding]
    /\ pc' = [pc EXCEPT ![p] = "check"]
    /\ UNCHANGED <<db, nextName, flushes, lazy, lock, running, queue, job, crashed>>

Targets(p) ==
    IF pick[p].dangling
    THEN {pick[p].lvl, pick[p].lvl + 1}
    ELSE {GetCompactionTargetLevel(pick[p].lvl, Size(pick[p].input))}

\* Mutant: admits one more.
HasCapacityOffByOne == parallel_compactions_allowed >= running

\* The unlocked read of parallel_compactions_running_
HasCapacity == parallel_compactions_allowed > running

CheckCapacity(p) ==
    /\ pc[p] = "check"
    /\ IF HasCapacity
       THEN /\ \E target \in Targets(p) : pick' = [pick EXCEPT ![p].target = target]
            /\ pc' = [pc EXCEPT ![p] = "slot"]
       ELSE NextLevel(p)
    /\ UNCHANGED <<db, nextName, flushes, lazy, lock, running, queue, job, crashed>>

-----------------------------------------------------------------------------
(* The rest of ScheduleCompaction, once it believes to have capacity.       *)

LevelAt(lvl) == IF lvl \in FluidLevels THEN lazy[lvl] ELSE {}

\* The slot scan: the first empty run of the target, the deepest one first
FindSlot(p) ==
    LET origin == pick[p].lvl
        target == pick[p].target
    IN  /\ pc[p] = "slot"
        /\ \E out \in IF Rebuilding /\ target > origin
                      THEN {SlotLevel(target, j) : j \in 0 .. K}
                      ELSE OutputLevels(origin, target, LevelAt(target)) :
              pick' = [pick EXCEPT ![p].out = out]
        /\ pc' = [pc EXCEPT ![p] = "enqueue"]
        /\ UNCHANGED <<db, nextName, flushes, lazy, lock, running, queue, job, crashed>>

\* The names the pointers give.  A dangling one gives the old name, the name
\* of a file now stored at its address, or (0) bytes that name no file.
NamesRead(p) ==
    LET input == pick[p].input
        now   == Names(UNION {run.files : run \in UNION {lazy[l] : l \in FluidLevels}})
    IN  IF pick[p].dangling
        THEN {Names(input), {0}}
                \cup {names \in SUBSET now : Cardinality(names) <= Cardinality(input)}
        ELSE {Names(input)}

Clean(local) == ~local.raced /\ (local.target = 0 \/ Backed(local.target))

\* Reads the names, writes being_compacted through the same pointers, counts
\* the compaction and hands it to env->Schedule.
Enqueue(p) ==
    /\ pc[p] = "enqueue"
    /\ \E names \in NamesRead(p) :
          /\ lazy' = [lvl \in FluidLevels |->
                         {Run(Marked(run.files, names), run.RocksDB_level) :
                             run \in lazy[lvl]}]
          /\ queue' = Append(queue, [names |-> names, out |-> pick[p].out,
                                    clean |-> Clean(pick[p])])
    /\ running' = running + 1
    /\ NextLevel(p)
    /\ UNCHANGED <<db, nextName, flushes, lock, job, crashed>>

PickStep(p) ==
    \/ BuildStructureLock(p) \/ BuildStructureUnlock(p)
    \/ FindLargestOccupiedLevel(p) \/ CountRuns(p) \/ AddFiles(p)
    \/ CheckCapacity(p) \/ FindSlot(p) \/ Enqueue(p)

-----------------------------------------------------------------------------
(* CompactFiles, the task a worker runs.                                    *)

\* Mutant: returns on an I/O error without the decrement.
AfterCompactionReturns(status) == IF status = "IOError" THEN "idle" ELSE "build"

\* if (!s.IsIOError()) PickCompaction(), and only then the decrement
AfterCompaction(status) == IF status = "IOError" THEN "decrement" ELSE "build"

StartCompaction(w) ==
    /\ pc[w] = "idle" /\ queue # <<>>
    /\ queue' = Tail(queue)
    /\ LET task == Head(queue)
       IN  IF Rejected(db, task)
           THEN /\ pc' = [pc EXCEPT ![w] = AfterCompaction("InvalidArgument")]
                /\ UNCHANGED <<db, job>>
           ELSE LET inputs == Expanded(db, task)
                IN  /\ pc' = [pc EXCEPT ![w] = "compact"]
                    /\ job' = [job EXCEPT ![w] = [task EXCEPT !.names = Names(inputs)]]
                    /\ db' = (db \ inputs) \cup Marked(inputs, Names(inputs))
    /\ UNCHANGED <<nextName, flushes, lazy, lock, running, pick, crashed>>

FinishCompaction(w) ==
    /\ pc[w] = "compact"
    /\ LET inputs == Named(db, job[w])
       IN  \/ /\ \E outputs \in Merged(inputs, nextName, job[w].out) :
                    db' = (db \ inputs) \cup outputs
              /\ nextName' = nextName + 1
              /\ pc' = [pc EXCEPT ![w] = AfterCompaction("OK")]
           \/ /\ \E status \in {"IOError", "Aborted"} :
                    pc' = [pc EXCEPT ![w] = AfterCompaction(status)]
              /\ db' = (db \ inputs) \cup Released(inputs)
              /\ UNCHANGED nextName
    /\ job' = [job EXCEPT ![w] = NoTask]
    /\ pick' = [q \in Threads |-> IF q \in Racing(w) THEN [pick[q] EXCEPT !.raced = TRUE]
                                                   ELSE pick[q]]
    /\ UNCHANGED <<flushes, lazy, lock, running, queue, crashed>>

Decrement(w) ==
    /\ pc[w] = "decrement"
    /\ running' = running - 1
    /\ pc' = [pc EXCEPT ![w] = "idle"]
    /\ UNCHANGED <<db, nextName, flushes, lazy, lock, queue, pick, job, crashed>>

-----------------------------------------------------------------------------
(* Undefined behaviour may also end the process: a scan of vectors that are *)
(* being rebuilt, a dangling pointer, an index past the target's runs.      *)

Undefined(p) ==
    \/ Rebuilding /\ pc[p] \in {"largest", "count", "add", "slot"}
    \/ pick[p].dangling /\ pc[p] \in {"check", "enqueue"}
    \/ pc[p] = "slot" /\ pick[p].target > pick[p].lvl /\ ~Backed(pick[p].target)

Crash(p) ==
    /\ Undefined(p)
    /\ crashed' = TRUE
    /\ UNCHANGED <<db, nextName, flushes, lazy, lock, running, queue, pc, pick, job>>

Work(w) == StartCompaction(w) \/ FinishCompaction(w) \/ Decrement(w)

Next ==
    /\ ~crashed
    /\ \/ \E f \in FlushThreads : OnFlushCompleted(f)
       \/ \E p \in Threads : PickStep(p) \/ Crash(p)
       \/ \E w \in Workers : Work(w)

\* The OS runs every thread that can run; nobody has to flush.
Fairness ==
    /\ \A p \in Threads : WF_vars(~crashed /\ PickStep(p))
    /\ \A w \in Workers : WF_vars(~crashed /\ Work(w))

Spec == Init /\ [][Next]_vars /\ Fairness

-----------------------------------------------------------------------------
(* The properties.                                                          *)

\* Every variable holds a value of its kind.
TypeOK ==
    /\ db \in SUBSET File
    /\ nextName \in Nat \ {0}
    /\ flushes \in 0 .. MaxFlushes
    /\ lazy \in [FluidLevels -> SUBSET Runs]
    /\ lock \in Threads \cup {NoThread}
    /\ running \in Int
    /\ queue \in Seq(Task)
    /\ pc \in [Threads -> PC]
    /\ pick \in [Threads -> Pick]
    /\ job \in [Workers -> Task]
    /\ crashed \in BOOLEAN

Busy == {w \in Workers : pc[w] # "idle"}
Committed == {p \in Threads : pc[p] \in {"slot", "enqueue"}}

\* parallel_compactions_running_ counts the tasks scheduled and not yet over,
\* on the I/O error path of CompactFiles as on the others.
CounterExact == running = Len(queue) + Cardinality(Busy)

\* Two flush threads can both read a counter below the limit before either
\* increments it: the limit is parallel_compactions_allowed_ only up to one
\* excess for each further flush thread, and that much is reserved already
\* when a thread has passed the check.
ParallelBound ==
    running + Cardinality(Committed)
        <= parallel_compactions_allowed - 1 + Cardinality(FlushThreads)

\* CompactFiles picks again before it decrements the counter, so its own task
\* still takes the only place: the follow-up compaction it looks for is never
\* scheduled.
FollowUpNeverSchedules == \A w \in Workers : pc[w] \notin {"slot", "enqueue"}

CleanRequests == {i \in DOMAIN queue : queue[i].clean}

\* With one flush thread, a request picked without a race is one RocksDB
\* accepts: its files still exist, none is in a compaction, none moves up.
CleanRequestsAccepted == \A i \in CleanRequests : ~Rejected(db, queue[i])

\* BuildStructure and ScheduleCompaction number the slots alike: the run that
\* the scan reads at runs[K - j] is the RocksDB level it would write to.
SlotsMatchLevels ==
    \A lvl \in FluidLevels \ {0} :
        Backed(lvl) /\ lazy[lvl] # {} =>
            \A j \in 0 .. K : RunAt(lazy[lvl], K - j).RocksDB_level = SlotLevel(lvl, j)

\* No thread blocks another for good: with the flushes over, every task is
\* run and every counter is back at zero.
Drains == <>[](crashed \/ (running = 0 /\ queue = <<>> /\ \A p \in Threads : pc[p] = "idle"))

-----------------------------------------------------------------------------
(* The pool of compactions FluidLSM keeps.                                  *)

Pool == INSTANCE JobPool WITH
            Limit <- parallel_compactions_allowed - 1 + Cardinality(FlushThreads),
            waiting <- Len(queue), active <- Busy, stopped <- crashed

\* Compactions are admitted, begun and ended as the abstract pool says.
ImplementsPoolSafety == Pool!PoolSafety

\* And every admitted one is begun and ended, unless the process dies first:
\* a worker is never kept from its decrement by a rebuild or by its own pick.
ImplementsPool == Pool!PoolSpec
=============================================================================
