--------------------------- MODULE FluidLSMProofs ---------------------------
(***************************************************************************)
(* Theorems about FluidLSM for any number of flush threads and workers and *)
(* any parameters of the tree: its type invariant, the exactness of the    *)
(* counter of running compactions, the bound on compactions, that a        *)
(* compaction's own follow-up is never scheduled, that the scan reads the  *)
(* slot it writes to, and, with one flush thread, that RocksDB accepts     *)
(* what is picked without a race.                                          *)
(***************************************************************************)
EXTENDS FluidLSM, FluidTreeProofs, FiniteSetTheorems

\* A request RocksDB has begun is for a level it has (Rejected was false).
JobsInRange == \A w \in Workers : pc[w] = "compact" => job[w].out \in RocksDBLevels

TypeInv == TypeOK /\ JobsInRange

LEMMA LevelsExist == 0 \in FluidLevels /\ 0 \in RocksDBLevels
BY TreeAssumption DEF FluidLevels, RocksDBLevels

LEMMA InitType == Init => TypeInv
<1> SUFFICES ASSUME Init PROVE TypeInv
    OBVIOUS
<1>1. NoPick \in Pick
    BY LevelsExist, TreeAssumption DEF NoPick, Pick
<1>2. NoTask \in Task
    BY DEF NoTask, Task
<1>3. JobsInRange
    BY ThreadAssumption DEF Init, JobsInRange, Threads
<1>4. lock \in Threads \cup {NoThread} /\ flushes \in 0 .. MaxFlushes
    BY ThreadAssumption DEF Init
<1>5. db \in SUBSET File /\ nextName \in Nat \ {0} /\ running \in Int
    BY DEF Init
<1>6. crashed \in BOOLEAN
    BY DEF Init
<1>7. queue \in Seq(Task)
  <2>1. queue = <<>>
      BY DEF Init
  <2> QED
      BY <2>1
<1>8. lazy \in [FluidLevels -> SUBSET Runs]
    BY DEF Init
<1>9. /\ pc \in [Threads -> PC] /\ pick \in [Threads -> Pick]
      /\ job \in [Workers -> Task]
    BY <1>1, <1>2 DEF Init, PC
<1> QED
    BY <1>3, <1>4, <1>5, <1>8, <1>9, <1>7, <1>6 DEF TypeInv, TypeOK

\* Going on with the next level, or returning from PickCompaction.
LEMMA NextLevelType ==
    ASSUME TypeOK, NEW p \in Threads, NextLevel(p)
    PROVE  /\ pick' \in [Threads -> Pick]
           /\ pc' \in [Threads -> PC]
           /\ \A q \in Threads \ {p} : pc'[q] = pc[q]
           /\ pc'[p] \in IF p \in Workers THEN {"count", "decrement"} ELSE {"count", "idle"}
<1>1. NoPick \in Pick
    BY LevelsExist, TreeAssumption DEF NoPick, Pick
<1>2. pick[p] \in Pick /\ pick \in [Threads -> Pick] /\ pc \in [Threads -> PC]
    BY DEF TypeOK
<1>3. {"count", "idle", "decrement"} \subseteq PC
    BY DEF PC, Scanning
<1>4. CASE pick[p].lvl > 0
  <2>1. pick[p].lvl - 1 \in FluidLevels
      BY <1>2, <1>4, TreeAssumption DEF Pick, FluidLevels
  <2>2. [NoPick EXCEPT !.lvl = pick[p].lvl - 1, !.largest = pick[p].largest,
                       !.raced = pick[p].raced] \in Pick
      BY <1>1, <1>2, <2>1 DEF Pick
  <2>3. /\ pick' = [pick EXCEPT ![p] =
                       [NoPick EXCEPT !.lvl = pick[p].lvl - 1,
                                      !.largest = pick[p].largest,
                                      !.raced = pick[p].raced]]
        /\ pc' = [pc EXCEPT ![p] = "count"]
      BY <1>4 DEF NextLevel, MoreLevels
  <2> QED
      BY <1>2, <1>3, <2>2, <2>3
<1>5. CASE ~(pick[p].lvl > 0)
    BY <1>1, <1>2, <1>3, <1>5 DEF NextLevel, MoreLevels
<1> QED
    BY <1>4, <1>5

LEMMA OvertakeType ==
    ASSUME TypeOK, NEW p
    PROVE  Overtake(p) \in [Threads -> Pick]
<1>1. \A q \in Threads : pick[q] \in Pick
    BY DEF TypeOK
<1>2. \A q \in Threads : [pick[q] EXCEPT !.raced = TRUE,
                            !.dangling = @ \/ pc[q] \in HoldsPointers] \in Pick
    BY <1>1 DEF Pick
<1> QED
    BY <1>1, <1>2 DEF Overtake

\* The steps of PickCompaction keep every variable of its kind.
LEMMA PickStepType ==
    ASSUME TypeInv, NEW p \in Threads, PickStep(p)
    PROVE  TypeInv'
<1> USE DEF TypeInv
<1>0. /\ pick[p] \in Pick /\ pick \in [Threads -> Pick] /\ pc \in [Threads -> PC]
      /\ {"locked", "largest", "count", "add", "check", "slot", "enqueue"} \subseteq PC
    BY DEF TypeOK, PC, Scanning
<1>1. CASE BuildStructureLock(p)
  <2>1. lazy' \in [FluidLevels -> SUBSET Runs]
      BY <1>1, BuildStructureType DEF BuildStructureLock, TypeOK
  <2>2. pick' \in [Threads -> Pick]
      BY <1>1, OvertakeType DEF BuildStructureLock
  <2>3. JobsInRange'
      BY <1>0, <1>1 DEF BuildStructureLock, JobsInRange, Threads
  <2> QED
      BY <1>0, <1>1, <2>1, <2>2, <2>3 DEF BuildStructureLock, TypeOK
<1>2. CASE BuildStructureUnlock(p)
  <2>1. JobsInRange'
      BY <1>0, <1>2 DEF BuildStructureUnlock, JobsInRange, Threads
  <2> QED
      BY <1>0, <1>2, <2>1 DEF BuildStructureUnlock, TypeOK
<1>3. CASE FindLargestOccupiedLevel(p)
  <2>1. pick' \in [Threads -> Pick]
    <3>1. PICK lvl \in FluidLevels : pick' = [pick EXCEPT ![p].largest = lvl, ![p].lvl = lvl]
        BY <1>3 DEF FindLargestOccupiedLevel
    <3>2. [pick[p] EXCEPT !.largest = lvl, !.lvl = lvl] \in Pick
        BY <1>0 DEF Pick
    <3> QED
        BY <1>0, <3>1, <3>2
  <2>2. JobsInRange'
      BY <1>0, <1>3 DEF FindLargestOccupiedLevel, JobsInRange, Threads
  <2> QED
      BY <1>0, <1>3, <2>1, <2>2 DEF FindLargestOccupiedLevel, TypeOK
<1>4. CASE CountRuns(p)
  <2>1. \/ pc' = [pc EXCEPT ![p] = "add"] /\ pick' = pick
        \/ NextLevel(p)
      BY <1>4 DEF CountRuns
  <2>2. /\ pick' \in [Threads -> Pick] /\ pc' \in [Threads -> PC]
        /\ \A q \in Threads : pc'[q] = "compact" => pc[q] = "compact"
      BY <1>0, <2>1, NextLevelType
  <2>3. JobsInRange'
      BY <1>4, <2>2 DEF CountRuns, JobsInRange, Threads
  <2> QED
      BY <1>4, <2>2, <2>3 DEF CountRuns, TypeOK
<1>5. CASE AddFiles(p)
  <2>1. pick' \in [Threads -> Pick]
    <3>1. PICK level \in Seen(pick[p].lvl) :
              pick' = [pick EXCEPT ![p].input = AddFilesToCompaction(level),
                                   ![p].dangling = Rebuilding]
        BY <1>5 DEF AddFiles
    <3>2. lazy[pick[p].lvl] \in SUBSET Runs
        BY <1>0 DEF TypeOK, Pick
    <3>3. level \in SUBSET Runs
        BY <3>1, <3>2 DEF Seen
    <3>4. AddFilesToCompaction(level) \in SUBSET File
        BY <3>3 DEF AddFilesToCompaction, Runs
    <3>5. [pick[p] EXCEPT !.input = AddFilesToCompaction(level),
                          !.dangling = Rebuilding] \in Pick
        BY <1>0, <3>4 DEF Pick, Rebuilding
    <3> QED
        BY <1>0, <3>1, <3>5
  <2>2. JobsInRange'
      BY <1>0, <1>5 DEF AddFiles, JobsInRange, Threads
  <2> QED
      BY <1>0, <1>5, <2>1, <2>2 DEF AddFiles, TypeOK
<1>6. CASE CheckCapacity(p)
  <2>1. \/ /\ \E target \in Targets(p) : pick' = [pick EXCEPT ![p].target = target]
           /\ pc' = [pc EXCEPT ![p] = "slot"]
        \/ NextLevel(p)
      BY <1>6 DEF CheckCapacity
  <2>2. Targets(p) \subseteq 0 .. NumLevels
    <3>1. pick[p].lvl \in 0 .. NumLevels - 1
        BY <1>0 DEF Pick, FluidLevels
    <3>2. Targets(p) \subseteq {pick[p].lvl, pick[p].lvl + 1}
        BY DEF Targets, GetCompactionTargetLevel
    <3> QED
        BY <3>1, <3>2, TreeAssumption
  <2>3. \A target \in 0 .. NumLevels : [pick[p] EXCEPT !.target = target] \in Pick
      BY <1>0 DEF Pick
  <2>4. /\ pick' \in [Threads -> Pick] /\ pc' \in [Threads -> PC]
        /\ \A q \in Threads : pc'[q] = "compact" => pc[q] = "compact"
      BY <1>0, <2>1, <2>2, <2>3, NextLevelType
  <2>5. JobsInRange'
      BY <1>6, <2>4 DEF CheckCapacity, JobsInRange, Threads
  <2> QED
      BY <1>6, <2>4, <2>5 DEF CheckCapacity, TypeOK
<1>7. CASE FindSlot(p)
  <2>1. pick' \in [Threads -> Pick]
    <3>1. PICK out \in IF Rebuilding /\ pick[p].target > pick[p].lvl
                       THEN {SlotLevel(pick[p].target, j) : j \in 0 .. K}
                       ELSE OutputLevels(pick[p].lvl, pick[p].target,
                                         LevelAt(pick[p].target)) :
              pick' = [pick EXCEPT ![p].out = out]
        BY <1>7 DEF FindSlot
    <3>2. pick[p].target \in Int
        BY <1>0, TreeAssumption DEF Pick
    <3>3. DeepestSlot(pick[p].target) \in Int
        BY <3>2, TreeAssumption DEF DeepestSlot
    <3>4. {SlotLevel(pick[p].target, j) : j \in 0 .. K} \subseteq Int
        BY <3>3, TreeAssumption DEF SlotLevel
    <3>5. OutputLevels(pick[p].lvl, pick[p].target, LevelAt(pick[p].target)) \subseteq Int
        BY <3>2, OutputLevelsType
    <3>6. out \in Int
        BY <3>1, <3>4, <3>5
    <3>7. [pick[p] EXCEPT !.out = out] \in Pick
        BY <1>0, <3>6 DEF Pick
    <3> QED
        BY <1>0, <3>1, <3>7
  <2>2. JobsInRange'
      BY <1>0, <1>7 DEF FindSlot, JobsInRange, Threads
  <2> QED
      BY <1>0, <1>7, <2>1, <2>2 DEF FindSlot, TypeOK
<1>8. CASE Enqueue(p)
  <2>1. PICK names \in NamesRead(p) :
            /\ lazy' = [lvl \in FluidLevels |->
                          {Run(Marked(run.files, names), run.RocksDB_level) :
                              run \in lazy[lvl]}]
            /\ queue' = Append(queue, [names |-> names, out |-> pick[p].out,
                                       clean |-> Clean(pick[p])])
      BY <1>8 DEF Enqueue
  <2>2. \A run \in Runs : Run(Marked(run.files, names), run.RocksDB_level) \in Runs
      BY MarkedType DEF Run, Runs
  <2>3. lazy' \in [FluidLevels -> SUBSET Runs]
      BY <2>1, <2>2 DEF TypeOK
  <2>4. names \in SUBSET Nat
    <3>1. Names(pick[p].input) \in SUBSET Nat
        BY <1>0 DEF Pick, File, Names
    <3>2. \A files \in SUBSET File : Names(files) \in SUBSET Nat
        BY DEF File, Names
    <3>3. UNION {run.files : run \in UNION {lazy[l] : l \in FluidLevels}} \in SUBSET File
        BY DEF TypeOK, Runs
    <3> DEFINE now == Names(UNION {run.files : run \in UNION {lazy[l] : l \in FluidLevels}})
    <3>4. now \in SUBSET Nat
        BY <3>2, <3>3
    <3>5. names = Names(pick[p].input) \/ names = {0} \/ names \in SUBSET now
        BY <2>1 DEF NamesRead
    <3> HIDE DEF now
    <3>6. {0} \in SUBSET Nat
        OBVIOUS
    <3> QED
        BY <3>1, <3>4, <3>5, <3>6
  <2>5. [names |-> names, out |-> pick[p].out, clean |-> Clean(pick[p])] \in Task
      BY <1>0, <2>4 DEF Task, Pick, Clean, Backed
  <2>6. queue' \in Seq(Task)
      BY <2>1, <2>5 DEF TypeOK
  <2>7. /\ pick' \in [Threads -> Pick] /\ pc' \in [Threads -> PC]
        /\ \A q \in Threads : pc'[q] = "compact" => pc[q] = "compact"
      BY <1>0, <1>8, NextLevelType DEF Enqueue
  <2>8. JobsInRange'
      BY <1>8, <2>7 DEF Enqueue, JobsInRange, Threads
  <2> QED
      BY <1>8, <2>3, <2>6, <2>7, <2>8 DEF Enqueue, TypeOK
<1> QED
    BY <1>1, <1>2, <1>3, <1>4, <1>5, <1>6, <1>7, <1>8 DEF PickStep
\* So do a flush and the steps of a worker that runs CompactFiles.
LEMMA FlushType ==
    ASSUME TypeInv, NEW f \in FlushThreads, OnFlushCompleted(f)
    PROVE  TypeInv'
<1>1. f \in Threads /\ pc \in [Threads -> PC] /\ "build" \in PC
    BY DEF TypeInv, TypeOK, Threads, PC
<1>2. PICK size \in 1 .. WriteBuffer :
          db' = db \cup {[name |-> nextName, level |-> 0, size |-> size,
                          being_compacted |-> FALSE]}
    BY DEF OnFlushCompleted
<1>3. size \in Nat
    OBVIOUS
<1>4. db' \in SUBSET File
  <2>1. db \in SUBSET File /\ nextName \in Nat
      BY DEF TypeInv, TypeOK
  <2>2. [name |-> nextName, level |-> 0, size |-> size, being_compacted |-> FALSE] \in File
      BY <1>3, <2>1, LevelsExist DEF File
  <2> QED
      BY <1>2, <2>1, <2>2
<1>5. flushes' \in 0 .. MaxFlushes /\ nextName' \in Nat \ {0}
    BY ThreadAssumption DEF OnFlushCompleted, TypeInv, TypeOK
<1>6. JobsInRange'
    BY <1>1 DEF TypeInv, OnFlushCompleted, JobsInRange, Threads
<1> QED
    BY <1>1, <1>4, <1>5, <1>6 DEF TypeInv, TypeOK, OnFlushCompleted

LEMMA StartType ==
    ASSUME TypeInv, NEW w \in Workers, StartCompaction(w)
    PROVE  TypeInv'
<1> DEFINE task == Head(queue)
           inputs == Expanded(db, task)
<1>1. /\ w \in Threads /\ pc \in [Threads -> PC] /\ job \in [Workers -> Task]
      /\ {"build", "compact", "decrement"} \subseteq PC
    BY DEF TypeInv, TypeOK, Threads, PC
<1>2. queue \in Seq(Task) /\ queue # <<>>
    BY DEF TypeInv, TypeOK, StartCompaction
<1>3. task \in Task /\ queue' \in Seq(Task)
  <2>1. Head(queue) \in Task /\ Tail(queue) \in Seq(Task)
      BY <1>2
  <2> QED
      BY <2>1 DEF StartCompaction
<1>4. CASE Rejected(db, task)
  <2>1. /\ pc' = [pc EXCEPT ![w] = AfterCompaction("InvalidArgument")]
        /\ UNCHANGED <<db, job>>
      BY <1>4 DEF StartCompaction
  <2>2. AfterCompaction("InvalidArgument") = "build"
      BY DEF AfterCompaction
  <2>3. JobsInRange'
      BY <1>1, <2>1, <2>2 DEF TypeInv, JobsInRange, Threads
  <2> QED
      BY <1>1, <1>3, <2>1, <2>2, <2>3 DEF TypeInv, TypeOK, StartCompaction
<1>5. CASE ~Rejected(db, task)
  <2>1. /\ pc' = [pc EXCEPT ![w] = "compact"]
        /\ job' = [job EXCEPT ![w] = [task EXCEPT !.names = Names(inputs)]]
        /\ db' = (db \ inputs) \cup Marked(inputs, Names(inputs))
      BY <1>5 DEF StartCompaction
  <2>2. task.out \in RocksDBLevels
      BY <1>5 DEF Rejected
  <2>3. db \in SUBSET File /\ inputs \in SUBSET File
      BY DEF TypeInv, TypeOK, Expanded
  <2>4. db' \in SUBSET File
      BY <2>1, <2>3, MarkedType
  <2>5. [task EXCEPT !.names = Names(inputs)] \in Task
    <3>1. Names(inputs) \in SUBSET Nat
        BY <2>3 DEF Names, File
    <3> QED
        BY <1>3, <3>1 DEF Task
  <2>6. job'[w].out = task.out
      BY <1>1, <1>3, <2>1 DEF Task
  <2>7. JobsInRange'
      BY <1>1, <2>1, <2>2, <2>6 DEF TypeInv, JobsInRange, Threads
  <2> QED
      BY <1>1, <1>3, <2>1, <2>4, <2>5, <2>7 DEF TypeInv, TypeOK, StartCompaction
<1> QED
    BY <1>4, <1>5

LEMMA FinishType ==
    ASSUME TypeInv, NEW w \in Workers, FinishCompaction(w)
    PROVE  TypeInv'
<1> DEFINE inputs == Named(db, job[w])
<1>1. /\ w \in Threads /\ pc \in [Threads -> PC] /\ job \in [Workers -> Task]
      /\ {"build", "decrement"} \subseteq PC
    BY DEF TypeInv, TypeOK, Threads, PC
<1>2. db \in SUBSET File /\ inputs \in SUBSET File /\ nextName \in Nat \ {0}
    BY DEF TypeInv, TypeOK, Named
<1>3. job[w].out \in RocksDBLevels
    BY DEF TypeInv, JobsInRange, FinishCompaction
<1>4. \A status : AfterCompaction(status) \in {"build", "decrement"}
    BY DEF AfterCompaction
<1>5. PICK next \in {"build", "decrement"} : pc' = [pc EXCEPT ![w] = next]
    BY <1>4 DEF FinishCompaction
<1>6. db' \in SUBSET File /\ nextName' \in Nat \ {0}
  <2>1. CASE /\ \E outputs \in Merged(inputs, nextName, job[w].out) :
                   db' = (db \ inputs) \cup outputs
             /\ nextName' = nextName + 1
    <3>1. PICK outputs \in Merged(inputs, nextName, job[w].out) :
              db' = (db \ inputs) \cup outputs
        BY <2>1
    <3>2. outputs \in SUBSET File
        BY <1>2, <1>3, MergedType
    <3> QED
        BY <1>2, <2>1, <3>1, <3>2
  <2>2. CASE db' = (db \ inputs) \cup Released(inputs) /\ UNCHANGED nextName
      BY <1>2, <2>2, ReleasedType
  <2> QED
      BY <2>1, <2>2 DEF FinishCompaction
<1>7. pick' \in [Threads -> Pick]
  <2>1. \A q \in Threads : pick[q] \in Pick
      BY DEF TypeInv, TypeOK
  <2>2. \A q \in Threads : [pick[q] EXCEPT !.raced = TRUE] \in Pick
      BY <2>1 DEF Pick
  <2> QED
      BY <2>1, <2>2 DEF FinishCompaction
<1>8. job' = [job EXCEPT ![w] = NoTask] /\ NoTask \in Task
    BY DEF FinishCompaction, NoTask, Task
<1>9. JobsInRange'
    BY <1>1, <1>5, <1>8 DEF TypeInv, JobsInRange, Threads
<1> QED
    BY <1>1, <1>5, <1>6, <1>7, <1>8, <1>9 DEF TypeInv, TypeOK, FinishCompaction

LEMMA NextType == TypeInv /\ [Next]_vars => TypeInv'
<1> SUFFICES ASSUME TypeInv, [Next]_vars PROVE TypeInv'
    OBVIOUS
<1>1. CASE \E f \in FlushThreads : OnFlushCompleted(f)
    BY <1>1, FlushType
<1>2. CASE \E p \in Threads : PickStep(p)
    BY <1>2, PickStepType
<1>3. CASE \E p \in Threads : Crash(p)
    BY <1>3 DEF Crash, TypeInv, TypeOK, JobsInRange
<1>4. ASSUME NEW w \in Workers, Work(w) PROVE TypeInv'
  <2>1. CASE StartCompaction(w)
      BY <2>1, StartType
  <2>2. CASE FinishCompaction(w)
      BY <2>2, FinishType
  <2>3. CASE Decrement(w)
    <3>1. w \in Threads /\ pc \in [Threads -> PC] /\ "idle" \in PC
        BY DEF TypeInv, TypeOK, Threads, PC
    <3>2. JobsInRange'
        BY <2>3, <3>1 DEF TypeInv, Decrement, JobsInRange, Threads
    <3> QED
        BY <2>3, <3>1, <3>2 DEF TypeInv, TypeOK, Decrement
  <2> QED
      BY <1>4, <2>1, <2>2, <2>3 DEF Work
<1>5. CASE UNCHANGED vars
    BY <1>5 DEF vars, TypeInv, TypeOK, JobsInRange
<1> QED
    BY <1>1, <1>2, <1>3, <1>4, <1>5 DEF Next

\* In every behaviour each variable keeps a value of its kind, whatever the
\* threads read while lazy_levels_ is rebuilt under them.
THEOREM TypeCorrect == Spec => []TypeOK
<1>1. Init => TypeInv
    BY InitType
<1>2. TypeInv /\ [Next]_vars => TypeInv'
    BY NextType
<1>3. TypeInv => TypeOK
    BY DEF TypeInv
<1> QED
    BY <1>1, <1>2, <1>3, PTL DEF Spec

-----------------------------------------------------------------------------
(* The counter.  Only Enqueue, StartCompaction and Decrement move a task    *)
(* between the queue, the busy workers and the end of its life; every other *)
(* step leaves the queue, the counter and the set of busy workers alone.    *)

LEMMA BusyFinite == IsFiniteSet(Busy) /\ Cardinality(Busy) \in Nat
BY ThreadAssumption, FS_Subset, FS_CardinalityType DEF Busy

\* A worker inside PickCompaction stays busy: it returns to the decrement.
LEMMA PickKeepsBusy ==
    ASSUME TypeOK, NEW p \in Threads, PickStep(p)
    PROVE  Busy' = Busy
<1>1. pc \in [Threads -> PC] /\ Workers \subseteq Threads
    BY DEF TypeOK, Threads
<1>2. pc[p] # "idle" /\ \A q \in Threads \ {p} : pc'[q] = pc[q]
    BY <1>1, NextLevelType DEF PickStep, BuildStructureLock, BuildStructureUnlock,
       FindLargestOccupiedLevel, CountRuns, AddFiles, CheckCapacity, FindSlot, Enqueue
<1>3. p \in Workers => pc'[p] # "idle"
    BY <1>1, NextLevelType DEF PickStep, BuildStructureLock, BuildStructureUnlock,
       FindLargestOccupiedLevel, CountRuns, AddFiles, CheckCapacity, FindSlot, Enqueue
<1> QED
    BY <1>1, <1>2, <1>3 DEF Busy

LEMMA CounterStep == TypeInv /\ CounterExact /\ [Next]_vars => CounterExact'
<1> SUFFICES ASSUME TypeInv, CounterExact, [Next]_vars PROVE CounterExact'
    OBVIOUS
<1> DEFINE n == Cardinality(Busy)
<1>1. /\ TypeOK /\ running \in Int /\ queue \in Seq(Task) /\ pc \in [Threads -> PC]
      /\ Workers \subseteq Threads
    BY DEF TypeInv, TypeOK, Threads
<1>2. running = Len(queue) + n /\ n \in Nat /\ Len(queue) \in Nat
    BY <1>1, BusyFinite DEF CounterExact
<1>3. CASE UNCHANGED <<running, queue>> /\ Busy' = Busy
    BY <1>3 DEF CounterExact
<1>4. ASSUME NEW f \in FlushThreads, OnFlushCompleted(f) PROVE CounterExact'
  <2>1. Busy' = Busy
      BY <1>1, <1>4, ThreadAssumption DEF OnFlushCompleted, Busy
  <2> QED
      BY <1>3, <1>4, <2>1 DEF OnFlushCompleted
<1>5. ASSUME NEW p \in Threads, PickStep(p) PROVE CounterExact'
  <2>1. Busy' = Busy
      BY <1>1, <1>5, PickKeepsBusy
  <2>2. CASE Enqueue(p)
    <3>1. running' = running + 1 /\ Len(queue') = Len(queue) + 1
        BY <1>1, <2>2 DEF Enqueue
    <3> QED
        BY <1>1, <1>2, <2>1, <3>1 DEF CounterExact
  <2>3. CASE ~Enqueue(p)
    <3>1. UNCHANGED <<running, queue>>
        BY <1>5, <2>3 DEF PickStep, BuildStructureLock, BuildStructureUnlock,
           FindLargestOccupiedLevel, CountRuns, AddFiles, CheckCapacity, FindSlot
    <3> QED
        BY <1>3, <2>1, <3>1
  <2> QED
      BY <2>2, <2>3
<1>6. ASSUME NEW w \in Workers, StartCompaction(w) PROVE CounterExact'
  <2>1. Len(queue') = Len(queue) - 1 /\ running' = running
      BY <1>1, <1>6 DEF StartCompaction
  <2>2. pc[w] = "idle" /\ pc'[w] # "idle" /\ \A q \in Threads \ {w} : pc'[q] = pc[q]
      BY <1>1, <1>6 DEF StartCompaction, AfterCompaction
  <2>3. w \notin Busy /\ Busy' = Busy \cup {w}
      BY <1>1, <2>2 DEF Busy
  <2>4. Cardinality(Busy') = n + 1
      BY <2>3, BusyFinite, FS_AddElement
  <2> QED
      BY <1>1, <1>2, <2>1, <2>4 DEF CounterExact
<1>7. ASSUME NEW w \in Workers, FinishCompaction(w) PROVE CounterExact'
  <2>1. Busy' = Busy
      BY <1>1, <1>7 DEF FinishCompaction, AfterCompaction, Busy
  <2> QED
      BY <1>3, <1>7, <2>1 DEF FinishCompaction
<1>8. ASSUME NEW w \in Workers, Decrement(w) PROVE CounterExact'
  <2>1. w \in Busy /\ Busy' = Busy \ {w}
      BY <1>1, <1>8 DEF Decrement, Busy
  <2>2. Cardinality(Busy') = n - 1
      BY <2>1, BusyFinite, FS_RemoveElement
  <2> QED
      BY <1>1, <1>2, <1>8, <2>2 DEF CounterExact, Decrement
<1>9. ASSUME NEW p \in Threads, Crash(p) PROVE CounterExact'
    BY <1>3, <1>9 DEF Crash, Busy
<1>10. CASE UNCHANGED vars
    BY <1>3, <1>10 DEF vars, Busy
<1> QED
    BY <1>4, <1>5, <1>6, <1>7, <1>8, <1>9, <1>10 DEF Next, Work

LEMMA InitCounter == Init => CounterExact
<1> SUFFICES ASSUME Init PROVE CounterExact
    OBVIOUS
<1>1. Busy = {}
    BY DEF Init, Busy, Threads
<1>2. Len(queue) = 0 /\ running = 0
    BY DEF Init
<1> QED
    BY <1>1, <1>2, FS_EmptySet DEF CounterExact

\* parallel_compactions_running_ always counts exactly the tasks scheduled and
\* not yet over: no path through CompactFiles loses or repeats a decrement.
THEOREM CounterIsExact == Spec => []CounterExact
<1>1. Init => TypeInv /\ CounterExact
    BY InitType, InitCounter
<1>2. TypeInv /\ CounterExact /\ [Next]_vars => (TypeInv /\ CounterExact)'
    BY NextType, CounterStep
<1> QED
    BY <1>1, <1>2, PTL DEF Spec

-----------------------------------------------------------------------------
(* What the counter's exactness buys: the picks of workers and of flush     *)
(* threads.                                                                 *)

LEMMA FollowUpStep ==
    TypeInv /\ CounterExact /\ FollowUpNeverSchedules /\ [Next]_vars
        => FollowUpNeverSchedules'
<1> SUFFICES ASSUME TypeInv, CounterExact, FollowUpNeverSchedules, [Next]_vars,
                    NEW w \in Workers
             PROVE  pc'[w] \notin {"slot", "enqueue"}
    BY DEF FollowUpNeverSchedules
<1>1. /\ TypeOK /\ running \in Int /\ queue \in Seq(Task) /\ pc \in [Threads -> PC]
      /\ w \in Threads /\ Workers \subseteq Threads /\ FlushThreads \subseteq Threads
    BY DEF TypeInv, TypeOK, Threads
<1>2. pc[w] \notin {"slot", "enqueue"}
    BY DEF FollowUpNeverSchedules
<1>3. CASE pc'[w] = pc[w]
    BY <1>2, <1>3
<1>4. ASSUME PickStep(w) PROVE pc'[w] \notin {"slot", "enqueue"}
  <2>1. CASE CheckCapacity(w)
    <3>1. w \in Busy
        BY <2>1 DEF CheckCapacity, Busy
    <3>2. Cardinality(Busy) # 0
        BY <3>1, BusyFinite, FS_EmptySet
    <3>3. running >= 1
        BY <1>1, <3>2, BusyFinite DEF CounterExact
    <3>4. ~HasCapacity
        BY <1>1, <3>3 DEF HasCapacity, parallel_compactions_allowed
    <3>5. NextLevel(w)
        BY <2>1, <3>4 DEF CheckCapacity
    <3> QED
        BY <1>1, <3>5, NextLevelType
  <2>2. CASE FindSlot(w) \/ Enqueue(w)
      BY <1>2, <2>2 DEF FindSlot, Enqueue
  <2>3. CASE BuildStructureLock(w) \/ BuildStructureUnlock(w)
             \/ FindLargestOccupiedLevel(w) \/ AddFiles(w)
      BY <1>1, <2>3 DEF BuildStructureLock, BuildStructureUnlock,
         FindLargestOccupiedLevel, AddFiles
  <2>4. CASE CountRuns(w)
    <3>1. pc' = [pc EXCEPT ![w] = "add"] \/ NextLevel(w)
        BY <2>4 DEF CountRuns
    <3> QED
        BY <1>1, <3>1, NextLevelType
  <2> QED
      BY <1>4, <2>1, <2>2, <2>3, <2>4 DEF PickStep
<1>5. ASSUME NEW p \in Threads \ {w}, PickStep(p) PROVE pc'[w] = pc[w]
    BY <1>1, <1>5, NextLevelType DEF PickStep, BuildStructureLock, BuildStructureUnlock,
       FindLargestOccupiedLevel, CountRuns, AddFiles, CheckCapacity, FindSlot, Enqueue
<1>6. ASSUME NEW f \in FlushThreads, OnFlushCompleted(f) PROVE pc'[w] = pc[w]
    BY <1>1, <1>6, ThreadAssumption DEF OnFlushCompleted
<1>7. ASSUME NEW v \in Workers, Work(v) PROVE pc'[w] \notin {"slot", "enqueue"}
    BY <1>1, <1>2, <1>7 DEF Work, StartCompaction, FinishCompaction, Decrement,
       AfterCompaction
<1>8. CASE UNCHANGED vars \/ \E p \in Threads : Crash(p)
    BY <1>3, <1>8 DEF vars, Crash
<1> QED
    BY <1>3, <1>4, <1>5, <1>6, <1>7, <1>8 DEF Next

LEMMA CommittedFinite ==
    ASSUME FollowUpNeverSchedules
    PROVE  /\ Committed \subseteq FlushThreads
           /\ IsFiniteSet(Committed) /\ Cardinality(Committed) \in Nat
           /\ Cardinality(Committed) <= Cardinality(FlushThreads)
           /\ Cardinality(FlushThreads) \in Nat
<1>1. Committed \subseteq FlushThreads
    BY DEF Committed, Threads, FollowUpNeverSchedules
<1> QED
    BY <1>1, ThreadAssumption, FS_Subset, FS_CardinalityType

LEMMA BoundStep ==
    TypeInv /\ CounterExact /\ FollowUpNeverSchedules /\ ParallelBound /\ [Next]_vars
        => ParallelBound'
<1> SUFFICES ASSUME TypeInv, CounterExact, FollowUpNeverSchedules, ParallelBound,
                    [Next]_vars
             PROVE  ParallelBound'
    OBVIOUS
<1> DEFINE c == Cardinality(Committed)
           f == Cardinality(FlushThreads)
<1>1. /\ TypeOK /\ running \in Int /\ queue \in Seq(Task) /\ pc \in [Threads -> PC]
      /\ Workers \subseteq Threads /\ FlushThreads \subseteq Threads
    BY DEF TypeInv, TypeOK, Threads
<1>2. FollowUpNeverSchedules'
    BY FollowUpStep
<1>3. /\ Committed \subseteq FlushThreads /\ IsFiniteSet(Committed)
      /\ c \in Nat /\ f \in Nat /\ running + c <= f
    BY <1>1, CommittedFinite DEF ParallelBound, parallel_compactions_allowed
<1>4. Cardinality(Committed') \in Nat /\ Cardinality(Committed') <= f
  <2>1. Committed' \subseteq FlushThreads
      BY <1>2 DEF Committed, Threads, FollowUpNeverSchedules
  <2> QED
      BY <2>1, ThreadAssumption, FS_Subset, FS_CardinalityType
<1>5. ASSUME running' <= running, running' \in Int, Committed' = Committed
      PROVE  ParallelBound'
    BY <1>1, <1>3, <1>5 DEF ParallelBound, parallel_compactions_allowed
<1>6. ASSUME NEW p \in Threads, PickStep(p) PROVE ParallelBound'
  <2>1. CASE CheckCapacity(p)
    <3>1. running' = running
        BY <2>1 DEF CheckCapacity
    <3>2. CASE HasCapacity
      <4>1. running < 1
          BY <3>2, <1>1 DEF HasCapacity, parallel_compactions_allowed
      <4> QED
          BY <1>1, <1>3, <1>4, <3>1, <4>1 DEF ParallelBound, parallel_compactions_allowed
    <3>3. CASE ~HasCapacity
      <4>1. NextLevel(p) /\ pc[p] = "check"
          BY <2>1, <3>3 DEF CheckCapacity
      <4>2. Committed' = Committed
          BY <1>1, <4>1, NextLevelType DEF Committed
      <4> QED
          BY <1>1, <1>5, <3>1, <4>2
    <3> QED
        BY <3>2, <3>3
  <2>2. CASE Enqueue(p)
    <3>1. running' = running + 1 /\ pc[p] = "enqueue" /\ NextLevel(p)
        BY <2>2 DEF Enqueue
    <3>2. p \in Committed /\ Committed' = Committed \ {p}
        BY <1>1, <3>1, NextLevelType DEF Committed
    <3>3. Cardinality(Committed') = c - 1
        BY <1>3, <3>2, FS_RemoveElement
    <3> QED
        BY <1>1, <1>3, <3>1, <3>3 DEF ParallelBound, parallel_compactions_allowed
  <2>3. CASE FindSlot(p)
    <3>1. Committed' = Committed
        BY <1>1, <2>3 DEF FindSlot, Committed
    <3> QED
        BY <1>1, <1>5, <2>3, <3>1 DEF FindSlot
  <2>4. CASE CountRuns(p)
    <3>1. pc[p] = "count" /\ (pc' = [pc EXCEPT ![p] = "add"] \/ NextLevel(p))
        BY <2>4 DEF CountRuns
    <3>2. Committed' = Committed
        BY <1>1, <3>1, NextLevelType DEF Committed
    <3> QED
        BY <1>1, <1>5, <2>4, <3>2 DEF CountRuns
  <2>5. CASE BuildStructureLock(p) \/ BuildStructureUnlock(p)
             \/ FindLargestOccupiedLevel(p) \/ AddFiles(p)
    <3>1. Committed' = Committed /\ running' = running
        BY <1>1, <2>5 DEF BuildStructureLock, BuildStructureUnlock,
           FindLargestOccupiedLevel, AddFiles, Committed
    <3> QED
        BY <1>1, <1>5, <3>1
  <2> QED
      BY <1>6, <2>1, <2>2, <2>3, <2>4, <2>5 DEF PickStep
<1>7. ASSUME NEW g \in FlushThreads, OnFlushCompleted(g) PROVE ParallelBound'
  <2>1. Committed' = Committed /\ running' = running
      BY <1>1, <1>7 DEF OnFlushCompleted, Committed
  <2> QED
      BY <1>1, <1>5, <2>1
<1>8. ASSUME NEW w \in Workers, Work(w) PROVE ParallelBound'
  <2>1. Committed' = Committed
      BY <1>1, <1>8 DEF Work, StartCompaction, FinishCompaction, Decrement,
         AfterCompaction, Committed
  <2>2. running' \in {running, running - 1}
      BY <1>8 DEF Work, StartCompaction, FinishCompaction, Decrement
  <2> QED
      BY <1>1, <1>5, <2>1, <2>2
<1>9. CASE UNCHANGED vars \/ \E p \in Threads : Crash(p)
    BY <1>1, <1>5, <1>9 DEF vars, Crash, Committed
<1> QED
    BY <1>6, <1>7, <1>8, <1>9 DEF Next

\* The invariant of the admission of compactions, inductive as it stands: the
\* bound needs that workers are never admitted, that needs the exact counter.
AdmissionInv == TypeInv /\ CounterExact /\ FollowUpNeverSchedules /\ ParallelBound

LEMMA AdmissionInit == Init => AdmissionInv
<1> SUFFICES ASSUME Init PROVE AdmissionInv
    OBVIOUS
<1>1. FollowUpNeverSchedules
    BY DEF Init, FollowUpNeverSchedules, Threads
<1>2. Committed = {}
    BY DEF Init, Committed
<1>3. Cardinality(Committed) = 0 /\ running = 0
    BY <1>2, FS_EmptySet DEF Init
<1>4. ParallelBound
    BY <1>1, <1>3, CommittedFinite DEF ParallelBound, parallel_compactions_allowed
<1> QED
    BY <1>1, <1>4, InitType, InitCounter DEF AdmissionInv

LEMMA AdmissionStep == AdmissionInv /\ [Next]_vars => AdmissionInv'
BY NextType, CounterStep, FollowUpStep, BoundStep DEF AdmissionInv

LEMMA AdmissionInvariant == Spec => []AdmissionInv
BY AdmissionInit, AdmissionStep, PTL DEF Spec

\* The pick that CompactFiles makes before its decrement never gets past the
\* capacity check, for any number of threads: the compaction a finished one
\* makes necessary waits for the next flush.
THEOREM FollowUpIsLost == Spec => []FollowUpNeverSchedules
<1>1. AdmissionInv => FollowUpNeverSchedules
    BY DEF AdmissionInv
<1> QED
    BY <1>1, AdmissionInvariant, PTL

\* The unlocked check admits at most one compaction per flush thread, although
\* parallel_compactions_allowed_ is 1.
THEOREM ParallelIsBounded == Spec => []ParallelBound
<1>1. AdmissionInv => ParallelBound
    BY DEF AdmissionInv
<1> QED
    BY <1>1, AdmissionInvariant, PTL

-----------------------------------------------------------------------------
(* The slots.                                                               *)

\* Whoever rebuilt the structure last, and whatever is marked in it since
SlotsInOrder ==
    \A lvl \in FluidLevels \ {0} : lazy[lvl] = {} \/ OneRunPerLevel(lazy[lvl], lvl)

LEMMA SlotsStep == TypeInv /\ SlotsInOrder /\ [Next]_vars => SlotsInOrder'
<1> SUFFICES ASSUME TypeInv, SlotsInOrder, [Next]_vars,
                    NEW lvl \in FluidLevels \ {0}
             PROVE  lazy'[lvl] = {} \/ OneRunPerLevel(lazy'[lvl], lvl)
    BY DEF SlotsInOrder, OneRunPerLevel
<1>1. lazy[lvl] = {} \/ OneRunPerLevel(lazy[lvl], lvl)
    BY DEF SlotsInOrder
<1>2. CASE UNCHANGED lazy
    BY <1>1, <1>2
<1>3. ASSUME NEW p \in Threads, BuildStructureLock(p)
      PROVE  OneRunPerLevel(lazy'[lvl], lvl)
  <2>1. lazy'[lvl] = BandRuns(db, lvl)
      BY <1>3 DEF BuildStructureLock, BuildStructure
  <2> QED
      BY <2>1, BandRunsShape DEF TypeInv, TypeOK
<1>4. ASSUME NEW p \in Threads, Enqueue(p)
      PROVE  lazy'[lvl] = {} \/ OneRunPerLevel(lazy'[lvl], lvl)
  <2>1. PICK names : lazy'[lvl] = MarkedRuns(lazy[lvl], names)
      BY <1>4 DEF Enqueue, MarkedRuns
  <2>2. CASE lazy[lvl] = {}
      BY <2>1, <2>2 DEF MarkedRuns
  <2>3. CASE OneRunPerLevel(lazy[lvl], lvl)
      BY <2>1, <2>3, MarkedShape
  <2> QED
      BY <1>1, <2>2, <2>3
<1>5. ASSUME NEW p \in Threads, PickStep(p), ~BuildStructureLock(p), ~Enqueue(p)
      PROVE  UNCHANGED lazy
    BY <1>5 DEF PickStep, BuildStructureUnlock, FindLargestOccupiedLevel, CountRuns, AddFiles,
                CheckCapacity, FindSlot
<1>6. ASSUME NEW f \in FlushThreads, OnFlushCompleted(f) PROVE UNCHANGED lazy
    BY <1>6 DEF OnFlushCompleted
<1>7. ASSUME NEW p \in Threads, Crash(p) PROVE UNCHANGED lazy
    BY <1>7 DEF Crash
<1>8. ASSUME NEW w \in Workers, Work(w) PROVE UNCHANGED lazy
    BY <1>8 DEF Work, StartCompaction, FinishCompaction, Decrement
<1>9. CASE UNCHANGED vars
    BY <1>2, <1>9 DEF vars
<1> QED
    BY <1>2, <1>3, <1>4, <1>5, <1>6, <1>7, <1>8, <1>9 DEF Next

\* For any number of threads and any K: what the scan reads at runs[K - j] of a
\* level that is not being rebuilt is the RocksDB level that it would write to.
THEOREM SlotsAgree == Spec => []SlotsMatchLevels
<1>1. Init => TypeInv /\ SlotsInOrder
  <2>1. Init => SlotsInOrder
      BY DEF Init, SlotsInOrder
  <2> QED
      BY <2>1, InitType
<1>2. TypeInv /\ SlotsInOrder /\ [Next]_vars => (TypeInv /\ SlotsInOrder)'
    BY NextType, SlotsStep
<1>3. SlotsInOrder => SlotsMatchLevels
    BY ScanReadsItsSlot DEF SlotsInOrder, SlotsMatchLevels
<1> QED
    BY <1>1, <1>2, <1>3, PTL DEF Spec

-----------------------------------------------------------------------------
(* FluidLSM implements the abstract pool: each step submits, begins or ends *)
(* one job, stops, or is invisible to it.                                   *)

\* JobPool's own Cardinality is FluidLSM's.
LEMMA PoolCardinality == Pool!Cardinality(Busy) = Cardinality(Busy)
BY DEF Pool!Cardinality, Cardinality, Pool!IsFiniteSet, IsFiniteSet

LEMMA PoolInitial == Init => Pool!PoolInit
<1> SUFFICES ASSUME Init PROVE Pool!PoolInit
    OBVIOUS
<1>1. Busy = {} /\ Len(queue) = 0 /\ crashed = FALSE
    BY DEF Init, Busy, Threads
<1> QED
    BY <1>1 DEF Pool!PoolInit

LEMMA PoolStep ==
    AdmissionInv /\ AdmissionInv' /\ [Next]_vars => [Pool!PoolNext]_(Pool!poolVars)
<1> SUFFICES ASSUME AdmissionInv, AdmissionInv', [Next]_vars
             PROVE  [Pool!PoolNext]_(Pool!poolVars)
    OBVIOUS
<1>1. /\ TypeOK /\ running \in Int /\ queue \in Seq(Task) /\ pc \in [Threads -> PC]
      /\ Workers \subseteq Threads /\ FlushThreads \subseteq Threads
    BY DEF AdmissionInv, TypeInv, TypeOK, Threads
<1>2. Len(queue) \in Nat /\ Cardinality(Busy) \in Nat
    BY <1>1, BusyFinite
<1>3. CASE UNCHANGED <<queue, crashed>> /\ Busy' = Busy
    BY <1>3 DEF Pool!poolVars
<1>4. ASSUME NEW f \in FlushThreads, OnFlushCompleted(f)
      PROVE  UNCHANGED <<queue, crashed>> /\ Busy' = Busy
    BY <1>1, <1>4, ThreadAssumption DEF OnFlushCompleted, Busy
<1>5. ASSUME NEW p \in Threads, PickStep(p), ~crashed
      PROVE  [Pool!PoolNext]_(Pool!poolVars)
  <2>1. Busy' = Busy /\ crashed' = crashed
      BY <1>1, <1>5, PickKeepsBusy DEF PickStep, BuildStructureLock, BuildStructureUnlock,
         FindLargestOccupiedLevel, CountRuns, AddFiles, CheckCapacity, FindSlot, Enqueue
  <2>2. CASE Enqueue(p)
    <3>1. Len(queue') = Len(queue) + 1
        BY <1>1, <2>2 DEF Enqueue
    <3>2. p \in Committed
        BY <2>2 DEF Enqueue, Committed
    <3>3. Cardinality(Committed) >= 1
        BY <3>2, CommittedFinite, FS_EmptySet DEF AdmissionInv
    <3>4. running < parallel_compactions_allowed - 1 + Cardinality(FlushThreads)
        BY <1>1, <3>3, CommittedFinite
           DEF AdmissionInv, ParallelBound, parallel_compactions_allowed
    <3>5. Len(queue) + Cardinality(Busy)
              < parallel_compactions_allowed - 1 + Cardinality(FlushThreads)
        BY <3>4 DEF AdmissionInv, CounterExact
    <3>6. Pool!Submit
        BY <2>1, <3>1, <3>5, PoolCardinality DEF Pool!Submit
    <3> QED
        BY <1>5, <3>6 DEF Pool!PoolNext
  <2>3. CASE ~Enqueue(p)
    <3>1. UNCHANGED queue
        BY <1>5, <2>3 DEF PickStep, BuildStructureLock, BuildStructureUnlock,
           FindLargestOccupiedLevel, CountRuns, AddFiles, CheckCapacity, FindSlot
    <3> QED
        BY <1>3, <2>1, <3>1
  <2> QED
      BY <2>2, <2>3
<1>6. ASSUME NEW w \in Workers, StartCompaction(w), ~crashed
      PROVE  Pool!PoolNext
  <2>1. Len(queue) > 0 /\ Len(queue') = Len(queue) - 1 /\ crashed' = crashed
      BY <1>1, <1>6 DEF StartCompaction
  <2>2. pc[w] = "idle" /\ pc'[w] # "idle" /\ \A q \in Threads \ {w} : pc'[q] = pc[q]
      BY <1>1, <1>6 DEF StartCompaction, AfterCompaction
  <2>3. w \notin Busy /\ Busy' = Busy \cup {w}
      BY <1>1, <2>2 DEF Busy
  <2>4. Pool!Begin(w)
      BY <2>1, <2>3 DEF Pool!Begin
  <2> QED
      BY <1>6, <2>4 DEF Pool!PoolNext
<1>7. ASSUME NEW w \in Workers, FinishCompaction(w)
      PROVE  UNCHANGED <<queue, crashed>> /\ Busy' = Busy
    BY <1>1, <1>7 DEF FinishCompaction, AfterCompaction, Busy
<1>8. ASSUME NEW w \in Workers, Decrement(w), ~crashed
      PROVE  Pool!PoolNext
  <2>1. w \in Busy /\ Busy' = Busy \ {w} /\ UNCHANGED <<queue, crashed>>
      BY <1>1, <1>8 DEF Decrement, Busy
  <2>2. Pool!End(w)
      BY <2>1 DEF Pool!End
  <2> QED
      BY <1>8, <2>2 DEF Pool!PoolNext
<1>9. ASSUME NEW p \in Threads, Crash(p), ~crashed
      PROVE  Pool!PoolNext
  <2>1. Pool!Stop
      BY <1>9 DEF Crash, Pool!Stop, Busy
  <2> QED
      BY <1>9, <2>1 DEF Pool!PoolNext
<1>10. CASE UNCHANGED vars
    BY <1>3, <1>10 DEF vars, Busy
<1> QED
    BY <1>3, <1>4, <1>5, <1>6, <1>7, <1>8, <1>9, <1>10 DEF Next, Work

\* Every behaviour of FluidLSM is, in its queue and its busy workers, one of a
\* pool with as many places as there are flush threads.
THEOREM FluidLSMImplementsPool == Spec => ImplementsPoolSafety
<1>1. Init => Pool!PoolInit
    BY PoolInitial
<1>2. AdmissionInv /\ AdmissionInv' /\ [Next]_vars => [Pool!PoolNext]_(Pool!poolVars)
    BY PoolStep
<1> QED
    BY <1>1, <1>2, AdmissionInvariant, PTL DEF Spec, ImplementsPoolSafety, Pool!PoolSafety

-----------------------------------------------------------------------------
(* The requests of an unraced pick.  With one flush thread, a thread that   *)
(* passes the capacity check finds no task outstanding.  What it scanned is *)
(* then what RocksDB holds: a task begun since its rebuild has either ended *)
(* under the scan or rebuilt the structure, and both count as a race.       *)

\* File numbers are used once, and a marked file is in some running compaction
FilesInv ==
    /\ Distinct(db)
    /\ \A g \in db : g.name < nextName
    /\ \A g \in db : g.being_compacted =>
          \E w \in Workers : pc[w] = "compact" /\ g.name \in job[w].names

LEMMA FilesUnchanged ==
    ASSUME FilesInv, UNCHANGED <<db, nextName, job>>,
           \A w \in Workers : pc[w] = "compact" => pc'[w] = "compact"
    PROVE  FilesInv'
BY DEF FilesInv, Distinct

LEMMA FilesStep == TypeInv /\ FilesInv /\ [Next]_vars => FilesInv'
<1> SUFFICES ASSUME TypeInv, FilesInv, [Next]_vars PROVE FilesInv'
    OBVIOUS
<1>1. /\ TypeOK /\ pc \in [Threads -> PC] /\ Workers \subseteq Threads
      /\ FlushThreads \subseteq Threads /\ job \in [Workers -> Task]
      /\ db \in SUBSET File /\ nextName \in Nat
    BY DEF TypeInv, TypeOK, Threads
<1>2. ASSUME NEW f \in FlushThreads, OnFlushCompleted(f) PROVE FilesInv'
  <2>1. PICK size \in 1 .. WriteBuffer : db' = Flushed(db, nextName, size)
      BY <1>2 DEF OnFlushCompleted, Flushed
  <2>2. size \in Nat /\ \A g \in db : g.name < nextName
      BY DEF FilesInv
  <2>3. /\ Distinct(db) => Distinct(db')
        /\ \A g \in db' : g.name < nextName + 1
        /\ \A g \in db' : g.being_compacted => g \in db
      BY <1>1, <2>1, <2>2, AddedFiles
  <2>4. /\ job' = job /\ nextName' = nextName + 1
        /\ \A w \in Workers : pc[w] = "compact" => pc'[w] = "compact"
      BY <1>1, <1>2 DEF OnFlushCompleted
  <2> QED
      BY <2>3, <2>4 DEF FilesInv
<1>3. ASSUME NEW p \in Threads, PickStep(p) PROVE FilesInv'
  <2>1. UNCHANGED <<db, nextName, job>>
      BY <1>3 DEF PickStep, BuildStructureLock, BuildStructureUnlock,
         FindLargestOccupiedLevel, CountRuns, AddFiles, CheckCapacity, FindSlot, Enqueue
  <2>2. pc[p] # "compact" /\ \A q \in Threads \ {p} : pc'[q] = pc[q]
      BY <1>1, <1>3, NextLevelType DEF PickStep, BuildStructureLock, BuildStructureUnlock,
         FindLargestOccupiedLevel, CountRuns, AddFiles, CheckCapacity, FindSlot, Enqueue
  <2> QED
      BY <1>1, <2>1, <2>2, FilesUnchanged
<1>4. ASSUME NEW w \in Workers, StartCompaction(w) PROVE FilesInv'
  <2> DEFINE task == Head(queue)
             inputs == Expanded(db, task)
  <2>1. nextName' = nextName /\ pc[w] = "idle"
      BY <1>4 DEF StartCompaction
  <2>2. CASE Rejected(db, task)
    <3>1. UNCHANGED <<db, job>> /\ \E next : pc' = [pc EXCEPT ![w] = next]
        BY <1>4, <2>2 DEF StartCompaction
    <3> QED
        BY <1>1, <2>1, <3>1, FilesUnchanged
  <2>3. CASE ~Rejected(db, task)
    <3>1. /\ pc' = [pc EXCEPT ![w] = "compact"]
          /\ job' = [job EXCEPT ![w] = [task EXCEPT !.names = Names(inputs)]]
          /\ db' = Started(db, inputs)
        BY <1>4, <2>3 DEF StartCompaction, Started
    <3>2. task \in Task
        BY <1>1, <1>4 DEF TypeOK, StartCompaction
    <3>3. /\ pc'[w] = "compact" /\ job'[w].names = Names(inputs)
          /\ \A v \in Workers \ {w} : pc'[v] = pc[v] /\ job'[v] = job[v]
        BY <1>1, <3>1, <3>2 DEF Task
    <3>4. inputs \subseteq db
        BY DEF Expanded
    <3> HIDE DEF inputs, task
    <3> DEFINE after == Started(db, inputs)
    <3>5. /\ Distinct(db) => Distinct(after)
          /\ (\A f \in db : f.name < nextName) => \A g \in after : g.name < nextName
          /\ \A g \in after : g.being_compacted =>
                \/ g.name \in Names(inputs)
                \/ \E f \in db : f.being_compacted /\ f.name = g.name
        BY <1>1, <3>4, StartedFiles
    <3> HIDE DEF after
    <3>6. db' = after
        BY <3>1 DEF after
    <3>7. \A g \in after : g.being_compacted =>
              \E v \in Workers : pc'[v] = "compact" /\ g.name \in job'[v].names
      <4> SUFFICES ASSUME NEW g \in after, g.being_compacted
                   PROVE  \E v \in Workers : pc'[v] = "compact" /\ g.name \in job'[v].names
          OBVIOUS
      <4>1. CASE g.name \in Names(inputs)
          BY <3>3, <4>1
      <4>2. CASE \E f \in db : f.being_compacted /\ f.name = g.name
        <5>1. PICK v \in Workers : pc[v] = "compact" /\ g.name \in job[v].names
            BY <4>2 DEF FilesInv
        <5> QED
            BY <2>1, <3>3, <5>1
      <4> QED
          BY <3>5, <4>1, <4>2
    <3> QED
        BY <2>1, <3>5, <3>6, <3>7 DEF FilesInv
  <2> QED
      BY <2>2, <2>3
<1>5. ASSUME NEW w \in Workers, FinishCompaction(w) PROVE FilesInv'
  <2> DEFINE inputs == Named(db, job[w])
  <2>1. job[w].out \in RocksDBLevels /\ inputs \subseteq db
      BY <1>5 DEF TypeInv, JobsInRange, FinishCompaction, Named
  <2>2. \A g \in db \ inputs : g.being_compacted =>
            \E v \in Workers \ {w} : pc[v] = "compact" /\ g.name \in job[v].names
      BY DEF FilesInv, Named
  <2>3. \A v \in Workers \ {w} : pc'[v] = pc[v] /\ job'[v] = job[v]
      BY <1>1, <1>5 DEF FinishCompaction
  <2>4. \A f \in db : f.name < nextName
      BY DEF FilesInv
  <2>5. \/ \E outputs \in Merged(inputs, nextName, job[w].out) :
               db' = Replaced(db, inputs, outputs) /\ nextName' = nextName + 1
        \/ db' = Failed(db, inputs) /\ nextName' = nextName
      BY <1>5 DEF FinishCompaction, Replaced, Failed
  <2> HIDE DEF inputs
  <2>6. CASE \E outputs \in Merged(inputs, nextName, job[w].out) :
                 db' = Replaced(db, inputs, outputs) /\ nextName' = nextName + 1
    <3>1. PICK outputs \in Merged(inputs, nextName, job[w].out) :
              db' = Replaced(db, inputs, outputs) /\ nextName' = nextName + 1
        BY <2>6
    <3> DEFINE after == Replaced(db, inputs, outputs)
    <3>2. /\ Distinct(db) => Distinct(after)
          /\ \A g \in after : g.name < nextName + 1
          /\ \A g \in after : g.being_compacted => g \in db \ inputs
        BY <1>1, <2>1, <2>4, MergedFiles
    <3> HIDE DEF after
    <3>3. db' = after
        BY <3>1 DEF after
    <3> QED
        BY <2>2, <2>3, <3>1, <3>2, <3>3 DEF FilesInv
  <2>7. CASE db' = Failed(db, inputs) /\ nextName' = nextName
    <3> DEFINE after == Failed(db, inputs)
    <3>1. /\ Distinct(db) => Distinct(after)
          /\ (\A f \in db : f.name < nextName) => \A g \in after : g.name < nextName
          /\ \A g \in after : g.being_compacted => g \in db \ inputs
        BY <1>1, <2>1, ReleasedFiles
    <3> HIDE DEF after
    <3>2. db' = after
        BY <2>7 DEF after
    <3> QED
        BY <2>2, <2>3, <2>4, <2>7, <3>1, <3>2 DEF FilesInv
  <2> QED
      BY <2>5, <2>6, <2>7
<1>6. ASSUME NEW w \in Workers, Decrement(w) PROVE FilesInv'
    BY <1>1, <1>6, FilesUnchanged DEF Decrement
<1>7. CASE UNCHANGED vars \/ \E p \in Threads : Crash(p)
    BY <1>7, FilesUnchanged DEF vars, Crash
<1> QED
    BY <1>2, <1>3, <1>4, <1>5, <1>6, <1>7 DEF Next, Work

\* With one flush thread at most one task is outstanding, and a thread that has
\* passed the check finds none
LEMMA OneAtATime ==
    ASSUME AdmissionInv, NEW f, FlushThreads = {f}
    PROVE  /\ queue # <<>> => Busy = {} /\ Len(queue) = 1
           /\ f \in Committed => queue = <<>> /\ Busy = {}
<1>1. Cardinality(FlushThreads) = 1
    BY FS_Singleton
<1>2. /\ Len(queue) \in Nat /\ Cardinality(Busy) \in Nat /\ Cardinality(Committed) \in Nat
      /\ queue \in Seq(Task) /\ IsFiniteSet(Busy) /\ IsFiniteSet(Committed)
    BY BusyFinite, CommittedFinite DEF AdmissionInv, TypeInv, TypeOK
<1>3. Len(queue) + Cardinality(Busy) + Cardinality(Committed) <= 1
    BY <1>1, <1>2 DEF AdmissionInv, CounterExact, ParallelBound, parallel_compactions_allowed
<1>4. Len(queue) # 0 \/ queue = <<>>
    BY <1>2
<1>5. /\ Len(queue) # 0 => Len(queue) = 1 /\ Cardinality(Busy) = 0
      /\ Cardinality(Committed) # 0 => Len(queue) = 0 /\ Cardinality(Busy) = 0
  <2> DEFINE waiting == Len(queue)
             busy == Cardinality(Busy)
             committed == Cardinality(Committed)
  <2>1. waiting \in Nat /\ busy \in Nat /\ committed \in Nat
      BY <1>2
  <2>2. waiting + busy + committed <= 1
      BY <1>3
  <2> HIDE DEF waiting, busy, committed
  <2>3. waiting # 0 => waiting = 1 /\ busy = 0
      BY <2>1, <2>2
  <2>4. committed # 0 => waiting = 0 /\ busy = 0
      BY <2>1, <2>2
  <2> QED
      BY <2>3, <2>4 DEF waiting, busy, committed
<1>6. Cardinality(Busy) = 0 => Busy = {}
    BY <1>2, FS_EmptySet
<1>7. f \in Committed => Cardinality(Committed) # 0
    BY <1>2, FS_EmptySet
<1> QED
    BY <1>4, <1>5, <1>6, <1>7

\* What the structure shows is what RocksDB holds, or a task is under way
FreshView ==
    \/ lazy = BuildStructure(db)
    \/ queue # <<>>
    \/ \E w \in Workers : pc[w] \in {"compact", "build"}

\* What flush thread f has read, while no race has spoilt it
ViewInv(f) ==
    /\ pc[f] \in {"idle", "build"} => pick[f] = NoPick
    /\ ~pick[f].raced =>
        /\ ~pick[f].dangling
        /\ pc[f] \in Scanning => lock = NoThread
        /\ pc[f] \in Scanning \cup {"locked"} => FreshView
        /\ pc[f] = "add" => AddFilesToCompaction(lazy[pick[f].lvl]) # {}
        /\ pc[f] \in HoldsPointers =>
              /\ pick[f].input = AddFilesToCompaction(lazy[pick[f].lvl])
              /\ pick[f].input # {}
        /\ pc[f] \in {"slot", "enqueue"} =>
              pick[f].target = GetCompactionTargetLevel(pick[f].lvl, Size(pick[f].input))
        /\ pc[f] = "enqueue" =>
              pick[f].out \in OutputLevels(pick[f].lvl, pick[f].target, LevelAt(pick[f].target))

LEMMA ViewKept ==
    ASSUME NEW f, ViewInv(f), pc'[f] = pc[f], pick'[f] = pick[f], lazy' = lazy,
           lock' \in {lock, NoThread}, FreshView => FreshView'
    PROVE  ViewInv(f)'
BY DEF ViewInv, LevelAt

LEMMA ViewOutdated ==
    ASSUME NEW f, ViewInv(f), pc'[f] = pc[f],
           IF pc[f] \in Scanning \cup {"locked"} THEN pick'[f].raced ELSE pick'[f] = pick[f]
    PROVE  ViewInv(f)'
<1>1. CASE pc[f] \in Scanning \cup {"locked"}
    BY <1>1 DEF ViewInv, Scanning
<1>2. CASE pc[f] \notin Scanning \cup {"locked"}
    BY <1>2 DEF ViewInv, Scanning, HoldsPointers
<1> QED
    BY <1>1, <1>2

\* The next smaller level is looked at in the same structure
LEMMA ViewOfNextLevel ==
    ASSUME TypeOK, NEW f \in FlushThreads, ViewInv(f), pc[f] \in Scanning, NextLevel(f),
           lock' = lock, FreshView => FreshView'
    PROVE  ViewInv(f)'
<1>1. /\ pc \in [Threads -> PC] /\ pick \in [Threads -> Pick] /\ f \in Threads /\ f \notin Workers
    BY ThreadAssumption DEF TypeOK, Threads
<1>2. CASE pick[f].lvl > 0
  <2> DEFINE next == [NoPick EXCEPT !.lvl = pick[f].lvl - 1, !.largest = pick[f].largest,
                                    !.raced = pick[f].raced]
  <2>1. pick'[f] = next /\ pc'[f] = "count"
      BY <1>1, <1>2 DEF NextLevel, MoreLevels
  <2>2. next.raced = pick[f].raced /\ ~next.dangling
      BY DEF NoPick
  <2> HIDE DEF next
  <2> QED
      BY <2>1, <2>2 DEF ViewInv, Scanning, HoldsPointers
<1>3. CASE ~(pick[f].lvl > 0)
  <2>1. pick'[f] = NoPick /\ pc'[f] = "idle" /\ ~NoPick.dangling
      BY <1>1, <1>3 DEF NextLevel, MoreLevels, NoPick
  <2> QED
      BY <2>1 DEF ViewInv, Scanning, HoldsPointers
<1> QED
    BY <1>2, <1>3

LEMMA ViewOfPicker ==
    ASSUME TypeInv, NEW f \in FlushThreads, ViewInv(f), PickStep(f)
    PROVE  ViewInv(f)'
<1>1. /\ TypeOK /\ pc \in [Threads -> PC] /\ pick \in [Threads -> Pick] /\ pick[f] \in Pick
      /\ f \in Threads /\ Workers \subseteq Threads /\ f \notin Workers
    BY ThreadAssumption DEF TypeInv, TypeOK, Threads
<1>2. CASE BuildStructureLock(f)
  <2>1. pick'[f] = pick[f] /\ pc'[f] = "locked" /\ pc[f] = "build"
      BY <1>1, <1>2 DEF BuildStructureLock, Overtake, Racing
  <2>2. lazy' = BuildStructure(db) /\ db' = db
      BY <1>2 DEF BuildStructureLock
  <2>3. FreshView'
      BY <2>2 DEF FreshView
  <2> QED
      BY <2>1, <2>3 DEF ViewInv, Scanning, HoldsPointers, NoPick
<1>3. CASE BuildStructureUnlock(f)
  <2>1. pick'[f] = pick[f] /\ pc'[f] = "largest" /\ pc[f] = "locked" /\ lock' = NoThread
      BY <1>1, <1>3 DEF BuildStructureUnlock
  <2>2. FreshView => FreshView'
      BY <1>1, <1>3 DEF BuildStructureUnlock, FreshView
  <2> QED
      BY <2>1, <2>2 DEF ViewInv, Scanning, HoldsPointers
<1>4. CASE FindLargestOccupiedLevel(f)
  <2>1. PICK lvl \in FluidLevels : pick' = [pick EXCEPT ![f].largest = lvl, ![f].lvl = lvl]
      BY <1>4 DEF FindLargestOccupiedLevel
  <2>2. pick'[f].raced = pick[f].raced /\ pick'[f].dangling = pick[f].dangling
      BY <1>1, <2>1 DEF Pick
  <2>3. pc'[f] = "count" /\ pc[f] = "largest" /\ lock' = lock
      BY <1>1, <1>4 DEF FindLargestOccupiedLevel
  <2>4. FreshView => FreshView'
      BY <1>1, <1>4 DEF FindLargestOccupiedLevel, FreshView
  <2> QED
      BY <2>2, <2>3, <2>4 DEF ViewInv, Scanning, HoldsPointers
<1>5. CASE CountRuns(f)
  <2>1. lock' = lock /\ pc[f] = "count" /\ lazy' = lazy
      BY <1>5 DEF CountRuns
  <2>2. PICK level \in Seen(pick[f].lvl) :
            IF NeedsCompaction(pick[f].lvl, pick[f].largest, NumLiveRuns(level))
            THEN pc' = [pc EXCEPT ![f] = "add"] /\ UNCHANGED pick
            ELSE NextLevel(f)
      BY <1>5 DEF CountRuns
  <2>3. \A q \in Threads \ {f} : pc'[q] = pc[q]
      BY <1>1, <2>2, NextLevelType
  <2>4. FreshView => FreshView'
      BY <1>1, <1>5, <2>3 DEF CountRuns, FreshView
  <2>5. CASE NeedsCompaction(pick[f].lvl, pick[f].largest, NumLiveRuns(level))
    <3>1. AddFilesToCompaction(level) # {}
        BY <2>5, CrowdedHasInput
    <3>2. pc'[f] = "add" /\ pick' = pick
        BY <1>1, <2>2, <2>5
    <3>3. lock = NoThread => level = lazy[pick[f].lvl]
        BY DEF Seen, Rebuilding
    <3> QED
        BY <2>1, <2>4, <3>1, <3>2, <3>3 DEF ViewInv, Scanning, HoldsPointers
  <2>6. CASE ~NeedsCompaction(pick[f].lvl, pick[f].largest, NumLiveRuns(level))
    <3>1. NextLevel(f)
        BY <2>2, <2>6
    <3> QED
        BY <1>1, <2>1, <2>4, <3>1, ViewOfNextLevel DEF Scanning
  <2> QED
      BY <2>5, <2>6
<1>6. CASE AddFiles(f)
  <2>1. PICK level \in Seen(pick[f].lvl) :
            pick' = [pick EXCEPT ![f].input = AddFilesToCompaction(level),
                                 ![f].dangling = Rebuilding]
      BY <1>6 DEF AddFiles
  <2>2. /\ pick'[f].raced = pick[f].raced /\ pick'[f].dangling = Rebuilding
        /\ pick'[f].input = AddFilesToCompaction(level) /\ pick'[f].lvl = pick[f].lvl
      BY <1>1, <2>1 DEF Pick
  <2>3. pc'[f] = "check" /\ pc[f] = "add" /\ lock' = lock /\ lazy' = lazy
      BY <1>1, <1>6 DEF AddFiles
  <2>4. FreshView => FreshView'
      BY <1>1, <1>6 DEF AddFiles, FreshView
  <2>5. lock = NoThread => level = lazy[pick[f].lvl] /\ ~Rebuilding
      BY DEF Seen, Rebuilding
  <2> QED
      BY <2>2, <2>3, <2>4, <2>5 DEF ViewInv, Scanning, HoldsPointers
<1>7. CASE CheckCapacity(f)
  <2>1. lock' = lock /\ pc[f] = "check" /\ lazy' = lazy
      BY <1>7 DEF CheckCapacity
  <2>2. \/ /\ \E target \in Targets(f) : pick' = [pick EXCEPT ![f].target = target]
           /\ pc' = [pc EXCEPT ![f] = "slot"]
        \/ NextLevel(f)
      BY <1>7 DEF CheckCapacity
  <2>3. \A q \in Threads \ {f} : pc'[q] = pc[q]
      BY <1>1, <2>2, NextLevelType
  <2>4. FreshView => FreshView'
      BY <1>1, <1>7, <2>3 DEF CheckCapacity, FreshView
  <2>5. CASE NextLevel(f)
      BY <1>1, <2>1, <2>4, <2>5, ViewOfNextLevel DEF Scanning
  <2>6. CASE /\ \E target \in Targets(f) : pick' = [pick EXCEPT ![f].target = target]
             /\ pc' = [pc EXCEPT ![f] = "slot"]
    <3>1. PICK target \in Targets(f) : pick' = [pick EXCEPT ![f].target = target]
        BY <2>6
    <3>2. /\ pick'[f].raced = pick[f].raced /\ pick'[f].dangling = pick[f].dangling
          /\ pick'[f].input = pick[f].input /\ pick'[f].lvl = pick[f].lvl
          /\ pick'[f].target = target
        BY <1>1, <3>1 DEF Pick
    <3>3. ~pick[f].dangling => target = GetCompactionTargetLevel(pick[f].lvl, Size(pick[f].input))
        BY DEF Targets
    <3>4. pc'[f] = "slot"
        BY <1>1, <2>6
    <3> QED
        BY <2>1, <2>4, <3>2, <3>3, <3>4 DEF ViewInv, Scanning, HoldsPointers
  <2> QED
      BY <2>2, <2>5, <2>6
<1>8. CASE FindSlot(f)
  <2>1. PICK out \in IF Rebuilding /\ pick[f].target > pick[f].lvl
                     THEN {SlotLevel(pick[f].target, j) : j \in 0 .. K}
                     ELSE OutputLevels(pick[f].lvl, pick[f].target, LevelAt(pick[f].target)) :
            pick' = [pick EXCEPT ![f].out = out]
      BY <1>8 DEF FindSlot
  <2>2. /\ pick'[f].raced = pick[f].raced /\ pick'[f].dangling = pick[f].dangling
        /\ pick'[f].input = pick[f].input /\ pick'[f].lvl = pick[f].lvl
        /\ pick'[f].target = pick[f].target /\ pick'[f].out = out
      BY <1>1, <2>1 DEF Pick
  <2>3. pc'[f] = "enqueue" /\ pc[f] = "slot" /\ lock' = lock /\ lazy' = lazy
      BY <1>1, <1>8 DEF FindSlot
  <2>4. FreshView => FreshView'
      BY <1>1, <1>8 DEF FindSlot, FreshView
  <2>5. lock = NoThread =>
            out \in OutputLevels(pick[f].lvl, pick[f].target, LevelAt(pick[f].target))
      BY <2>1 DEF Rebuilding
  <2> QED
      BY <2>2, <2>3, <2>4, <2>5 DEF ViewInv, Scanning, HoldsPointers, LevelAt
<1>9. CASE Enqueue(f)
  <2>1. lock' = lock /\ pc[f] = "enqueue" /\ NextLevel(f)
      BY <1>9 DEF Enqueue
  <2>2. queue' # <<>>
    <3>1. PICK task : queue' = Append(queue, task)
        BY <1>9 DEF Enqueue
    <3>2. queue \in Seq(Task)
        BY <1>1 DEF TypeOK
    <3> QED
        BY <3>1, <3>2
  <2>3. FreshView'
      BY <2>2 DEF FreshView
  <2> QED
      BY <1>1, <2>1, <2>3, ViewOfNextLevel DEF Scanning
<1> QED
    BY <1>2, <1>3, <1>4, <1>5, <1>6, <1>7, <1>8, <1>9 DEF PickStep

LEMMA ViewStep ==
    ASSUME AdmissionInv, NEW f, FlushThreads = {f}, ViewInv(f), [Next]_vars
    PROVE  ViewInv(f)'
<1>1. /\ TypeInv /\ TypeOK /\ pc \in [Threads -> PC] /\ pick \in [Threads -> Pick]
      /\ f \in FlushThreads /\ f \in Threads /\ Workers \subseteq Threads /\ f \notin Workers
      /\ Threads = {f} \cup Workers
    BY ThreadAssumption DEF AdmissionInv, TypeInv, TypeOK, Threads
<1>2. CASE \E g \in FlushThreads : OnFlushCompleted(g)
  <2>1. OnFlushCompleted(f)
      BY <1>2
  <2>2. pc[f] = "idle" /\ pc'[f] = "build" /\ pick' = pick
      BY <1>1, <2>1 DEF OnFlushCompleted
  <2> QED
      BY <2>2 DEF ViewInv, Scanning, HoldsPointers
<1>3. CASE PickStep(f)
    BY <1>1, <1>3, ViewOfPicker
<1>4. ASSUME NEW w \in Workers, PickStep(w) PROVE ViewInv(f)'
  <2>1. /\ pc[w] \notin {"slot", "enqueue"} /\ w \in Threads /\ w # f
      BY <1>1 DEF AdmissionInv, FollowUpNeverSchedules
  <2>2. CASE BuildStructureLock(w)
    <3>1. pc'[f] = pc[f] /\ pick'[f] = Overtake(w)[f]
        BY <1>1, <2>1, <2>2 DEF BuildStructureLock
    <3>2. IF pc[f] \in Scanning \cup {"locked"} THEN pick'[f].raced ELSE pick'[f] = pick[f]
      <4>1. f \in Racing(w) <=> pc[f] \in Scanning \cup {"locked"}
          BY <1>1, <2>1 DEF Racing
      <4>2. f \in Racing(w) =>
                Overtake(w)[f] = [pick[f] EXCEPT !.raced = TRUE,
                                                 !.dangling = @ \/ pc[f] \in HoldsPointers]
          BY <1>1 DEF Overtake
      <4>3. f \in Racing(w) => Overtake(w)[f].raced
          BY <1>1, <4>2 DEF Pick
      <4>4. f \notin Racing(w) => Overtake(w)[f] = pick[f]
          BY <1>1 DEF Overtake
      <4> QED
          BY <3>1, <4>1, <4>3, <4>4
    <3> QED
        BY <3>1, <3>2, ViewOutdated
  <2>3. CASE ~BuildStructureLock(w)
    <3>1. /\ pc[w] \in {"locked", "largest", "count", "add", "check"}
          /\ UNCHANGED <<lazy, db, queue>> /\ lock' \in {lock, NoThread}
        BY <1>4, <2>1, <2>3 DEF PickStep, BuildStructureUnlock, FindLargestOccupiedLevel,
           CountRuns, AddFiles, CheckCapacity, FindSlot, Enqueue
    <3>2. \A q \in Threads \ {w} : pc'[q] = pc[q] /\ pick'[q] = pick[q]
      <4>1. CASE BuildStructureUnlock(w)
          BY <1>1, <4>1 DEF BuildStructureUnlock
      <4>2. CASE FindLargestOccupiedLevel(w)
          BY <1>1, <4>2 DEF FindLargestOccupiedLevel
      <4>3. CASE AddFiles(w)
          BY <1>1, <4>3 DEF AddFiles
      <4>4. CASE NextLevel(w)
          BY <1>1, <4>4 DEF NextLevel
      <4>5. CASE CountRuns(w) \/ CheckCapacity(w)
        <5>1. \/ NextLevel(w)
              \/ pc' = [pc EXCEPT ![w] = "add"] /\ pick' = pick
              \/ /\ pc' = [pc EXCEPT ![w] = "slot"]
                 /\ \E target \in Targets(w) : pick' = [pick EXCEPT ![w].target = target]
            BY <4>5 DEF CountRuns, CheckCapacity
        <5> QED
            BY <1>1, <4>4, <5>1
      <4> QED
          BY <1>4, <2>1, <2>3, <4>1, <4>2, <4>3, <4>5 DEF PickStep, FindSlot, Enqueue
    <3>3. FreshView => FreshView'
        BY <1>1, <3>1, <3>2 DEF FreshView
    <3> QED
        BY <1>1, <2>1, <3>1, <3>2, <3>3, ViewKept
  <2> QED
      BY <2>2, <2>3
<1>5. ASSUME NEW w \in Workers, StartCompaction(w) PROVE ViewInv(f)'
  <2>1. /\ pc'[f] = pc[f] /\ pick' = pick /\ lazy' = lazy /\ lock' = lock
        /\ pc'[w] \in {"build", "compact"}
      BY <1>1, <1>5 DEF StartCompaction, AfterCompaction
  <2>2. FreshView'
      BY <2>1 DEF FreshView
  <2> QED
      BY <2>1, <2>2, ViewKept
<1>6. ASSUME NEW w \in Workers, FinishCompaction(w) PROVE ViewInv(f)'
  <2>1. pc'[f] = pc[f]
      BY <1>1, <1>6 DEF FinishCompaction
  <2>2. pick'[f] = IF f \in Racing(w) THEN [pick[f] EXCEPT !.raced = TRUE] ELSE pick[f]
      BY <1>1, <1>6 DEF FinishCompaction
  <2>3. f \in Racing(w) <=> pc[f] \in Scanning \cup {"locked"}
      BY <1>1 DEF Racing
  <2>4. f \in Racing(w) => pick'[f].raced
      BY <1>1, <2>2 DEF Pick
  <2> QED
      BY <2>1, <2>2, <2>3, <2>4, ViewOutdated
<1>7. ASSUME NEW w \in Workers, Decrement(w) PROVE ViewInv(f)'
  <2>1. /\ pc'[f] = pc[f] /\ pick' = pick /\ UNCHANGED <<lazy, lock, db, queue>>
        /\ pc[w] = "decrement" /\ \A v \in Workers \ {w} : pc'[v] = pc[v]
      BY <1>1, <1>7 DEF Decrement
  <2>2. FreshView => FreshView'
      BY <2>1 DEF FreshView
  <2> QED
      BY <2>1, <2>2, ViewKept
<1>8. CASE UNCHANGED vars \/ \E p \in Threads : Crash(p)
  <2>1. UNCHANGED <<pc, pick, lazy, lock, db, queue>>
      BY <1>8 DEF vars, Crash
  <2>2. FreshView => FreshView'
      BY <2>1 DEF FreshView
  <2> QED
      BY <2>1, <2>2, ViewKept
<1> QED
    BY <1>1, <1>2, <1>3, <1>4, <1>5, <1>6, <1>7, <1>8 DEF Next, Work

\* A clean request in the queue is still within RocksDB's rules
QueueInv == \A i \in DOMAIN queue : queue[i].clean => Acceptable(db, queue[i])

\* What an unraced thread enqueues is what a pick from RocksDB's own files makes
LEMMA CleanIsAcceptable ==
    ASSUME AdmissionInv, FilesInv, NEW f, FlushThreads = {f}, ViewInv(f),
           pc[f] = "enqueue", Clean(pick[f]), NEW names \in NamesRead(f)
    PROVE  Acceptable(db, [names |-> names, out |-> pick[f].out, clean |-> Clean(pick[f])])
<1> DEFINE local == pick[f]
           task == [names |-> names, out |-> local.out, clean |-> Clean(local)]
<1>1. ~local.raced /\ (local.target = 0 \/ Backed(local.target))
    BY DEF Clean
<1>2. /\ ~local.dangling /\ FreshView
      /\ local.input = AddFilesToCompaction(lazy[local.lvl]) /\ local.input # {}
      /\ local.target = GetCompactionTargetLevel(local.lvl, Size(local.input))
      /\ local.out \in OutputLevels(local.lvl, local.target, LevelAt(local.target))
    BY <1>1 DEF ViewInv, Scanning, HoldsPointers
<1>3. lazy = BuildStructure(db)
  <2>1. f \in Committed
      BY DEF Committed, Threads
  <2>2. queue = <<>> /\ Busy = {}
      BY <2>1, OneAtATime
  <2>3. \A w \in Workers : pc[w] \notin {"compact", "build"}
      BY <2>2 DEF Busy
  <2> QED
      BY <1>2, <2>2, <2>3 DEF FreshView
<1>4. names = Names(local.input)
    BY <1>2 DEF NamesRead
<1>5. LevelAt(local.target) = LevelOf(db, local.target)
    BY <1>3 DEF LevelAt, LevelOf
<1>6. local.lvl \in FluidLevels
    BY ThreadAssumption DEF AdmissionInv, TypeInv, TypeOK, Pick, Threads
<1>7. task.names = names /\ task.out = local.out
    OBVIOUS
<1> HIDE DEF task, local
<1>8. Picked(db, local.lvl, local.target, task)
    BY <1>2, <1>3, <1>4, <1>5, <1>6, <1>7 DEF Picked
<1>9. db \in SUBSET File /\ Distinct(db)
    BY DEF AdmissionInv, TypeInv, TypeOK, FilesInv
<1>10. Acceptable(db, task)
    BY <1>1, <1>8, <1>9, PickIsAcceptable
<1> QED
    BY <1>10 DEF task, local

LEMMA QueueStep ==
    ASSUME AdmissionInv, FilesInv, NEW f, FlushThreads = {f}, ViewInv(f), QueueInv,
           [Next]_vars
    PROVE  QueueInv'
<1>1. /\ TypeOK /\ pc \in [Threads -> PC] /\ queue \in Seq(Task) /\ f \in FlushThreads
      /\ Workers \subseteq Threads /\ Threads = {f} \cup Workers
      /\ db \in SUBSET File /\ nextName \in Nat
    BY DEF AdmissionInv, TypeInv, TypeOK, Threads
<1>2. CASE UNCHANGED <<db, queue>>
    BY <1>2 DEF QueueInv
<1>3. CASE \E g \in FlushThreads : OnFlushCompleted(g)
  <2>1. OnFlushCompleted(f)
      BY <1>3
  <2>2. PICK size \in 1 .. WriteBuffer : db' = Flushed(db, nextName, size)
      BY <2>1 DEF OnFlushCompleted, Flushed
  <2>3. size \in Nat /\ queue' = queue /\ \A g \in db : g.name < nextName
      BY <2>1 DEF OnFlushCompleted, FilesInv
  <2>4. \A t : t.names \subseteq Names(db) /\ Acceptable(db, t) => Acceptable(db', t)
      BY <1>1, <2>2, <2>3, AddedFiles
  <2>5. \A t : Acceptable(db, t) => Acceptable(db', t)
      BY <2>4 DEF Acceptable
  <2> QED
      BY <2>3, <2>5 DEF QueueInv
<1>4. ASSUME NEW p \in Threads, Enqueue(p) PROVE QueueInv'
  <2>1. p = f /\ pc[f] = "enqueue"
      BY <1>1, <1>4 DEF Enqueue, AdmissionInv, FollowUpNeverSchedules
  <2>2. queue = <<>>
      BY <2>1, OneAtATime DEF Committed, Threads
  <2>3. PICK names \in NamesRead(f) :
            queue' = Append(queue, [names |-> names, out |-> pick[f].out,
                                    clean |-> Clean(pick[f])])
      BY <1>4, <2>1 DEF Enqueue
  <2> DEFINE task == [names |-> names, out |-> pick[f].out, clean |-> Clean(pick[f])]
  <2>4. queue' = <<task>> /\ db' = db
      BY <1>4, <2>2, <2>3 DEF Enqueue
  <2>5. task.clean => Acceptable(db, task)
      BY <2>1, CleanIsAcceptable
  <2> HIDE DEF task
  <2>6. \A i \in DOMAIN queue' : queue'[i] = task
      BY <2>4
  <2> QED
      BY <2>4, <2>5, <2>6 DEF QueueInv
<1>5. ASSUME NEW p \in Threads, PickStep(p), ~Enqueue(p) PROVE UNCHANGED <<db, queue>>
    BY <1>5 DEF PickStep, BuildStructureLock, BuildStructureUnlock, FindLargestOccupiedLevel,
       CountRuns, AddFiles, CheckCapacity, FindSlot
<1>6. ASSUME NEW w \in Workers, StartCompaction(w) PROVE QueueInv'
  <2>1. queue # <<>> /\ queue' = Tail(queue)
      BY <1>6 DEF StartCompaction
  <2>2. Len(queue) = 1
      BY <2>1, OneAtATime
  <2>3. queue' = <<>>
      BY <1>1, <2>1, <2>2
  <2> QED
      BY <2>3 DEF QueueInv
<1>7. ASSUME NEW w \in Workers, FinishCompaction(w) PROVE QueueInv'
  <2>1. w \in Busy /\ queue' = queue
      BY <1>7 DEF FinishCompaction, Busy
  <2>2. queue = <<>>
      BY <2>1, OneAtATime
  <2> QED
      BY <2>1, <2>2 DEF QueueInv
<1>8. ASSUME NEW w \in Workers, Decrement(w) PROVE UNCHANGED <<db, queue>>
    BY <1>8 DEF Decrement
<1>9. ASSUME NEW p \in Threads, Crash(p) PROVE UNCHANGED <<db, queue>>
    BY <1>9 DEF Crash
<1>10. CASE UNCHANGED vars
    BY <1>2, <1>10 DEF vars
<1> QED
    BY <1>2, <1>3, <1>4, <1>5, <1>6, <1>7, <1>8, <1>9, <1>10 DEF Next, Work

\* With one flush thread (RocksDB's high-priority pool of one) and any number of
\* workers, a request picked without a race for slots that RocksDB has is one it
\* accepts, at every moment until a worker begins it: its files exist, none is in a
\* compaction, none moves up (fluid_lsm.cc 191-250).
THEOREM CleanIsAccepted ==
    ASSUME Cardinality(FlushThreads) = 1 PROVE Spec => []CleanRequestsAccepted
<1>1. PICK f : FlushThreads = {f}
  <2>1. PICK f \in FlushThreads : TRUE
      BY ThreadAssumption
  <2>2. Cardinality(FlushThreads \ {f}) = 0 /\ IsFiniteSet(FlushThreads \ {f})
      BY ThreadAssumption, FS_RemoveElement
  <2>3. FlushThreads \ {f} = {}
      BY <2>2, FS_EmptySet
  <2> QED
      BY <2>1, <2>3
<1>2. Init => FilesInv /\ ViewInv(f) /\ QueueInv
  <2> SUFFICES ASSUME Init PROVE FilesInv /\ ViewInv(f) /\ QueueInv
      OBVIOUS
  <2>1. FilesInv /\ QueueInv
      BY DEF Init, FilesInv, Distinct, QueueInv
  <2>2. pc[f] = "idle" /\ pick[f] = NoPick
      BY <1>1 DEF Init, Threads
  <2>3. ViewInv(f)
      BY <2>2 DEF ViewInv, NoPick, Scanning, HoldsPointers
  <2> QED
      BY <2>1, <2>3
<1>3. AdmissionInv /\ FilesInv /\ ViewInv(f) /\ QueueInv /\ [Next]_vars
        => FilesInv' /\ ViewInv(f)' /\ QueueInv'
  <2> SUFFICES ASSUME AdmissionInv, FilesInv, ViewInv(f), QueueInv, [Next]_vars
               PROVE  FilesInv' /\ ViewInv(f)' /\ QueueInv'
      OBVIOUS
  <2>1. FilesInv'
      BY FilesStep DEF AdmissionInv
  <2>2. ViewInv(f)'
      BY <1>1, ViewStep
  <2>3. QueueInv'
      BY <1>1, QueueStep
  <2> QED
      BY <2>1, <2>2, <2>3
<1>4. AdmissionInv /\ FilesInv /\ QueueInv => CleanRequestsAccepted
  <2> SUFFICES ASSUME AdmissionInv, FilesInv, QueueInv, NEW i \in CleanRequests
               PROVE  ~Rejected(db, queue[i])
      BY DEF CleanRequestsAccepted
  <2>1. i \in DOMAIN queue /\ queue[i].clean
      BY DEF CleanRequests
  <2>2. queue # <<>>
      BY <2>1
  <2>3. Busy = {}
      BY <1>1, <2>2, OneAtATime
  <2>4. Unmarked(db)
      BY <2>3 DEF Unmarked, FilesInv, Busy
  <2>5. Acceptable(db, queue[i]) /\ db \in SUBSET File
      BY <2>1 DEF QueueInv, AdmissionInv, TypeInv, TypeOK
  <2> QED
      BY <2>4, <2>5, AcceptableIsAccepted
<1> QED
    BY <1>2, <1>3, <1>4, AdmissionInvariant, PTL DEF Spec
=============================================================================
