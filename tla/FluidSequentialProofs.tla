------------------------ MODULE FluidSequentialProofs ------------------------
(***************************************************************************)
(* The policy of FluidLSM without its races, for any parameters of the     *)
(* tree: what it asks for when the slots are there is a compaction that    *)
(* RocksDB accepts, the slots of every level fill from the deepest up, and *)
(* the runs of a level that is not full are merged with nothing.           *)
(***************************************************************************)
EXTENDS FluidSequential, FluidTreeProofs, MaxTheorems

-----------------------------------------------------------------------------
(* What a pick asks for.                                                    *)

\* The level a pick compacts is the largest of those that need it
LEMMA OriginIsCrowded ==
    ASSUME NEW files, Crowded(BuildStructure(files)) # {}
    PROVE  LET origin == Max(Crowded(BuildStructure(files)))
           IN  /\ origin \in FluidLevels
               /\ AddFilesToCompaction(BuildStructure(files)[origin]) # {}
<1> DEFINE crowded == Crowded(BuildStructure(files))
           origin == Max(crowded)
<1>1. crowded \subseteq FluidLevels
    BY DEF Crowded
<1>2. NumLevels - 1 \in Nat /\ crowded \subseteq 0 .. NumLevels - 1
    BY <1>1, TreeAssumption DEF FluidLevels
<1>3. origin \in crowded
  <2> HIDE DEF crowded
  <2> QED
      BY <1>2, HasLast DEF crowded
<1>4. \E largest \in FluidLevels :
          NeedsCompaction(origin, largest, NumLiveRuns(BuildStructure(files)[origin]))
    BY <1>3 DEF Crowded
<1> HIDE DEF origin
<1>5. AddFilesToCompaction(BuildStructure(files)[origin]) # {}
    BY <1>4, CrowdedHasInput
<1> QED
    BY <1>1, <1>3, <1>5 DEF origin

\* A request of the pick asks for what it saw
LEMMA RequestIsPicked ==
    ASSUME NEW files \in SUBSET File, Crowded(BuildStructure(files)) # {},
           NEW t \in Requests(files)
    PROVE  /\ t \in Task
           /\ t.origin = Max(Crowded(BuildStructure(files)))
           /\ Picked(files, t.origin, t.target, t)
<1> DEFINE lazy == BuildStructure(files)
           origin == Max(Crowded(lazy))
           input == AddFilesToCompaction(lazy[origin])
           target == GetCompactionTargetLevel(origin, Size(input))
           level == IF target \in FluidLevels THEN lazy[target] ELSE {}
<1>1. origin \in FluidLevels /\ input # {}
    BY OriginIsCrowded
<1>2. /\ t.out \in OutputLevels(origin, target, level)
      /\ t = [names |-> Names(input), out |-> t.out, origin |-> origin, target |-> target]
    BY DEF Requests
<1>3. level = LevelOf(files, target)
    BY DEF LevelOf
<1>4. Picked(files, origin, target, t)
    BY <1>1, <1>2, <1>3 DEF Picked
<1>5. \A f \in input : f \in files
    BY <1>1, InputOfLevel
<1> HIDE DEF origin, target, level
<1>6. origin \in Nat /\ target \in 0 .. NumLevels /\ t.out \in Int
    BY <1>1, <1>4, OutputIsSlot, TreeAssumption DEF FluidLevels
<1> HIDE DEF input
<1>7. Names(input) \subseteq Nat
    BY <1>5 DEF Names, File
<1>8. t \in Task
    BY <1>1, <1>2, <1>6, <1>7 DEF Task
<1> QED
    BY <1>2, <1>4, <1>8 DEF origin

LEMMA RequestIsAcceptable ==
    ASSUME NEW files \in SUBSET File, Distinct(files), Crowded(BuildStructure(files)) # {},
           NEW t \in Requests(files)
    PROVE  t \in Task /\ (Reachable(t) => Acceptable(files, t))
BY RequestIsPicked, PickIsAcceptable DEF Reachable

-----------------------------------------------------------------------------
(* The invariant.  A request stays acceptable from the pick to its start    *)
(* because flushes only add files, under new numbers, and because only the  *)
(* compaction that runs marks files: it takes its marks with it.            *)

MarksAreRunning ==
    IF phase = "running"
    THEN task.out \in RocksDBLevels /\ \A f \in db : f.being_compacted => f.name \in task.names
    ELSE Unmarked(db)

PendingIsAcceptable == phase = "scheduled" /\ Reachable(task) => Acceptable(db, task)

SeqInv ==
    /\ TypeOK
    /\ \A f \in db : f.name < nextName
    /\ MarksAreRunning
    /\ PendingIsAcceptable

LEMMA SeqInit == Init => SeqInv
<1> SUFFICES ASSUME Init PROVE SeqInv
    OBVIOUS
<1>1. NoTask \in Task
    BY TreeAssumption DEF NoTask, Task, FluidLevels
<1> QED
    BY <1>1, SequentialAssumption
    DEF Init, SeqInv, TypeOK, MarksAreRunning, PendingIsAcceptable, Unmarked

\* What a flush leaves, with the facts of AddedFiles
LEMMA FlushAdds ==
    ASSUME SeqInv, OnFlushCompleted
    PROVE  /\ db' \in SUBSET File /\ Distinct(db') /\ SameBands(db, db')
           /\ nextName' \in Nat \ {0} /\ \A g \in db' : g.name < nextName'
           /\ \A g \in db' : g.being_compacted => g \in db
           /\ \A t : t.names \subseteq Names(db) =>
                 /\ Expanded(db', t) = Expanded(db, t)
                 /\ Named(db', t) = Named(db, t)
                 /\ Acceptable(db, t) => Acceptable(db', t)
<1>1. PICK size \in 1 .. WriteBuffer : db' = Flushed(db, nextName, size)
    BY DEF OnFlushCompleted, Flushed
<1>2. /\ db \in SUBSET File /\ nextName \in Nat /\ size \in Nat /\ Distinct(db)
      /\ nextName' = nextName + 1 /\ \A f \in db : f.name < nextName
    BY DEF SeqInv, TypeOK, OnFlushCompleted, Distinct
<1> QED
    BY <1>1, <1>2, AddedFiles

LEMMA FlushKeeps == SeqInv /\ OnFlushCompleted => SeqInv'
<1> SUFFICES ASSUME SeqInv, OnFlushCompleted PROVE SeqInv'
    OBVIOUS
<1> USE DEF SeqInv
<1>1. /\ db' \in SUBSET File /\ Distinct(db')
      /\ nextName' \in Nat \ {0} /\ \A g \in db' : g.name < nextName'
      /\ \A g \in db' : g.being_compacted => g \in db
    BY FlushAdds
<1>2. flushes' \in 0 .. MaxFlushes
    BY SequentialAssumption DEF TypeOK, OnFlushCompleted
<1>3. CASE HasCapacity /\ Crowded(BuildStructure(db')) # {}
  <2>1. phase = "none" /\ phase' = "scheduled" /\ task' \in Requests(db')
      BY <1>3 DEF OnFlushCompleted, HasCapacity
  <2>2. task' \in Task /\ (Reachable(task') => Acceptable(db', task'))
      BY <1>1, <1>3, <2>1, RequestIsAcceptable
  <2>3. Unmarked(db')
      BY <1>1, <2>1 DEF MarksAreRunning, Unmarked
  <2> QED
      BY <1>1, <1>2, <2>1, <2>2, <2>3
      DEF TypeOK, Distinct, MarksAreRunning, PendingIsAcceptable
<1>4. CASE ~(HasCapacity /\ Crowded(BuildStructure(db')) # {})
  <2>1. phase' = phase /\ task' = task
      BY <1>4 DEF OnFlushCompleted
  <2>2. MarksAreRunning'
      BY <1>1, <2>1 DEF MarksAreRunning, Unmarked
  <2>3. PendingIsAcceptable'
    <3> SUFFICES ASSUME phase = "scheduled", Reachable(task) PROVE Acceptable(db', task)
        BY <2>1 DEF PendingIsAcceptable
    <3>1. Acceptable(db, task)
        BY DEF PendingIsAcceptable
    <3>2. task.names \subseteq Names(db)
        BY <3>1 DEF Acceptable
    <3> QED
        BY <3>1, <3>2, FlushAdds
  <2> QED
      BY <1>1, <1>2, <2>1, <2>2, <2>3 DEF TypeOK, Distinct
<1> QED
    BY <1>3, <1>4

LEMMA StartKeeps == SeqInv /\ StartCompaction => SeqInv'
<1> SUFFICES ASSUME SeqInv, StartCompaction PROVE SeqInv'
    OBVIOUS
<1> USE DEF SeqInv
<1>1. Unmarked(db)
    BY DEF StartCompaction, MarksAreRunning
<1>2. CASE Rejected(db, task)
  <2>1. phase' = "none" /\ task' = NoTask /\ db' = db /\ nextName' = nextName /\ flushes' = flushes
      BY <1>2 DEF StartCompaction
  <2>2. NoTask \in Task
      BY TreeAssumption DEF NoTask, Task, FluidLevels
  <2> QED
      BY <1>1, <2>1, <2>2 DEF TypeOK, MarksAreRunning, PendingIsAcceptable
<1>3. CASE ~Rejected(db, task)
  <2> DEFINE inputs == Expanded(db, task)
  <2>1. /\ phase' = "running" /\ task' = [task EXCEPT !.names = Names(inputs)]
        /\ db' = Started(db, inputs)
        /\ nextName' = nextName /\ flushes' = flushes
      BY <1>3 DEF StartCompaction, Started
  <2>2. inputs \subseteq db /\ db \in SUBSET File /\ Distinct(db)
      BY DEF Expanded, TypeOK, Distinct
  <2> HIDE DEF inputs
  <2>3. /\ db' \in SUBSET File /\ Distinct(db') /\ \A g \in db' : g.name < nextName
        /\ \A g \in db' : g.being_compacted => g.name \in Names(inputs)
      BY <1>1, <2>1, <2>2, StartedFiles DEF Unmarked
  <2>4. Names(inputs) \subseteq Nat
      BY <2>2 DEF Names, File
  <2>5. task' \in Task /\ task'.names = Names(inputs) /\ task'.out = task.out
      BY <2>1, <2>4 DEF TypeOK, Task
  <2>6. task'.out \in RocksDBLevels
      BY <1>3, <2>5 DEF Rejected
  <2> QED
      BY <2>1, <2>3, <2>5, <2>6 DEF TypeOK, Distinct, MarksAreRunning, PendingIsAcceptable
<1> QED
    BY <1>2, <1>3

LEMMA FinishKeeps == SeqInv /\ FinishCompaction => SeqInv'
<1> SUFFICES ASSUME SeqInv, FinishCompaction PROVE SeqInv'
    OBVIOUS
<1> USE DEF SeqInv
<1> DEFINE inputs == Named(db, task)
<1>1. phase' = "none" /\ task' = NoTask /\ flushes' = flushes
    BY DEF FinishCompaction
<1>2. NoTask \in Task
    BY TreeAssumption DEF NoTask, Task, FluidLevels
<1>3. db \in SUBSET File /\ inputs \subseteq db /\ Distinct(db) /\ Unmarked(db \ inputs)
    BY DEF FinishCompaction, MarksAreRunning, Unmarked, Named, TypeOK, Distinct
<1>4. nextName \in Nat /\ nextName \in Nat \ {0} /\ task.out \in RocksDBLevels
    BY DEF FinishCompaction, MarksAreRunning, TypeOK
<1>5. \/ \E outputs \in Merged(inputs, nextName, task.out) :
             db' = Replaced(db, inputs, outputs) /\ nextName' = nextName + 1
      \/ db' = Failed(db, inputs) /\ nextName' = nextName
    BY DEF FinishCompaction, Replaced, Failed
<1> HIDE DEF inputs
<1>6. /\ db' \in SUBSET File /\ Distinct(db') /\ Unmarked(db')
      /\ nextName' \in Nat \ {0} /\ \A f \in db' : f.name < nextName'
  <2>1. CASE \E outputs \in Merged(inputs, nextName, task.out) :
                 db' = Replaced(db, inputs, outputs) /\ nextName' = nextName + 1
    <3>1. PICK outputs \in Merged(inputs, nextName, task.out) :
              db' = Replaced(db, inputs, outputs) /\ nextName' = nextName + 1
        BY <2>1
    <3>2. /\ db' \in SUBSET File /\ Distinct(db') /\ \A g \in db' : g.name < nextName + 1
          /\ \A g \in db' : g.being_compacted => g \in db \ inputs
        BY <1>3, <1>4, <3>1, MergedFiles
    <3> QED
        BY <1>3, <1>4, <3>1, <3>2 DEF Unmarked
  <2>2. CASE db' = Failed(db, inputs) /\ nextName' = nextName
    <3>1. /\ db' \in SUBSET File /\ Distinct(db') /\ \A g \in db' : g.name < nextName
          /\ \A g \in db' : g.being_compacted => g \in db \ inputs
        BY <1>3, <2>2, ReleasedFiles
    <3> QED
        BY <1>3, <1>4, <2>2, <3>1 DEF Unmarked
  <2> QED
      BY <1>5, <2>1, <2>2
<1> QED
    BY <1>1, <1>2, <1>6 DEF TypeOK, Distinct, MarksAreRunning, PendingIsAcceptable

LEMMA SeqInvariant == Spec => []SeqInv
<1>1. SeqInv /\ [Next]_vars => SeqInv'
  <2> SUFFICES ASSUME SeqInv, [Next]_vars PROVE SeqInv'
      OBVIOUS
  <2>1. CASE OnFlushCompleted
      BY <2>1, FlushKeeps
  <2>2. CASE StartCompaction
      BY <2>2, StartKeeps
  <2>3. CASE FinishCompaction
      BY <2>3, FinishKeeps
  <2>4. CASE UNCHANGED vars
      BY <2>4 DEF vars, SeqInv, TypeOK, MarksAreRunning, PendingIsAcceptable
  <2> QED
      BY <2>1, <2>2, <2>3, <2>4 DEF Next
<1> QED
    BY <1>1, SeqInit, PTL DEF Spec

\* Every variable holds a value of its kind, and no two files share a number,
\* for any tree and any number of flushes.
THEOREM SequentialTypeCorrect == Spec => []TypeOK
<1>1. SeqInv => TypeOK
    BY DEF SeqInv
<1> QED
    BY <1>1, SeqInvariant, PTL

\* PickCompaction and ScheduleCompaction (fluid_lsm.cc 191-250), without other
\* threads, never make a request that RocksDB refuses when it has the levels of
\* the target: what is refused there is the race's doing, not the policy's.
THEOREM RequestsAreAccepted == Spec => []RequestsAccepted
<1>1. SeqInv => RequestsAccepted
  <2> SUFFICES ASSUME SeqInv, phase = "scheduled", Reachable(task) PROVE ~Rejected(db, task)
      BY DEF RequestsAccepted
  <2>1. db \in SUBSET File /\ Acceptable(db, task) /\ Unmarked(db)
      BY DEF SeqInv, TypeOK, MarksAreRunning, PendingIsAcceptable
  <2> QED
      BY <2>1, AcceptableIsAccepted
<1> QED
    BY <1>1, SeqInvariant, PTL

-----------------------------------------------------------------------------
(* The layout.  A band fills from its deepest slot because a pick that has  *)
(* a RocksDB level for its output leaves every band untouched, but for the  *)
(* next free slot of the target, or takes all of it; a flush before the     *)
(* start or during the run changes neither, as it adds to level 0 only.     *)

Layout ==
    /\ FillsFromDeepest(db)
    /\ phase = "scheduled" =>
        /\ task.names \subseteq Names(db)
        /\ task.out \in RocksDBLevels => KeepsBands(db, Names(Expanded(db, task)), task.out)
    /\ phase = "running" => KeepsBands(db, task.names, task.out)

LEMMA LayoutInit == Init => Layout
<1>1. \A l : FilesAt({}, l) = {}
    BY DEF FilesAt
<1> QED
    BY <1>1 DEF Init, Layout, FillsFromDeepest

LEMMA FlushKeepsLayout == SeqInv /\ SeqInv' /\ Layout /\ OnFlushCompleted => Layout'
<1> SUFFICES ASSUME SeqInv, SeqInv', Layout, OnFlushCompleted PROVE Layout'
    OBVIOUS
<1>1. SameBands(db, db')
    BY FlushAdds
<1>2. FillsFromDeepest(db')
    BY <1>1, SameBandsKeep DEF Layout
<1>3. CASE HasCapacity /\ Crowded(BuildStructure(db')) # {}
  <2>1. phase' = "scheduled" /\ task' \in Requests(db')
      BY <1>3 DEF OnFlushCompleted
  <2>2. db' \in SUBSET File /\ Distinct(db') /\ Unmarked(db')
      BY <2>1 DEF SeqInv, TypeOK, MarksAreRunning, Distinct
  <2>3. Picked(db', task'.origin, task'.target, task')
      BY <1>3, <2>1, <2>2, RequestIsPicked
  <2>4. task'.names \subseteq Names(db')
      BY <2>2, <2>3, PickNames DEF Names, Named
  <2>5. task'.out \in RocksDBLevels => KeepsBands(db', Names(Expanded(db', task')), task'.out)
      BY <1>2, <2>2, <2>3, PickKeepsBands
  <2> QED
      BY <1>2, <2>1, <2>4, <2>5 DEF Layout
<1>4. CASE ~(HasCapacity /\ Crowded(BuildStructure(db')) # {})
  <2>1. phase' = phase /\ task' = task
      BY <1>4 DEF OnFlushCompleted
  <2>2. phase = "running" => KeepsBands(db', task.names, task.out)
      BY <1>1, SameBandsKeep DEF Layout
  <2>3. ASSUME phase = "scheduled"
        PROVE  /\ task.names \subseteq Names(db')
               /\ task.out \in RocksDBLevels => KeepsBands(db', Names(Expanded(db', task)), task.out)
    <3>1. task.names \subseteq Names(db)
        BY <2>3 DEF Layout
    <3>2. Expanded(db', task) = Expanded(db, task)
        BY <3>1, FlushAdds
    <3>3. task.names \subseteq Names(db')
        BY <3>1 DEF Names, OnFlushCompleted
    <3> QED
        BY <1>1, <2>3, <3>2, <3>3, SameBandsKeep DEF Layout
  <2> QED
      BY <1>2, <2>1, <2>2, <2>3 DEF Layout
<1> QED
    BY <1>3, <1>4

LEMMA StartKeepsLayout == SeqInv /\ Layout /\ StartCompaction => Layout'
<1> SUFFICES ASSUME SeqInv, Layout, StartCompaction PROVE Layout'
    OBVIOUS
<1>1. CASE Rejected(db, task)
  <2>1. phase' = "none" /\ db' = db
      BY <1>1 DEF StartCompaction
  <2> QED
      BY <2>1 DEF Layout
<1>2. CASE ~Rejected(db, task)
  <2> DEFINE inputs == Expanded(db, task)
  <2>1. /\ phase' = "running" /\ task' = [task EXCEPT !.names = Names(inputs)]
        /\ db' = Started(db, inputs)
      BY <1>2 DEF StartCompaction, Started
  <2>2. inputs \subseteq db /\ db \in SUBSET File
      BY DEF Expanded, SeqInv, TypeOK
  <2>3. task'.names = Names(inputs) /\ task'.out = task.out
      BY <2>1 DEF SeqInv, TypeOK, Task
  <2>4. task.out \in RocksDBLevels /\ phase = "scheduled"
      BY <1>2 DEF Rejected, StartCompaction
  <2>5. KeepsBands(db, Names(inputs), task.out)
      BY <2>4 DEF Layout
  <2> HIDE DEF inputs
  <2>6. SameBands(db, db')
      BY <2>1, <2>2, StartedFiles
  <2> QED
      BY <2>1, <2>3, <2>5, <2>6, SameBandsKeep DEF Layout
<1> QED
    BY <1>1, <1>2

LEMMA FinishKeepsLayout == SeqInv /\ Layout /\ FinishCompaction => Layout'
<1> SUFFICES ASSUME SeqInv, Layout, FinishCompaction PROVE Layout'
    OBVIOUS
<1> DEFINE inputs == Named(db, task)
<1>1. phase' = "none" /\ KeepsBands(db, task.names, task.out) /\ FillsFromDeepest(db)
    BY DEF FinishCompaction, Layout
<1>2. db \ inputs = {f \in db : f.name \notin task.names}
    BY DEF Named
<1>3. inputs \subseteq db /\ db \in SUBSET File
    BY DEF Named, SeqInv, TypeOK
<1>4. /\ nextName \in Nat /\ task.out \in RocksDBLevels /\ \A f \in db : f.name < nextName
    BY DEF FinishCompaction, SeqInv, TypeOK, MarksAreRunning
<1>5. \/ \E outputs \in Merged(inputs, nextName, task.out) : db' = Replaced(db, inputs, outputs)
      \/ db' = Failed(db, inputs)
    BY DEF FinishCompaction, Replaced, Failed
<1> HIDE DEF inputs
<1>6. CASE \E outputs \in Merged(inputs, nextName, task.out) : db' = Replaced(db, inputs, outputs)
  <2>1. PICK outputs \in Merged(inputs, nextName, task.out) : db' = Replaced(db, inputs, outputs)
      BY <1>6
  <2>2. \A o \in outputs : o.level = task.out
      BY <2>1, MergedIsOne
  <2>3. FillsFromDeepest(db')
      BY <1>1, <1>2, <2>1, <2>2, MergeFills DEF Replaced
  <2> QED
      BY <1>1, <2>3 DEF Layout
<1>7. CASE db' = Failed(db, inputs)
  <2>1. SameBands(db, db')
      BY <1>3, <1>7, ReleasedFiles
  <2> QED
      BY <1>1, <2>1, SameBandsKeep DEF Layout
<1> QED
    BY <1>5, <1>6, <1>7

LEMMA LayoutInvariant == Spec => []Layout
<1>1. SeqInv /\ SeqInv' /\ Layout /\ [Next]_vars => Layout'
  <2> SUFFICES ASSUME SeqInv, SeqInv', Layout, [Next]_vars PROVE Layout'
      OBVIOUS
  <2>1. CASE OnFlushCompleted
      BY <2>1, FlushKeepsLayout
  <2>2. CASE StartCompaction
      BY <2>2, StartKeepsLayout
  <2>3. CASE FinishCompaction
      BY <2>3, FinishKeepsLayout
  <2>4. CASE UNCHANGED vars
      BY <2>4 DEF vars, Layout
  <2> QED
      BY <2>1, <2>2, <2>3, <2>4 DEF Next
<1> QED
    BY <1>1, LayoutInit, SeqInvariant, PTL DEF Spec

\* The slots of a level fill from the deepest RocksDB level up (fluid_lsm.cc
\* 226-238), whatever the tree, whether or not RocksDB has levels enough for its
\* bands, and whatever compactions are refused or fail: of two runs of a level the
\* younger is always on the upper RocksDB level, where reads look first.
THEOREM FillsDeepestFirst == Spec => []DeepestFirst
<1>1. Layout => DeepestFirst
    BY DEF Layout, FillsFromDeepest, DeepestFirst
<1> QED
    BY <1>1, LayoutInvariant, PTL

-----------------------------------------------------------------------------
(* The tiers.  The target of a pick is not crowded itself, as the pick takes*)
(* the largest level that is, or lies below all runs.  With Z <= K it then  *)
(* has a free slot, so nothing of its band lies above the one it gets.      *)
(* (With Z > K the largest level may fill all its slots without needing a   *)
(* compaction, and what comes next is then merged with all of it.)          *)

\* A level whose slots RocksDB all has needs a compaction once they are all taken
LEMMA TakenIsCrowded ==
    ASSUME Z <= K, NEW files \in SUBSET File, Unmarked(files),
           NEW target \in FluidLevels \ {0}, Backed(target),
           Crowded(BuildStructure(files)) # {},
           \A m \in Band(target) : FilesAt(files, m) # {}
    PROVE  \E lvl \in Crowded(BuildStructure(files)) : lvl >= target
<1> DEFINE lazy == BuildStructure(files)
           level == lazy[target]
           high == DeepestSlot(target)
           low == high - K
<1>1. high \in Nat /\ low \in Int /\ K \in Nat /\ Z \in Nat /\ Band(target) = low .. high
    BY BandIsSlots, TreeAssumption
<1>2. level = RunsOf([l \in low .. high |-> FilesAt(files, l)], low .. high)
    BY <1>1 DEF BuildStructure, BandRuns, RunsOf
<1>3. \A run \in level : Live(run) /\ run.RocksDB_level \in low .. high
  <2> SUFFICES ASSUME NEW l \in low .. high
               PROVE  Live(Run(FilesAt(files, l), l)) /\ Run(FilesAt(files, l), l).RocksDB_level = l
      BY <1>2 DEF RunsOf
  <2>1. FilesAt(files, l) # {} /\ \A f \in FilesAt(files, l) : ~f.being_compacted
      BY <1>1 DEF FilesAt, Unmarked
  <2> QED
      BY <2>1 DEF Live, Run
<1> HIDE DEF low, high, level
<1>4. Cardinality(level) = K + 1
  <2>1. high + 1 \in low .. high + 1 /\ high + 1 - low = K + 1
      BY <1>1 DEF low
  <2>2. Cardinality(RunsAbove(level, high + 1)) = K + 1
      BY <1>1, <1>2, <2>1, PlaceInLevel
  <2>3. RunsAbove(level, high + 1) = level
      BY <1>1, <1>3 DEF RunsAbove
  <2> QED
      BY <2>2, <2>3
<1>5. NumLiveRuns(level) = K + 1
  <2>1. {run \in level : Live(run)} = level
      BY <1>3
  <2> QED
      BY <1>4, <2>1 DEF NumLiveRuns
<1>6. PICK largest \in FluidLevels : IsLargestOccupied(lazy, largest)
    BY DEF Crowded
<1>7. Occupied(level)
  <2>1. \E run \in level : TRUE
    <3>1. low \in low .. high
        BY <1>1 DEF low
    <3> QED
        BY <1>2, <3>1 DEF RunsOf
  <2> QED
      BY <1>3, <2>1 DEF Occupied, Live
<1>8. target <= largest
    BY <1>6, <1>7, TreeAssumption DEF IsLargestOccupied, FluidLevels, level
<1>9. NeedsCompaction(target, largest, NumLiveRuns(lazy[target]))
    BY <1>1, <1>5, <1>8, TreeAssumption DEF NeedsCompaction, FluidLevels, level
<1>10. target \in Crowded(lazy)
    BY <1>6, <1>8, <1>9 DEF Crowded
<1> QED
    BY <1>10, TreeAssumption DEF FluidLevels

\* Such a request names all that RocksDB will read, and its slot is of the target's band
TiersOf(files, t) ==
    /\ FluidLevel(t.out) = t.target
    /\ Expanded(files, t) = Named(files, t)

LEMMA RequestKeepsTiers ==
    ASSUME Z <= K, NEW files \in SUBSET File, Distinct(files), Unmarked(files),
           FillsFromDeepest(files), Crowded(BuildStructure(files)) # {},
           NEW t \in Requests(files), Reachable(t)
    PROVE  TiersOf(files, t)
<1> DEFINE crowded == Crowded(BuildStructure(files))
           origin == t.origin
           target == t.target
           out == t.out
<1>1. Picked(files, origin, target, t) /\ origin = Max(crowded) /\ t \in Task
    BY RequestIsPicked
<1>2. out \in RocksDBLevels
    BY <1>1, RequestIsAcceptable DEF Acceptable
<1>3. /\ origin \in Nat /\ target \in {origin, origin + 1} /\ out \in Nat
      /\ target = origin => out = DeepestSlot(origin)
    BY <1>1, OutputIsSlot
<1>4. /\ Named(files, t) \subseteq Expanded(files, t)
      /\ \A f \in Expanded(files, t) :
            \/ f \in Named(files, t)
            \/ target = origin + 1 /\ f.level \in Band(target) /\ f.level <= out
      /\ Expanded(files, t) \subseteq files
    BY <1>1, <1>2, PickExpands
<1>5. CASE target = origin
  <2>1. Expanded(files, t) = Named(files, t)
      BY <1>3, <1>4, <1>5
  <2>2. FluidLevel(out) = target
    <3>1. CASE target = 0
      <4>1. out = 1 /\ (1 - 1 + K) = K
          BY <1>3, <1>5, <3>1, TreeAssumption DEF DeepestSlot
      <4>2. PICK m \in 0 .. (K + 1) - 1 : K = (K + 1) * (K \div (K + 1)) + m
          BY DivMod, TreeAssumption
      <4> DEFINE q == K \div (K + 1)
      <4>3. q \in Int /\ K \in Nat
          BY TreeAssumption
      <4>4. q = 0
          BY <4>2, <4>3
      <4> QED
          BY <3>1, <4>1, <4>4 DEF FluidLevel
    <3>2. CASE target # 0
      <4>1. target \in Nat \ {0} /\ 0 \in 0 .. K /\ SlotLevel(target, 0) = out
        <5>1. DeepestSlot(target) \in Nat
            BY <1>3, <1>5, SlotBounds
        <5> QED
            BY <1>3, <1>5, <3>2, <5>1, TreeAssumption DEF SlotLevel
      <4> QED
          BY <4>1, SlotsAreInBand
    <3> QED
        BY <3>1, <3>2
  <2> QED
      BY <2>1, <2>2 DEF TiersOf
<1>6. CASE target = origin + 1
  <2>1. /\ target \in FluidLevels \ {0} /\ out \in Band(target)
        /\ FilesAt(files, out) = {} \/ \A m \in Band(target) : FilesAt(files, m) # {}
      BY <1>1, <1>2, <1>6, ScanStops
  <2>2. FilesAt(files, out) = {}
    <3> SUFFICES ASSUME \A m \in Band(target) : FilesAt(files, m) # {} PROVE FALSE
        BY <2>1
    <3>1. Backed(target)
        BY <2>1 DEF Reachable
    <3>2. PICK lvl \in crowded : lvl >= target
        BY <2>1, <3>1, TakenIsCrowded
    <3>3. crowded \subseteq 0 .. NumLevels - 1 /\ NumLevels - 1 \in Nat
        BY TreeAssumption DEF Crowded, FluidLevels
    <3> HIDE DEF crowded
    <3>4. lvl \in Nat /\ lvl <= Max(crowded)
      <4>1. crowded # {}
          BY <3>2
      <4>2. \A i \in crowded : i <= Max(crowded)
          BY <3>3, <4>1, HasLast
      <4> QED
          BY <3>2, <3>3, <4>2
    <3> QED
        BY <1>1, <1>3, <1>6, <3>2, <3>4
  <2>3. Expanded(files, t) \subseteq Named(files, t)
    <3> SUFFICES ASSUME NEW f \in Expanded(files, t), f \notin Named(files, t) PROVE FALSE
        OBVIOUS
    <3>1. f \in files /\ f.level \in Band(target) /\ f.level <= out
        BY <1>4
    <3>2. f \in FilesAt(files, f.level) /\ f.level # out /\ f.level \in Nat
        BY <2>2, <3>1, TreeAssumption DEF FilesAt, Band
    <3>3. f.level < out
        BY <1>3, <3>1, <3>2
    <3>4. FilesAt(files, out) # {}
        BY <2>1, <3>1, <3>2, <3>3 DEF FillsFromDeepest
    <3> QED
        BY <2>2, <3>4
  <2> QED
      BY <1>4, <2>1, <2>3 DEF TiersOf, Band
<1> QED
    BY <1>3, <1>5, <1>6

\* With no more runs asked of the largest level than of the others ("one run (for
\* largest level) or couple of runs (for smaller level)", fluid_lsm.h 24), a pick
\* whose target RocksDB has the levels for is merged with nothing it did not name:
\* the runs already in the target stay as they are (fluid_lsm.cc 204-250).
THEOREM TiersStayApart == ASSUME Z <= K PROVE Spec => []TiersKept
<1>1. Init => TiersKept
    BY DEF Init, TiersKept
<1>2. SeqInv /\ SeqInv' /\ Layout /\ Layout' /\ TiersKept /\ [Next]_vars => TiersKept'
  <2> SUFFICES ASSUME SeqInv, SeqInv', Layout, Layout', TiersKept, [Next]_vars,
                      phase' = "scheduled", Reachable(task')
               PROVE  TiersOf(db', task')
      BY DEF TiersKept, TiersOf
  <2>1. CASE OnFlushCompleted
    <3>1. CASE HasCapacity /\ Crowded(BuildStructure(db')) # {}
      <4>1. task' \in Requests(db')
          BY <2>1, <3>1 DEF OnFlushCompleted
      <4>2. db' \in SUBSET File /\ Distinct(db') /\ Unmarked(db') /\ FillsFromDeepest(db')
          BY DEF SeqInv, TypeOK, MarksAreRunning, Distinct, Layout
      <4> QED
          BY <3>1, <4>1, <4>2, RequestKeepsTiers
    <3>2. CASE ~(HasCapacity /\ Crowded(BuildStructure(db')) # {})
      <4>1. phase = "scheduled" /\ task' = task
          BY <2>1, <3>2 DEF OnFlushCompleted
      <4>2. TiersOf(db, task)
          BY <4>1 DEF TiersKept, TiersOf
      <4>3. task.names \subseteq Names(db)
          BY <4>1 DEF Layout
      <4>4. Named(db', task) = Named(db, task) /\ Expanded(db', task) = Expanded(db, task)
          BY <2>1, <4>3, FlushAdds
      <4> QED
          BY <4>1, <4>2, <4>4 DEF TiersOf
    <3> QED
        BY <3>1, <3>2
  <2>2. CASE StartCompaction
      BY <2>2 DEF StartCompaction
  <2>3. CASE FinishCompaction
      BY <2>3 DEF FinishCompaction
  <2>4. CASE UNCHANGED vars
      BY <2>4 DEF vars, TiersKept, TiersOf
  <2> QED
      BY <2>1, <2>2, <2>3, <2>4 DEF Next
<1> QED
    BY <1>1, <1>2, SeqInvariant, LayoutInvariant, PTL DEF Spec
=============================================================================
