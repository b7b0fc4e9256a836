-------------------------- MODULE FluidTreeProofs --------------------------
(***************************************************************************)
(* Facts about the operators of FluidTree, for every T, K, Z, number of    *)
(* levels and size of the write buffer.                                    *)
(***************************************************************************)
EXTENDS FluidTree, FiniteSetTheorems, TLAPS

\* BuildStructure makes a level of runs for every fluid level, whatever files
\* RocksDB reports (fluid_lsm.cc 71-112).
LEMMA BuildStructureType ==
    ASSUME NEW db \in SUBSET File
    PROVE  BuildStructure(db) \in [FluidLevels -> SUBSET Runs]
<1>1. \A l : FilesAt(db, l) \in SUBSET File
    BY DEF FilesAt
<1>2. {0, 1} \subseteq RocksDBLevels
    BY TreeAssumption DEF RocksDBLevels
<1>3. Level0(db) \in SUBSET Runs
  <2>1. \A files \in SUBSET File : \A l \in {0, 1} : Run(files, l) \in Runs
      BY <1>2 DEF Run, Runs
  <2>2. \A f \in FilesAt(db, 0) : {f} \in SUBSET File
      BY <1>1
  <2> QED
      BY <1>1, <2>1, <2>2 DEF Level0
<1>4. \A lvl : BandRuns(db, lvl) \in SUBSET Runs
    BY <1>1, TreeAssumption DEF BandRuns, Band, Run, Runs, RocksDBLevels
<1> QED
    BY <1>3, <1>4 DEF BuildStructure

\* Setting the being_compacted bits keeps files files (fluid_lsm.cc 246).
LEMMA MarkedType ==
    ASSUME NEW files \in SUBSET File, NEW names
    PROVE  Marked(files, names) \in SUBSET File
BY DEF Marked, File

LEMMA ReleasedType ==
    ASSUME NEW files \in SUBSET File
    PROVE  Released(files) \in SUBSET File
BY DEF Released, File

\* The picker asks for a level number, in range or not (fluid_lsm.cc 227-239).
LEMMA OutputLevelsType ==
    ASSUME NEW origin, NEW target \in Int, NEW level
    PROVE  OutputLevels(origin, target, level) \subseteq Int
<1>1. DeepestSlot(target) \in Int
    BY TreeAssumption DEF DeepestSlot
<1>2. \A j \in 0 .. K : SlotLevel(target, j) \in Int
    BY <1>1 DEF SlotLevel
<1> QED
    BY <1>1, <1>2 DEF OutputLevels

\* What a merge leaves is a file of the level it was made for.
LEMMA MergedType ==
    ASSUME NEW files, NEW name \in Nat, NEW level \in RocksDBLevels
    PROVE  Merged(files, name, level) \subseteq SUBSET File
<1>1. \A size \in 1 .. Size(files) : size \in Nat
    OBVIOUS
<1>2. \A size \in Nat : [name |-> name, level |-> level, size |-> size,
                         being_compacted |-> FALSE] \in File
    BY DEF File
<1> QED
    BY <1>1, <1>2 DEF Merged

\* ScheduleCompaction (fluid_lsm.cc 227, 235) and BuildStructure (102) agree on
\* the band of a level: each of the K + 1 slots the scan may choose for target
\* is a RocksDB level that BuildStructure files under target.
THEOREM SlotsAreInBand ==
    ASSUME NEW target \in Nat \ {0}, NEW j \in 0 .. K
    PROVE  FluidLevel(SlotLevel(target, j)) = target
<1> DEFINE n == K + 1
           r == K - j
<1>1. n \in Nat \ {0} /\ r \in 0 .. n - 1 /\ target * n \in Nat
    BY TreeAssumption
<1>2. SlotLevel(target, j) - 1 + K = target * n + r
    BY <1>1, TreeAssumption DEF SlotLevel, DeepestSlot
<1>3. (target * n + r) \div n = target
  <2> HIDE DEF n, r
  <2> DEFINE q == (target * n + r) \div n
             m == (target * n + r) % n
  <2>1. target * n + r \in Nat
      BY <1>1
  <2>2. q \in Int /\ m \in 0 .. n - 1 /\ target * n + r = n * q + m
      BY <1>1, <2>1
  <2>3. n * (target - q) = m - r
      BY <1>1, <2>2
  <2>4. target - q = 0
    <3> HIDE DEF q, m
    <3> DEFINE d == target - q
    <3>1. d \in Int /\ n * d < n /\ n * d > -n
        BY <1>1, <2>2, <2>3
    <3>2. d \in Int /\ n \in Nat \ {0}
        BY <3>1, <1>1
    <3> HIDE DEF d
    <3>3. d >= 1 => n * d >= n
        BY <3>2
    <3>4. d <= -1 => n * d <= -n
        BY <3>2
    <3>5. d = 0
        BY <3>1, <3>2, <3>3, <3>4
    <3> QED
        BY <3>5 DEF d
  <2> QED
      BY <1>1, <2>2, <2>4
<1> QED
    BY <1>2, <1>3 DEF FluidLevel

-----------------------------------------------------------------------------
(* The runs of a level and the slots of the scan.                           *)

\* A level as BuildStructure makes it: one run for each RocksDB level of its band
OneRunPerLevel(level, lvl) ==
    \E files \in [Band(lvl) -> SUBSET File] : level = {Run(files[l], l) : l \in Band(lvl)}

LEMMA BandRunsShape ==
    ASSUME NEW db \in SUBSET File, NEW lvl
    PROVE  OneRunPerLevel(BandRuns(db, lvl), lvl)
<1> DEFINE files == [l \in Band(lvl) |-> FilesAt(db, l)]
<1>1. files \in [Band(lvl) -> SUBSET File]
    BY DEF FilesAt
<1>2. BandRuns(db, lvl) = {Run(files[l], l) : l \in Band(lvl)}
    BY DEF BandRuns
<1> QED
    BY <1>1, <1>2 DEF OneRunPerLevel

MarkedRuns(level, names) ==
    {Run(Marked(run.files, names), run.RocksDB_level) : run \in level}

\* Setting being_compacted leaves each run in its slot (fluid_lsm.cc 246).
LEMMA MarkedShape ==
    ASSUME NEW level, NEW lvl, NEW names, OneRunPerLevel(level, lvl)
    PROVE  OneRunPerLevel(MarkedRuns(level, names), lvl)
<1>1. PICK files \in [Band(lvl) -> SUBSET File] : level = {Run(files[l], l) : l \in Band(lvl)}
    BY DEF OneRunPerLevel
<1> DEFINE marked == [l \in Band(lvl) |-> Marked(files[l], names)]
           after == MarkedRuns(level, names)
<1>2. marked \in [Band(lvl) -> SUBSET File]
    BY MarkedType
<1>3. after = {Run(marked[l], l) : l \in Band(lvl)}
  <2>1. \A l \in Band(lvl) : Run(files[l], l).files = files[l] /\ Run(files[l], l).RocksDB_level = l
      BY DEF Run
  <2>2. \A l \in Band(lvl) : marked[l] = Marked(files[l], names)
      OBVIOUS
  <2> HIDE DEF marked
  <2>3. \A l \in Band(lvl) :
            Run(Marked(Run(files[l], l).files, names), Run(files[l], l).RocksDB_level)
              = Run(marked[l], l)
      BY <2>1, <2>2
  <2>4. after \subseteq {Run(marked[l], l) : l \in Band(lvl)}
      BY <1>1, <2>3 DEF MarkedRuns
  <2>5. {Run(marked[l], l) : l \in Band(lvl)} \subseteq after
      BY <1>1, <2>3 DEF MarkedRuns
  <2> QED
      BY <2>4, <2>5
<1> HIDE DEF marked, after
<1>4. OneRunPerLevel(after, lvl)
    BY <1>2, <1>3 DEF OneRunPerLevel
<1> QED
    BY <1>4 DEF after

LEMMA DivMod ==
    ASSUME NEW a \in Nat, NEW n \in Nat \ {0}
    PROVE  \E m \in 0 .. n - 1 : a = n * (a \div n) + m
<1> DEFINE q == a \div n
           m == a % n
<1>1. q \in Int /\ m \in 0 .. n - 1 /\ a = n * q + m
    OBVIOUS
<1> HIDE DEF m
<1> QED
    BY <1>1

\* The levels BuildStructure files under target are slots that the product gives
LEMMA BandInSlots ==
    ASSUME NEW target \in FluidLevels \ {0}, NEW l \in Band(target)
    PROVE  l \in DeepestSlot(target) - K .. DeepestSlot(target)
<1> DEFINE n == K + 1
           a == l - 1 + K
           x == target * n
<1>1. target \in Nat /\ n \in Nat \ {0} /\ x \in Nat /\ K \in Nat
    BY TreeAssumption DEF FluidLevels
<1>2. DeepestSlot(target) = x + 1
    BY <1>1 DEF DeepestSlot
<1>3. a \in Nat /\ a \div n = target /\ l = a + 1 - K
    BY <1>1 DEF Band, FluidLevel
<1> HIDE DEF a, n
<1>4. PICK m \in 0 .. n - 1 : a = n * (a \div n) + m
    BY <1>1, <1>3, DivMod
<1>5. n * target = x /\ n - 1 = K
    BY <1>1 DEF n
<1> HIDE DEF x
<1>6. a = x + m
    BY <1>3, <1>4, <1>5
<1> QED
    BY <1>1, <1>2, <1>3, <1>4, <1>5, <1>6

LEMMA SlotType ==
    ASSUME NEW target \in Nat
    PROVE  DeepestSlot(target) \in Nat /\ DeepestSlot(target) >= 1
<1>1. target * (K + 1) \in Nat
    BY TreeAssumption
<1> QED
    BY <1>1 DEF DeepestSlot

LEMMA BandIsSlots ==
    ASSUME NEW target \in FluidLevels \ {0}, Backed(target)
    PROVE  /\ DeepestSlot(target) \in Nat
           /\ Band(target) = DeepestSlot(target) - K .. DeepestSlot(target)
<1> DEFINE high == DeepestSlot(target)
           low == high - K
<1>1. high \in Nat /\ low \in Int /\ high - low + 1 = K + 1 /\ low <= high
    BY SlotType, TreeAssumption DEF FluidLevels
<1>2. Band(target) \subseteq low .. high /\ Cardinality(Band(target)) = K + 1
    BY BandInSlots DEF Backed
<1> HIDE DEF low, high
<1>3. IsFiniteSet(low .. high) /\ Cardinality(low .. high) = K + 1
    BY <1>1, FS_Interval
<1>4. Band(target) = low .. high
    BY <1>2, <1>3, FS_Subset
<1> QED
    BY <1>1, <1>4 DEF low, high

RunsOf(files, levels) == {Run(files[k], k) : k \in levels}
RunsAbove(level, l) == {r \in level : r.RocksDB_level < l}

\* runs[i] of a level is the run of the i-th RocksDB level of its band
LEMMA PlaceInLevel ==
    ASSUME NEW low \in Int, NEW high \in Int, NEW files, NEW l \in low .. high + 1
    PROVE  Cardinality(RunsAbove(RunsOf(files, low .. high), l)) = l - low
<1> DEFINE above == RunsAbove(RunsOf(files, low .. high), l)
           slots == low .. l - 1
           place == [k \in slots |-> Run(files[k], k)]
<1>1. \A k : Run(files[k], k).RocksDB_level = k
    BY DEF Run
<1>2. \A k \in slots : place[k] \in above /\ place[k].RocksDB_level = k
    BY <1>1 DEF RunsAbove, RunsOf
<1>3. \A r \in above : \E k \in slots : place[k] = r
    BY <1>1 DEF RunsAbove, RunsOf
<1>4. place \in [slots -> above]
    BY <1>2
<1> HIDE DEF place, above
<1>5. place \in Bijection(slots, above)
    BY <1>2, <1>3, <1>4 DEF Bijection, Injection, Surjection, IsInjective
<1>6. IsFiniteSet(slots) /\ Cardinality(slots) = l - low
  <2>1. l - 1 \in Int /\ l \in Int /\ low <= l
      OBVIOUS
  <2>2. /\ IsFiniteSet(low .. l - 1)
        /\ Cardinality(low .. l - 1) = IF low > l - 1 THEN 0 ELSE l - 1 - low + 1
      BY <2>1, FS_Interval
  <2> QED
      BY <2>1, <2>2
<1>7. Cardinality(above) = l - low
    BY <1>5, <1>6, FS_Bijection DEF ExistsBijection
<1> QED
    BY <1>7 DEF above

-----------------------------------------------------------------------------
(* The RocksDB levels of a fluid level are an interval that ends at its     *)
(* deepest slot and begins below the deepest slot of the level before.      *)

LevelsOf(lvl) == IF lvl = 0 THEN {0, 1} ELSE Band(lvl)
Uppermost(lvl) == IF lvl = 0 THEN 0 ELSE DeepestSlot(lvl) - K

LEMMA SlotBounds ==
    ASSUME NEW lvl \in Nat
    PROVE  /\ DeepestSlot(lvl) \in Nat /\ Uppermost(lvl) \in Nat
           /\ Uppermost(lvl) <= DeepestSlot(lvl)
           /\ Uppermost(lvl + 1) = DeepestSlot(lvl) + 1
           /\ lvl > 0 => Uppermost(lvl) > lvl /\ Uppermost(lvl) = DeepestSlot(lvl) - K
<1> DEFINE x == lvl * (K + 1)
<1>1. x \in Nat /\ K \in Nat /\ (lvl + 1) * (K + 1) = x + K + 1
    BY TreeAssumption
<1>2. lvl > 0 => x >= K + lvl
  <2> SUFFICES ASSUME lvl > 0 PROVE x >= K + lvl
      OBVIOUS
  <2>1. lvl - 1 \in Nat /\ (lvl - 1) * K \in Nat
      BY <1>1
  <2>2. x = (lvl - 1) * K + K + lvl
      BY <1>1
  <2> QED
      BY <1>1, <2>1, <2>2
<1>3. DeepestSlot(lvl) = 1 + x /\ DeepestSlot(lvl + 1) = 1 + (x + K + 1)
    BY <1>1 DEF DeepestSlot
<1> HIDE DEF x
<1>4. Uppermost(lvl + 1) = DeepestSlot(lvl + 1) - K
    BY DEF Uppermost
<1>5. lvl > 0 => Uppermost(lvl) = DeepestSlot(lvl) - K
    BY DEF Uppermost
<1>6. lvl = 0 => Uppermost(lvl) = 0
    BY DEF Uppermost
<1> QED
    BY <1>1, <1>2, <1>3, <1>4, <1>5, <1>6

LEMMA LevelsAreInterval ==
    ASSUME NEW lvl \in FluidLevels, NEW l \in RocksDBLevels
    PROVE  l \in LevelsOf(lvl) <=> Uppermost(lvl) <= l /\ l <= DeepestSlot(lvl)
<1>1. CASE lvl = 0
  <2>1. Uppermost(lvl) = 0 /\ DeepestSlot(lvl) = 1
      BY <1>1, TreeAssumption DEF Uppermost, DeepestSlot
  <2> QED
      BY <1>1, <2>1 DEF LevelsOf, RocksDBLevels
<1>2. CASE lvl # 0
  <2>1. lvl \in Nat \ {0} /\ lvl \in FluidLevels \ {0} /\ K \in Nat /\ l \in Int
      BY <1>2, TreeAssumption DEF FluidLevels, RocksDBLevels
  <2>2. /\ DeepestSlot(lvl) \in Nat /\ Uppermost(lvl) = DeepestSlot(lvl) - K
        /\ Uppermost(lvl) > 1
      BY <2>1, SlotBounds
  <2>3. l \in Band(lvl) => l \in DeepestSlot(lvl) - K .. DeepestSlot(lvl)
      BY <2>1, BandInSlots
  <2>4. ASSUME Uppermost(lvl) <= l, l <= DeepestSlot(lvl) PROVE l \in Band(lvl)
    <3> DEFINE j == DeepestSlot(lvl) - l
    <3>1. j \in 0 .. K /\ SlotLevel(lvl, j) = l
        BY <2>1, <2>2, <2>4 DEF SlotLevel
    <3>2. FluidLevel(SlotLevel(lvl, j)) = lvl
        BY <2>1, <3>1, SlotsAreInBand
    <3> QED
        BY <2>1, <2>2, <2>4, <3>1, <3>2 DEF Band, RocksDBLevels
  <2> QED
      BY <1>2, <2>1, <2>2, <2>3, <2>4 DEF LevelsOf
<1> QED
    BY <1>1, <1>2

LEMMA BandIsInterval ==
    ASSUME NEW target \in FluidLevels \ {0}
    PROVE  \E top \in Int : Band(target) = Uppermost(target) .. top /\ top <= DeepestSlot(target)
                              /\ top <= NumLevels - 1
                              /\ (top = DeepestSlot(target) \/ top = NumLevels - 1)
<1>1. target \in Nat /\ target # 0 /\ DeepestSlot(target) \in Nat /\ Uppermost(target) \in Nat
    BY SlotBounds, TreeAssumption DEF FluidLevels
<1> DEFINE top == IF DeepestSlot(target) <= NumLevels - 1 THEN DeepestSlot(target)
                                                        ELSE NumLevels - 1
<1>2. \A l \in RocksDBLevels : l \in Band(target) <=> Uppermost(target) <= l /\ l <= DeepestSlot(target)
    BY <1>1, LevelsAreInterval DEF LevelsOf
<1>3. Band(target) \subseteq RocksDBLevels
    BY DEF Band, RocksDBLevels
<1>4. Band(target) = Uppermost(target) .. top
  <2>1. \A l \in Band(target) : l \in Uppermost(target) .. top
      BY <1>1, <1>2, <1>3, TreeAssumption DEF RocksDBLevels
  <2>2. \A l \in Uppermost(target) .. top : l \in RocksDBLevels
      BY <1>1, TreeAssumption DEF RocksDBLevels
  <2>3. top \in Int /\ top <= DeepestSlot(target)
      BY <1>1, TreeAssumption
  <2> HIDE DEF top
  <2>4. \A l \in Uppermost(target) .. top : Uppermost(target) <= l /\ l <= DeepestSlot(target)
      BY <1>1, <2>3
  <2>5. \A l \in Uppermost(target) .. top : l \in Band(target)
      BY <1>2, <2>2, <2>4
  <2> QED
      BY <2>1, <2>5
<1>5. /\ top \in Int /\ top <= DeepestSlot(target) /\ top <= NumLevels - 1
      /\ (top = DeepestSlot(target) \/ top = NumLevels - 1)
    BY <1>1, TreeAssumption
<1> QED
    BY <1>4, <1>5

\* The run that the scan of ScheduleCompaction reads at runs[K - j] is the RocksDB
\* level it would write to, and is there exactly when RocksDB has that level.
LEMMA RunOfSlot ==
    ASSUME NEW target \in FluidLevels \ {0},
           NEW level, OneRunPerLevel(level, target), NEW j \in 0 .. K
    PROVE  /\ K - j < Cardinality(level) <=> SlotLevel(target, j) \in Band(target)
           /\ SlotLevel(target, j) \in Band(target) =>
                /\ RunAt(level, K - j) \in level
                /\ RunAt(level, K - j).RocksDB_level = SlotLevel(target, j)
<1>1. PICK files : level = {Run(files[l], l) : l \in Band(target)}
    BY DEF OneRunPerLevel
<1> DEFINE low == Uppermost(target)
           slot == SlotLevel(target, j)
<1>2. PICK top \in Int : Band(target) = low .. top /\ top <= DeepestSlot(target)
    BY BandIsInterval
<1>3. /\ low \in Nat /\ DeepestSlot(target) \in Nat /\ K \in Nat
      /\ low = DeepestSlot(target) - K
    BY SlotBounds, TreeAssumption DEF FluidLevels
<1>4. slot = low + (K - j) /\ slot \in Nat
    BY <1>3 DEF SlotLevel
<1> HIDE DEF low, slot
<1>5. level = RunsOf(files, low .. top)
    BY <1>1, <1>2 DEF RunsOf
<1>6. \A run \in level : run.RocksDB_level \in low .. top
    BY <1>5 DEF Run, RunsOf
<1>7. \A l \in low .. top + 1 : Cardinality(RunsAbove(level, l)) = l - low
    BY <1>2, <1>3, <1>5, PlaceInLevel
<1>8. K - j < Cardinality(level) <=> slot \in low .. top
  <2>1. CASE low <= top + 1
    <3>1. RunsAbove(level, top + 1) = level
        BY <1>2, <1>3, <1>6 DEF RunsAbove
    <3>2. Cardinality(level) = top + 1 - low
        BY <1>2, <1>3, <1>7, <2>1, <3>1
    <3> QED
        BY <1>2, <1>3, <1>4, <3>2
  <2>2. CASE ~(low <= top + 1)
    <3>1. level = {}
        BY <1>2, <1>3, <1>6, <2>2
    <3>2. Cardinality(level) = 0
        BY <3>1, FS_EmptySet
    <3> QED
        BY <1>2, <1>3, <1>4, <2>2, <3>2
  <2> QED
      BY <2>1, <2>2
<1>9. ASSUME slot \in low .. top
      PROVE  RunAt(level, K - j) \in level /\ RunAt(level, K - j).RocksDB_level = slot
  <2>1. Run(files[slot], slot) \in level /\ Run(files[slot], slot).RocksDB_level = slot
      BY <1>5, <1>9 DEF RunsOf, Run
  <2>2. \A run \in level :
            Cardinality(RunsAbove(level, run.RocksDB_level)) = K - j
                <=> run.RocksDB_level = slot
    <3> SUFFICES ASSUME NEW run \in level
                 PROVE  Cardinality(RunsAbove(level, run.RocksDB_level)) = K - j
                            <=> run.RocksDB_level = slot
        OBVIOUS
    <3> DEFINE l == run.RocksDB_level
    <3>1. l \in low .. top
        BY <1>6
    <3>2. l \in low .. top + 1
        BY <1>2, <1>3, <3>1
    <3>3. Cardinality(RunsAbove(level, l)) = l - low
        BY <1>7, <3>2
    <3> HIDE DEF l
    <3>4. l - low = K - j <=> l = slot
        BY <1>3, <1>4, <3>1
    <3>5. Cardinality(RunsAbove(level, l)) = K - j <=> l = slot
        BY <3>3, <3>4
    <3> QED
        BY <3>5 DEF l
  <2>3. /\ RunAt(level, K - j) \in level
        /\ Cardinality(RunsAbove(level, RunAt(level, K - j).RocksDB_level)) = K - j
      BY <2>1, <2>2 DEF RunAt, RunsAbove
  <2> QED
      BY <2>2, <2>3
<1> QED
    BY <1>2, <1>8, <1>9 DEF low, slot

\* The scan of ScheduleCompaction (fluid_lsm.cc 230-238) reads runs[K - j] and
\* writes to a RocksDB level it computes: they are the same level, for every j.
THEOREM ScanReadsItsSlot ==
    ASSUME NEW target \in FluidLevels \ {0}, Backed(target),
           NEW level, OneRunPerLevel(level, target), NEW j \in 0 .. K
    PROVE  RunAt(level, K - j).RocksDB_level = SlotLevel(target, j)
<1>1. DeepestSlot(target) \in Nat /\ Band(target) = DeepestSlot(target) - K .. DeepestSlot(target)
    BY BandIsSlots
<1>2. SlotLevel(target, j) \in Band(target)
    BY <1>1, TreeAssumption DEF SlotLevel
<1> QED
    BY <1>2, RunOfSlot

-----------------------------------------------------------------------------
(* What PickCompaction asks for.                                            *)

Distinct(files) == \A f, g \in files : f.name = g.name => f = g
Unmarked(files) == \A f \in files : ~f.being_compacted

\* The runs of a level hold the files on its RocksDB levels
LEMMA InputOfLevel ==
    ASSUME NEW files \in SUBSET File, NEW lvl \in FluidLevels
    PROVE  AddFilesToCompaction(BuildStructure(files)[lvl])
             = {f \in files : f.level \in LevelsOf(lvl) /\ ~f.being_compacted}
<1> DEFINE level == BuildStructure(files)[lvl]
           held == UNION {run.files : run \in level}
<1>1. held = {f \in files : f.level \in LevelsOf(lvl)}
  <2>1. CASE lvl = 0
    <3>1. level = Level0(files)
        BY <2>1 DEF BuildStructure
    <3>2. \A run \in level : \A f \in run.files : f \in files /\ f.level \in {0, 1}
      <4> SUFFICES ASSUME NEW run \in level, NEW f \in run.files
                   PROVE  f \in files /\ f.level \in {0, 1}
          OBVIOUS
      <4>1. \/ run = Run({}, 0)
            \/ \E g \in FilesAt(files, 0) : run = Run({g}, 0)
            \/ run = Run(FilesAt(files, 1), 1)
          BY <3>1 DEF Level0
      <4> QED
          BY <4>1 DEF Run, FilesAt
    <3>3. \A f \in FilesAt(files, 0) : Run({f}, 0) \in level /\ f \in Run({f}, 0).files
        BY <3>1 DEF Level0, Run
    <3>4. \A f \in FilesAt(files, 1) : /\ Run(FilesAt(files, 1), 1) \in level
                                       /\ f \in Run(FilesAt(files, 1), 1).files
        BY <3>1 DEF Level0, Run
    <3> HIDE DEF level
    <3>5. \A f \in files : f.level \in {0, 1} => \E run \in level : f \in run.files
        BY <3>3, <3>4 DEF FilesAt
    <3> QED
        BY <2>1, <3>2, <3>5 DEF LevelsOf
  <2>2. CASE lvl # 0
    <3>1. level = {Run(FilesAt(files, l), l) : l \in Band(lvl)}
        BY <2>2 DEF BuildStructure, BandRuns
    <3>2. \A l : Run(FilesAt(files, l), l).files = FilesAt(files, l)
        BY DEF Run
    <3> HIDE DEF level
    <3>3. \A run \in level : \A f \in run.files : f \in files /\ f.level \in Band(lvl)
        BY <3>1, <3>2 DEF FilesAt
    <3>4. \A l \in Band(lvl) : Run(FilesAt(files, l), l) \in level
        BY <3>1
    <3>5. \A f \in files : f.level \in Band(lvl) => \E run \in level : f \in run.files
      <4> SUFFICES ASSUME NEW f \in files, f.level \in Band(lvl)
                   PROVE  \E run \in level : f \in run.files
          OBVIOUS
      <4>1. f \in FilesAt(files, f.level)
          BY DEF FilesAt
      <4> QED
          BY <3>2, <3>4, <4>1
    <3> QED
        BY <2>2, <3>3, <3>5 DEF LevelsOf
  <2> QED
      BY <2>1, <2>2
<1> HIDE DEF level, held
<1>2. AddFilesToCompaction(level) = {f \in held : ~f.being_compacted}
    BY DEF AddFilesToCompaction, held
<1>3. AddFilesToCompaction(level) = {f \in files : f.level \in LevelsOf(lvl) /\ ~f.being_compacted}
    BY <1>1, <1>2
<1> QED
    BY <1>3 DEF level

\* A level that needs a compaction has a file for it
LEMMA CrowdedHasInput ==
    ASSUME NEW level, NEW lvl, NEW largest, NeedsCompaction(lvl, largest, NumLiveRuns(level))
    PROVE  AddFilesToCompaction(level) # {}
<1>1. {run \in level : Live(run)} # {}
  <2> SUFFICES ASSUME {run \in level : Live(run)} = {} PROVE FALSE
      OBVIOUS
  <2>1. NumLiveRuns(level) = 0
      BY FS_EmptySet DEF NumLiveRuns
  <2> QED
      BY <2>1, TreeAssumption DEF NeedsCompaction
<1> QED
    BY <1>1 DEF Live, AddFilesToCompaction

LevelOf(files, lvl) == IF lvl \in FluidLevels THEN BuildStructure(files)[lvl] ELSE {}

\* t asks for what a pick makes of level origin when it sees the structure of files
Picked(files, origin, target, t) ==
    LET input == AddFilesToCompaction(BuildStructure(files)[origin])
    IN  /\ origin \in FluidLevels /\ input # {}
        /\ target = GetCompactionTargetLevel(origin, Size(input))
        /\ t.names = Names(input)
        /\ t.out \in OutputLevels(origin, target, LevelOf(files, target))

\* The output of a pick is a slot of its target
LEMMA OutputIsSlot ==
    ASSUME NEW files, NEW origin, NEW target, NEW t, Picked(files, origin, target, t)
    PROVE  /\ origin \in Nat /\ target \in {origin, origin + 1}
           /\ t.out \in Nat
           /\ DeepestSlot(origin) <= t.out /\ t.out <= DeepestSlot(target)
           /\ target = origin => t.out = DeepestSlot(origin)
           /\ target = origin + 1 =>
                /\ Uppermost(target) <= t.out
                /\ \/ t.out = DeepestSlot(target)
                   \/ \E j \in 0 .. K : t.out = SlotLevel(target, j)
<1>1. origin \in Nat /\ target \in {origin, origin + 1} /\ K \in Nat
    BY TreeAssumption DEF Picked, GetCompactionTargetLevel, FluidLevels
<1>2. CASE target = origin
  <2>1. t.out = DeepestSlot(origin)
      BY <1>1, <1>2 DEF Picked, OutputLevels
  <2> QED
      BY <1>1, <1>2, <2>1, SlotBounds
<1>3. CASE target = origin + 1
  <2>1. t.out = DeepestSlot(target) \/ \E j \in 0 .. K : t.out = SlotLevel(target, j)
      BY <1>1, <1>3 DEF Picked, OutputLevels
  <2>2. /\ DeepestSlot(origin) \in Nat /\ DeepestSlot(target) \in Nat /\ Uppermost(target) \in Nat
        /\ Uppermost(target) = DeepestSlot(origin) + 1
        /\ Uppermost(target) = DeepestSlot(target) - K
      BY <1>1, <1>3, SlotBounds
  <2>3. t.out \in Nat /\ Uppermost(target) <= t.out /\ t.out <= DeepestSlot(target)
      BY <1>1, <2>1, <2>2 DEF SlotLevel
  <2> QED
      BY <1>1, <1>3, <2>1, <2>2, <2>3
<1> QED
    BY <1>1, <1>2, <1>3

\* A request for slots that RocksDB has is within its rules
Acceptable(files, t) ==
    /\ t.names # {} /\ t.names \subseteq Names(files)
    /\ t.out \in RocksDBLevels
    /\ \A f \in Named(files, t) : f.level <= t.out

LEMMA PickNames ==
    ASSUME NEW files \in SUBSET File, Distinct(files), NEW origin, NEW target, NEW t,
           Picked(files, origin, target, t)
    PROVE  /\ Named(files, t) = {f \in files : f.level \in LevelsOf(origin) /\ ~f.being_compacted}
           /\ Named(files, t) # {} /\ t.names = Names(Named(files, t))
           /\ \A f \in Named(files, t) : f.level <= t.out
<1> DEFINE input == AddFilesToCompaction(BuildStructure(files)[origin])
<1>1. input # {} /\ t.names = Names(input) /\ origin \in FluidLevels
    BY DEF Picked
<1>2. input = {f \in files : f.level \in LevelsOf(origin) /\ ~f.being_compacted}
    BY <1>1, InputOfLevel
<1> HIDE DEF input
<1>3. Named(files, t) = input
    BY <1>1, <1>2 DEF Named, Names, Distinct
<1>4. \A f \in input : f.level \in RocksDBLevels /\ f.level <= DeepestSlot(origin)
    BY <1>1, <1>2, LevelsAreInterval DEF File
<1>5. DeepestSlot(origin) \in Nat /\ t.out \in Nat /\ DeepestSlot(origin) <= t.out
    BY OutputIsSlot, SlotBounds
<1>6. \A f \in input : f.level <= t.out
    BY <1>4, <1>5 DEF RocksDBLevels
<1> QED
    BY <1>1, <1>2, <1>3, <1>6

LEMMA PickIsAcceptable ==
    ASSUME NEW files \in SUBSET File, Distinct(files), NEW origin, NEW target, NEW t,
           Picked(files, origin, target, t), target = 0 \/ Backed(target)
    PROVE  Acceptable(files, t)
<1>1. /\ Named(files, t) # {} /\ t.names = Names(Named(files, t))
      /\ \A f \in Named(files, t) : f.level <= t.out
    BY PickNames
<1>2. t.names # {} /\ t.names \subseteq Names(files)
    BY <1>1 DEF Names, Named
<1>3. t.out \in RocksDBLevels
  <2>1. CASE target = 0
    <3>1. DeepestSlot(0) = 1
        BY TreeAssumption DEF DeepestSlot
    <3>2. t.out = DeepestSlot(origin) /\ origin = 0
        BY <2>1, OutputIsSlot
    <3> QED
        BY <3>1, <3>2, TreeAssumption DEF RocksDBLevels
  <2>2. CASE target # 0
    <3>1. target \in FluidLevels \ {0} /\ Backed(target) /\ target \in Nat
        BY <2>2, TreeAssumption DEF Backed, FluidLevels
    <3>2. /\ DeepestSlot(target) \in Nat
          /\ Band(target) = DeepestSlot(target) - K .. DeepestSlot(target)
          /\ Uppermost(target) = DeepestSlot(target) - K
        BY <3>1, BandIsSlots, SlotBounds
    <3>3. t.out \in Band(target)
        BY <3>1, <3>2, OutputIsSlot, TreeAssumption
    <3> QED
        BY <3>3 DEF Band, RocksDBLevels
  <2> QED
      BY <2>1, <2>2
<1> QED
    BY <1>1, <1>2, <1>3 DEF Acceptable

-----------------------------------------------------------------------------
(* What the scan leaves of a level that fills from its deepest slot up.     *)

\* runs[K - j] of a level holds the files on the RocksDB level of slot j
LEMMA FilesOfSlot ==
    ASSUME NEW files \in SUBSET File, NEW target \in FluidLevels \ {0}, NEW j \in 0 .. K
    PROVE  /\ K - j < Cardinality(LevelOf(files, target)) <=> SlotLevel(target, j) \in Band(target)
           /\ SlotLevel(target, j) \in Band(target) =>
                RunAt(LevelOf(files, target), K - j).files = FilesAt(files, SlotLevel(target, j))
<1> DEFINE level == LevelOf(files, target)
           slot == SlotLevel(target, j)
<1>1. level = BandRuns(files, target)
    BY DEF LevelOf, BuildStructure
<1>2. OneRunPerLevel(level, target)
    BY <1>1, BandRunsShape
<1> HIDE DEF level
<1>3. /\ K - j < Cardinality(level) <=> slot \in Band(target)
      /\ slot \in Band(target) => /\ RunAt(level, K - j) \in level
                                  /\ RunAt(level, K - j).RocksDB_level = slot
    BY <1>2, RunOfSlot
<1>4. \A run \in level : run.files = FilesAt(files, run.RocksDB_level)
  <2> SUFFICES ASSUME NEW run \in level PROVE run.files = FilesAt(files, run.RocksDB_level)
      OBVIOUS
  <2>1. PICK l \in Band(target) : run = Run(FilesAt(files, l), l)
      BY <1>1 DEF BandRuns
  <2> QED
      BY <2>1 DEF Run
<1>5. slot \in Band(target) => RunAt(level, K - j).files = FilesAt(files, slot)
    BY <1>3, <1>4
<1> QED
    BY <1>3, <1>5 DEF level

\* The scan stops at the deepest slot that is empty; when none is it takes the deepest
LEMMA ScanStops ==
    ASSUME NEW files \in SUBSET File, NEW origin, NEW target, NEW t,
           Picked(files, origin, target, t), target = origin + 1, t.out \in RocksDBLevels
    PROVE  /\ target \in FluidLevels \ {0} /\ t.out \in Band(target)
           /\ \A m \in Band(target) : m > t.out => FilesAt(files, m) # {}
           /\ \/ FilesAt(files, t.out) = {}
              \/ /\ t.out = DeepestSlot(target)
                 /\ \A m \in Band(target) : FilesAt(files, m) # {}
<1> DEFINE level == LevelOf(files, target)
           out == t.out
           InBounds(j)    == K - j < Cardinality(level)
           MayBeEmpty(j)  == InBounds(j) => RunAt(level, K - j).files = {}
           MayBeTaken(j)  == InBounds(j) => RunAt(level, K - j).files # {}
           Found(j)       == MayBeEmpty(j) /\ \A i \in 0 .. j - 1 : MayBeTaken(i)
<1>1. /\ origin \in Nat /\ out \in Nat /\ K \in Nat
      /\ Uppermost(target) <= out /\ out <= DeepestSlot(target)
    BY OutputIsSlot, TreeAssumption
<1>2. /\ target \in Nat \ {0} /\ DeepestSlot(target) \in Nat /\ Uppermost(target) \in Nat
      /\ Uppermost(target) > target /\ Uppermost(target) = DeepestSlot(target) - K
    BY <1>1, SlotBounds
<1>3. target \in FluidLevels \ {0}
    BY <1>1, <1>2, TreeAssumption DEF FluidLevels, RocksDBLevels
<1>4. \A l \in RocksDBLevels :
          l \in Band(target) <=> Uppermost(target) <= l /\ l <= DeepestSlot(target)
    BY <1>2, <1>3, LevelsAreInterval DEF LevelsOf
<1>5. out \in Band(target)
    BY <1>1, <1>4
<1>6. \/ \E j \in 0 .. K : out = SlotLevel(target, j) /\ Found(j)
      \/ out = DeepestSlot(target) /\ \A j \in 0 .. K : MayBeTaken(j)
  <2>1. out \in OutputLevels(origin, target, level) /\ ~(target <= origin)
      BY <1>1 DEF Picked
  <2> HIDE DEF out, level
  <2> QED
      BY <2>1 DEF OutputLevels
<1>7. \A j \in 0 .. K : SlotLevel(target, j) \in Band(target) =>
          /\ MayBeEmpty(j) => FilesAt(files, SlotLevel(target, j)) = {}
          /\ MayBeTaken(j) => FilesAt(files, SlotLevel(target, j)) # {}
    BY <1>3, FilesOfSlot
<1>8. \A m \in Band(target) : \E j \in 0 .. K : m = SlotLevel(target, j) /\ j = DeepestSlot(target) - m
  <2> SUFFICES ASSUME NEW m \in Band(target)
               PROVE  \E j \in 0 .. K : m = SlotLevel(target, j) /\ j = DeepestSlot(target) - m
      OBVIOUS
  <2>1. m \in Nat /\ Uppermost(target) <= m /\ m <= DeepestSlot(target)
      BY <1>4, TreeAssumption DEF Band, RocksDBLevels
  <2>2. DeepestSlot(target) - m \in 0 .. K
      BY <1>1, <1>2, <2>1
  <2>3. m = SlotLevel(target, DeepestSlot(target) - m)
      BY <1>2, <2>1 DEF SlotLevel
  <2> QED
      BY <2>2, <2>3
<1>9. Band(target) \subseteq Nat
    BY TreeAssumption DEF Band
<1> HIDE DEF InBounds, MayBeEmpty, MayBeTaken, level, out
<1>10. CASE \E j \in 0 .. K : out = SlotLevel(target, j) /\ Found(j)
  <2>1. PICK j \in 0 .. K : out = SlotLevel(target, j) /\ Found(j)
      BY <1>10
  <2>2. FilesAt(files, out) = {}
      BY <1>5, <1>7, <2>1
  <2>3. ASSUME NEW m \in Band(target), m > out
        PROVE  FilesAt(files, m) # {}
    <3>1. PICK i \in 0 .. K : m = SlotLevel(target, i) /\ i = DeepestSlot(target) - m
        BY <1>8
    <3>2. i \in 0 .. j - 1
        BY <1>1, <1>2, <1>9, <2>1, <2>3, <3>1 DEF SlotLevel
    <3> QED
        BY <1>7, <2>1, <3>1, <3>2
  <2> QED
      BY <1>3, <1>5, <2>2, <2>3 DEF out
<1>11. CASE out = DeepestSlot(target) /\ \A j \in 0 .. K : MayBeTaken(j)
  <2>1. \A m \in Band(target) : FilesAt(files, m) # {}
      BY <1>7, <1>8, <1>11
  <2> QED
      BY <1>3, <1>5, <1>11, <2>1 DEF out
<1> QED
    BY <1>6, <1>10, <1>11

-----------------------------------------------------------------------------
(* What a compaction of a pick does to the bands of the tree.               *)

\* The slots of every level fill from the deepest RocksDB level up
FillsFromDeepest(files) ==
    \A lvl \in FluidLevels \ {0} : \A l, m \in Band(lvl) :
        l < m /\ FilesAt(files, l) # {} => FilesAt(files, m) # {}

(* A compaction of those names into out leaves a band filled from its deepest *)
(* slot: it takes none of its files and adds to the next free slot, or takes  *)
(* all of them and adds to the deepest.                                       *)
BandUntouched(files, names, out, lvl) ==
    /\ \A f \in files : f.level \in Band(lvl) => f.name \notin names
    /\ out \in Band(lvl) => \A m \in Band(lvl) : m > out => FilesAt(files, m) # {}

BandTaken(files, names, out, lvl) ==
    /\ \A f \in files : f.level \in Band(lvl) => f.name \in names
    /\ out \in Band(lvl) => \A m \in Band(lvl) : m <= out

KeepsBands(files, names, out) ==
    \A lvl \in FluidLevels \ {0} :
        BandUntouched(files, names, out, lvl) \/ BandTaken(files, names, out, lvl)

\* RocksDB adds to a pick only files of the target's band, above the output
LEMMA PickExpands ==
    ASSUME NEW files \in SUBSET File, Distinct(files), Unmarked(files),
           NEW origin, NEW target, NEW t, Picked(files, origin, target, t),
           t.out \in RocksDBLevels
    PROVE  /\ Named(files, t) \subseteq Expanded(files, t)
           /\ Expanded(files, t) \subseteq files
           /\ \A f \in Expanded(files, t) :
                 \/ f \in Named(files, t)
                 \/ target = origin + 1 /\ f.level \in Band(target) /\ f.level <= t.out
           /\ target = origin + 1 =>
                 \A f \in files : f.level \in Band(target) /\ f.level <= t.out
                                        => f \in Expanded(files, t)
<1> DEFINE named == Named(files, t)
           out == t.out
<1>1. /\ named = {f \in files : f.level \in LevelsOf(origin)}
      /\ named # {} /\ \A f \in named : f.level <= out
    BY PickNames DEF Unmarked
<1>2. /\ origin \in Nat /\ origin \in FluidLevels /\ target \in {origin, origin + 1}
      /\ out \in Nat /\ DeepestSlot(origin) <= out /\ out <= DeepestSlot(target)
    BY OutputIsSlot DEF Picked
<1>3. /\ DeepestSlot(origin) \in Nat /\ Uppermost(origin) \in Nat
      /\ Uppermost(origin + 1) = DeepestSlot(origin) + 1
    BY <1>2, SlotBounds
<1>4. \A f \in files : f.level \in Nat /\ f.name \in Nat /\ f.level \in RocksDBLevels
    BY TreeAssumption DEF File, RocksDBLevels
<1>5. \A f \in files : f \in named <=> Uppermost(origin) <= f.level /\ f.level <= DeepestSlot(origin)
    BY <1>1, <1>2, <1>4, LevelsAreInterval
<1>6. target = origin + 1 =>
          /\ target \in FluidLevels
          /\ \A f \in files : f.level \in Band(target)
                <=> Uppermost(target) <= f.level /\ f.level <= DeepestSlot(target)
  <2> SUFFICES ASSUME target = origin + 1
               PROVE  /\ target \in FluidLevels
                      /\ \A f \in files : f.level \in Band(target)
                            <=> Uppermost(target) <= f.level /\ f.level <= DeepestSlot(target)
      OBVIOUS
  <2>1. target \in FluidLevels \ {0}
      BY ScanStops
  <2> QED
      BY <1>4, <2>1, LevelsAreInterval DEF LevelsOf
<1> HIDE DEF named, out
<1>7. Expanded(files, t) =
          {f \in files : /\ f.level <= out
                         /\ \E g \in named : \/ g.level < f.level
                                             \/ g.level = f.level /\ f.level > 0
                                             \/ g.level = f.level /\ f.name <= g.name}
    BY DEF Expanded, named, out
<1>8. named \subseteq files
    BY <1>1
<1>9. named \subseteq Expanded(files, t)
    BY <1>1, <1>4, <1>7, <1>8
<1>10. ASSUME NEW f \in Expanded(files, t), f \notin named
       PROVE  target = origin + 1 /\ f.level \in Band(target) /\ f.level <= out
  <2>1. f \in files /\ f.level <= out
      BY <1>7
  <2>2. PICK g \in named : g.level <= f.level
      BY <1>4, <1>7, <1>8
  <2>3. Uppermost(origin) <= g.level /\ g.level \in Nat /\ f.level \in Nat
      BY <1>4, <1>5, <1>8, <2>1
  <2>4. f.level > DeepestSlot(origin)
      BY <1>3, <1>5, <1>10, <2>1, <2>2, <2>3
  <2>5. target = origin + 1
      BY <1>2, <1>3, <2>1, <2>3, <2>4
  <2>6. f.level <= DeepestSlot(target) /\ Uppermost(target) <= f.level
    <3>1. DeepestSlot(target) \in Nat
        BY <1>2, <2>5, SlotBounds
    <3> QED
        BY <1>2, <1>3, <2>1, <2>3, <2>4, <2>5, <3>1
  <2> QED
      BY <1>6, <2>1, <2>5, <2>6
<1>11. ASSUME target = origin + 1, NEW f \in files, f.level \in Band(target), f.level <= out
       PROVE  f \in Expanded(files, t)
  <2>1. PICK g \in named : TRUE
      BY <1>1 DEF named
  <2>2. g.level <= DeepestSlot(origin) /\ g.level \in Nat /\ f.level \in Nat
      BY <1>4, <1>5, <1>8
  <2>3. g.level < f.level
      BY <1>3, <1>6, <1>11, <2>2
  <2> QED
      BY <1>7, <1>11, <2>3
<1>12. Expanded(files, t) \subseteq files
    BY DEF Expanded
<1>13. \A f \in Expanded(files, t) :
          \/ f \in named
          \/ target = origin + 1 /\ f.level \in Band(target) /\ f.level <= out
    BY <1>10
<1>14. target = origin + 1 =>
          \A f \in files : f.level \in Band(target) /\ f.level <= out => f \in Expanded(files, t)
    BY <1>11
<1> QED
    BY <1>9, <1>12, <1>13, <1>14 DEF named, out

LEMMA PickKeepsBands ==
    ASSUME NEW files \in SUBSET File, Distinct(files), Unmarked(files), FillsFromDeepest(files),
           NEW origin, NEW target, NEW t, Picked(files, origin, target, t),
           t.out \in RocksDBLevels
    PROVE  KeepsBands(files, Names(Expanded(files, t)), t.out)
<1> DEFINE inputs == Expanded(files, t)
           names == Names(inputs)
           out == t.out
<1>1. /\ inputs \subseteq files
      /\ \A f \in inputs : \/ f \in Named(files, t)
                           \/ target = origin + 1 /\ f.level \in Band(target) /\ f.level <= out
      /\ Named(files, t) \subseteq inputs
      /\ target = origin + 1 =>
            \A f \in files : f.level \in Band(target) /\ f.level <= out => f \in inputs
    BY PickExpands
<1>2. Named(files, t) = {f \in files : f.level \in LevelsOf(origin)}
    BY PickNames DEF Unmarked
<1>3. /\ origin \in Nat /\ origin \in FluidLevels /\ target \in {origin, origin + 1}
      /\ out \in Nat
      /\ target = origin => out = DeepestSlot(origin)
  <2>1. origin \in FluidLevels
      BY DEF Picked
  <2>2. /\ origin \in Nat /\ target \in {origin, origin + 1} /\ t.out \in Nat
        /\ target = origin => t.out = DeepestSlot(origin)
      BY OutputIsSlot
  <2> QED
      BY <2>1, <2>2
<1>4. target = origin + 1 =>
        /\ target \in FluidLevels \ {0} /\ out \in Band(target)
        /\ \A m \in Band(target) : m > out => FilesAt(files, m) # {}
        /\ \/ FilesAt(files, out) = {}
           \/ out = DeepestSlot(target) /\ \A m \in Band(target) : FilesAt(files, m) # {}
    BY ScanStops
<1> HIDE DEF inputs, out
<1>5. \A f \in files : f \in inputs <=> f.name \in names
    BY <1>1 DEF Names, Distinct
<1>6. \A lvl \in FluidLevels \ {0} : \A l \in Band(lvl) :
          l \in Nat /\ l <= DeepestSlot(lvl) /\ FluidLevel(l) = lvl /\ l \notin {0, 1}
  <2> SUFFICES ASSUME NEW lvl \in FluidLevels \ {0}, NEW l \in Band(lvl)
               PROVE  l \in Nat /\ l <= DeepestSlot(lvl) /\ FluidLevel(l) = lvl /\ l \notin {0, 1}
      OBVIOUS
  <2>1. l \in DeepestSlot(lvl) - K .. DeepestSlot(lvl)
      BY BandInSlots
  <2> QED
      BY <2>1, TreeAssumption DEF Band
<1>7. out \in RocksDBLevels
    BY DEF out
<1>8. \A lvl \in FluidLevels \ {0} : out \in Band(lvl) => lvl = target
  <2>1. CASE target = origin + 1
      BY <1>4, <1>6, <2>1
  <2>2. CASE target = origin
    <3>1. origin # 0 => out \in Band(origin)
      <4>1. DeepestSlot(origin) \in Nat /\ Uppermost(origin) <= DeepestSlot(origin)
          BY <1>3, SlotBounds
      <4> QED
          BY <1>3, <1>7, <2>2, <4>1, LevelsAreInterval DEF LevelsOf
    <3>2. origin = 0 => out = 1
        BY <1>3, <2>2, TreeAssumption DEF DeepestSlot
    <3> QED
        BY <1>3, <1>6, <2>2, <3>1, <3>2
  <2> QED
      BY <1>3, <2>1, <2>2
<1> HIDE DEF names
<1> SUFFICES ASSUME NEW lvl \in FluidLevels \ {0}
             PROVE  BandUntouched(files, names, out, lvl) \/ BandTaken(files, names, out, lvl)
    BY DEF KeepsBands, names, inputs, out
<1>9. CASE lvl = origin
  <2>1. \A f \in files : f.level \in Band(lvl) => f.name \in names
      BY <1>1, <1>2, <1>5, <1>9 DEF LevelsOf
  <2>2. out \in Band(lvl) => \A m \in Band(lvl) : m <= out
      BY <1>3, <1>6, <1>8, <1>9
  <2> QED
      BY <2>1, <2>2 DEF BandTaken
<1>10. CASE lvl # origin /\ target = origin + 1 /\ lvl = target
  <2>1. CASE FilesAt(files, out) = {}
    <3>1. \A f \in files : f.level \in Band(lvl) => f \notin inputs
      <4> SUFFICES ASSUME NEW f \in files, f.level \in Band(lvl), f \in inputs PROVE FALSE
          OBVIOUS
      <4>1. f.level <= out
        <5>1. f \notin Named(files, t)
            BY <1>2, <1>3, <1>6, <1>10 DEF LevelsOf
        <5> QED
            BY <1>1, <5>1
      <4>2. f.level # out /\ FilesAt(files, f.level) # {}
          BY <2>1 DEF FilesAt
      <4>3. f.level \in Nat /\ out \in Nat /\ f.level < out
          BY <1>3, <1>6, <4>1, <4>2
      <4>4. FilesAt(files, out) # {}
          BY <1>4, <1>10, <4>2, <4>3 DEF FillsFromDeepest
      <4> QED
          BY <2>1, <4>4
    <3> QED
        BY <1>4, <1>5, <1>10, <3>1 DEF BandUntouched
  <2>2. CASE out = DeepestSlot(target) /\ \A m \in Band(target) : FilesAt(files, m) # {}
    <3>1. \A m \in Band(lvl) : m <= out
        BY <1>6, <1>10, <2>2
    <3>2. \A f \in files : f.level \in Band(lvl) => f.name \in names
        BY <1>1, <1>5, <1>10, <3>1
    <3> QED
        BY <3>1, <3>2 DEF BandTaken
  <2> QED
      BY <1>4, <1>10, <2>1, <2>2
<1>11. CASE lvl # origin /\ ~(target = origin + 1 /\ lvl = target)
  <2>1. out \notin Band(lvl)
      BY <1>3, <1>8, <1>11
  <2>2. \A f \in files : f.level \in Band(lvl) => f \notin inputs
    <3> SUFFICES ASSUME NEW f \in files, f.level \in Band(lvl), f \in inputs PROVE FALSE
        OBVIOUS
    <3>1. f \notin Named(files, t)
        BY <1>2, <1>3, <1>6, <1>11 DEF LevelsOf
    <3>2. target = origin + 1 /\ f.level \in Band(target)
        BY <1>1, <3>1
    <3> QED
        BY <1>4, <1>6, <1>11, <3>2
  <2> QED
      BY <1>5, <2>1, <2>2 DEF BandUntouched
<1> QED
    BY <1>9, <1>10, <1>11

\* The same files, but for the levels above all bands and for the marks
SameBands(files, after) ==
    /\ \A f \in files : f.level \notin {0, 1} =>
           \E g \in after : g.name = f.name /\ g.level = f.level
    /\ \A g \in after : g.level \notin {0, 1} =>
           \E f \in files : f.name = g.name /\ f.level = g.level

LEMMA SameBandsKeep ==
    ASSUME NEW files, NEW after, SameBands(files, after)
    PROVE  /\ FillsFromDeepest(files) => FillsFromDeepest(after)
           /\ \A names, out : KeepsBands(files, names, out) => KeepsBands(after, names, out)
<1>1. \A lvl : \A l \in Band(lvl) : l \notin {0, 1}
    BY TreeAssumption DEF Band
<1>2. \A lvl : \A l \in Band(lvl) : FilesAt(files, l) # {} <=> FilesAt(after, l) # {}
    BY <1>1 DEF SameBands, FilesAt
<1>3. FillsFromDeepest(files) => FillsFromDeepest(after)
    BY <1>2 DEF FillsFromDeepest
<1>4. ASSUME NEW names, NEW out, NEW lvl
      PROVE  /\ BandUntouched(files, names, out, lvl) => BandUntouched(after, names, out, lvl)
             /\ BandTaken(files, names, out, lvl) => BandTaken(after, names, out, lvl)
    BY <1>1, <1>2 DEF SameBands, BandUntouched, BandTaken
<1> QED
    BY <1>3, <1>4 DEF KeepsBands

\* What a compaction leaves fills from the deepest slot if it keeps the bands
LEMMA MergeFills ==
    ASSUME NEW files, NEW names, NEW out, FillsFromDeepest(files), KeepsBands(files, names, out),
           NEW outputs, \A o \in outputs : o.level = out
    PROVE  FillsFromDeepest({f \in files : f.name \notin names} \cup outputs)
<1> DEFINE after == {f \in files : f.name \notin names} \cup outputs
<1> SUFFICES ASSUME NEW lvl \in FluidLevels \ {0}, NEW l \in Band(lvl), NEW m \in Band(lvl),
                    l < m, FilesAt(after, l) # {}
             PROVE  FilesAt(after, m) # {}
    BY DEF FillsFromDeepest
<1>1. l \in Nat /\ m \in Nat
    BY TreeAssumption DEF Band
<1>2. PICK f \in after : f.level = l
    BY DEF FilesAt
<1>3. CASE BandUntouched(files, names, out, lvl)
  <2>1. FilesAt(files, m) # {}
    <3>1. CASE f \in files
        BY <1>2, <3>1 DEF FilesAt, FillsFromDeepest
    <3>2. CASE f \in outputs
        BY <1>2, <1>3, <3>2 DEF BandUntouched
    <3> QED
        BY <3>1, <3>2
  <2> QED
      BY <1>3, <2>1 DEF BandUntouched, FilesAt
<1>4. CASE BandTaken(files, names, out, lvl)
  <2>1. f.level = out
      BY <1>2, <1>4 DEF BandTaken
  <2> QED
      BY <1>1, <1>2, <1>4, <2>1 DEF BandTaken
<1> QED
    BY <1>3, <1>4 DEF KeepsBands

\* A file of level 0 that is newer than all others joins no compaction asked for before
LEMMA NewFileIsNotRead ==
    ASSUME NEW files \in SUBSET File, NEW f, f.level = 0, f.name \in Nat,
           \A g \in files : g.name < f.name,
           NEW t, t.names \subseteq Names(files)
    PROVE  /\ Named(files \cup {f}, t) = Named(files, t)
           /\ Expanded(files \cup {f}, t) = Expanded(files, t)
<1> DEFINE named == Named(files, t)
           after == files \cup {f}
<1>1. \A g \in files : g.name \in Nat /\ g.level \in Nat
    BY TreeAssumption DEF File, RocksDBLevels
<1>2. f.name \notin t.names
    BY <1>1 DEF Names
<1>3. Named(after, t) = named
    BY <1>2 DEF Named
<1>4. \A g \in named : ~(g.level < f.level) /\ ~(f.level > 0) /\ ~(f.name <= g.name)
    BY <1>1 DEF Named
<1>5. Expanded(files, t) =
          {h \in files : /\ h.level <= t.out
                         /\ \E g \in named : \/ g.level < h.level
                                             \/ g.level = h.level /\ h.level > 0
                                             \/ g.level = h.level /\ h.name <= g.name}
    BY DEF Expanded
<1> HIDE DEF named, after
<1>6. Expanded(after, t) =
          {h \in after : /\ h.level <= t.out
                         /\ \E g \in named : \/ g.level < h.level
                                             \/ g.level = h.level /\ h.level > 0
                                             \/ g.level = h.level /\ h.name <= g.name}
    BY <1>3 DEF Expanded
<1>7. after = files \cup {f}
    BY DEF after
<1>8. Expanded(after, t) = Expanded(files, t)
    BY <1>4, <1>5, <1>6, <1>7
<1> QED
    BY <1>3, <1>8 DEF after, named

-----------------------------------------------------------------------------
(* The files before and after the start and the end of a compaction.        *)

Flushed(files, name, size) ==
    files \cup {[name |-> name, level |-> 0, size |-> size, being_compacted |-> FALSE]}
Started(files, inputs) == (files \ inputs) \cup Marked(inputs, Names(inputs))
Failed(files, inputs) == (files \ inputs) \cup Released(inputs)
Replaced(files, inputs, outputs) == (files \ inputs) \cup outputs

LEMMA StartedFiles ==
    ASSUME NEW files \in SUBSET File, NEW inputs, inputs \subseteq files
    PROVE  LET after == Started(files, inputs) IN
           /\ after \in SUBSET File /\ SameBands(files, after)
           /\ Distinct(files) => Distinct(after)
           /\ \A n : (\A f \in files : f.name < n) => \A g \in after : g.name < n
           /\ \A g \in after : g.being_compacted =>
                 \/ g.name \in Names(inputs)
                 \/ \E f \in files : f.being_compacted /\ f.name = g.name
<1> DEFINE after == Started(files, inputs)
           mark(f) == [f EXCEPT !.being_compacted = @ \/ f.name \in Names(inputs)]
           marked == Marked(inputs, Names(inputs))
<1>1. \A f \in inputs : mark(f).name = f.name /\ mark(f).level = f.level
    BY DEF File
<1>2. marked \in SUBSET File
    BY MarkedType
<1>3. marked = {mark(f) : f \in inputs}
    BY DEF Marked
<1>4. \A f \in inputs : f.name \in Names(inputs)
    BY DEF Names
<1> HIDE DEF mark
<1>5. after = (files \ inputs) \cup marked
    BY DEF Started
<1> HIDE DEF marked, after
<1>6. \A g \in after : \/ g \in files \ inputs
                       \/ \E f \in inputs : g = mark(f) /\ g.name = f.name /\ g.level = f.level
    BY <1>1, <1>3, <1>5
<1>7. \A f \in files : \E g \in after : g.name = f.name /\ g.level = f.level
  <2> SUFFICES ASSUME NEW f \in files PROVE \E g \in after : g.name = f.name /\ g.level = f.level
      OBVIOUS
  <2>1. CASE f \in inputs
    <3>1. mark(f) \in after
        BY <1>3, <1>5, <2>1
    <3> QED
        BY <1>1, <2>1, <3>1
  <2>2. CASE f \notin inputs
      BY <1>5, <2>2
  <2> QED
      BY <2>1, <2>2
<1>8. SameBands(files, after)
    BY <1>6, <1>7 DEF SameBands
<1>9. Distinct(files) => Distinct(after)
    BY <1>6 DEF Distinct
<1>10. \A n : (\A f \in files : f.name < n) => \A g \in after : g.name < n
    BY <1>6
<1>11. \A g \in after : g.being_compacted =>
          \/ g.name \in Names(inputs)
          \/ \E f \in files : f.being_compacted /\ f.name = g.name
    BY <1>4, <1>6
<1> QED
    BY <1>2, <1>5, <1>8, <1>9, <1>10, <1>11 DEF after

LEMMA ReleasedFiles ==
    ASSUME NEW files \in SUBSET File, NEW inputs, inputs \subseteq files
    PROVE  LET after == Failed(files, inputs) IN
           /\ after \in SUBSET File /\ SameBands(files, after)
           /\ Distinct(files) => Distinct(after)
           /\ \A n : (\A f \in files : f.name < n) => \A g \in after : g.name < n
           /\ \A g \in after : g.being_compacted => g \in files \ inputs
<1> DEFINE after == Failed(files, inputs)
           release(f) == [f EXCEPT !.being_compacted = FALSE]
           released == Released(inputs)
<1>1. \A f \in inputs : /\ release(f).name = f.name /\ release(f).level = f.level
                        /\ ~release(f).being_compacted
    BY DEF File
<1>2. released \in SUBSET File
    BY ReleasedType
<1>3. released = {release(f) : f \in inputs}
    BY DEF Released
<1> HIDE DEF release
<1>4. after = (files \ inputs) \cup released
    BY DEF Failed
<1> HIDE DEF released, after
<1>5. \A g \in after : \/ g \in files \ inputs
                       \/ \E f \in inputs : /\ g = release(f) /\ g.name = f.name
                                            /\ g.level = f.level /\ ~g.being_compacted
    BY <1>1, <1>3, <1>4
<1>6. \A f \in files : \E g \in after : g.name = f.name /\ g.level = f.level
  <2> SUFFICES ASSUME NEW f \in files PROVE \E g \in after : g.name = f.name /\ g.level = f.level
      OBVIOUS
  <2>1. CASE f \in inputs
    <3>1. release(f) \in after
        BY <1>3, <1>4, <2>1
    <3> QED
        BY <1>1, <2>1, <3>1
  <2>2. CASE f \notin inputs
      BY <1>4, <2>2
  <2> QED
      BY <2>1, <2>2
<1>7. SameBands(files, after)
    BY <1>5, <1>6 DEF SameBands
<1>8. Distinct(files) => Distinct(after)
    BY <1>5 DEF Distinct
<1>9. \A n : (\A f \in files : f.name < n) => \A g \in after : g.name < n
    BY <1>5
<1>10. \A g \in after : g.being_compacted => g \in files \ inputs
    BY <1>5
<1> QED
    BY <1>2, <1>4, <1>7, <1>8, <1>9, <1>10 DEF after

\* A merge leaves one file or none
LEMMA MergedIsOne ==
    ASSUME NEW inputs, NEW name, NEW level, NEW outputs \in Merged(inputs, name, level)
    PROVE  \A g, h \in outputs : g.name = name /\ g.level = level /\ ~g.being_compacted /\ g = h
<1>1. CASE outputs = {}
    BY <1>1
<1>2. CASE \E size \in 1 .. Size(inputs) :
          outputs = {[name |-> name, level |-> level, size |-> size, being_compacted |-> FALSE]}
  <2>1. PICK size \in 1 .. Size(inputs) :
            outputs = {[name |-> name, level |-> level, size |-> size, being_compacted |-> FALSE]}
      BY <1>2
  <2> DEFINE file == [name |-> name, level |-> level, size |-> size, being_compacted |-> FALSE]
  <2>2. outputs = {file} /\ file.name = name /\ file.level = level /\ ~file.being_compacted
      BY <2>1
  <2> HIDE DEF file
  <2> QED
      BY <2>2
<1> QED
    BY <1>1, <1>2 DEF Merged

LEMMA MergedFiles ==
    ASSUME NEW files \in SUBSET File, NEW inputs, inputs \subseteq files,
           NEW name \in Nat, \A f \in files : f.name < name, NEW level \in RocksDBLevels,
           NEW outputs \in Merged(inputs, name, level)
    PROVE  LET after == Replaced(files, inputs, outputs) IN
           /\ after \in SUBSET File
           /\ Distinct(files) => Distinct(after)
           /\ \A g \in after : g.name < name + 1
           /\ \A g \in after : g.being_compacted => g \in files \ inputs
<1> DEFINE after == Replaced(files, inputs, outputs)
<1>1. outputs \in SUBSET File
    BY MergedType
<1>2. \A g, h \in outputs : g.name = name /\ g.level = level /\ ~g.being_compacted /\ g = h
    BY MergedIsOne
<1>3. \A f \in files : f.name \in Nat /\ f.name < name
    BY DEF File
<1>4. after = (files \ inputs) \cup outputs
    BY DEF Replaced
<1> HIDE DEF after
<1>5. Distinct(files) => Distinct(after)
    BY <1>2, <1>3, <1>4 DEF Distinct
<1>6. \A g \in after : g.name < name + 1
    BY <1>2, <1>3, <1>4
<1>7. \A g \in after : g.being_compacted => g \in files \ inputs
    BY <1>2, <1>4
<1> QED
    BY <1>1, <1>2, <1>4, <1>5, <1>6, <1>7 DEF after

LEMMA AddedFiles ==
    ASSUME NEW files \in SUBSET File, NEW name \in Nat, \A f \in files : f.name < name,
           NEW size \in Nat
    PROVE  LET after == Flushed(files, name, size) IN
           /\ after \in SUBSET File /\ SameBands(files, after)
           /\ Distinct(files) => Distinct(after)
           /\ \A g \in after : g.name < name + 1
           /\ \A g \in after : g.being_compacted => g \in files
           /\ \A t : t.names \subseteq Names(files) =>
                 /\ Expanded(after, t) = Expanded(files, t)
                 /\ Named(after, t) = Named(files, t)
                 /\ Acceptable(files, t) => Acceptable(after, t)
<1> DEFINE after == Flushed(files, name, size)
           file == [name |-> name, level |-> 0, size |-> size, being_compacted |-> FALSE]
<1>1. file \in File /\ file.name = name /\ file.level = 0 /\ ~file.being_compacted
    BY TreeAssumption DEF File, RocksDBLevels
<1>2. after = files \cup {file}
    BY DEF Flushed
<1> HIDE DEF file, after
<1>3. \A f \in files : f.name \in Nat /\ f.name < name
    BY DEF File
<1>4. Distinct(files) => Distinct(after)
    BY <1>1, <1>2, <1>3 DEF Distinct
<1>5. \A g \in after : g.name < name + 1
    BY <1>1, <1>2, <1>3
<1>6. SameBands(files, after)
    BY <1>1, <1>2 DEF SameBands
<1>7. ASSUME NEW t, t.names \subseteq Names(files)
      PROVE  /\ Expanded(after, t) = Expanded(files, t)
             /\ Named(after, t) = Named(files, t)
             /\ Acceptable(files, t) => Acceptable(after, t)
  <2>1. Expanded(after, t) = Expanded(files, t) /\ Named(after, t) = Named(files, t)
    <3>1. /\ Expanded(files \cup {file}, t) = Expanded(files, t)
          /\ Named(files \cup {file}, t) = Named(files, t)
      <4>1. \A g \in files : g.name < file.name
          BY <1>1
      <4>2. file.name \in Nat /\ file.level = 0
          BY <1>1
      <4> QED
          BY <1>7, <4>1, <4>2, NewFileIsNotRead
    <3> QED
        BY <1>2, <3>1
  <2>2. Acceptable(files, t) => Acceptable(after, t)
      BY <1>2, <2>1 DEF Acceptable, Names
  <2> QED
      BY <2>1, <2>2
<1> QED
    BY <1>1, <1>2, <1>4, <1>5, <1>6, <1>7 DEF after

\* An acceptable request is not rejected when nothing is being compacted
LEMMA AcceptableIsAccepted ==
    ASSUME NEW files \in SUBSET File, Unmarked(files), NEW t, Acceptable(files, t)
    PROVE  ~Rejected(files, t)
<1>1. Expanded(files, t) \subseteq files
    BY DEF Expanded
<1>2. t.out \in Int /\ \A f \in files : f.level \in Int
    BY TreeAssumption DEF Acceptable, File, RocksDBLevels
<1>3. \A f \in Named(files, t) : f \in files /\ f.level <= t.out
    BY DEF Acceptable, Named
<1> QED
    BY <1>1, <1>2, <1>3 DEF Rejected, Acceptable, Unmarked
=============================================================================
