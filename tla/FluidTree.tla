----------------------------- MODULE FluidTree -----------------------------
(***************************************************************************)
(* The pure part of FluidLSM (src/src/fluid_lsm.cc): how the RocksDB       *)
(* levels are grouped into the levels of a fluid LSM-tree, and what the    *)
(* compaction picker computes from that view.  No variables: the state     *)
(* machines FluidLSM and FluidSequential both take their data from here.   *)
(*                                                                         *)
(* A file is its number, the RocksDB level it is on, its size in units and *)
(* RocksDB's being_compacted bit.  Keys are abstracted: every two files    *)
(* overlap, the case in which the levels matter most.                      *)
(***************************************************************************)
EXTENDS Integers, FiniteSets, FiniteSetsExt

CONSTANTS
    T,            \* size_ratio_
    K,            \* smaller_lvl_runs_count_
    Z,            \* larger_lvl_runs_count_
    NumLevels,    \* options_.num_levels, RocksDB's and lazy_levels_' size
    WriteBuffer   \* options_.write_buffer_size, in size units

ASSUME TreeAssumption ==
    /\ T \in Nat \ {0}
    /\ K \in Nat
    /\ Z \in Nat
    /\ NumLevels \in Nat /\ NumLevels >= 2
    /\ WriteBuffer \in Nat \ {0}

RocksDBLevels == 0 .. NumLevels - 1
FluidLevels   == 0 .. NumLevels - 1

File == [name : Nat, level : RocksDBLevels, size : Nat, being_compacted : BOOLEAN]

Run(files, RocksDB_level) == [files |-> files, RocksDB_level |-> RocksDB_level]
Runs == [files : SUBSET File, RocksDB_level : RocksDBLevels]

Size(files) == MapThenSumSet(LAMBDA f : f.size, files)

-----------------------------------------------------------------------------
(* BuildStructure.  A level is the set of its runs: RocksDB_level orders    *)
(* them as push_back does, and the empty padding runs of level 0 are one    *)
(* element because nothing counts empty runs.                               *)

FilesAt(db, l) == {f \in db : f.level = l}

\* Mutant: the division of two integers, without ceil.
FluidLevelRoundsDown(l) == (l - 1) \div (K + 1)

\* ceil((l - 1) / (K + 1.0))
FluidLevel(l) == (l - 1 + K) \div (K + 1)

Band(lvl) == {l \in 2 .. NumLevels - 1 : FluidLevel(l) = lvl}

Level0(db) ==
    LET num_runs == Cardinality(FilesAt(db, 0))
                    + (IF FilesAt(db, 1) = {} THEN 0 ELSE 1)
    IN  {Run({}, 0) : i \in num_runs + 1 .. K}
            \cup {Run({f}, 0) : f \in FilesAt(db, 0)}
            \cup {Run(FilesAt(db, 1), 1)}

BandRuns(db, lvl) == {Run(FilesAt(db, l), l) : l \in Band(lvl)}

BuildStructure(db) ==
    [lvl \in FluidLevels |-> IF lvl = 0 THEN Level0(db) ELSE BandRuns(db, lvl)]

-----------------------------------------------------------------------------
(* What PickCompaction reads off the structure.                             *)

Live(run) == run.files # {} /\ \A f \in run.files : ~f.being_compacted

NumLiveRuns(level) == Cardinality({run \in level : Live(run)})

Occupied(level) == \E run \in level : run.files # {}

IsLargestOccupied(lazy, lvl) ==
    /\ lvl = 0 \/ Occupied(lazy[lvl])
    /\ \A deeper \in FluidLevels : deeper > lvl => ~Occupied(lazy[deeper])

NeedsCompaction(lvl, largest, live) ==
    \/ lvl < largest /\ live > K
    \/ lvl = largest /\ live > Z

AddFilesToCompaction(level) ==
    {f \in UNION {run.files : run \in level} : ~f.being_compacted}

\* write_buffer_size * T^(lvl + 1) * (T - 1) / T, which is a whole number
Capacity(lvl) == WriteBuffer * T^lvl * (T - 1)

GetCompactionTargetLevel(origin, size) ==
    IF size > Capacity(origin) THEN origin + 1 ELSE origin

-----------------------------------------------------------------------------
(* The output slot of ScheduleCompaction.                                   *)

\* 1 + target_lvl * (K + 1): the deepest RocksDB level of the target's band
DeepestSlot(target) == 1 + target * (K + 1)

\* Mutant: counts the slots from the other end than the scan.
SlotLevelMirrored(target, j) == DeepestSlot(target) - K + j

\* The RocksDB level the scan writes to when it stops after j occupied slots
SlotLevel(target, j) == DeepestSlot(target) - j

\* lazy_levels_[target].runs[i]
RunAt(level, i) ==
    CHOOSE run \in level :
        Cardinality({r \in level : r.RocksDB_level < run.RocksDB_level}) = i

\* Every runs[K - lvl] the scan may index exists
Backed(target) == target \in FluidLevels /\ Cardinality(Band(target)) = K + 1

(* The RocksDB levels the scan may choose.  level is the set of runs the    *)
(* target level has: it may have fewer than K + 1 when RocksDB has not      *)
(* levels enough, and runs[K - j] is then read out of bounds, which the     *)
(* build may answer with empty() either way.                                *)
OutputLevels(origin, target, level) ==
    LET InBounds(j)    == K - j < Cardinality(level)
        MayBeEmpty(j)  == InBounds(j) => RunAt(level, K - j).files = {}
        MayBeTaken(j)  == InBounds(j) => RunAt(level, K - j).files # {}
        Found(j)       == MayBeEmpty(j) /\ \A i \in 0 .. j - 1 : MayBeTaken(i)
    IN  IF target <= origin
        THEN {DeepestSlot(target)}
        ELSE {SlotLevel(target, j) : j \in {i \in 0 .. K : Found(i)}}
                \cup (IF \A j \in 0 .. K : MayBeTaken(j)
                      THEN {DeepestSlot(target)} ELSE {})

-----------------------------------------------------------------------------
(* CompactFiles as RocksDB runs it (external).  task names the files and    *)
(* the RocksDB level the output goes to.                                    *)

Names(files) == {f.name : f \in files}

Named(db, task) == {f \in db : f.name \in task.names}

\* RocksDB adds every file that overlaps the request from its uppermost level
\* down to the output level; on level 0 the older ones only.
Expanded(db, task) ==
    LET named == Named(db, task)
    IN  {f \in db : /\ f.level <= task.out
                    /\ \E g \in named : \/ g.level < f.level
                                        \/ g.level = f.level /\ f.level > 0
                                        \/ g.level = f.level /\ f.name <= g.name}

Rejected(db, task) ==
    \/ task.names = {}
    \/ ~(task.names \subseteq Names(db))
    \/ task.out \notin RocksDBLevels
    \/ \E f \in Named(db, task) : f.level > task.out
    \/ \E f \in Expanded(db, task) : f.being_compacted

\* Mutant: marks a copy and keeps the original.
MarkedCopy(files, names) ==
    files \cup {[f EXCEPT !.being_compacted = TRUE] : f \in {g \in files : g.name \in names}}

\* file->being_compacted = true, for the files of those names
Marked(files, names) ==
    {[f EXCEPT !.being_compacted = @ \/ f.name \in names] : f \in files}

Released(files) == {[f EXCEPT !.being_compacted = FALSE] : f \in files}

\* What a merge may leave: it drops entries, possibly all of them.
Merged(files, name, level) ==
    {{}} \cup {{[name |-> name, level |-> level, size |-> size,
                being_compacted |-> FALSE]} : size \in 1 .. Size(files)}
=============================================================================
