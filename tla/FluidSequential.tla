-------------------------- MODULE FluidSequential --------------------------
(***************************************************************************)
(* FluidLSM without its races: PickCompaction runs in one step when a flush*)
(* completes.  What is left is the policy itself, over deeper trees than   *)
(* the threads of FluidLSM let TLC reach: which level is compacted, into   *)
(* which RocksDB level, and what shape the tree keeps.  One compaction is  *)
(* allowed at a time, so of the levels that need one only the largest gets *)
(* it, a flush that completes during it schedules nothing, and neither does*)
(* the pick that CompactFiles makes before its decrement.                  *)
(***************************************************************************)
EXTENDS FluidTree

CONSTANTS
    MaxFlushes,  \* bound: flushes of a behaviour
    MayFail      \* whether RocksDB may fail a compaction it has begun

ASSUME SequentialAssumption == MaxFlushes \in Nat /\ MayFail \in BOOLEAN

VARIABLES
    db,        \* the files RocksDB holds
    nextName,  \* the next file number
    flushes,   \* how many flushes were done
    phase,     \* the compaction: none, scheduled, or run by RocksDB
    task       \* its request

vars == <<db, nextName, flushes, phase, task>>

Task == [names : SUBSET Nat, out : Int, origin : FluidLevels, target : 0 .. NumLevels]
NoTask == [names |-> {}, out |-> 0, origin |-> 0, target |-> 0]

Init ==
    /\ db = {} /\ nextName = 1 /\ flushes = 0
    /\ phase = "none" /\ task = NoTask

Crowded(lazy) ==
    {lvl \in FluidLevels : \E largest \in FluidLevels :
        /\ IsLargestOccupied(lazy, largest)
        /\ lvl <= largest
        /\ NeedsCompaction(lvl, largest, NumLiveRuns(lazy[lvl]))}

\* The requests PickCompaction may make; several only when the target level
\* has not all its slots
Requests(files) ==
    LET lazy   == BuildStructure(files)
        origin == Max(Crowded(lazy))
        input  == AddFilesToCompaction(lazy[origin])
        target == GetCompactionTargetLevel(origin, Size(input))
    IN  {[names |-> Names(input), out |-> out, origin |-> origin, target |-> target] :
            out \in OutputLevels(origin, target,
                                 IF target \in FluidLevels THEN lazy[target] ELSE {})}

\* Mutant: does not look at the counter.
HasCapacityAlways == TRUE

\* The counter is zero when no compaction is scheduled or running.
HasCapacity == phase = "none"

OnFlushCompleted ==
    /\ flushes < MaxFlushes
    /\ \E size \in 1 .. WriteBuffer :
          db' = db \cup {[name |-> nextName, level |-> 0, size |-> size,
                          being_compacted |-> FALSE]}
    /\ nextName' = nextName + 1
    /\ flushes' = flushes + 1
    /\ IF HasCapacity /\ Crowded(BuildStructure(db')) # {}
       THEN phase' = "scheduled" /\ task' \in Requests(db')
       ELSE UNCHANGED <<phase, task>>

StartCompaction ==
    /\ phase = "scheduled"
    /\ IF Rejected(db, task)
       THEN phase' = "none" /\ task' = NoTask /\ UNCHANGED db
       ELSE LET inputs == Expanded(db, task)
            IN  /\ phase' = "running"
                /\ task' = [task EXCEPT !.names = Names(inputs)]
                /\ db' = (db \ inputs) \cup Marked(inputs, Names(inputs))
    /\ UNCHANGED <<nextName, flushes>>

FinishCompaction ==
    /\ phase = "running"
    /\ LET inputs == Named(db, task)
       IN  \/ \E outputs \in Merged(inputs, nextName, task.out) :
                 db' = (db \ inputs) \cup outputs /\ nextName' = nextName + 1
           \/ MayFail /\ db' = (db \ inputs) \cup Released(inputs) /\ UNCHANGED nextName
    /\ phase' = "none" /\ task' = NoTask
    /\ UNCHANGED flushes

Next == OnFlushCompleted \/ StartCompaction \/ FinishCompaction

Spec == Init /\ [][Next]_vars

-----------------------------------------------------------------------------
(* The properties.                                                          *)

\* Every variable holds a value of its kind, and no two files share a number.
TypeOK ==
    /\ db \in SUBSET File /\ \A f, g \in db : f.name = g.name => f = g
    /\ nextName \in Nat \ {0}
    /\ flushes \in 0 .. MaxFlushes
    /\ phase \in {"none", "scheduled", "running"}
    /\ task \in Task

Reachable(t) == t.target = 0 \/ Backed(t.target)

\* A request for a level whose slots RocksDB has is one it accepts.
RequestsAccepted == phase = "scheduled" /\ Reachable(task) => ~Rejected(db, task)

\* Such a request is for a slot of its target's band, and between its input and
\* that slot there is no other run: RocksDB merges what the picker chose and
\* nothing else, so the tiers of a level stay apart until it is full.
TiersKept ==
    phase = "scheduled" /\ Reachable(task) =>
        /\ FluidLevel(task.out) = task.target
        /\ Expanded(db, task) = Named(db, task)

\* The slots of a level fill from the deepest RocksDB level up, so that the
\* younger run of two is always on the upper of their levels.
DeepestFirst ==
    \A lvl \in FluidLevels \ {0} : \A l, m \in Band(lvl) :
        l < m /\ FilesAt(db, l) # {} => FilesAt(db, m) # {}

\* "one run (for largest level) or couple of runs (for smaller level) upto
\* size_ratio of tree": once no compaction is scheduled or running, no level
\* is left with more live runs than the size ratio.
RunsUpToSizeRatio ==
    phase = "none" =>
        \A lvl \in FluidLevels : NumLiveRuns(BuildStructure(db)[lvl]) <= T
=============================================================================
