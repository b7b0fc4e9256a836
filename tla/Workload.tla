------------------------------ MODULE Workload ------------------------------
(***************************************************************************)
(* runWorkload (src/src/run_workload.cc): the main thread replays the lines*)
(* of workload.txt against RocksDB, times each operation into the buffer   *)
(* stats, reports into the buffer buffer, asserts that all went well and   *)
(* destroys both.  It is the program that uses the module Buffer, whose    *)
(* steps and signals interleave with it.  A log statement is one entry.    *)
(*                                                                         *)
(* The build defines neither NDEBUG nor PROFILE and PER_OP_TIMER always:   *)
(* the assertions are active, there is no LogTreeState, and operations are *)
(* timed whatever the options say.  RocksDB is external: a set of keys,    *)
(* whose calls may fail.                                                   *)
(***************************************************************************)
EXTENDS Buffer, SequencesExt

CONSTANTS
    buffer, stats,   \* the two Buffers of the program
    Keys,
    Operations,      \* bound: the kinds of lines a workload has
    MaxLines,        \* bound: the lines of a workload
    LinesPerStep,    \* 50 in the code: the bar moves every 2% of the lines
    ShowProgress,    \* env->IsShowProgressEnabled()
    MayFail          \* whether calls of RocksDB may fail

\* P stands for P and Q, "other" for a letter no case matches
AllOperations == {"I", "U", "D", "P", "S", "R", "other", "empty"}

ASSUME WorkloadAssumption ==
    /\ Buffers = {buffer, stats} /\ buffer # stats
    /\ IsFiniteSet(Keys)
    /\ Operations \subseteq AllOperations
    /\ MaxLines \in Nat /\ MaxEntries >= MaxLines + 3
    /\ LinesPerStep \in Nat \ {0}
    /\ ShowProgress \in BOOLEAN /\ MayFail \in BOOLEAN

VARIABLES
    workload,  \* workload.txt, as its lines
    step,      \* how far runWorkload is
    ith_op,
    s,         \* the Status the operations assign to
    db,        \* the keys RocksDB holds
    found,     \* history: the keys it held when it was opened
    failed,    \* history: the lines RocksDB failed
    timed      \* history: how many timed operations were executed

workloadVars == <<workload, step, ith_op, s, db, found, failed, timed>>
allVars == <<bufferVars, workloadVars>>

Line ==
    {line \in [op : Operations, keys : SUBSET Keys] :
        CASE line.op \in {"I", "U", "D", "P"}     -> Cardinality(line.keys) = 1
          [] line.op = "R"                        -> TRUE
          [] line.op \in {"S", "other", "empty"}  -> line.keys = {}}

WorkloadInit ==
    /\ BufferInit /\ at = buffer
    /\ workload \in UNION {[1 .. n -> Line] : n \in 0 .. MaxLines}
    /\ step = "openLog"
    /\ ith_op = 0 /\ s = "OK"
    /\ db \in SUBSET Keys /\ found = db
    /\ failed = {} /\ timed = 0

\* The main thread is at this point of runWorkload and not inside a Buffer.
At(point) == MainRuns /\ main = "idle" /\ step = point

GoOn(point) == step' = point

-----------------------------------------------------------------------------
(* Up to the loop.                                                          *)

OpenLogs ==
    /\ \/ At("openLog")   /\ Construct(buffer) /\ GoOn("openStats")
       \/ At("openStats") /\ Construct(stats)  /\ GoOn("setup")
    /\ UNCHANGED <<workload, ith_op, s, db, found, failed, timed>>

\* The setup is printed or not, as the verbosity says.
PrintExperimentalSetup ==
    /\ At("setup") /\ GoOn("openDb")
    /\ Log(buffer) \/ UNCHANGED bufferVars
    /\ UNCHANGED <<workload, ith_op, s, db, found, failed, timed>>

\* DestroyDB is commented out, whatever --destroy says: what the database held stays.
OpenDB ==
    /\ At("openDb") /\ GoOn("readLine")
    /\ UNCHANGED bufferVars \/ (MayFail /\ Abort)
    /\ UNCHANGED <<workload, ith_op, s, db, found, failed, timed>>

-----------------------------------------------------------------------------
(* The loop.                                                                *)

Current == workload[ith_op + 1]

MoreLines == ith_op < Len(workload) /\ Current.op # "empty"

ReadLine ==
    /\ At("readLine")
    /\ GoOn(IF MoreLines THEN "operate" ELSE "summary")
    /\ UNCHANGED <<bufferVars, workload, ith_op, s, db, found, failed, timed>>

IsTimed(op) == op \in {"I", "U", "D", "P", "S"}

Fail(status_of_s) ==
    /\ MayFail
    /\ s' = status_of_s
    /\ failed' = failed \cup {ith_op + 1}
    /\ UNCHANGED db

\* Mutant: a range delete deletes nothing.
AppliedButRanges(line) ==
    CASE line.op \in {"I", "U"}      -> db \cup line.keys
      [] line.op = "D"               -> db \ line.keys
      [] line.op \in {"P", "S", "R"} -> db

Applied(line) ==
    CASE line.op \in {"I", "U"} -> db \cup line.keys
      [] line.op \in {"D", "R"} -> db \ line.keys
      [] line.op \in {"P", "S"} -> db

StatusOf(line) ==
    CASE line.op = "S" -> s
      [] line.op = "P" -> IF line.keys \subseteq db THEN "OK" ELSE "NotFound"
      [] OTHER         -> "OK"

Operate ==
    /\ At("operate") /\ Current.op # "other"
    /\ LET op == Current.op
       IN  /\ \/ /\ db' = Applied(Current) /\ s' = StatusOf(Current)
                 /\ GoOn(IF IsTimed(op) THEN "time" ELSE "progress")
                 /\ UNCHANGED failed
              \/ /\ op # "S" /\ Fail("IOError")
                 /\ GoOn(IF IsTimed(op) THEN "time" ELSE "progress")
              \/ op = "S" /\ Fail(s) /\ GoOn("scanError")
           /\ timed' = IF IsTimed(op) THEN timed + 1 ELSE timed
    /\ UNCHANGED <<bufferVars, workload, ith_op, found>>

\* assert(it->status().ok()) before the scan
NewIteratorFails ==
    /\ At("operate") /\ Current.op = "S"
    /\ MayFail /\ Abort
    /\ UNCHANGED workloadVars

\* Mutant: leaves the case after the error.
LogScanErrorAndBreak ==
    /\ At("scanError") /\ Log(buffer) /\ GoOn("progress")
    /\ UNCHANGED <<workload, ith_op, s, db, found, failed, timed>>

LogScanError ==
    /\ At("scanError") /\ Log(buffer) /\ GoOn("time")
    /\ UNCHANGED <<workload, ith_op, s, db, found, failed, timed>>

LogTime ==
    /\ At("time") /\ Log(stats) /\ GoOn("progress")
    /\ UNCHANGED <<workload, ith_op, s, db, found, failed, timed>>

LogNoMatch ==
    /\ At("operate") /\ Current.op = "other"
    /\ Log(buffer) /\ GoOn("progress")
    /\ UNCHANGED <<workload, ith_op, s, db, found, failed, timed>>

\* (int)total_operations * 0.02, truncated
UpdateInterval == Len(workload) \div LinesPerStep

\* current % update_interval ends the process when the interval is zero.
UpdateProgressBar ==
    /\ At("progress")
    /\ ith_op' = ith_op + 1
    /\ IF ShowProgress /\ UpdateInterval = 0
       THEN Abort /\ UNCHANGED step
       ELSE /\ GoOn(IF ith_op + 1 = Len(workload) THEN "summary" ELSE "readLine")
            /\ UNCHANGED bufferVars
    /\ UNCHANGED <<workload, s, db, found, failed, timed>>

-----------------------------------------------------------------------------
(* After the loop.                                                          *)

LogSummary ==
    /\ At("summary") /\ Log(buffer) /\ GoOn("assert")
    /\ UNCHANGED <<workload, ith_op, s, db, found, failed, timed>>

\* Mutant: a build with NDEBUG.
AssertCompiledOut == TRUE

AssertHolds == s = "OK"

\* assert(s.ok()); s = db->Close()
CloseDB ==
    /\ At("assert")
    /\ IF AssertHolds
       THEN /\ s' \in {"OK"} \cup (IF MayFail THEN {"IOError"} ELSE {})
            /\ GoOn("assertClose") /\ UNCHANGED bufferVars
       ELSE Abort /\ UNCHANGED <<step, s>>
    /\ UNCHANGED <<workload, ith_op, db, found, failed, timed>>

\* assert(s.ok()) again, and PrintRocksDBPerfStats
PrintRocksDBPerfStats ==
    /\ At("assertClose")
    /\ IF s = "OK"
       THEN GoOn("flushLog") /\ (Log(buffer) \/ UNCHANGED bufferVars)
       ELSE Abort /\ UNCHANGED step
    /\ UNCHANGED <<workload, ith_op, s, db, found, failed, timed>>

FlushIfAny(b) == Flush(b) \/ (mem[b] = <<>> /\ UNCHANGED bufferVars)

FlushLogs ==
    /\ \/ At("flushLog")   /\ FlushIfAny(buffer) /\ GoOn("flushStats")
       \/ At("flushStats") /\ FlushIfAny(stats)  /\ GoOn("destroyStats")
    /\ UNCHANGED <<workload, ith_op, s, db, found, failed, timed>>

\* The locals are destroyed in the reverse order of their declarations.
DestroyLogs ==
    /\ \/ At("destroyStats") /\ Destroy(stats)  /\ GoOn("destroyLog")
       \/ At("destroyLog")   /\ Destroy(buffer) /\ GoOn("return")
    /\ UNCHANGED <<workload, ith_op, s, db, found, failed, timed>>

Return ==
    /\ At("return") /\ GoOn("done")
    /\ UNCHANGED <<bufferVars, workload, ith_op, s, db, found, failed, timed>>

runWorkload ==
    \/ OpenLogs \/ PrintExperimentalSetup \/ OpenDB
    \/ ReadLine \/ Operate \/ NewIteratorFails \/ LogScanError \/ LogTime \/ LogNoMatch
    \/ UpdateProgressBar
    \/ LogSummary \/ CloseDB \/ PrintRocksDBPerfStats \/ FlushLogs \/ DestroyLogs \/ Return

MainThread == runWorkload \/ (BufferStep /\ UNCHANGED workloadVars)
Handler == (HandlerLock \/ HandlerFlush \/ HandlerExit) /\ UNCHANGED workloadVars

WorkloadNext ==
    /\ step # "done"
    /\ MainThread \/ (SignalStep /\ UNCHANGED workloadVars)

\* The main thread runs, as its signal handler or as itself; nobody need signal.
WorkloadSpec ==
    WorkloadInit /\ [][WorkloadNext]_allVars /\ WF_allVars(MainThread) /\ WF_allVars(Handler)

-----------------------------------------------------------------------------
(* The properties.                                                          *)

\* Every variable holds a value of its kind, those of the buffers included.
WorkloadTypeOK ==
    /\ BufferTypeOK
    /\ workload \in Seq(Line) /\ ith_op \in 0 .. Len(workload)
    /\ step \in {"openLog", "openStats", "setup", "openDb", "readLine", "operate",
                 "scanError", "time", "progress", "summary", "assert", "assertClose",
                 "flushLog", "flushStats", "destroyStats", "destroyLog", "return",
                 "done"}
    /\ s \in {"OK", "NotFound", "IOError"}
    /\ db \subseteq Keys /\ found \subseteq Keys
    /\ failed \subseteq DOMAIN workload
    /\ timed \in 0 .. Len(workload)

Executed == {i \in DOMAIN workload : \A j \in 1 .. i : workload[j].op # "empty"}

Writers(key) ==
    {i \in Executed \ failed : workload[i].op \in {"I", "U", "D", "R"}
                               /\ key \in workload[i].keys}

\* A run that returns has replayed the lines up to the first empty one: a key that they
\* write is there if the last line that RocksDB did not fail and that writes it puts
\* it.  Another key is not there unless it was when the database was opened; whether
\* it should be then is left open, for --destroy promises that nothing is, and the code
\* only says so (run_workload.cc 39-42, 79-235).
ReplayIsFaithful ==
    step = "done" =>
        \A key \in Keys :
            IF Writers(key) = {} THEN key \in db => key \in found
            ELSE key \in db <=> workload[Max(Writers(key))].op \in {"I", "U"}

\* The status is overwritten by each operation but the scan: all a run that
\* returns says is that the last of them was neither failed nor a miss.
Setters == {i \in Executed : workload[i].op \in {"I", "U", "D", "P", "R"}}
ReturnMeansLastOK ==
    step = "done" /\ Setters # {} =>
        LET last == Max(Setters)
        IN  /\ last \notin failed
            /\ workload[last].op = "P" => workload[last].keys \subseteq db

\* A run that returns leaves one timing of each timed line, in order, and a
\* complete workload.log.
ReturnMeansLogged ==
    step = "done" =>
        /\ file[stats] = Entries(1, Cardinality({i \in Executed : IsTimed(workload[i].op)}))
        /\ file[buffer] = Entries(1, logged[buffer])

\* A process that a signal ends, at whatever step, has in stats.log the timing
\* of every operation it executed, but perhaps the one it was at.
TimingsSurviveSignal ==
    status = "exited" => 1 .. timed - 1 \subseteq ToSet(file[stats])

\* The process comes to an end: it returns, fails an assertion, or a signal ends
\* it, or the handler waits for the mutex of the thread it interrupted.
Ends == <>(step = "done" \/ status # "running")

\* assert(s.ok()): when RocksDB fails no call, every operation has succeeded.
StatusAsserted == (At("assert") /\ failed = {}) => AssertHolds

\* "Shows progress bar": showing it does not end the process.
ProgressOnlyShows == step = "progress" => status # "aborted"
=============================================================================
