----------------------------- MODULE Experiment -----------------------------
(***************************************************************************)
(* experiment.sh and what it runs: for every file placement policy it      *)
(* formats the device, edits the one parameter file of ZenFS (the setup    *)
(* scripts), runs the program, and stamps and files the logs that lie in   *)
(* the working directory.  automate.sh edits its header and runs it again. *)
(* Nothing checks for failures, the script may be interrupted anywhere and *)
(* be run again, and somebody may have run the program by hand before.     *)
(*                                                                         *)
(* The program is Settings, step by step, and then a replay that ends      *)
(* somehow (Workload looks at that).                                       *)
(***************************************************************************)
EXTENDS Settings

CONSTANTS
    Policies,        \* the policies a list may name
    Headings,        \* bound: the lists of policies and the other values that the top of
                     \* the script may hold
    HandLines,       \* bound: what somebody may type
    PageSize,        \* 4096
    MaxRuns,         \* bound: how often the program runs or is interrupted
    MaxInterrupts,   \* bound: how often the script is interrupted
    MaxMinute        \* bound: the clock

VARIABLES
    params,       \* params.txt: the value of each line that the scripts edit
    script,       \* the line experiment.sh is at
    list, header, \* what its header says in this execution
    ith,          \* the policy of the loop
    todo,         \* the files its for loop or mv has still to move
    minute,
    cwd,          \* the logs in the working directory: which run wrote each
    LOG,          \* the run whose LOG lies in db_extra, 0 for none
    filed,        \* the logs in the result directories: which run wrote each
    runs,         \* history: every run of the program
    interrupts

scriptVars == <<params, script, list, header, ith, todo, minute, cwd, LOG, filed,
                runs, interrupts>>
experimentVars == <<settingsVars, scriptVars>>

policy == list[ith]

\* fullpath.  The header stands for dir and subdir_1, which name the values in it
Dir == [header |-> header, policy |-> policy]

(***************************************************************************)
(* params.txt.  A policy is its name, its setup script and the number at   *)
(* the end of its name, if any.  A setup script edits some of the lines    *)
(* and leaves the others; that of hybrid4 is two commands by accident,     *)
(* neither of which edits the file.  The six lines that place files are    *)
(* one here, placement.                                                    *)
(***************************************************************************)
Lines == {"logname", "placement", "min_boundary", "real_caza", "real_oaza",
          "nearest_newzone_threshold", "zones_to_open", "gc_start_level",
          "gc_stop_level", "gc_slope", "gc_type"}

Placement ==
    [zonekv |-> "kArrivalTimeBased", default |-> "kLifetimeBased",
     modified_oaza |-> "kOverlapChildren below kClusterTogether",
     overlap |-> "kOverlapChildren", caza |-> "kCAZA",
     oaza |-> "kOAZA below kArrivalTimeBased", ouroaza |-> "kOAZA below kArrivalTimeBased",
     hybrid1 |-> "kCAZA below kClusterTogether",
     hybrid2 |-> "kSameLevelNearbyKeys below kClusterTogether",
     hybrid3 |-> "kSameLevelNearbyKeys below kCAZA",
     plazaadv |-> "kPlazaAdvanced", plazabase |-> "kPlazaBase",
     plazaint |-> "KPlazaIntermediate"]

ASSUME ExperimentAssumption ==
    /\ Policies \subseteq [name : STRING, setup : DOMAIN Placement \cup {"hybrid4"},
                           number : STRING]
    /\ \A heading \in Headings :
        /\ heading.list \in Seq(Policies) \ {<<>>}
        /\ heading.header \in [gc_start : STRING, gc_stop : STRING, gc_slope : STRING,
                               entry_size : Nat \ {0}, pages : Nat]
    /\ HandLines \subseteq Seq(Word)
    /\ PageSize \in Nat \ {0} /\ MaxMinute \in Nat

\* What two of the theorems ask of the headings besides.  Files have pages, and an int
\* holds their number, their bytes and an entry.
FilesInRange ==
    /\ PageSize < IntModulus \div 2 /\ LongModulus >= 6 * IntModulus
    /\ \A heading \in Headings :
        LET h == heading.header IN
        /\ h.pages > 0 /\ h.pages * PageSize < IntModulus
        /\ h.pages < IntModulus \div 2 /\ h.entry_size < IntModulus \div 2

\* Policies of one setup script differ in the number that it is given
PoliciesDiffer ==
    \A p, q \in Policies :
        /\ p.setup = q.setup
        /\ p.setup \in {"plazaint", "plazaadv", "plazabase"} => p.number = q.number
        => p = q

Boundary(p) ==
    CASE p.setup \in {"zonekv", "default", "modified_oaza"} -> <<>>
      [] p.setup = "caza" -> [min_boundary |-> "0"]
      [] OTHER -> [min_boundary |-> "1"]

\* Mutant: without the sed that sets the threshold
SwitchesWithoutThreshold(p) ==
    CASE p.setup = "caza"    -> [real_caza |-> "1"]
      [] p.setup = "hybrid3" -> [real_caza |-> "0"]
      [] p.setup = "oaza"    -> [real_oaza |-> "1"]
      [] p.setup = "ouroaza" -> [real_oaza |-> "0"]
      [] p.setup = "plazaint" -> [nearest_newzone_threshold |-> "0", zones_to_open |-> p.number]
      [] OTHER -> <<>>

\* A bare plaza-base is one of number 0, which its own script gives it; plaza-base-x
\* writes a number over that of its script, and plaza-adv over the 0
Switches(p) ==
    CASE p.setup = "caza"    -> [real_caza |-> "1"]
      [] p.setup = "hybrid3" -> [real_caza |-> "0"]
      [] p.setup = "oaza"    -> [real_oaza |-> "1"]
      [] p.setup = "ouroaza" -> [real_oaza |-> "0"]
      [] p.setup = "plazaint" -> [nearest_newzone_threshold |-> "0", zones_to_open |-> p.number]
      [] p.setup \in {"plazaadv", "plazabase"} -> [nearest_newzone_threshold |-> p.number]
      [] OTHER -> <<>>

SetupLines(p) ==
    IF p.setup = "hybrid4" THEN <<>>
    ELSE Joined(<<[logname |-> p.name, placement |-> Placement[p.setup]], Boundary(p),
                  Switches(p)>>)

\* The sed commands of experiment.sh itself, the last of which wins gc_type
CommonLines(p, h) ==
    Joined(<<
        [logname |-> p.name, gc_start_level |-> h.gc_start],
        IF h.gc_stop # "no" THEN [gc_stop_level |-> h.gc_stop] ELSE <<>>,
        IF h.gc_slope # "no" THEN [gc_slope |-> h.gc_slope, gc_type |-> "kDefaultGC"]
        ELSE IF h.gc_stop # "no" THEN [gc_type |-> "kImprovedGC"] ELSE <<>> >>)

(***************************************************************************)
(* What ZenFS reads to place a file, whoever wrote it: its policies, the   *)
(* boundary where they tell upper levels from lower ones, and the lines    *)
(* that say how CAZA, OAZA and the plazas are meant.                       *)
(***************************************************************************)
Readers ==
    [min_boundary |-> {"modified_oaza", "oaza", "ouroaza", "hybrid1", "hybrid2", "hybrid3"},
     real_caza    |-> {"caza", "hybrid1", "hybrid3"},
     real_oaza    |-> {"oaza", "ouroaza"},
     nearest_newzone_threshold |-> {"plazaadv", "plazabase", "plazaint"},
     zones_to_open |-> {"plazaint"}]

PlacementLines(p) ==
    {"placement"} \cup {line \in DOMAIN Readers : p.setup \in Readers[line]}

\* The setup scripts that leave a line which their placement reads: modified_oaza the
\* boundary, hybrid1 real_caza and hybrid4 all of them
Leaky == {"modified_oaza", "hybrid1", "hybrid4"}

Edited(lines) == [line \in Lines |-> IF line \in DOMAIN lines THEN lines[line] ELSE params[line]]

(***************************************************************************)
(* The command line of run_wld.  A page holds what fits into it.           *)
(***************************************************************************)
Long(name, text) == [form |-> "long", name |-> name, joined |-> <<text>>,
                     text |-> [is |-> "word", n |-> 0]]

\* Mutant: rounded up
EntriesPerPageRoundedUp(h) == (PageSize + h.entry_size - 1) \div h.entry_size

EntriesPerPage(h) == PageSize \div h.entry_size

run_wld(h) == <<
    Long("size_ratio", Number(4)), Long("buffer_size_in_pages", Number(h.pages)),
    Long("progress", Number(1)), Long("num_levels", Number(7)),
    Long("files_in_l0", Number(6)), Long("fs_uri", [is |-> "word", n |-> 1]),
    Long("entry_size", Number(h.entry_size)),
    Long("entries_per_page", Number(EntriesPerPage(h))),
    Long("compaction_pri", Number(4)) >>

-----------------------------------------------------------------------------
ExperimentInit ==
    /\ NoProcess
    /\ params = [line \in Lines |-> "as it was"]
    /\ script = "off" /\ ith = 1
    /\ LET heading == CHOOSE h \in Headings : TRUE IN
        list = heading.list /\ header = heading.header
    /\ todo = {} /\ minute = 0
    /\ cwd = <<>> /\ LOG = 0 /\ filed = <<>> /\ runs = <<>>
    /\ interrupts = 0

Log(base, stamps) == [base |-> base, stamps |-> stamps]

\* The files with one more, in the place of any file of that name
Put(files, name, writer) ==
    [f \in DOMAIN files \cup {name} |-> IF f = name THEN writer ELSE files[f]]

\* Open for writing in the working directory: the file is this run's from now on
Write(bases) ==
    /\ LET opened == {Log(base, <<>>) : base \in bases} IN
        cwd' = [log \in DOMAIN cwd \cup opened |->
                    IF log \in opened THEN Len(runs) ELSE cwd[log]]
    /\ runs' = [runs EXCEPT ![Len(runs)].wrote = @ \cup bases]

NewRun(hand) ==
    [hand |-> hand, dir |-> IF hand THEN <<>> ELSE Dir, params |-> params,
     wrote |-> {}, minute |-> 0, cut |-> FALSE]

(***************************************************************************)
(* The program and its files                                               *)
(***************************************************************************)
Running == phase # "none"

\* ZenFS, once mounted, logs to the file that params.txt names
MountAndConfigure ==
    /\ configOptions
    /\ IF env.fs_uri.is # "empty" THEN Write({params.logname}) ELSE UNCHANGED <<cwd, runs>>
    /\ UNCHANGED <<params, script, list, header, ith, todo, minute, LOG, filed, interrupts>>

\* The Buffers truncate their files, and DB::Open begins the LOG
OpenLogs ==
    /\ phase = "opening" /\ phase' = "replaying"
    /\ Write({"workload", "stats"})
    /\ LOG' = IF env.fs_uri.is # "empty" THEN Len(runs) ELSE LOG
    /\ UNCHANGED <<parserVars, env, options, params, script, list, header, ith, todo,
                   minute, filed, interrupts>>

\* By a return, a failed assertion, an error of RocksDB or a Control-C
EndReplay == phase = "replaying" /\ Exit

ProgramStep ==
    \/ MountAndConfigure \/ OpenLogs
    \/ /\ ParseStep \/ RefuseArguments \/ AcceptArguments \/ CreateFromUriFails \/ EndReplay
       /\ UNCHANGED scriptVars

TypeByHand(words) ==
    /\ script = "off" /\ interrupts = 0 /\ runs = <<>>
    /\ Main(words)
    /\ runs' = Append(runs, NewRun(TRUE))
    /\ UNCHANGED <<params, script, list, header, ith, todo, minute, cwd, LOG, filed,
                   interrupts>>

(***************************************************************************)
(* The script.  A command that fails is not noticed.                       *)
(***************************************************************************)
Start ==
    /\ script = "off" /\ ~Running
    /\ \E heading \in Headings :
        /\ Len(runs) + interrupts + Len(heading.list) <= MaxRuns
        /\ list' = heading.list /\ header' = heading.header
    /\ script' = "clean" /\ ith' = 1
    /\ UNCHANGED <<settingsVars, params, todo, minute, cwd, LOG, filed, runs, interrupts>>

\* zenfs_mkfs_clean.sh removes db_extra, and the logs of another directory
Clean ==
    /\ script = "clean" /\ script' = "setup" /\ LOG' = 0
    /\ UNCHANGED <<settingsVars, params, list, header, ith, todo, minute, cwd, filed,
                   runs, interrupts>>

Setup ==
    /\ script = "setup" /\ script' = "common" /\ params' = Edited(SetupLines(policy))
    /\ UNCHANGED <<settingsVars, list, header, ith, todo, minute, cwd, LOG, filed,
                   runs, interrupts>>

Common ==
    /\ script = "common" /\ script' = "eval"
    /\ params' = Edited(CommonLines(policy, header))
    /\ UNCHANGED <<settingsVars, list, header, ith, todo, minute, cwd, LOG, filed,
                   runs, interrupts>>

\* The shell opens stdout.log before the program is there
Eval ==
    /\ script = "eval" /\ script' = "wait"
    /\ Main(run_wld(header))
    /\ runs' = Append(runs, [NewRun(FALSE) EXCEPT !.wrote = {"stdout"}])
    /\ cwd' = Put(cwd, Log("stdout", <<>>), Len(runs'))
    /\ UNCHANGED <<params, list, header, ith, todo, minute, LOG, filed, interrupts>>

\* Mutant: goes on only when there is a LOG
CollectLOGOnly ==
    /\ script = "wait" /\ ~Running /\ script' = "timestamp"
    /\ LOG # 0 /\ Write({"rocksdb"})
    /\ LOG' = 0
    /\ UNCHANGED <<settingsVars, params, list, header, ith, todo, minute, filed,
                   interrupts>>

\* mv of the LOG, if there is one
CollectLOG ==
    /\ script = "wait" /\ ~Running /\ script' = "timestamp"
    /\ IF LOG = 0 THEN UNCHANGED <<cwd, runs>> ELSE Write({"rocksdb"})
    /\ LOG' = 0
    /\ UNCHANGED <<settingsVars, params, list, header, ith, todo, minute, filed,
                   interrupts>>

\* The minute, and the list of files the for loop goes through
Timestamp ==
    /\ script = "timestamp" /\ script' = "stamp"
    /\ minute' \in minute .. MaxMinute
    /\ todo' = DOMAIN cwd
    /\ runs' = [runs EXCEPT ![Len(runs)].minute = minute']
    /\ UNCHANGED <<settingsVars, params, list, header, ith, cwd, LOG, filed, interrupts>>

\* The shell takes them in the order of their names
First(logs) == CHOOSE log \in logs : TRUE

Without(files, name) == [f \in DOMAIN files \ {name} |-> files[f]]

\* Mutant: the new stamp in the place of those that a leftover has
StampAfresh ==
    /\ script = "stamp"
    /\ todo # {}
    /\ LET log == First(todo) IN
        /\ cwd' = Put(Without(cwd, log), Log(log.base, <<minute>>), cwd[log])
        /\ todo' = todo \ {log}
    /\ UNCHANGED <<settingsVars, params, script, list, header, ith, minute, LOG, filed,
                   runs, interrupts>>

Stamp ==
    /\ script = "stamp"
    /\ todo # {}
    /\ LET log == First(todo) IN
        /\ cwd' = Put(Without(cwd, log), Log(log.base, Append(log.stamps, minute)), cwd[log])
        /\ todo' = todo \ {log}
    /\ UNCHANGED <<settingsVars, params, script, list, header, ith, minute, LOG, filed,
                   runs, interrupts>>

\* mkdir, and the files of the mv
StartFiling ==
    /\ script = "stamp" /\ todo = {} /\ script' = "file"
    /\ todo' = DOMAIN cwd
    /\ UNCHANGED <<settingsVars, params, list, header, ith, minute, cwd, LOG, filed,
                   runs, interrupts>>

\* Mutant: cp
FileCopy ==
    /\ script = "file"
    /\ todo # {}
    /\ LET log == First(todo) IN
        /\ filed' = Put(filed, [dir |-> Dir, log |-> log], cwd[log])
        /\ cwd' = cwd
        /\ todo' = todo \ {log}
    /\ UNCHANGED <<settingsVars, params, script, list, header, ith, minute, LOG, runs,
                   interrupts>>

\* Mutant: the list of files does not shrink
FileForever ==
    /\ script = "file"
    /\ todo # {}
    /\ LET log == First(todo) IN
        /\ filed' = Put(filed, [dir |-> Dir, log |-> log], cwd[log])
        /\ cwd' = Without(cwd, log)
        /\ todo' = todo
    /\ UNCHANGED <<settingsVars, params, script, list, header, ith, minute, LOG, runs,
                   interrupts>>

File ==
    /\ script = "file"
    /\ todo # {}
    /\ LET log == First(todo) IN
        /\ filed' = Put(filed, [dir |-> Dir, log |-> log], cwd[log])
        /\ cwd' = Without(cwd, log)
        /\ todo' = todo \ {log}
    /\ UNCHANGED <<settingsVars, params, script, list, header, ith, minute, LOG, runs,
                   interrupts>>

NextPolicy ==
    /\ script = "file" /\ todo = {}
    /\ IF ith < Len(list) THEN ith' = ith + 1 /\ script' = "clean"
                          ELSE ith' = ith /\ script' = "off"
    /\ UNCHANGED <<settingsVars, params, list, header, todo, minute, cwd, LOG, filed,
                   runs, interrupts>>

\* A Control-C of anything but the program, or a hangup or kill of the script with all it
\* waits for.  The program takes a Control-C for itself once it has its logs, and exits
\* (buffer.cc 53-71): bash then goes on with the script, and that is EndReplay.
Interrupt ==
    /\ script # "off" /\ interrupts < MaxInterrupts
    /\ Exit
    /\ script' = "off" /\ todo' = {} /\ interrupts' = interrupts + 1
    /\ runs' = IF script \in {"clean", "setup", "common", "eval"} THEN runs
               ELSE [runs EXCEPT ![Len(runs)].cut = TRUE]
    /\ UNCHANGED <<params, list, header, ith, minute, cwd, LOG, filed>>

ScriptStep ==
    \/ Clean \/ Setup \/ Common \/ Eval \/ CollectLOG \/ Timestamp \/ Stamp
    \/ StartFiling \/ File \/ NextPolicy

ExperimentNext ==
    \/ ProgramStep \/ ScriptStep \/ Start \/ Interrupt
    \/ \E words \in HandLines : TypeByHand(words)

\* A program that runs goes on and ends, and so does the script
ExperimentSpec ==
    /\ ExperimentInit /\ [][ExperimentNext]_experimentVars
    /\ WF_experimentVars(ProgramStep \/ ScriptStep)

-----------------------------------------------------------------------------
ByScript(r) == ~runs[r].hand

ExperimentTypeOK ==
    /\ it \in 1 .. Len(argv) + 1 /\ matched \subseteq Flags /\ DOMAIN value = Flags
    /\ status \in {"idle", "parsing", "parsed", "error"}
    /\ phase \in {"none", "parsing", "configuring", "opening", "replaying"}
    /\ DOMAIN env = DOMAIN NewDBEnv
    /\ options # <<>> <=> phase \in {"opening", "replaying"}
    /\ DOMAIN params = Lines
    /\ script \in {"off", "clean", "setup", "common", "eval", "wait", "timestamp",
                   "stamp", "file"}
    /\ todo \subseteq DOMAIN cwd
    /\ \A log \in DOMAIN cwd : cwd[log] \in DOMAIN runs
    /\ \A name \in DOMAIN filed : filed[name] \in DOMAIN runs
    /\ LOG \in 0 .. Len(runs)

\* The write buffer of a run is as many whole entries as fit into the pages of a file
\* of the size asked for, short of it by less than an entry per page, and none at all
\* when an entry is larger than a page (experiment.sh 34-47, db_env.h 86-101).
BufferFitsFile ==
    script = "wait" /\ options # <<>> =>
        LET file  == header.pages * PageSize
            short == file - options.write_buffer_size
        IN  /\ short \in 0 .. header.pages * header.entry_size - 1
            /\ options.write_buffer_size = 0 <=> header.entry_size > PageSize
            /\ options.target_file_size_base = options.write_buffer_size
            /\ options.max_bytes_for_level_base = 6 * options.write_buffer_size

\* A log lies in the directory of the run that wrote it, or else it is the leftover of
\* a run by hand or of an interrupted one, and lies where the next run that was not
\* interrupted is filed, or one interrupted while it was (experiment.sh 126-135).
FiledWhereItBelongs ==
    \A name \in DOMAIN filed :
        \E r \in filed[name] .. Len(runs) :
            /\ runs[r].dir = name.dir
            /\ \A q \in filed[name] .. r - 1 : runs[q].hand \/ runs[q].cut

\* An iteration that was not interrupted, however its program ended, has all the logs
\* the program wrote in its directory and under the names report_gen.sh looks for,
\* except where a later run of the same directory and minute, or a leftover it was
\* filed with, overwrote them (experiment.sh 122-135, report_gen.sh 25-63).
Over(r) == ByScript(r) /\ ~runs[r].cut
               /\ (r < Len(runs) \/ script \notin {"wait", "timestamp", "stamp", "file"})
CompleteRunsAreReported ==
    \A r \in DOMAIN runs : Over(r) =>
        /\ runs[r].wrote \subseteq {"stdout", runs[r].dir.policy.name, "workload", "stats",
                                    "rocksdb"}
        /\ \A base \in runs[r].wrote :
            \E name \in DOMAIN filed :
                /\ name.dir = runs[r].dir
                /\ name.log.base = base /\ name.log.stamps # <<>>
                /\ \/ filed[name] = r
                   \/ \E p \in r + 1 .. Len(runs) :
                        /\ filed[name] \in r + 1 .. p
                        /\ runs[p].dir = runs[r].dir /\ runs[p].minute = runs[r].minute

\* Runs of one policy and header agree in every line of params.txt that its placement
\* reads, unless its setup script leaves one of those as it finds it, and runs of two
\* policies differ in one, hybrid4 apart, which places as the policy before it; the kind
\* of garbage collection is that of the header unless that names none (experiment.sh
\* 58-116, scripts/setup_*.sh).
PoliciesDetermineRuns ==
    \A r, q \in DOMAIN runs :
        /\ ByScript(r) /\ ByScript(q)
        /\ runs[r].dir.header = runs[q].dir.header
        => LET p     == runs[r].dir.policy
               other == runs[q].dir.policy
               PlacedAlike == \A line \in PlacementLines(p) :
                                runs[r].params[line] = runs[q].params[line]
           IN
            /\ runs[r].params.logname = p.name
            /\ p = other /\ p.setup \notin Leaky => PlacedAlike
            /\ p # other /\ "hybrid4" \notin {p.setup, other.setup} => ~PlacedAlike
            /\ runs[r].dir.header.gc_stop # "no" \/ runs[r].dir.header.gc_slope # "no" =>
                runs[r].params.gc_type = runs[q].params.gc_type

\* However its commands and programs end, the script comes to its end
ScriptEnds == (script # "off") ~> (script = "off")
=============================================================================
