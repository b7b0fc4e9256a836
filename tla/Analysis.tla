------------------------------ MODULE Analysis ------------------------------
(***************************************************************************)
(* scripts/analyze.py in a directory of zone state logs.  For each log it  *)
(* writes analysis-<log> and then rewrites the log with its pairs sorted,  *)
(* through <log>.sorted.tmp and os.replace.  Any call may raise OSError,   *)
(* the process may be killed between any two steps, and it may be run      *)
(* again on what it left.                                                  *)
(*                                                                         *)
(* Of a file only the number of its lines matters that have reached the    *)
(* disk, since a write goes to a buffer first, and of a log whether its    *)
(* pairs are sorted.  The sum of a line does not depend on the order of    *)
(* its pairs, so an analysis of a sorted log is the one of the log.        *)
(***************************************************************************)
EXTENDS Integers

CONSTANTS
    Sources,       \* the zonestate_* files that main finds
    LogLength,     \* the lines of each
    MaxAnalyses,   \* bound: how often analyze.py is started
    MaxKills       \* bound: how often it is killed

ASSUME AnalysisAssumption ==
    LogLength \in Nat /\ MaxAnalyses \in Nat /\ MaxKills \in Nat

VARIABLES
    zonestate,    \* of each source: its lines, and whether they are sorted
    analysis,     \* the lines of analysis-<source>, None if there is no such file
    tmp,          \* the lines of <source>.sorted.tmp, None if there is no such file
    process,      \* "none" or the place in main
    sources, src, \* those still to do, and the one at hand
    read,         \* the lines of src that were read
    failed,
    reported,     \* the sources last reported as sorted in place
    exit,         \* how the last process ended
    analyses, kills

files == <<zonestate, analysis, tmp>>
analysisVars == <<files, process, sources, src, read, failed, reported, exit, analyses, kills>>

None == -1

AnalysisInit ==
    /\ zonestate = [s \in Sources |-> [lines |-> LogLength, sorted |-> FALSE]]
    /\ analysis = [s \in Sources |-> None] /\ tmp = [s \in Sources |-> None]
    /\ process = "none" /\ sources = {} /\ read = 0
    /\ src = CHOOSE s \in Sources : TRUE
    /\ failed = {} /\ reported = {} /\ exit = "none" /\ analyses = 0 /\ kills = 0

\* What a buffered file may have on disk: n lines are written, of which it has some
Spilled(file, n) == file[src] .. n

RunMain ==
    /\ process = "none" /\ analyses < MaxAnalyses
    /\ process' = "between" /\ sources' = Sources /\ failed' = {} /\ exit' = "none"
    /\ analyses' = analyses + 1
    /\ UNCHANGED <<files, src, read, reported, kills>>

NextSource(s) ==
    /\ process = "between"
    /\ src' = s /\ sources' = sources \ {s} /\ read' = 0

OpenAnalysis ==
    /\ \E s \in sources :
        /\ NextSource(s)
        /\ analysis' = [analysis EXCEPT ![s] = 0]
        /\ reported' = reported \ {s}
    /\ process' = "analysing"
    /\ UNCHANGED <<zonestate, tmp, failed, exit, analyses, kills>>

OpenFails ==
    /\ \E s \in sources : NextSource(s) /\ failed' = failed \cup {s}
    /\ UNCHANGED <<files, process, reported, exit, analyses, kills>>

\* One line in, and some of what was written so far out
Summarize ==
    /\ process = "analysing" /\ read < LogLength
    /\ read' = read + 1
    /\ \E n \in Spilled(analysis, read') : analysis' = [analysis EXCEPT ![src] = n]
    /\ UNCHANGED <<zonestate, tmp, process, sources, src, failed, reported, exit, analyses, kills>>

CloseAnalysis ==
    /\ process = "analysing" /\ read = LogLength
    /\ analysis' = [analysis EXCEPT ![src] = read]
    /\ process' = "analysed"
    /\ UNCHANGED <<zonestate, tmp, sources, src, read, failed, reported, exit, analyses, kills>>

\* Mutant: sort_in_place goes on after an OSError of write_analysis
WriteAnalysisFailsUnnoticed ==
    /\ process = "analysing"
    /\ \E n \in Spilled(analysis, read) : analysis' = [analysis EXCEPT ![src] = n]
    /\ process' = "analysed" /\ failed' = failed
    /\ UNCHANGED <<zonestate, tmp, sources, src, read, reported, exit, analyses, kills>>

WriteAnalysisFails ==
    /\ process = "analysing"
    /\ \E n \in Spilled(analysis, read) : analysis' = [analysis EXCEPT ![src] = n]
    /\ process' = "between" /\ failed' = failed \cup {src}
    /\ UNCHANGED <<zonestate, tmp, sources, src, read, reported, exit, analyses, kills>>

OpenSorted ==
    /\ process = "analysed"
    /\ tmp' = [tmp EXCEPT ![src] = 0] /\ read' = 0
    /\ process' = "sorting"
    /\ UNCHANGED <<zonestate, analysis, sources, src, failed, reported, exit, analyses, kills>>

Sort ==
    /\ process = "sorting" /\ read < LogLength
    /\ read' = read + 1
    /\ \E n \in Spilled(tmp, read') : tmp' = [tmp EXCEPT ![src] = n]
    /\ UNCHANGED <<zonestate, analysis, process, sources, src, failed, reported, exit, analyses,
                   kills>>

\* Mutant: os.replace inside of the with
CloseSortedLater ==
    /\ process = "sorting" /\ read = LogLength
    /\ process' = "sorted"
    /\ UNCHANGED <<files, sources, src, read, failed, reported, exit, analyses, kills>>

CloseSorted ==
    /\ process = "sorting" /\ read = LogLength
    /\ tmp' = [tmp EXCEPT ![src] = read]
    /\ process' = "sorted"
    /\ UNCHANGED <<zonestate, analysis, sources, src, read, failed, reported, exit, analyses, kills>>

Replace ==
    /\ process = "sorted"
    /\ zonestate' = [zonestate EXCEPT ![src] = [lines |-> tmp[src], sorted |-> TRUE]]
    /\ tmp' = [tmp EXCEPT ![src] = None]
    /\ process' = "between" /\ reported' = reported \cup {src}
    /\ UNCHANGED <<analysis, sources, src, read, failed, exit, analyses, kills>>

\* The except of sort_in_place removes the file, unless that fails too
SortFails ==
    /\ process \in {"analysed", "sorting", "sorted"}
    /\ \/ tmp' = [tmp EXCEPT ![src] = None]
       \/ UNCHANGED tmp
    /\ process' = "between" /\ failed' = failed \cup {src}
    /\ UNCHANGED <<zonestate, analysis, sources, src, read, reported, exit, analyses, kills>>

ExitMain ==
    /\ process = "between" /\ sources = {}
    /\ process' = "none" /\ exit' = IF failed = {} THEN "success" ELSE "failure"
    /\ UNCHANGED <<files, sources, src, read, failed, reported, analyses, kills>>

\* Control-C or worse, which no except catches
Kill ==
    /\ process # "none" /\ kills < MaxKills
    /\ process' = "none" /\ exit' = "killed" /\ kills' = kills + 1
    /\ UNCHANGED <<files, sources, src, read, failed, reported, analyses>>

AnalysisNext ==
    \/ RunMain \/ OpenAnalysis \/ OpenFails \/ Summarize \/ CloseAnalysis
    \/ WriteAnalysisFails \/ OpenSorted \/ Sort \/ CloseSorted \/ Replace \/ SortFails
    \/ ExitMain \/ Kill

AnalysisSpec == AnalysisInit /\ [][AnalysisNext]_analysisVars

-----------------------------------------------------------------------------
\* No log ever lacks a line, not while it is sorted and not after a failure or a kill at
\* any step, however often (sort_in_place, analyze.py 165-178).
LogsAreWhole == \A s \in Sources : zonestate[s].lines = LogLength

\* A source that is reported has its whole analysis, is sorted and leaves no .sorted.tmp
\* behind, until it is analysed again, whatever earlier runs left; and a run that exits
\* with success has reported every source (main, analyze.py 181-205).
ReportedMeansDone ==
    /\ \A s \in reported : zonestate[s].sorted /\ analysis[s] = LogLength /\ tmp[s] = None
    /\ exit = "success" => reported = Sources
=============================================================================
