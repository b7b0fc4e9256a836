---------------------------- MODULE MCExperiment ----------------------------
(***************************************************************************)
(* Experiment for TLC.  Widths are scaled by 2^12, so that products fit in *)
(* the integers of TLC: an int has 20 bits, a long 24, and a MiB is 2^8    *)
(* units for the block cache.  A uint16_t keeps its 16 bits.               *)
(*                                                                         *)
(* analyze.py runs in a directory of results.  Neither reads or writes a   *)
(* file of the other, so a behaviour here is one of the one or the other.  *)
(***************************************************************************)
EXTENDS Experiment, Analysis

Policy(name, setup, number) == [name |-> name, setup |-> setup, number |-> number]
zonekv == Policy("zonekv", "zonekv", "")
caza == Policy("caza", "caza", "")
oaza == Policy("oaza", "oaza", "")
our_oaza == Policy("our-oaza", "ouroaza", "")
modified_oaza == Policy("modified_oaza", "modified_oaza", "")
hybrid4 == Policy("hybrid4", "hybrid4", "")
plaza_adv_9 == Policy("plaza-adv-0.9", "plazaadv", "0.9")
plaza_adv_7 == Policy("plaza-adv-0.7", "plazaadv", "0.7")

MCPolicies ==
    {zonekv, caza, oaza, our_oaza, modified_oaza, hybrid4, plaza_adv_9, plaza_adv_7}
Header(gc_start, gc_stop, gc_slope, entry_size) ==
    [gc_start |-> gc_start, gc_stop |-> gc_stop, gc_slope |-> gc_slope,
     entry_size |-> entry_size, pages |-> 128]
stop == Header("25", "35", "no", 512)
slope == Header("20", "no", "7", 100)
neither == Header("25", "no", "no", 5000)

Heading(policies, header_values) == [list |-> policies, header |-> header_values]
MCHeadings ==
    {Heading(<<plaza_adv_9, plaza_adv_7>>, stop), Heading(<<plaza_adv_9>>, stop),
     Heading(<<oaza, our_oaza>>, slope),
     Heading(<<zonekv, hybrid4>>, neither), Heading(<<caza>>, neither),
     Heading(<<modified_oaza, caza, modified_oaza>>, neither)}

ASSUME MCAssumption == FilesInRange /\ PoliciesDiffer

\* What may stand on a command line: flags with and without a value, numbers at and
\* beyond the bounds, what reads as no number, and what is taken for a value by accident
Flag(form, name, joined) ==
    [form |-> form, name |-> name, joined |-> joined, text |-> [is |-> "word", n |-> 2]]
Positional(text) == [form |-> "positional", name |-> "", joined |-> <<>>, text |-> text]

Repeated ==
    {Flag("short", "P", <<>>), Flag("short", "P", <<Number(4000000)>>),
     Flag("long", "size_ratio", <<Number(2)>>), Flag("long", "size_ratio", <<Empty>>),
     Flag("terminator", "", <<>>),
     [Flag("short", "1", <<>>) EXCEPT !.text = Number(-1)],
     Positional(Number(1024)), Positional([is |-> "word", n |-> 3])}

HandWords ==
    Repeated \cup
    {Flag("short", "M", <<Number(1000)>>), Flag("short", "c", <<Number(65538)>>),
     Flag("long", "compaction_style", <<Number(2)>>),
     Flag("long", "bb", <<Number(2048)>>), Flag("long", "perf", <<Number(0)>>),
     Flag("long", "fs_uri", <<>>), Flag("long", "nothing", <<>>),
     Positional([is |-> "sign", n |-> 0])}

MCHandLines ==
    UNION {[1 .. n -> HandWords] : n \in 0 .. 2} \cup [1 .. 3 -> Repeated]

-----------------------------------------------------------------------------
MCInit == ExperimentInit /\ AnalysisInit

MCNext ==
    \/ ExperimentNext /\ analyses = 0 /\ UNCHANGED analysisVars
    \/ AnalysisNext /\ script = "off" /\ runs = <<>> /\ interrupts = 0
       /\ UNCHANGED experimentVars

MCSpec ==
    /\ MCInit /\ [][MCNext]_<<experimentVars, analysisVars>>
    /\ WF_experimentVars(ProgramStep \/ ScriptStep)
=============================================================================
