-------------------------- MODULE ExperimentProofs --------------------------
(***************************************************************************)
(* Of experiment.sh and what it runs, for any lists of policies, any words *)
(* typed by hand and any number of runs and interruptions.                 *)
(*                                                                         *)
(* The parser: a command line is taken for what it means, whatever its     *)
(* length.  The options: what the run reads of params.txt is what was      *)
(* meant, and a buffer is filled by as many files as the header asked for. *)
(* The policies: a run of one has the settings of that one and no other.   *)
(* The logs: each is filed where it belongs, that of a whole run is        *)
(* reported, and analyze.py neither loses a line nor reports what is not   *)
(* so.                                                                     *)
(***************************************************************************)
EXTENDS Experiment, Analysis, MaxTheorems

\* A name is that of one flag at most
LEMMA MatchIsOne ==
    ASSUME NEW word, NEW f \in Match(word), NEW g \in Match(word)
    PROVE  f = g /\ f \in Flags
<1>1. PICK i \in DOMAIN Children : /\ f = Children[i].flag /\ Has(Children[i], word)
                                   /\ \A k \in 1 .. i - 1 : ~Has(Children[k], word)
    BY DEF Match
<1>2. PICK j \in DOMAIN Children : /\ g = Children[j].flag /\ Has(Children[j], word)
                                   /\ \A k \in 1 .. j - 1 : ~Has(Children[k], word)
    BY DEF Match
<1>3. i \in 1 .. Len(Children) /\ j \in 1 .. Len(Children) /\ Len(Children) \in Nat
    BY ParserAssumption
<1>4. i = j
    BY <1>1, <1>2, <1>3
<1> QED
    BY <1>1, <1>2, <1>4 DEF Flags

\* Words that may take the next for their value: there is one way to tell which words
\* stand for themselves
LEMMA SelvesExist ==
    ASSUME NEW n \in Nat, NEW takes
    PROVE  \E f : f = [i \in 1 .. n |-> i = 1 \/ ~f[i - 1] \/ ~takes[i - 1]]
<1> DEFINE IsSelves(m, f) == f = [i \in 1 .. m |-> i = 1 \/ ~f[i - 1] \/ ~takes[i - 1]]
           without == {m \in Nat : ~\E f : IsSelves(m, f)}
           less == OpToRel(<, Nat)
<1>1. \A x, y \in Nat : x < y => <<x, y>> \in less
    BY DEF OpToRel
<1> HIDE DEF less
<1>2. IsWellFoundedOn(less, Nat)
    BY NatLessThanWellFounded DEF less
<1>3. SUFFICES ASSUME without # {} PROVE FALSE
    OBVIOUS
<1>4. PICK m \in without : \A k \in without : ~ (<<k, m>> \in less)
  <2>1. without \subseteq Nat
      OBVIOUS
  <2> HIDE DEF without
  <2> QED
      BY <1>2, <1>3, <2>1, WFMin
<1>5. m \in Nat
    OBVIOUS
<1>6. CASE m = 0
  <2>1. IsSelves(0, [i \in 1 .. 0 |-> TRUE])
      OBVIOUS
  <2> QED
      BY <1>6, <2>1
<1>7. CASE m # 0
  <2>1. m - 1 \in Nat /\ m - 1 < m
      BY <1>5, <1>7
  <2>2. m - 1 \notin without
      BY <1>1, <1>4, <1>5, <2>1
  <2>3. PICK f : IsSelves(m - 1, f)
      BY <2>1, <2>2
  <2> DEFINE g == [i \in 1 .. m |-> IF i = m THEN m = 1 \/ ~f[m - 1] \/ ~takes[m - 1] ELSE f[i]]
  <2>4. \A i \in 1 .. m : g[i] = (i = 1 \/ ~g[i - 1] \/ ~takes[i - 1])
    <3> SUFFICES ASSUME NEW i \in 1 .. m PROVE g[i] = (i = 1 \/ ~g[i - 1] \/ ~takes[i - 1])
        OBVIOUS
    <3>1. i # 1 => g[i - 1] = f[i - 1]
        BY <1>5, <2>1
    <3>2. CASE i = m
        BY <1>5, <3>1, <3>2
    <3>3. CASE i # m
      <4>1. i \in 1 .. m - 1
          BY <1>5, <3>3
      <4>2. f[i] = (i = 1 \/ ~f[i - 1] \/ ~takes[i - 1])
          BY <2>3, <4>1
      <4>3. g[i] = f[i]
          BY <3>3
      <4> QED
          BY <3>1, <4>2, <4>3
    <3> QED
        BY <3>2, <3>3
  <2>5. IsSelves(m, g)
    <3>1. g = [i \in 1 .. m |-> g[i]]
        OBVIOUS
    <3> QED
        BY <2>4, <3>1
  <2> QED
      BY <2>5
<1> QED
    BY <1>6, <1>7

\* A word stands for itself unless the one before it takes it for its value
LEMMA UsesOfWords ==
    ASSUME NEW words, Len(words) \in Nat
    PROVE  /\ Uses(words) \subseteq 1 .. Len(words)
           /\ \A i \in 1 .. Len(words) :
                i \in Uses(words) <=>
                    \/ i = 1 \/ i - 1 \notin Uses(words)
                    \/ ~IsFlag(words[i - 1]) \/ words[i - 1].joined # <<>>
<1> DEFINE takes == [i \in 1 .. Len(words) |-> IsFlag(words[i]) /\ words[i].joined = <<>>]
           uses == CHOOSE f : f = [i \in 1 .. Len(words) |->
                        \/ i = 1
                        \/ ~f[i - 1]
                        \/ ~IsFlag(words[i - 1])
                        \/ words[i - 1].joined # <<>>]
<1>1. \E f : f = [i \in 1 .. Len(words) |-> i = 1 \/ ~f[i - 1] \/ ~takes[i - 1]]
  <2> HIDE DEF takes
  <2> QED
      BY SelvesExist
<1>2. \A f : f = [i \in 1 .. Len(words) |-> i = 1 \/ ~f[i - 1] \/ ~takes[i - 1]]
                => f = [i \in 1 .. Len(words) |->
                          \/ i = 1
                          \/ ~f[i - 1]
                          \/ ~IsFlag(words[i - 1])
                          \/ words[i - 1].joined # <<>>]
  <2>1. \A i \in 1 .. Len(words) : i # 1 => i - 1 \in 1 .. Len(words)
      OBVIOUS
  <2> QED
      BY <2>1
<1>3. uses = [i \in 1 .. Len(words) |->
                \/ i = 1
                \/ ~uses[i - 1]
                \/ ~IsFlag(words[i - 1])
                \/ words[i - 1].joined # <<>>]
    BY <1>1, <1>2
<1>4. Uses(words) = {i \in 1 .. Len(words) : uses[i]}
    BY DEF Uses
<1> HIDE DEF uses
<1>5. \A i \in 1 .. Len(words) : i # 1 => i - 1 \in 1 .. Len(words)
    OBVIOUS
<1> QED
    BY <1>3, <1>4, <1>5

-----------------------------------------------------------------------------
\* The settings of flag that end before word n, and those of them that say something
Given(words, n, flag) ==
    {i \in Uses(words) : i < n /\ IsFlag(words[i]) /\ flag \in Match(words[i])}
Said(words, n, flag) ==
    {i \in Given(words, n, flag) : Type(flag) = "string" \/ TextOf(words, i).is # "empty"}

\* A setting that a well-formed line may have
FineUse(words, i) ==
    /\ IsFlag(words[i])
    /\ words[i].joined # <<>> \/ i < Len(words)
    /\ \A flag \in Match(words[i]) : Readable(flag, TextOf(words, i))

\* Where the parser of a line may be: before word n, all words before it read
ReadBefore(words, n, ended) ==
    /\ n \in 1 .. Len(words) + 1
    /\ n <= Len(words) => n \in Uses(words)
    /\ \A i \in Uses(words) : i < n =>
            FineUse(words, i) \/ (ended /\ i = n - 1 /\ words[i].form = "terminator")
    /\ ended => n - 1 \in Uses(words) /\ words[n - 1].form = "terminator"

\* What it knows of a flag then
Knows(words, n, flag, given, val) ==
    /\ flag \in given <=> Given(words, n, flag) # {}
    /\ \/ Said(words, n, flag) = {} /\ val = Default[flag]
       \/ \E last \in Said(words, n, flag) :
            /\ \A i \in Said(words, n, flag) : i <= last
            /\ val = Read(flag, TextOf(words, last), Default[flag])

ParserTypeOK ==
    /\ Len(argv) \in Nat /\ it \in 1 .. Len(argv) + 1
    /\ matched \subseteq Flags /\ value = [flag \in Flags |-> value[flag]]
    /\ status \in {"idle", "parsing", "parsed", "error"}

ParserInv ==
    /\ ParserTypeOK
    /\ status \in {"parsing", "parsed"} =>
        /\ ReadBefore(argv, it, terminated)
        /\ \A flag \in Flags : Knows(argv, it, flag, matched, value[flag])
    /\ status = "parsed" => it = Len(argv) + 1
    /\ status = "error" => ~WellFormed(argv)

\* A word that is no flag adds nothing
LEMMA SkipWord ==
    ASSUME NEW words, Len(words) \in Nat, NEW n \in 1 .. Len(words), ~IsFlag(words[n]),
           NEW flag, NEW given, NEW val, Knows(words, n, flag, given, val)
    PROVE  Knows(words, n + 1, flag, given, val)
<1>1. Uses(words) \subseteq Int
    BY UsesOfWords
<1>2. Given(words, n + 1, flag) = Given(words, n, flag)
    BY <1>1 DEF Given
<1> QED
    BY <1>2 DEF Knows, Said

\* What the flag at word n, whose value ends before word m, changes
LEMMA ReadFlag ==
    ASSUME Len(argv) \in Nat, NEW n \in Uses(argv), IsFlag(argv[n]),
           NEW m \in {n + 1, n + 2}, n + 1 < m => n + 1 \notin Uses(argv),
           NEW f \in Match(argv[n]), NEW flag \in Flags, NEW given, NEW val,
           Knows(argv, n, flag, given, val)
    PROVE  Knows(argv, m, flag, given \cup {f},
                 IF flag = f THEN Read(f, TextOf(argv, n), val) ELSE val)
<1>1. Uses(argv) \subseteq Int
    BY UsesOfWords
<1>2. flag \in Match(argv[n]) <=> flag = f
    BY MatchIsOne
<1>3. CASE flag # f
  <2>1. Given(argv, m, flag) = Given(argv, n, flag)
      BY <1>1, <1>2, <1>3 DEF Given
  <2> QED
      BY <1>3, <2>1 DEF Knows, Said
<1>4. CASE flag = f
  <2>1. Given(argv, m, flag) = Given(argv, n, flag) \cup {n} /\ \A i \in Given(argv, n, flag) : i < n
      BY <1>1, <1>2, <1>4 DEF Given
  <2>2. CASE Type(f) # "string" /\ TextOf(argv, n).is = "empty"
    <3>1. Said(argv, m, flag) = Said(argv, n, flag)
      <4>1. Said(argv, n, flag) = {i \in Given(argv, n, flag) : Type(flag) = "string" \/ TextOf(argv, i).is # "empty"}
          BY DEF Said
      <4>2. Said(argv, m, flag) = {i \in Given(argv, m, flag) : Type(flag) = "string" \/ TextOf(argv, i).is # "empty"}
          BY DEF Said
      <4> QED
          BY <1>4, <2>1, <2>2, <4>1, <4>2
    <3>2. Read(f, TextOf(argv, n), val) = val
        BY <2>2 DEF Read
    <3> QED
        BY <1>4, <2>1, <3>1, <3>2 DEF Knows
  <2>3. CASE Type(f) = "string" \/ TextOf(argv, n).is # "empty"
    <3>1. n \in Said(argv, m, flag) /\ \A i \in Said(argv, m, flag) : i <= n
      <4>1. Said(argv, m, flag) = {i \in Given(argv, n, flag) \cup {n} :
                                      Type(flag) = "string" \/ TextOf(argv, i).is # "empty"}
          BY <2>1 DEF Said
      <4>2. \A i \in Given(argv, n, flag) \cup {n} : i <= n
          BY <1>1 DEF Given
      <4> QED
          BY <1>4, <2>1, <2>3, <4>1, <4>2
    <3>2. Read(f, TextOf(argv, n), val) = Read(f, TextOf(argv, n), Default[f])
        BY <2>3 DEF Read
    <3> QED
        BY <1>4, <2>1, <3>1, <3>2 DEF Knows
  <2> QED
      BY <2>2, <2>3
<1> QED
    BY <1>3, <1>4

\* Parse begins before the first word
LEMMA ParserStarts ==
    ASSUME NEW words, Len(words) \in Nat, NEW ended, ~ended
    PROVE  /\ ReadBefore(words, 1, ended)
           /\ \A flag \in Flags : Knows(words, 1, flag, {}, Default[flag])
<1>1. Len(words) \in Nat
    OBVIOUS
<1>2. Uses(words) \subseteq 1 .. Len(words) /\ (1 <= Len(words) => 1 \in Uses(words))
    BY <1>1, UsesOfWords
<1>3. ReadBefore(words, 1, ended)
    BY <1>1, <1>2 DEF ReadBefore
<1>4. \A flag : Given(words, 1, flag) = {}
    BY <1>2 DEF Given
<1> QED
    BY <1>3, <1>4 DEF Knows, Said

LEMMA ParserStep == ParserInv /\ Parse => ParserInv'
<1> SUFFICES ASSUME ParserInv, Parse PROVE ParserInv'
    OBVIOUS
<1>1. /\ argv' = argv /\ Len(argv) \in Nat /\ it \in 1 .. Len(argv) + 1
      /\ matched \subseteq Flags /\ value = [flag \in Flags |-> value[flag]]
      /\ status = "parsing"
      /\ ReadBefore(argv, it, terminated)
      /\ \A flag \in Flags : Knows(argv, it, flag, matched, value[flag])
    BY DEF ParserInv, ParserTypeOK, Parse, ParseTerminator, ParseFlag, ParseNothing,
       FinishParse, Unparsed
<1>2. /\ Uses(argv) \subseteq 1 .. Len(argv)
      /\ \A i \in 1 .. Len(argv) :
            i \in Uses(argv) <=>
                \/ i = 1 \/ i - 1 \notin Uses(argv)
                \/ ~IsFlag(argv[i - 1]) \/ argv[i - 1].joined # <<>>
    BY <1>1, UsesOfWords
<1>3. CASE FinishParse
    BY <1>1, <1>3 DEF FinishParse, ParserInv, ParserTypeOK
<1>4. CASE ParseTerminator
  <2>1. /\ it \in 1 .. Len(argv) /\ argv[it].form = "terminator" /\ terminated' = TRUE
        /\ it' = it + 1 /\ matched' = matched /\ value' = value /\ status' = status
        /\ ~terminated
      BY <1>1, <1>4 DEF ParseTerminator, Unparsed, Current
  <2>2. ~IsFlag(argv[it])
      BY <2>1 DEF IsFlag
  <2>3. ReadBefore(argv, it + 1, terminated')
      BY <1>1, <1>2, <2>1, <2>2 DEF ReadBefore
  <2>4. \A flag \in Flags : Knows(argv, it + 1, flag, matched, value[flag])
      BY <1>1, <2>1, <2>2, SkipWord
  <2>5. ParserTypeOK'
      BY <1>1, <2>1 DEF ParserInv, ParserTypeOK
  <2>6. /\ ReadBefore(argv', it', terminated') /\ status' = "parsing"
        /\ \A flag \in Flags : Knows(argv', it', flag, matched', value'[flag])
      BY <1>1, <2>1, <2>3, <2>4
  <2> QED
      BY <2>5, <2>6 DEF ParserInv
<1>5. CASE ParseNothing
  <2>1. /\ it \in 1 .. Len(argv) /\ UNCHANGED <<it, matched, value>> /\ status' = "error"
        /\ ~terminated => ~IsFlag(argv[it]) /\ argv[it].form # "terminator"
      BY <1>1, <1>5 DEF ParseNothing, Unparsed, Current, IsFlag
  <2>2. ~WellFormed(argv)
    <3>1. it \in Uses(argv)
        BY <1>1, <2>1 DEF ReadBefore
    <3>2. CASE terminated
      <4>1. it - 1 \in Uses(argv) /\ argv[it - 1].form = "terminator" /\ it - 1 # Len(argv)
          BY <1>1, <2>1, <3>2 DEF ReadBefore
      <4>2. ~IsFlag(argv[it - 1])
          BY <4>1 DEF IsFlag
      <4> QED
          BY <4>1, <4>2 DEF WellFormed
    <3>3. CASE ~terminated
        BY <2>1, <3>1, <3>3 DEF WellFormed
    <3> QED
        BY <3>2, <3>3
  <2> QED
      BY <1>1, <2>1, <2>2 DEF ParserInv, ParserTypeOK
<1>6. CASE ParseFlag
  <2>1. PICK flag \in Match(Current) :
          LET values == Values(Current, it)
              fine == values # <<>> /\ Readable(flag, values[1])
          IN
          /\ matched' = matched \cup {flag}
          /\ \/ /\ fine
                /\ value' = [value EXCEPT ![flag] = Read(flag, values[1], @)]
                /\ it' = it + (IF Current.joined = <<>> THEN 2 ELSE 1)
                /\ UNCHANGED status
             \/ /\ ~fine
                /\ status' = "error" /\ UNCHANGED <<value, it>>
      BY <1>6 DEF ParseFlag
  <2>2. /\ it \in 1 .. Len(argv) /\ ~terminated /\ terminated' = terminated
        /\ Current = argv[it] /\ IsFlag(argv[it]) /\ argv[it].form # "terminator"
        /\ flag \in Match(argv[it]) /\ flag \in Flags
      BY <1>1, <1>6, <2>1, MatchIsOne DEF ParseFlag, Unparsed, Current, IsFlag
  <2>3. it \in Uses(argv)
      BY <1>1, <2>2 DEF ReadBefore
  <2> DEFINE values == Values(Current, it)
             fine == values # <<>> /\ Readable(flag, values[1])
  <2>4. /\ values # <<>> <=> argv[it].joined # <<>> \/ it < Len(argv)
        /\ values # <<>> => values[1] = TextOf(argv, it)
      BY <1>1, <2>2 DEF Values, TextOf, Word
  <2> HIDE DEF values
  <2>5. fine <=> FineUse(argv, it)
      BY <2>2, <2>4, MatchIsOne DEF FineUse
  <2>6. CASE ~fine
    <3>1. ~WellFormed(argv)
        BY <2>2, <2>3, <2>5, <2>6 DEF WellFormed, FineUse
    <3> QED
        BY <1>1, <2>1, <2>2, <2>6, <3>1 DEF ParserInv, ParserTypeOK, values
  <2>7. CASE fine
    <3> DEFINE next == it + (IF argv[it].joined = <<>> THEN 2 ELSE 1)
    <3>1. /\ it' = next /\ status' = status /\ matched' = matched \cup {flag}
          /\ value' = [value EXCEPT ![flag] = Read(flag, TextOf(argv, it), @)]
        BY <2>1, <2>2, <2>4, <2>7 DEF values
    <3>2. /\ next \in {it + 1, it + 2} /\ next \in 1 .. Len(argv) + 1
          /\ it + 1 < next => it + 1 \in 1 .. Len(argv) /\ it + 1 \notin Uses(argv)
          /\ next <= Len(argv) => next \in Uses(argv)
      <4>1. CASE argv[it].joined # <<>>
        <5>1. next = it + 1
            BY <4>1
        <5> HIDE DEF next
        <5> QED
            BY <1>1, <1>2, <2>2, <4>1, <5>1
      <4>2. CASE argv[it].joined = <<>>
        <5>1. next = it + 2 /\ it + 1 \in 1 .. Len(argv)
            BY <1>1, <2>2, <2>4, <2>7, <4>2
        <5>2. it + 1 \notin Uses(argv)
            BY <1>1, <1>2, <2>2, <2>3, <4>2, <5>1
        <5>3. it + 2 <= Len(argv) => it + 2 \in Uses(argv)
          <6> SUFFICES ASSUME it + 2 <= Len(argv) PROVE it + 2 \in Uses(argv)
              OBVIOUS
          <6>1. it + 2 \in 1 .. Len(argv) /\ (it + 2) - 1 = it + 1
              BY <1>1
          <6> QED
              BY <1>2, <5>2, <6>1
        <5> HIDE DEF next
        <5> QED
            BY <1>1, <2>2, <5>1, <5>2, <5>3
      <4> QED
          BY <4>1, <4>2
    <3> HIDE DEF next
    <3>3. ReadBefore(argv, next, terminated)
        BY <1>1, <1>2, <2>2, <2>5, <2>7, <3>2 DEF ReadBefore
    <3>4. \A g \in Flags : Knows(argv, next, g, matched \cup {flag},
                                IF g = flag THEN Read(flag, TextOf(argv, it), value[g])
                                ELSE value[g])
      <4> SUFFICES ASSUME NEW g \in Flags
                   PROVE  Knows(argv, next, g, matched \cup {flag},
                                IF g = flag THEN Read(flag, TextOf(argv, it), value[g])
                                ELSE value[g])
          OBVIOUS
      <4>1. Knows(argv, it, g, matched, value[g])
          BY <1>1
      <4>2. Len(argv) \in Nat /\ it \in Uses(argv) /\ IsFlag(argv[it])
          BY <1>1, <2>2, <2>3
      <4>3. next \in {it + 1, it + 2} /\ (it + 1 < next => it + 1 \notin Uses(argv))
          BY <3>2
      <4>4. flag \in Match(argv[it])
          BY <2>2
      <4> QED
          BY <4>1, <4>2, <4>3, <4>4, ReadFlag
    <3>5. \A g \in Flags : value'[g] = IF g = flag THEN Read(flag, TextOf(argv, it), value[g])
                                      ELSE value[g]
        BY <1>1, <2>2, <3>1
    <3>6. /\ value' = [g \in Flags |-> value'[g]]
        BY <1>1, <2>2, <3>1
    <3> QED
        BY <1>1, <2>2, <3>1, <3>2, <3>3, <3>4, <3>5, <3>6 DEF ParserInv, ParserTypeOK
  <2> QED
      BY <2>6, <2>7
<1> QED
    BY <1>3, <1>4, <1>5, <1>6 DEF Parse

\* At the end of the line the parser knows what the line means
LEMMA MeaningOf ==
    ASSUME NEW words, Len(words) \in Nat, NEW n, n = Len(words) + 1, NEW flag, NEW given, NEW val,
           Knows(words, n, flag, given, val)
    PROVE  /\ flag \in given <=> flag \in DOMAIN Meaning(words)
           /\ flag \in given => val = Meaning(words)[flag]
           /\ flag \notin given => val = Default[flag]
<1> DEFINE uses == {i \in Uses(words) : IsFlag(words[i])}
           said(g) == {i \in uses : /\ g \in Match(words[i])
                                    /\ Type(g) = "string" \/ TextOf(words, i).is # "empty"}
           last(g) == CHOOSE i \in said(g) : \A j \in said(g) : j <= i
<1>1. Meaning(words) = [g \in UNION {Match(words[i]) : i \in uses} |->
                            IF said(g) = {} THEN Default[g]
                            ELSE Read(g, TextOf(words, last(g)), Default[g])]
    BY DEF Meaning
<1>2. Len(words) \in Nat /\ Uses(words) \subseteq 1 .. Len(words)
    BY UsesOfWords
<1>3. Given(words, n, flag) = {i \in uses : flag \in Match(words[i])}
    BY <1>2 DEF Given
<1>4. said(flag) = Said(words, n, flag)
    BY <1>3 DEF Said
<1>5. said(flag) \subseteq Nat
    BY <1>2
<1>6. ASSUME NEW k \in said(flag), \A i \in said(flag) : i <= k PROVE last(flag) = k
  <2>1. \A i \in said(flag) : (\A j \in said(flag) : j <= i) <=> i = k
      BY <1>5, <1>6
  <2> HIDE DEF said
  <2> QED
      BY <2>1, Zenon
<1>7. flag \in DOMAIN Meaning(words) <=> Given(words, n, flag) # {}
    BY <1>1, <1>3
<1>8. flag \in DOMAIN Meaning(words) =>
            Meaning(words)[flag] = IF said(flag) = {} THEN Default[flag]
                                   ELSE Read(flag, TextOf(words, last(flag)), Default[flag])
    BY <1>1
<1>9. Given(words, n, flag) = {} => Said(words, n, flag) = {}
    BY DEF Said
<1> HIDE DEF said, last
<1>10. CASE Said(words, n, flag) = {} /\ val = Default[flag]
    BY <1>4, <1>7, <1>8, <1>10 DEF Knows
<1>11. CASE \E k \in Said(words, n, flag) :
              /\ \A i \in Said(words, n, flag) : i <= k
              /\ val = Read(flag, TextOf(words, k), Default[flag])
    BY <1>4, <1>6, <1>7, <1>8, <1>9, <1>11 DEF Knows
<1> QED
    BY <1>10, <1>11 DEF Knows

LEMMA ParserEnds == ParserInv => ParsedAsWritten
<1> SUFFICES ASSUME ParserInv, status = "parsed"
             PROVE  /\ WellFormed(argv)
                    /\ matched = DOMAIN Meaning(argv)
                    /\ \A flag \in Flags :
                         value[flag] = IF flag \in matched THEN Meaning(argv)[flag]
                                       ELSE Default[flag]
    BY DEF ParserInv, ParsedAsWritten
<1>1. /\ Len(argv) \in Nat /\ it = Len(argv) + 1 /\ matched \subseteq Flags
      /\ ReadBefore(argv, it, terminated)
      /\ \A flag \in Flags : Knows(argv, it, flag, matched, value[flag])
      /\ Uses(argv) \subseteq 1 .. Len(argv)
    BY UsesOfWords DEF ParserInv, ParserTypeOK
<1>2. WellFormed(argv)
    BY <1>1 DEF WellFormed, ReadBefore, FineUse
<1>3. \A flag \in Flags :
            /\ flag \in matched <=> flag \in DOMAIN Meaning(argv)
            /\ flag \in matched => value[flag] = Meaning(argv)[flag]
            /\ flag \notin matched => value[flag] = Default[flag]
    BY <1>1, MeaningOf
<1>4. DOMAIN Meaning(argv) \subseteq Flags
  <2>1. DOMAIN Meaning(argv) =
            UNION {Match(argv[i]) : i \in {i \in Uses(argv) : IsFlag(argv[i])}}
      BY DEF Meaning
  <2> QED
      BY <2>1, MatchIsOne
<1> QED
    BY <1>1, <1>2, <1>3, <1>4

-----------------------------------------------------------------------------
(* The scripts: the types, and where the program is while the script goes on. *)

HeaderValues == [gc_start : STRING, gc_stop : STRING, gc_slope : STRING,
                 entry_size : Nat \ {0}, pages : Nat]
\* All that params.txt can hold, and the names of logs
SetupValues == {SetupLines(p)[line] : p \in Policies, line \in Lines}
CommonValues == {CommonLines(p, h)[line] : p \in Policies, h \in HeaderValues, line \in Lines}
ParamValues == {"as it was"} \cup SetupValues \cup CommonValues
Bases == {"stdout", "workload", "stats", "rocksdb"} \cup ParamValues
LogName == [base : Bases, stamps : Seq(Nat)]
Run == [hand : BOOLEAN, dir : {<<>>} \cup [header : HeaderValues, policy : Policies],
        params : [Lines -> ParamValues], wrote : SUBSET Bases, minute : Nat, cut : BOOLEAN]
Last == runs[Len(runs)]
Awaited == {"wait", "timestamp", "stamp", "file"}

ProcessInv ==
    /\ ParserInv
    /\ phase \in {"none", "parsing", "configuring", "opening", "replaying"}
    /\ DOMAIN env = DOMAIN NewDBEnv
    /\ options # <<>> <=> phase \in {"opening", "replaying"}

ScriptTypeOK ==
    /\ params \in [Lines -> ParamValues]
    /\ script \in {"off", "clean", "setup", "common", "eval"} \cup Awaited
    /\ script # "off" => list \in Seq(Policies) /\ ith \in 1 .. Len(list) /\ header \in HeaderValues
    /\ minute \in Nat
    /\ runs \in Seq(Run)
    /\ DOMAIN cwd \subseteq LogName /\ todo \subseteq DOMAIN cwd
    /\ \A log \in DOMAIN cwd : cwd[log] \in 1 .. Len(runs)
    /\ \A name \in DOMAIN filed : filed[name] \in 1 .. Len(runs)
    /\ LOG \in 0 .. Len(runs)

\* A program runs by hand while the script is off, or while it is awaited; and what
\* the last run is then
LoopInv ==
    /\ Running => script = "wait" \/ (script = "off" /\ runs # <<>> /\ Last.hand)
    /\ script \in Awaited => runs # <<>> /\ ~Last.hand /\ ~Last.cut /\ Last.dir = Dir
    /\ script \in {"stamp", "file"} => Last.minute = minute
    /\ script = "file" => todo = DOMAIN cwd
    /\ script \in {"eval", "wait"} => params.logname = policy.name

LEMMA OptionsGiven ==
    ASSUME NEW e, NEW cache PROVE ConfigOptions(e, cache) # <<>>
<1> DEFINE parts == <<
        [name \in CopiedOptions \cup CopiedTableOptions \cup CopiedCallOptions |-> e[name]],
        SizeOptions(e), SwitchedOptions(e), LevelOptions(e), CacheOptions(e, cache),
        StatsOptions(e), [fs |-> e.fs_uri]>>
<1>1. 7 \in DOMAIN parts /\ "fs" \in DOMAIN parts[7]
    OBVIOUS
<1>2. ConfigOptions(e, cache) = Joined(parts)
    BY DEF ConfigOptions
<1> HIDE DEF parts
<1>3. "fs" \in DOMAIN ConfigOptions(e, cache)
    BY <1>1, <1>2 DEF Joined
<1>4. DOMAIN <<>> = {}
    OBVIOUS
<1> QED
    BY <1>3, <1>4

\* The steps that leave the parser alone, and those that put it away
LEMMA ParserIdle ==
    ASSUME ParserInv, Len(argv') \in Nat, it' = 1, matched' = {}, value' = Default, status' = "idle"
    PROVE  ParserInv'
BY DEF ParserInv, ParserTypeOK, Default

LEMMA ParserCalled ==
    ASSUME NEW words, Len(words) \in Nat, ParseCLI(words)
    PROVE  ParserInv'
<1>1. /\ argv' = words /\ it' = 1 /\ ~terminated' /\ matched' = {} /\ value' = Default
      /\ status' = "parsing"
    BY DEF ParseCLI
<1>2. /\ ReadBefore(words, 1, terminated')
      /\ \A flag \in Flags : Knows(words, 1, flag, {}, Default[flag])
    BY <1>1, ParserStarts
<1>3. ParserTypeOK'
    BY <1>1 DEF ParserTypeOK, Default
<1> QED
    BY <1>1, <1>2, <1>3 DEF ParserInv

LEMMA ProcessExit == ProcessInv /\ Exit => ProcessInv'
<1> SUFFICES ASSUME ProcessInv, Exit PROVE ProcessInv'
    OBVIOUS
<1>1. Len(<<>>) \in Nat
    OBVIOUS
<1>2. ParserInv'
    BY <1>1, ParserIdle DEF ProcessInv, Exit
<1> QED
    BY <1>2 DEF ProcessInv, Exit

LEMMA ProcessStep ==
    ASSUME ProcessInv, ScriptTypeOK, [ExperimentNext]_experimentVars
    PROVE  ProcessInv'
<1>1. CASE UNCHANGED settingsVars
    BY <1>1 DEF settingsVars, parserVars, ProcessInv, ParserInv, ParserTypeOK
<1>2. CASE Exit
    BY <1>2, ProcessExit
<1>3. ASSUME NEW words, Len(words) \in Nat, Main(words) PROVE ProcessInv'
  <2>1. ParserInv'
      BY <1>3, ParserCalled DEF Main
  <2> QED
      BY <1>3, <2>1 DEF Main, ProcessInv
<1>4. CASE ParseStep
    BY <1>4, ParserStep DEF ParseStep, ProcessInv
<1>5. CASE AcceptArguments
  <2>1. ParserInv'
      BY <1>5, ParserIdle DEF AcceptArguments, ProcessInv, ParserInv, ParserTypeOK
  <2> QED
      BY <1>5, <2>1 DEF AcceptArguments, ProcessInv, CopyArguments
<1>6. CASE configOptions
  <2>1. options' # <<>>
      BY <1>6, OptionsGiven DEF configOptions
  <2> QED
      BY <1>6, <2>1 DEF configOptions, ProcessInv, parserVars, ParserInv, ParserTypeOK
<1>7. CASE OpenLogs
    BY <1>7 DEF OpenLogs, ProcessInv, parserVars, ParserInv, ParserTypeOK
<1>8. CASE ProgramStep
    BY <1>2, <1>4, <1>5, <1>6, <1>7, <1>8 DEF ProgramStep, MountAndConfigure, RefuseArguments,
       CreateFromUriFails, EndReplay
<1>9. CASE Eval
  <2>1. Len(run_wld(header)) \in Nat
      BY DEF run_wld
  <2> QED
      BY <1>3, <1>9, <2>1 DEF Eval
<1>10. ASSUME NEW words \in HandLines, TypeByHand(words) PROVE ProcessInv'
    BY <1>3, <1>10, ExperimentAssumption DEF TypeByHand
<1>11. CASE ScriptStep \/ Start
    BY <1>1, <1>9, <1>11 DEF ScriptStep, Clean, Setup, Common, CollectLOG, Timestamp, Stamp,
       StartFiling, File, NextPolicy, Start
<1>12. CASE Interrupt
    BY <1>2, <1>12 DEF Interrupt
<1>13. CASE UNCHANGED experimentVars
    BY <1>1, <1>13 DEF experimentVars
<1> QED
    BY <1>8, <1>10, <1>11, <1>12, <1>13 DEF ExperimentNext

-----------------------------------------------------------------------------
LEMMA LinesOfPolicy ==
    ASSUME NEW p \in Policies, NEW lines, params \in [Lines -> ParamValues],
           \/ lines = SetupLines(p)
           \/ \E h \in HeaderValues : lines = CommonLines(p, h)
    PROVE  Edited(lines) \in [Lines -> ParamValues]
<1>1. ASSUME NEW line \in Lines PROVE lines[line] \in ParamValues
  <2>1. SetupLines(p)[line] \in SetupValues
      BY DEF SetupValues
  <2>2. \A h \in HeaderValues : CommonLines(p, h)[line] \in CommonValues
      BY DEF CommonValues
  <2> QED
      BY <2>1, <2>2 DEF ParamValues
<1> QED
    BY <1>1 DEF Edited

\* Both commands set logname
LEMMA NameIsSet ==
    ASSUME NEW p, NEW h
    PROVE  Edited(CommonLines(p, h)).logname = p.name
<1> DEFINE parts == <<
        [logname |-> p.name, gc_start_level |-> h.gc_start],
        IF h.gc_stop # "no" THEN [gc_stop_level |-> h.gc_stop] ELSE <<>>,
        IF h.gc_slope # "no" THEN [gc_slope |-> h.gc_slope, gc_type |-> "kDefaultGC"]
        ELSE IF h.gc_stop # "no" THEN [gc_type |-> "kImprovedGC"] ELSE <<>> >>
<1>1. DOMAIN parts = {1, 2, 3}
    OBVIOUS
<1>2. "logname" \in DOMAIN parts[1] /\ parts[1].logname = p.name
    OBVIOUS
<1>3. "logname" \notin DOMAIN parts[2] /\ "logname" \notin DOMAIN parts[3]
    OBVIOUS
<1>4. CommonLines(p, h) = Joined(parts)
    BY DEF CommonLines
<1> HIDE DEF parts
<1>5. \A i \in DOMAIN parts : "logname" \in DOMAIN parts[i] <=> i = 1
    BY <1>1, <1>2, <1>3
<1>6. (CHOOSE i \in DOMAIN parts : "logname" \in DOMAIN parts[i]) = 1
    BY <1>1, <1>5
<1>7. "logname" \in DOMAIN Joined(parts) /\ Joined(parts).logname = p.name
    BY <1>1, <1>2, <1>6 DEF Joined
<1> QED
    BY <1>4, <1>7 DEF Edited, Lines

\* What a run writes is its own, and says so
LEMMA WriteEffect ==
    ASSUME runs \in Seq(Run), runs # <<>>, NEW bases \in SUBSET Bases, Write(bases)
    PROVE  /\ runs' \in Seq(Run) /\ Len(runs') = Len(runs) /\ Len(runs) \in Nat \ {0}
           /\ \A r \in 1 .. Len(runs) : r # Len(runs) => runs'[r] = runs[r]
           /\ Last' = [Last EXCEPT !.wrote = @ \cup bases] /\ Last \in Run
           /\ DOMAIN cwd' = DOMAIN cwd \cup {Log(base, <<>>) : base \in bases}
           /\ \A base \in bases : cwd'[Log(base, <<>>)] = Len(runs)
           /\ \A log \in DOMAIN cwd : cwd'[log] \in {cwd[log], Len(runs)}
<1>1. Len(runs) \in Nat \ {0} /\ Last \in Run
    BY DEF Last
<1>2. [Last EXCEPT !.wrote = @ \cup bases] \in Run
    BY <1>1 DEF Run
<1>3. runs' = [runs EXCEPT ![Len(runs)] = [Last EXCEPT !.wrote = @ \cup bases]]
    BY DEF Write, Last
<1>4. /\ runs' \in Seq(Run) /\ Len(runs') = Len(runs)
      /\ \A r \in 1 .. Len(runs) : r # Len(runs) => runs'[r] = runs[r]
      /\ Last' = [Last EXCEPT !.wrote = @ \cup bases]
  <2> DEFINE run == [Last EXCEPT !.wrote = @ \cup bases]
  <2>1. runs' = [runs EXCEPT ![Len(runs)] = run] /\ run \in Run
      BY <1>2, <1>3
  <2> HIDE DEF run
  <2>2. /\ runs' \in Seq(Run) /\ Len(runs') = Len(runs)
        /\ \A r \in 1 .. Len(runs) : r # Len(runs) => runs'[r] = runs[r]
        /\ runs'[Len(runs)] = run
      BY <1>1, <2>1
  <2> QED
      BY <2>2 DEF Last, run
<1> DEFINE opened == {Log(base, <<>>) : base \in bases}
<1>5. cwd' = [log \in DOMAIN cwd \cup opened |-> IF log \in opened THEN Len(runs) ELSE cwd[log]]
    BY DEF Write
<1>6. \A base \in bases : Log(base, <<>>) \in opened
    OBVIOUS
<1> HIDE DEF opened
<1>7. /\ DOMAIN cwd' = DOMAIN cwd \cup opened
      /\ \A base \in bases : cwd'[Log(base, <<>>)] = Len(runs)
      /\ \A log \in DOMAIN cwd : cwd'[log] \in {cwd[log], Len(runs)}
    BY <1>5, <1>6
<1> QED
    BY <1>1, <1>4, <1>7 DEF opened

\* The files that a program writes while it runs
LEMMA ProgramEffect ==
    ASSUME ScriptTypeOK, ProgramStep
    PROVE  /\ Running
           /\ UNCHANGED <<params, script, list, header, ith, todo, minute, filed>>
           /\ \/ UNCHANGED <<cwd, runs, LOG>>
              \/ /\ \E bases \in SUBSET {params.logname, "workload", "stats"} : Write(bases)
                 /\ LOG' \in {LOG, Len(runs)}
<1>1. CASE UNCHANGED scriptVars /\ Running
    BY <1>1 DEF scriptVars
<1>2. CASE MountAndConfigure
    BY <1>2 DEF MountAndConfigure, configOptions, Running
<1>3. CASE OpenLogs
    BY <1>3 DEF OpenLogs, Running
<1> QED
    BY <1>1, <1>2, <1>3 DEF ProgramStep, ParseStep, RefuseArguments, AcceptArguments,
       CreateFromUriFails, EndReplay, Running

LEMMA TypeStep ==
    ASSUME ScriptTypeOK, LoopInv, [ExperimentNext]_experimentVars
    PROVE  ScriptTypeOK' /\ LoopInv'
<1>1. Len(runs) \in Nat
    BY DEF ScriptTypeOK
<1>2. CASE UNCHANGED experimentVars
    BY <1>2 DEF experimentVars, scriptVars, settingsVars, ScriptTypeOK, LoopInv, Running, Last,
       Dir, policy
<1>3. CASE ProgramStep
  <2>1. /\ Running /\ runs # <<>>
        /\ script = "wait" \/ (script = "off" /\ Last.hand)
        /\ UNCHANGED <<params, script, list, header, ith, todo, minute, filed>>
      BY <1>3, ProgramEffect DEF LoopInv, Awaited
  <2>2. CASE UNCHANGED <<cwd, runs, LOG>>
      BY <1>1, <2>1, <2>2 DEF ScriptTypeOK, LoopInv, Last, Dir, policy
  <2>3. ASSUME NEW bases \in SUBSET {params.logname, "workload", "stats"}, Write(bases),
               LOG' \in {LOG, Len(runs)}
        PROVE  ScriptTypeOK' /\ LoopInv'
    <3>1. bases \in SUBSET Bases
        BY DEF ScriptTypeOK, Bases, Lines
    <3>2. /\ runs' \in Seq(Run) /\ Len(runs') = Len(runs) /\ Len(runs) \in Nat \ {0}
          /\ Last' = [Last EXCEPT !.wrote = @ \cup bases] /\ Last \in Run
          /\ DOMAIN cwd' = DOMAIN cwd \cup {Log(base, <<>>) : base \in bases}
          /\ \A base \in bases : cwd'[Log(base, <<>>)] = Len(runs)
          /\ \A log \in DOMAIN cwd : cwd'[log] \in {cwd[log], Len(runs)}
        BY <2>1, <2>3, <3>1, WriteEffect DEF ScriptTypeOK
    <3>3. /\ Last'.hand = Last.hand /\ Last'.cut = Last.cut /\ Last'.dir = Last.dir
        BY <3>2 DEF Run
    <3>4. \A base \in bases : Log(base, <<>>) \in LogName
        BY <3>1 DEF Log, LogName
    <3>5. ScriptTypeOK'
        BY <2>1, <2>3, <3>2, <3>4 DEF ScriptTypeOK
    <3>6. LoopInv'
        BY <2>1, <3>2, <3>3 DEF LoopInv, Dir, policy
    <3> QED
        BY <3>5, <3>6
  <2> QED
      BY <1>3, <2>2, <2>3, ProgramEffect
<1>4. ASSUME NEW words \in HandLines, TypeByHand(words) PROVE ScriptTypeOK' /\ LoopInv'
  <2>1. /\ script = "off" /\ script' = script /\ runs' = Append(runs, NewRun(TRUE))
        /\ UNCHANGED <<params, list, header, ith, todo, minute, cwd, LOG, filed>>
      BY <1>4 DEF TypeByHand
  <2>2. NewRun(TRUE) \in Run /\ NewRun(TRUE).hand
      BY DEF NewRun, Run, ScriptTypeOK
  <2>3. runs' \in Seq(Run) /\ Len(runs') = Len(runs) + 1 /\ runs'[Len(runs) + 1] = NewRun(TRUE)
    <3>1. \A run \in Run : /\ Append(runs, run) \in Seq(Run)
                           /\ Len(Append(runs, run)) = Len(runs) + 1
                           /\ Append(runs, run)[Len(runs) + 1] = run
        BY DEF ScriptTypeOK
    <3> QED
        BY <2>1, <2>2, <3>1
  <2>4. Last' = NewRun(TRUE) /\ runs' # <<>>
      BY <1>1, <2>3 DEF Last
  <2>5. 1 .. Len(runs) \subseteq 1 .. Len(runs') /\ 0 .. Len(runs) \subseteq 0 .. Len(runs')
      BY <1>1, <2>3
  <2>6. ScriptTypeOK'
      BY <2>1, <2>3, <2>5 DEF ScriptTypeOK, Awaited
  <2> QED
      BY <2>1, <2>2, <2>4, <2>6 DEF LoopInv, Awaited
<1>5. CASE Start
  <2>1. PICK heading \in Headings : list' = heading.list /\ header' = heading.header
      BY <1>5 DEF Start
  <2>2. /\ script = "off" /\ script' = "clean" /\ ith' = 1 /\ ~Running /\ phase' = phase
        /\ UNCHANGED <<params, todo, minute, cwd, LOG, filed, runs>>
      BY <1>5 DEF Start, settingsVars
  <2>3. list' \in Seq(Policies) /\ list' # <<>> /\ header' \in HeaderValues
      BY <2>1, ExperimentAssumption DEF HeaderValues
  <2>4. ith' \in 1 .. Len(list')
      BY <2>2, <2>3
  <2> QED
      BY <2>2, <2>3, <2>4 DEF ScriptTypeOK, LoopInv, Awaited, Running
<1>6. CASE Clean \/ Setup \/ Common
  <2>1. /\ script' \in {"setup", "common", "eval"} /\ phase' = phase
        /\ script \in {"clean", "setup", "common"}
        /\ LOG' \in {0, LOG} /\ UNCHANGED <<list, header, ith, todo, minute, cwd, filed, runs>>
      BY <1>6 DEF Clean, Setup, Common, settingsVars
  <2>2. policy \in Policies /\ policy' = policy /\ header \in HeaderValues
      BY <2>1 DEF policy, ScriptTypeOK
  <2>3. params' \in [Lines -> ParamValues]
      BY <1>6, <2>2, LinesOfPolicy DEF Clean, Setup, Common, ScriptTypeOK
  <2>4. script' = "eval" => params'.logname = policy.name
      BY <1>6, NameIsSet DEF Clean, Setup, Common
  <2>5. ScriptTypeOK'
      BY <1>1, <2>1, <2>3 DEF ScriptTypeOK
  <2>6. ~Running'
      BY <2>1 DEF LoopInv, Running
  <2> QED
      BY <2>1, <2>2, <2>4, <2>5, <2>6 DEF LoopInv, Awaited
<1>7. CASE Eval
  <2> DEFINE run == [NewRun(FALSE) EXCEPT !.wrote = {"stdout"}]
             log == Log("stdout", <<>>)
  <2>1. /\ script = "eval" /\ script' = "wait" /\ runs' = Append(runs, run)
        /\ cwd' = Put(cwd, log, Len(runs'))
        /\ UNCHANGED <<params, list, header, ith, todo, minute, LOG, filed>>
      BY <1>7 DEF Eval
  <2>2. policy \in Policies /\ policy' = policy /\ header \in HeaderValues /\ Dir' = Dir
      BY <2>1 DEF policy, Dir, ScriptTypeOK
  <2>3. run \in Run /\ ~run.hand /\ ~run.cut /\ run.dir = Dir
      BY <2>2 DEF NewRun, Run, ScriptTypeOK, Dir, Bases
  <2> HIDE DEF run
  <2>4. runs' \in Seq(Run) /\ Len(runs') = Len(runs) + 1 /\ runs'[Len(runs) + 1] = run
      BY <2>1, <2>3 DEF ScriptTypeOK
  <2>5. Last' = run /\ runs' # <<>>
      BY <1>1, <2>4 DEF Last
  <2>6. log \in LogName
      BY DEF Log, LogName, Bases
  <2> HIDE DEF log
  <2>7. DOMAIN cwd' = DOMAIN cwd \cup {log} /\ \A f \in DOMAIN cwd' : cwd'[f] \in 1 .. Len(runs')
      BY <1>1, <2>1, <2>4 DEF Put, ScriptTypeOK
  <2>8. ScriptTypeOK'
      BY <1>1, <2>1, <2>4, <2>6, <2>7 DEF ScriptTypeOK, Awaited
  <2> QED
      BY <2>1, <2>2, <2>3, <2>5, <2>8 DEF LoopInv, Awaited
<1>8. CASE CollectLOG
  <2>1. /\ script = "wait" /\ script' = "timestamp" /\ ~Running /\ phase' = phase /\ LOG' = 0
        /\ UNCHANGED <<params, list, header, ith, todo, minute, filed>> /\ runs # <<>>
      BY <1>8 DEF CollectLOG, settingsVars, LoopInv, Awaited
  <2>2. Dir' = Dir /\ policy' = policy
      BY <2>1 DEF Dir, policy
  <2>3. CASE UNCHANGED <<cwd, runs>>
      BY <1>1, <2>1, <2>2, <2>3 DEF ScriptTypeOK, LoopInv, Last, Awaited, Running
  <2>4. CASE Write({"rocksdb"})
    <3>1. {"rocksdb"} \in SUBSET Bases
        BY DEF Bases
    <3>2. /\ runs' \in Seq(Run) /\ Len(runs') = Len(runs) /\ Len(runs) \in Nat \ {0}
          /\ Last' = [Last EXCEPT !.wrote = @ \cup {"rocksdb"}] /\ Last \in Run
          /\ DOMAIN cwd' = DOMAIN cwd \cup {Log(base, <<>>) : base \in {"rocksdb"}}
          /\ \A base \in {"rocksdb"} : cwd'[Log(base, <<>>)] = Len(runs)
          /\ \A log \in DOMAIN cwd : cwd'[log] \in {cwd[log], Len(runs)}
        BY <2>1, <2>4, <3>1, WriteEffect DEF ScriptTypeOK
    <3>3. /\ Last'.hand = Last.hand /\ Last'.cut = Last.cut /\ Last'.dir = Last.dir
        BY <3>2 DEF Run
    <3>4. Log("rocksdb", <<>>) \in LogName
        BY DEF Log, LogName, Bases
    <3>5. ScriptTypeOK'
        BY <2>1, <3>2, <3>4 DEF ScriptTypeOK, Awaited
    <3>6. LoopInv'
        BY <2>1, <2>2, <3>2, <3>3 DEF LoopInv, Awaited, Running
    <3> QED
        BY <3>5, <3>6
  <2> QED
      BY <1>8, <2>3, <2>4 DEF CollectLOG
<1>9. CASE Timestamp
  <2>1. /\ script = "timestamp" /\ script' = "stamp" /\ phase' = phase /\ runs # <<>>
        /\ minute' \in minute .. MaxMinute /\ todo' = DOMAIN cwd
        /\ runs' = [runs EXCEPT ![Len(runs)].minute = minute']
        /\ UNCHANGED <<params, list, header, ith, cwd, LOG, filed>>
      BY <1>9 DEF Timestamp, settingsVars, LoopInv, Awaited
  <2>2. minute' \in Nat
      BY <2>1, ExperimentAssumption DEF ScriptTypeOK
  <2>3. Dir' = Dir /\ policy' = policy
      BY <2>1 DEF Dir, policy
  <2>4. Last \in Run /\ Len(runs) \in Nat \ {0}
      BY <1>1, <2>1 DEF Last, ScriptTypeOK
  <2>5. [Last EXCEPT !.minute = minute'] \in Run
      BY <2>2, <2>4 DEF Run
  <2>6. runs' = [runs EXCEPT ![Len(runs)] = [Last EXCEPT !.minute = minute']]
      BY <2>1 DEF Last
  <2>7. /\ runs' \in Seq(Run) /\ Len(runs') = Len(runs)
        /\ Last' = [Last EXCEPT !.minute = minute']
      BY <2>4, <2>5, <2>6 DEF Last, ScriptTypeOK
  <2>8. /\ Last'.minute = minute' /\ Last'.hand = Last.hand /\ Last'.cut = Last.cut
        /\ Last'.dir = Last.dir
      BY <2>4, <2>7 DEF Run
  <2>9. ScriptTypeOK'
      BY <2>1, <2>2, <2>7 DEF ScriptTypeOK, Awaited
  <2>10. ~Running' /\ runs' # <<>>
      BY <2>1, <2>4, <2>7 DEF LoopInv, Running
  <2> QED
      BY <2>1, <2>3, <2>8, <2>9, <2>10 DEF LoopInv, Awaited
<1>10. CASE Stamp
  <2> DEFINE log == First(todo)
             stamped == Log(log.base, Append(log.stamps, minute))
  <2>1. /\ script = "stamp" /\ script' = script /\ phase' = phase /\ todo # {}
        /\ cwd' = Put(Without(cwd, log), stamped, cwd[log]) /\ todo' = todo \ {log}
        /\ UNCHANGED <<params, list, header, ith, minute, LOG, filed, runs>>
      BY <1>10 DEF Stamp, settingsVars
  <2>2. log \in todo /\ log \in DOMAIN cwd /\ log \in LogName
      BY <2>1 DEF First, ScriptTypeOK
  <2>3. stamped \in LogName
      BY <2>2 DEF Log, LogName, ScriptTypeOK
  <2> HIDE DEF log, stamped
  <2>4. /\ DOMAIN cwd' = (DOMAIN cwd \ {log}) \cup {stamped}
        /\ \A f \in DOMAIN cwd' : cwd'[f] \in 1 .. Len(runs)
      BY <2>1, <2>2 DEF Put, Without, ScriptTypeOK
  <2>5. ScriptTypeOK'
      BY <2>1, <2>3, <2>4 DEF ScriptTypeOK
  <2> QED
      BY <2>1, <2>5 DEF LoopInv, Last, Dir, policy, Running, Awaited
<1>11. CASE StartFiling
  <2>1. /\ script = "stamp" /\ script' = "file" /\ phase' = phase /\ todo' = DOMAIN cwd
        /\ UNCHANGED <<params, list, header, ith, minute, cwd, LOG, filed, runs>>
      BY <1>11 DEF StartFiling, settingsVars
  <2> QED
      BY <2>1 DEF ScriptTypeOK, LoopInv, Last, Dir, policy, Running, Awaited
<1>12. CASE File
  <2> DEFINE log == First(todo)
             name == [dir |-> Dir, log |-> log]
  <2>1. /\ script = "file" /\ script' = script /\ phase' = phase /\ todo # {}
        /\ filed' = Put(filed, name, cwd[log])
        /\ cwd' = Without(cwd, log) /\ todo' = todo \ {log}
        /\ UNCHANGED <<params, list, header, ith, minute, LOG, runs>>
      BY <1>12 DEF File, settingsVars
  <2>2. log \in todo /\ log \in DOMAIN cwd
      BY <2>1 DEF First, ScriptTypeOK
  <2> HIDE DEF log, name
  <2>3. /\ DOMAIN cwd' = DOMAIN cwd \ {log} /\ \A f \in DOMAIN cwd' : cwd'[f] = cwd[f]
        /\ \A f \in DOMAIN filed' : filed'[f] \in 1 .. Len(runs)
      BY <2>1, <2>2 DEF Put, Without, ScriptTypeOK
  <2>4. todo = DOMAIN cwd
      BY <2>1 DEF LoopInv
  <2>5. ScriptTypeOK'
      BY <2>1, <2>3, <2>4 DEF ScriptTypeOK
  <2> QED
      BY <2>1, <2>3, <2>4, <2>5 DEF LoopInv, Last, Dir, policy, Running, Awaited
<1>13. CASE NextPolicy
  <2>1. /\ script = "file" /\ phase' = phase
        /\ IF ith < Len(list) THEN ith' = ith + 1 /\ script' = "clean"
                              ELSE ith' = ith /\ script' = "off"
        /\ UNCHANGED <<params, list, header, todo, minute, cwd, LOG, filed, runs>>
      BY <1>13 DEF NextPolicy, settingsVars
  <2>2. list \in Seq(Policies) /\ Len(list) \in Nat /\ ith \in 1 .. Len(list)
      BY <2>1 DEF ScriptTypeOK
  <2>3. script' \in {"clean", "off"} /\ ith' \in 1 .. Len(list)
      BY <2>1, <2>2
  <2>4. ~Running'
      BY <2>1 DEF LoopInv, Running
  <2> QED
      BY <2>1, <2>2, <2>3, <2>4 DEF ScriptTypeOK, LoopInv, Awaited
<1>14. CASE Interrupt
  <2>1. /\ script' = "off" /\ todo' = {} /\ phase' = "none"
        /\ runs' = IF script \in {"clean", "setup", "common", "eval"} THEN runs
                   ELSE [runs EXCEPT ![Len(runs)].cut = TRUE]
        /\ script # "off" /\ UNCHANGED <<params, list, header, ith, minute, cwd, LOG, filed>>
      BY <1>14 DEF Interrupt, Exit
  <2>2. runs' \in Seq(Run) /\ Len(runs') = Len(runs)
    <3>1. CASE script \in {"clean", "setup", "common", "eval"}
        BY <2>1, <3>1 DEF ScriptTypeOK
    <3>2. CASE script \in Awaited
      <4>1. Last \in Run /\ Len(runs) \in Nat \ {0}
          BY <1>1, <3>2 DEF Last, ScriptTypeOK, LoopInv
      <4>2. [Last EXCEPT !.cut = TRUE] \in Run
          BY <4>1 DEF Run
      <4>3. runs' = [runs EXCEPT ![Len(runs)] = [Last EXCEPT !.cut = TRUE]]
          BY <2>1, <3>2 DEF Last, Awaited
      <4> QED
          BY <4>1, <4>2, <4>3 DEF ScriptTypeOK
    <3> QED
        BY <2>1, <3>1, <3>2 DEF ScriptTypeOK
  <2> QED
      BY <2>1, <2>2 DEF ScriptTypeOK, LoopInv, Running, Awaited
<1> QED
    BY <1>2, <1>3, <1>4, <1>5, <1>6, <1>7, <1>8, <1>9, <1>10, <1>11, <1>12, <1>13, <1>14
       DEF ExperimentNext, ScriptStep

-----------------------------------------------------------------------------
(* The logs: where those lie that a run did not take with it.              *)

Lost(r) == runs[r].hand \/ runs[r].cut

\* The runs that are over
Past == IF script \in Awaited THEN Len(runs) - 1 ELSE Len(runs)

\* A log in the working directory is of the run that is awaited, or all runs from its
\* own on were by hand or cut
Leftovers == \A log \in DOMAIN cwd : \A q \in cwd[log] .. Past : Lost(q)

\* A run keeps what it is, and all of it once the script is past it
RunsKept ==
    /\ Len(runs') \in {Len(runs), Len(runs) + 1}
    /\ \A r \in 1 .. Len(runs) :
        /\ runs'[r].hand = runs[r].hand /\ runs'[r].dir = runs[r].dir
        /\ runs'[r].params = runs[r].params
        /\ runs[r].cut => runs'[r].cut
        /\ runs'[r].minute = runs[r].minute \/ (script = "timestamp" /\ r = Len(runs))
        /\ r <= Past /\ ~runs[r].hand => runs'[r] = runs[r]

LEMMA LastChanges ==
    ASSUME ScriptTypeOK, runs # <<>>, script \in Awaited \/ Last.hand, NEW run \in Run,
           run.hand = Last.hand, run.dir = Last.dir, run.params = Last.params,
           Last.cut => run.cut, run.minute = Last.minute \/ script = "timestamp",
           runs' = [runs EXCEPT ![Len(runs)] = run]
    PROVE  RunsKept
<1>1. Len(runs) \in Nat \ {0} /\ runs \in Seq(Run)
    BY DEF ScriptTypeOK
<1>2. Len(runs') = Len(runs) /\ runs'[Len(runs)] = run
    BY <1>1
<1>3. \A r \in 1 .. Len(runs) : r # Len(runs) => runs'[r] = runs[r]
    BY <1>1
<1>4. script \in Awaited => ~(Len(runs) <= Past)
    BY <1>1 DEF Past
<1> QED
    BY <1>2, <1>3, <1>4 DEF RunsKept, Last

LEMMA WritingKeepsRuns ==
    ASSUME ScriptTypeOK, runs # <<>>, script \in Awaited \/ Last.hand,
           NEW bases \in SUBSET Bases, Write(bases)
    PROVE  RunsKept
<1> DEFINE run == [Last EXCEPT !.wrote = @ \cup bases]
<1>1. Last \in Run
    BY DEF ScriptTypeOK, Last
<1>2. run \in Run /\ run.hand = Last.hand /\ run.dir = Last.dir /\ run.cut = Last.cut
      /\ run.minute = Last.minute /\ run.params = Last.params
    BY <1>1 DEF Run
<1>3. runs' = [runs EXCEPT ![Len(runs)] = run]
    BY DEF Write, Last
<1> HIDE DEF run
<1> QED
    BY <1>2, <1>3, LastChanges

LEMMA RunsStep ==
    ASSUME ScriptTypeOK, LoopInv, [ExperimentNext]_experimentVars
    PROVE  RunsKept
<1>1. Len(runs) \in Nat /\ runs \in Seq(Run) /\ \A r \in 1 .. Len(runs) : runs[r] \in Run
    BY DEF ScriptTypeOK
<1>2. CASE runs' = runs
    BY <1>1, <1>2 DEF RunsKept
<1>3. ASSUME NEW run, runs' = Append(runs, run) PROVE RunsKept
    BY <1>1, <1>3 DEF RunsKept
<1>4. CASE ProgramStep
  <2>1. runs # <<>> /\ (script \in Awaited \/ Last.hand)
      BY <1>4, ProgramEffect DEF LoopInv, Awaited
  <2>2. {params.logname, "workload", "stats"} \subseteq Bases
      BY DEF ScriptTypeOK, Bases, Lines
  <2> QED
      BY <1>2, <1>4, <2>1, <2>2, ProgramEffect, WritingKeepsRuns
<1>5. CASE CollectLOG
  <2>1. runs # <<>> /\ script \in Awaited /\ {"rocksdb"} \subseteq Bases
      BY <1>5 DEF CollectLOG, LoopInv, Awaited, Bases
  <2> QED
      BY <1>2, <1>5, <2>1, WritingKeepsRuns DEF CollectLOG
<1>6. CASE Timestamp
  <2> DEFINE run == [Last EXCEPT !.minute = minute']
  <2>1. runs # <<>> /\ script = "timestamp" /\ script \in Awaited /\ minute' \in Nat
      BY <1>6, ExperimentAssumption DEF Timestamp, LoopInv, Awaited, ScriptTypeOK
  <2>2. Last \in Run
      BY <2>1 DEF ScriptTypeOK, Last
  <2>3. run \in Run /\ run.hand = Last.hand /\ run.dir = Last.dir /\ run.cut = Last.cut
        /\ run.params = Last.params
      BY <2>1, <2>2 DEF Run
  <2>4. runs' = [runs EXCEPT ![Len(runs)] = run]
      BY <1>6 DEF Timestamp, Last
  <2> HIDE DEF run
  <2> QED
      BY <2>1, <2>3, <2>4, LastChanges
<1>7. CASE Interrupt
  <2> DEFINE run == [Last EXCEPT !.cut = TRUE]
  <2>1. CASE script \in {"clean", "setup", "common", "eval"}
      BY <1>2, <1>7, <2>1 DEF Interrupt
  <2>2. CASE script \notin {"clean", "setup", "common", "eval"}
    <3>1. runs # <<>> /\ script \in Awaited
        BY <1>7, <2>2 DEF Interrupt, LoopInv, ScriptTypeOK
    <3>2. Last \in Run
        BY <3>1 DEF ScriptTypeOK, Last
    <3>3. run \in Run /\ run.hand = Last.hand /\ run.dir = Last.dir /\ run.cut
          /\ run.minute = Last.minute /\ run.params = Last.params
        BY <3>2 DEF Run
    <3>4. runs' = [runs EXCEPT ![Len(runs)] = run]
        BY <1>7, <2>2 DEF Interrupt, Last
    <3> HIDE DEF run
    <3> QED
        BY <3>1, <3>3, <3>4, LastChanges
  <2> QED
      BY <2>1, <2>2
<1>8. CASE ScriptStep \/ Start \/ (\E words \in HandLines : TypeByHand(words)) \/ UNCHANGED experimentVars
    BY <1>2, <1>3, <1>5, <1>6, <1>8 DEF ScriptStep, Start, Clean, Setup, Common, Eval, Stamp,
       StartFiling, File, NextPolicy, TypeByHand, experimentVars, scriptVars
<1> QED
    BY <1>4, <1>7, <1>8 DEF ExperimentNext

\* A log in a directory stays where it belongs
LEMMA FiledKept ==
    ASSUME ScriptTypeOK, RunsKept, FiledWhereItBelongs, filed' = filed
    PROVE  FiledWhereItBelongs'
<1> SUFFICES ASSUME NEW name \in DOMAIN filed
             PROVE  \E r \in filed[name] .. Len(runs') :
                        /\ runs'[r].dir = name.dir
                        /\ \A q \in filed[name] .. r - 1 : runs'[q].hand \/ runs'[q].cut
    BY DEF FiledWhereItBelongs
<1>1. filed[name] \in 1 .. Len(runs) /\ Len(runs) \in Nat
    BY DEF ScriptTypeOK
<1>2. PICK r \in filed[name] .. Len(runs) :
            /\ runs[r].dir = name.dir
            /\ \A q \in filed[name] .. r - 1 : runs[q].hand \/ runs[q].cut
    BY DEF FiledWhereItBelongs
<1>3. r \in filed[name] .. Len(runs') /\ \A q \in filed[name] .. r : q \in 1 .. Len(runs)
    BY <1>1 DEF RunsKept
<1>4. runs'[r].dir = name.dir
    BY <1>1, <1>2, <1>3 DEF RunsKept
<1>5. \A q \in filed[name] .. r - 1 : runs'[q].hand \/ runs'[q].cut
  <2> SUFFICES ASSUME NEW q \in filed[name] .. r - 1 PROVE runs'[q].hand \/ runs'[q].cut
      OBVIOUS
  <2>1. q \in 1 .. Len(runs) /\ (runs[q].hand \/ runs[q].cut)
      BY <1>1, <1>2, <1>3
  <2> QED
      BY <2>1 DEF RunsKept
<1> QED
    BY <1>3, <1>4, <1>5

\* The logs that stay where they are are leftovers still
LEMMA LeftoversKept ==
    ASSUME ScriptTypeOK, RunsKept, Leftovers, \A q \in 1 .. Past' : q <= Past \/ Lost(q)',
           \A log \in DOMAIN cwd' : \/ log \in DOMAIN cwd /\ cwd'[log] = cwd[log]
                                    \/ \E other \in DOMAIN cwd : cwd'[log] = cwd[other]
                                    \/ cwd'[log] \in Nat /\ cwd'[log] > Past'
                                    \/ cwd'[log] = Past' /\ Lost(Past)'
    PROVE  Leftovers'
<1> SUFFICES ASSUME NEW log \in DOMAIN cwd', NEW q \in cwd'[log] .. Past'
             PROVE  Lost(q)'
    BY DEF Leftovers
<1>1. Len(runs) \in Nat /\ Past \in Int /\ Past' \in Int /\ Past <= Len(runs)
    BY DEF ScriptTypeOK, Past, RunsKept
<1>2. ASSUME NEW other \in DOMAIN cwd, cwd'[log] = cwd[other] PROVE Lost(q)'
  <2>1. cwd[other] \in 1 .. Len(runs)
      BY DEF ScriptTypeOK
  <2>2. q \in 1 .. Past'
      BY <1>1, <1>2, <2>1
  <2>3. CASE q <= Past
    <3>1. Lost(q)
        BY <1>1, <1>2, <2>1, <2>3 DEF Leftovers
    <3> QED
        BY <1>1, <2>2, <2>3, <3>1 DEF Lost, RunsKept
  <2> QED
      BY <2>2, <2>3
<1>3. ASSUME cwd'[log] \in Nat /\ cwd'[log] > Past' PROVE Lost(q)'
    BY <1>1, <1>3
<1>4. ASSUME cwd'[log] = Past' /\ Lost(Past)' PROVE Lost(q)'
  <2>1. q = Past'
      BY <1>1, <1>4
  <2> QED
      BY <1>4, <2>1
<1> QED
    BY <1>2, <1>3, <1>4

LEMMA FilingStep ==
    ASSUME ScriptTypeOK, LoopInv, Leftovers, FiledWhereItBelongs,
           [ExperimentNext]_experimentVars
    PROVE  Leftovers' /\ FiledWhereItBelongs'
<1>1. RunsKept /\ ScriptTypeOK'
    BY RunsStep, TypeStep
<1>2. Len(runs) \in Nat /\ Len(runs') \in Nat /\ DOMAIN <<>> = {}
    BY <1>1 DEF ScriptTypeOK
<1>3. CASE UNCHANGED <<cwd, filed, runs>> /\ (script \in Awaited <=> script' \in Awaited)
  <2>1. Past' = Past
      BY <1>3 DEF Past
  <2> QED
      BY <1>1, <1>2, <1>3, <2>1, LeftoversKept, FiledKept DEF Past
<1>4. CASE ProgramStep
  <2>1. /\ runs # <<>> /\ filed' = filed /\ script' = script
        /\ script = "wait" \/ (script = "off" /\ Last.hand)
      BY <1>4, ProgramEffect DEF LoopInv, Awaited
  <2>2. ASSUME NEW bases \in SUBSET {params.logname, "workload", "stats"}, Write(bases)
        PROVE  Leftovers'
    <3>1. bases \in SUBSET Bases
        BY DEF ScriptTypeOK, Bases, Lines
    <3>2. /\ Len(runs') = Len(runs) /\ Len(runs) \in Nat \ {0}
          /\ DOMAIN cwd' = DOMAIN cwd \cup {Log(base, <<>>) : base \in bases}
          /\ \A base \in bases : cwd'[Log(base, <<>>)] = Len(runs)
          /\ \A log \in DOMAIN cwd : cwd'[log] \in {cwd[log], Len(runs)}
        BY <2>1, <2>2, <3>1, WriteEffect DEF ScriptTypeOK
    <3>3. \A log \in DOMAIN cwd' : \/ log \in DOMAIN cwd /\ cwd'[log] = cwd[log]
                                   \/ cwd'[log] = Len(runs)
        BY <3>2
    <3>4. Past' = Past
        BY <2>1, <3>2 DEF Past
    <3>5. CASE script = "wait"
      <4>1. Past' < Len(runs)
          BY <3>2, <3>4, <3>5 DEF Past, Awaited
      <4> QED
          BY <1>1, <1>2, <3>3, <3>4, <4>1, LeftoversKept DEF Past
    <3>6. CASE script = "off"
      <4>1. Past = Len(runs) /\ Past' = Len(runs) /\ Last.hand
          BY <2>1, <3>4, <3>6 DEF Past, Awaited
      <4>2. runs'[Len(runs)].hand
          BY <1>1, <3>2, <4>1 DEF RunsKept, Last
      <4>3. Lost(Past)'
          BY <4>1, <4>2 DEF Lost
      <4> QED
          BY <1>1, <1>2, <3>3, <4>1, <4>3, LeftoversKept
    <3> QED
        BY <2>1, <3>5, <3>6
  <2> QED
      BY <1>1, <1>3, <1>4, <2>1, <2>2, ProgramEffect, FiledKept
<1>5. ASSUME NEW words \in HandLines, TypeByHand(words) PROVE Leftovers' /\ FiledWhereItBelongs'
  <2>1. /\ script = "off" /\ script' = script /\ runs' = Append(runs, NewRun(TRUE))
        /\ UNCHANGED <<cwd, filed>>
      BY <1>5 DEF TypeByHand
  <2>2. Len(runs') = Len(runs) + 1 /\ runs'[Len(runs) + 1] = NewRun(TRUE)
    <3>1. \A run : /\ Len(Append(runs, run)) = Len(runs) + 1
                   /\ Append(runs, run)[Len(runs) + 1] = run
        BY <1>1 DEF ScriptTypeOK
    <3> QED
        BY <2>1, <3>1
  <2>3. runs'[Len(runs) + 1].hand
      BY <2>2 DEF NewRun
  <2>4. Past = Len(runs) /\ Past' = Len(runs) + 1
      BY <2>1, <2>2 DEF Past, Awaited
  <2>5. \A q \in 1 .. Past' : q <= Past \/ Lost(q)'
    <3>1. \A q \in 1 .. Past' : q <= Past \/ q = Len(runs) + 1
        BY <1>2, <2>4
    <3> QED
        BY <2>3, <3>1 DEF Lost
  <2> QED
      BY <1>1, <2>1, <2>5, LeftoversKept, FiledKept
<1>6. CASE Eval
  <2> DEFINE run == [NewRun(FALSE) EXCEPT !.wrote = {"stdout"}]
  <2>1. /\ script = "eval" /\ script' = "wait" /\ runs' = Append(runs, run) /\ filed' = filed
        /\ cwd' = Put(cwd, Log("stdout", <<>>), Len(runs'))
      BY <1>6 DEF Eval
  <2> HIDE DEF run
  <2>2. Len(runs') = Len(runs) + 1
      BY <2>1 DEF ScriptTypeOK
  <2>3. Past = Len(runs) /\ Past' = Len(runs)
      BY <1>2, <2>1, <2>2 DEF Past, Awaited
  <2>4. \A log \in DOMAIN cwd' : \/ log \in DOMAIN cwd /\ cwd'[log] = cwd[log]
                                 \/ cwd'[log] = Len(runs) + 1
      BY <2>1, <2>2 DEF Put
  <2> QED
      BY <1>1, <1>2, <2>1, <2>3, <2>4, LeftoversKept, FiledKept
<1>7. CASE CollectLOG
  <2>1. /\ script = "wait" /\ script' = "timestamp" /\ runs # <<>> /\ filed' = filed
      BY <1>7 DEF CollectLOG, LoopInv, Awaited
  <2>2. CASE UNCHANGED <<cwd, runs>>
      BY <1>3, <2>1, <2>2 DEF Awaited
  <2>3. CASE Write({"rocksdb"})
    <3>1. {"rocksdb"} \in SUBSET Bases
        BY DEF Bases
    <3>2. /\ Len(runs') = Len(runs) /\ Len(runs) \in Nat \ {0}
          /\ DOMAIN cwd' = DOMAIN cwd \cup {Log(base, <<>>) : base \in {"rocksdb"}}
          /\ \A base \in {"rocksdb"} : cwd'[Log(base, <<>>)] = Len(runs)
          /\ \A log \in DOMAIN cwd : cwd'[log] \in {cwd[log], Len(runs)}
        BY <2>1, <2>3, <3>1, WriteEffect DEF ScriptTypeOK
    <3>3. \A log \in DOMAIN cwd' : \/ log \in DOMAIN cwd /\ cwd'[log] = cwd[log]
                                   \/ cwd'[log] = Len(runs)
        BY <3>2
    <3>4. Past' = Past /\ Past = Len(runs) - 1
        BY <2>1, <3>2 DEF Past, Awaited
    <3> QED
        BY <1>1, <1>2, <2>1, <3>3, <3>4, LeftoversKept, FiledKept
  <2> QED
      BY <1>7, <2>2, <2>3 DEF CollectLOG
<1>8. CASE Timestamp
  <2>1. /\ script = "timestamp" /\ script' = "stamp" /\ UNCHANGED <<cwd, filed>>
        /\ runs # <<>> /\ runs' = [runs EXCEPT ![Len(runs)].minute = minute']
      BY <1>8 DEF Timestamp, LoopInv, Awaited
  <2>2. Len(runs') = Len(runs)
      BY <2>1 DEF ScriptTypeOK
  <2>3. Past' = Past
      BY <2>1, <2>2 DEF Past, Awaited
  <2> QED
      BY <1>1, <1>2, <2>1, <2>3, LeftoversKept, FiledKept DEF Past
<1>9. CASE Stamp
  <2> DEFINE log == First(todo)
             stamped == Log(log.base, Append(log.stamps, minute))
  <2>1. /\ script = "stamp" /\ script' = script /\ todo # {} /\ UNCHANGED <<filed, runs>>
        /\ cwd' = Put(Without(cwd, log), stamped, cwd[log])
      BY <1>9 DEF Stamp
  <2>2. log \in DOMAIN cwd
      BY <2>1 DEF First, ScriptTypeOK
  <2> HIDE DEF log, stamped
  <2>3. \A f \in DOMAIN cwd' : \/ f \in DOMAIN cwd /\ cwd'[f] = cwd[f]
                               \/ cwd'[f] = cwd[log]
      BY <2>1, <2>2 DEF Put, Without
  <2>4. Past' = Past
      BY <2>1 DEF Past
  <2> QED
      BY <1>1, <1>2, <2>1, <2>2, <2>3, <2>4, LeftoversKept, FiledKept DEF Past
<1>10. CASE File
  <2> DEFINE log == First(todo)
             name == [dir |-> Dir, log |-> log]
  <2>1. /\ script = "file" /\ script' = script /\ todo # {} /\ runs' = runs
        /\ filed' = Put(filed, name, cwd[log]) /\ cwd' = Without(cwd, log)
      BY <1>10 DEF File
  <2>2. log \in DOMAIN cwd
      BY <2>1 DEF First, ScriptTypeOK
  <2>3. name.dir = Dir
      OBVIOUS
  <2> HIDE DEF log, name
  <2>4. \A f \in DOMAIN cwd' : f \in DOMAIN cwd /\ cwd'[f] = cwd[f]
      BY <2>1 DEF Without
  <2>5. Past' = Past /\ Past = Len(runs) - 1
      BY <2>1 DEF Past, Awaited
  <2>6. Leftovers'
      BY <1>1, <1>2, <2>1, <2>4, <2>5, LeftoversKept
  <2>7. \E r \in cwd[log] .. Len(runs) :
            /\ runs[r].dir = name.dir
            /\ \A q \in cwd[log] .. r - 1 : runs[q].hand \/ runs[q].cut
    <3>1. runs[Len(runs)].dir = name.dir
        BY <2>1, <2>3 DEF LoopInv, Awaited, Last
    <3>2. cwd[log] \in 1 .. Len(runs)
        BY <2>2 DEF ScriptTypeOK
    <3>3. \A q \in cwd[log] .. Len(runs) - 1 : runs[q].hand \/ runs[q].cut
        BY <2>2, <2>5 DEF Leftovers, Lost
    <3> QED
        BY <1>2, <3>1, <3>2, <3>3
  <2>8. FiledWhereItBelongs'
    <3>1. \A f \in DOMAIN filed' : \/ f \in DOMAIN filed /\ filed'[f] = filed[f]
                                   \/ f = name /\ filed'[f] = cwd[log]
        BY <2>1 DEF Put
    <3> QED
        BY <2>1, <2>7, <3>1 DEF FiledWhereItBelongs
  <2> QED
      BY <2>6, <2>8
<1>11. CASE NextPolicy
  <2>1. /\ script = "file" /\ script' \in {"clean", "off"} /\ UNCHANGED <<cwd, filed, runs>>
        /\ DOMAIN cwd = {}
      BY <1>11 DEF NextPolicy, LoopInv
  <2>2. Leftovers'
      BY <2>1 DEF Leftovers
  <2> QED
      BY <1>1, <2>1, <2>2, FiledKept
<1>12. CASE Interrupt
  <2>1. /\ script' = "off" /\ UNCHANGED <<cwd, filed>> /\ script # "off"
        /\ runs' = IF script \in {"clean", "setup", "common", "eval"} THEN runs
                   ELSE [runs EXCEPT ![Len(runs)].cut = TRUE]
      BY <1>12 DEF Interrupt
  <2>2. CASE script \in {"clean", "setup", "common", "eval"}
      BY <1>3, <2>1, <2>2 DEF Awaited
  <2>3. CASE script \in Awaited
    <3>1. Last \in Run /\ Len(runs) \in Nat \ {0}
        BY <1>2, <2>3 DEF Last, ScriptTypeOK, LoopInv
    <3>2. Len(runs') = Len(runs) /\ runs'[Len(runs)] = [Last EXCEPT !.cut = TRUE]
      <4>1. runs' = [runs EXCEPT ![Len(runs)] = [Last EXCEPT !.cut = TRUE]]
          BY <2>1, <2>3 DEF Last, Awaited
      <4> QED
          BY <3>1, <4>1 DEF ScriptTypeOK
    <3>3. runs'[Len(runs)].cut
        BY <3>1, <3>2 DEF Run
    <3>4. Past = Len(runs) - 1 /\ Past' = Len(runs)
        BY <2>1, <2>3, <3>2 DEF Past, Awaited
    <3>5. \A q \in 1 .. Past' : q <= Past \/ Lost(q)'
      <4>1. \A q \in 1 .. Past' : q <= Past \/ q = Len(runs)
          BY <1>2, <3>4
      <4>2. Lost(Len(runs))'
          BY <3>2, <3>3 DEF Lost
      <4> QED
          BY <3>2, <4>1, <4>2
    <3> QED
        BY <1>1, <2>1, <3>5, LeftoversKept, FiledKept
  <2> QED
      BY <2>1, <2>2, <2>3 DEF ScriptTypeOK
<1>13. CASE Start \/ Clean \/ Setup \/ Common \/ StartFiling \/ UNCHANGED experimentVars
  <2>1. UNCHANGED <<cwd, filed, runs>> /\ (script \in Awaited <=> script' \in Awaited)
      BY <1>13 DEF Start, Clean, Setup, Common, StartFiling, experimentVars, scriptVars, Awaited
  <2> QED
      BY <1>3, <2>1
<1> QED
    BY <1>4, <1>5, <1>6, <1>7, <1>8, <1>9, <1>10, <1>11, <1>12, <1>13 DEF ExperimentNext, ScriptStep

-----------------------------------------------------------------------------
(* The names: the stamps of a log of the run that is awaited are beyond    *)
(* those of any other of its base, so that no other is renamed to it.      *)

Before(s, t) == Len(s) < Len(t) /\ \A i \in 1 .. Len(s) : s[i] = t[i]

LEMMA Prefixes ==
    ASSUME NEW s \in Seq(Nat), NEW t \in Seq(Nat), NEW m \in Nat
    PROVE  /\ Before(s, Append(t, m)) => s = t \/ Before(s, t)
           /\ Before(Append(s, m), t) => Before(s, t)
           /\ Append(s, m) = t => Before(s, t)
<1>1. Len(s) \in Nat /\ Len(t) \in Nat
    OBVIOUS
<1>2. /\ Len(Append(s, m)) = Len(s) + 1 /\ \A i \in 1 .. Len(s) : Append(s, m)[i] = s[i]
      /\ Len(Append(t, m)) = Len(t) + 1 /\ \A i \in 1 .. Len(t) : Append(t, m)[i] = t[i]
    OBVIOUS
<1>3. ASSUME Before(s, Append(t, m)) PROVE s = t \/ Before(s, t)
  <2>1. Len(s) <= Len(t) /\ \A i \in 1 .. Len(s) : s[i] = t[i]
      BY <1>1, <1>2, <1>3 DEF Before
  <2>2. CASE Len(s) = Len(t)
      BY <2>1, <2>2
  <2> QED
      BY <1>1, <2>1, <2>2 DEF Before
<1>4. ASSUME Before(Append(s, m), t) PROVE Before(s, t)
  <2>1. \A i \in 1 .. Len(s) : i \in 1 .. Len(Append(s, m))
      BY <1>1, <1>2
  <2>2. \A i \in 1 .. Len(s) : Append(s, m)[i] = t[i]
      BY <1>4, <2>1 DEF Before
  <2> QED
      BY <1>1, <1>2, <1>4, <2>2 DEF Before
<1>5. ASSUME Append(s, m) = t PROVE Before(s, t)
    BY <1>1, <1>2, <1>5 DEF Before
<1> QED
    BY <1>3, <1>4, <1>5

StampIs(log, m) == log.stamps # <<>> /\ log.stamps[Len(log.stamps)] = m

\* What the loop of the script has been over bears the stamp of this minute
StampedNow ==
    /\ script = "stamp" => \A log \in DOMAIN cwd \ todo : StampIs(log, minute)
    /\ script = "file" => \A log \in DOMAIN cwd : StampIs(log, minute)

\* The log of the awaited run: none of its base may be renamed to it
Own(base, log) ==
    /\ log \in DOMAIN cwd /\ log.base = base /\ cwd[log] = Len(runs)
    /\ \A other \in DOMAIN cwd : other.base = base => ~Before(other.stamps, log.stamps)

Taken(base) ==
    \E name \in DOMAIN filed :
        /\ name.dir = Dir /\ name.log.base = base /\ name.log \notin DOMAIN cwd
        /\ StampIs(name.log, minute) /\ filed[name] = Len(runs)

Written ==
    /\ script \in {"wait", "timestamp"} => \A base \in Last.wrote : Own(base, Log(base, <<>>))
    /\ script = "stamp" => \A base \in Last.wrote : \E log \in DOMAIN cwd : Own(base, log)
    /\ script = "file" => \A base \in Last.wrote : Taken(base) \/ \E log \in DOMAIN cwd : Own(base, log)

\* The runs whose minute is known
Settled == IF script \in {"wait", "timestamp"} THEN Len(runs) - 1 ELSE Len(runs)

Reported(r, base) ==
    \E name \in DOMAIN filed :
        /\ name.dir = runs[r].dir /\ name.log.base = base
        /\ StampIs(name.log, runs[r].minute)
        /\ \/ filed[name] = r
           \/ \E p \in r + 1 .. Settled :
                /\ filed[name] \in r + 1 .. p
                /\ runs[p].dir = runs[r].dir /\ runs[p].minute = runs[r].minute

AllReported ==
    \A r \in 1 .. Past : ~Lost(r) => \A base \in runs[r].wrote : Reported(r, base)

OwnNames(r) == {"stdout", runs[r].dir.policy.name, "workload", "stats", "rocksdb"}
Named == \A r \in 1 .. Len(runs) : ~runs[r].hand => runs[r].wrote \subseteq OwnNames(r)

ReportInv == Named /\ StampedNow /\ Written /\ AllReported

-----------------------------------------------------------------------------
\* What a run writes has its names
LEMMA NamedWriting ==
    ASSUME ScriptTypeOK, runs # <<>>, Named, NEW bases \in SUBSET Bases, Write(bases),
           Last.hand \/ bases \subseteq OwnNames(Len(runs))
    PROVE  Named'
<1>1. /\ Len(runs') = Len(runs) /\ Len(runs) \in Nat \ {0}
      /\ \A r \in 1 .. Len(runs) : r # Len(runs) => runs'[r] = runs[r]
      /\ Last' = [Last EXCEPT !.wrote = @ \cup bases] /\ Last \in Run
    BY WriteEffect DEF ScriptTypeOK
<1>2. Last'.wrote = Last.wrote \cup bases /\ Last'.hand = Last.hand /\ Last'.dir = Last.dir
    BY <1>1 DEF Run
<1> SUFFICES ASSUME NEW r \in 1 .. Len(runs), ~runs'[r].hand
             PROVE  runs'[r].wrote \subseteq OwnNames(r)'
    BY <1>1 DEF Named
<1>3. CASE r # Len(runs)
    BY <1>1, <1>3 DEF Named, OwnNames
<1>4. CASE r = Len(runs)
    BY <1>1, <1>2, <1>4 DEF Named, OwnNames, Last
<1> QED
    BY <1>3, <1>4

\* A run that is stamped or cut has its names still
LEMMA NamedLast ==
    ASSUME ScriptTypeOK, runs # <<>>, Named, NEW run, run.wrote = Last.wrote,
           run.hand = Last.hand, run.dir = Last.dir, runs' = [runs EXCEPT ![Len(runs)] = run]
    PROVE  Named'
<1>1. Len(runs) \in Nat \ {0} /\ runs \in Seq(Run)
    BY DEF ScriptTypeOK
<1>2. Len(runs') = Len(runs) /\ runs'[Len(runs)] = run
      /\ \A r \in 1 .. Len(runs) : r # Len(runs) => runs'[r] = runs[r]
    BY <1>1
<1> SUFFICES ASSUME NEW r \in 1 .. Len(runs), ~runs'[r].hand
             PROVE  runs'[r].wrote \subseteq OwnNames(r)'
    BY <1>2 DEF Named
<1>3. CASE r # Len(runs)
    BY <1>2, <1>3 DEF Named, OwnNames
<1>4. CASE r = Len(runs)
    BY <1>2, <1>4 DEF Named, OwnNames, Last
<1> QED
    BY <1>3, <1>4

LEMMA NamedStep ==
    ASSUME ScriptTypeOK, LoopInv, Named, [ExperimentNext]_experimentVars
    PROVE  Named'
<1>1. Len(runs) \in Nat /\ runs \in Seq(Run)
    BY DEF ScriptTypeOK
<1>2. CASE runs' = runs
    BY <1>2 DEF Named, OwnNames
<1>3. ASSUME NEW run \in Run, runs' = Append(runs, run), run.hand \/ run.wrote = {"stdout"}
      PROVE  Named'
  <2>1. /\ Len(runs') = Len(runs) + 1 /\ runs'[Len(runs) + 1] = run
        /\ \A r \in 1 .. Len(runs) : runs'[r] = runs[r]
      BY <1>1, <1>3
  <2> QED
      BY <1>1, <1>3, <2>1 DEF Named, OwnNames
<1>4. CASE ProgramStep
  <2>1. /\ runs # <<>>
        /\ \/ Last.hand
           \/ Last.dir = Dir /\ params.logname = policy.name
      BY <1>4, ProgramEffect DEF LoopInv, Awaited
  <2>2. {params.logname, "workload", "stats"} \subseteq Bases
      BY DEF ScriptTypeOK, Bases, Lines
  <2>3. Last.hand \/ {params.logname, "workload", "stats"} \subseteq OwnNames(Len(runs))
      BY <2>1 DEF OwnNames, Last, Dir
  <2>4. CASE runs' = runs
      BY <1>2, <2>4
  <2>5. ASSUME NEW bases \in SUBSET {params.logname, "workload", "stats"}, Write(bases)
        PROVE  Named'
      BY <2>1, <2>2, <2>3, <2>5, NamedWriting
  <2> QED
      BY <1>4, <2>4, <2>5, ProgramEffect
<1>5. CASE CollectLOG
  <2>1. runs # <<>> /\ {"rocksdb"} \in SUBSET Bases
      BY <1>5 DEF CollectLOG, LoopInv, Awaited, Bases
  <2>2. {"rocksdb"} \subseteq OwnNames(Len(runs))
      BY DEF OwnNames
  <2> QED
      BY <1>2, <1>5, <2>1, <2>2, NamedWriting DEF CollectLOG
<1>6. CASE Timestamp
  <2> DEFINE run == [Last EXCEPT !.minute = minute']
  <2>1. runs # <<>>
      BY <1>6 DEF Timestamp, LoopInv, Awaited
  <2>2. Last \in Run
      BY <1>1, <2>1 DEF Last
  <2>3. run.wrote = Last.wrote /\ run.hand = Last.hand /\ run.dir = Last.dir
      BY <2>2 DEF Run
  <2>4. runs' = [runs EXCEPT ![Len(runs)] = run]
      BY <1>6 DEF Timestamp, Last
  <2> HIDE DEF run
  <2> QED
      BY <2>1, <2>3, <2>4, NamedLast
<1>7. CASE Interrupt
  <2> DEFINE run == [Last EXCEPT !.cut = TRUE]
  <2>1. CASE script \in {"clean", "setup", "common", "eval"}
      BY <1>2, <1>7, <2>1 DEF Interrupt
  <2>2. CASE script \notin {"clean", "setup", "common", "eval"}
    <3>1. runs # <<>>
        BY <1>7, <2>2 DEF Interrupt, LoopInv, ScriptTypeOK
    <3>2. Last \in Run
        BY <1>1, <3>1 DEF Last
    <3>3. run.wrote = Last.wrote /\ run.hand = Last.hand /\ run.dir = Last.dir
        BY <3>2 DEF Run
    <3>4. runs' = [runs EXCEPT ![Len(runs)] = run]
        BY <1>7, <2>2 DEF Interrupt, Last
    <3> HIDE DEF run
    <3> QED
        BY <3>1, <3>3, <3>4, NamedLast
  <2> QED
      BY <2>1, <2>2
<1>8. CASE Eval
  <2> DEFINE run == [NewRun(FALSE) EXCEPT !.wrote = {"stdout"}]
  <2>1. policy \in Policies /\ header \in HeaderValues
      BY <1>8 DEF Eval, policy, ScriptTypeOK
  <2>2. run \in Run /\ run.wrote = {"stdout"}
      BY <2>1 DEF NewRun, Run, ScriptTypeOK, Dir, Bases
  <2>3. runs' = Append(runs, run)
      BY <1>8 DEF Eval
  <2> HIDE DEF run
  <2> QED
      BY <1>3, <2>2, <2>3
<1>9. ASSUME NEW words \in HandLines, TypeByHand(words) PROVE Named'
  <2>1. NewRun(TRUE) \in Run /\ NewRun(TRUE).hand
      BY DEF NewRun, Run, ScriptTypeOK
  <2>2. runs' = Append(runs, NewRun(TRUE))
      BY <1>9 DEF TypeByHand
  <2> QED
      BY <1>3, <2>1, <2>2
<1>10. CASE Start \/ Clean \/ Setup \/ Common \/ Stamp \/ StartFiling \/ File \/ NextPolicy
            \/ UNCHANGED experimentVars
    BY <1>2, <1>10 DEF Start, Clean, Setup, Common, Stamp, StartFiling, File, NextPolicy,
       experimentVars, scriptVars
<1> QED
    BY <1>4, <1>5, <1>6, <1>7, <1>8, <1>9, <1>10 DEF ExperimentNext, ScriptStep

\* A log bears the stamp as soon as the loop is past it
LEMMA StampedStep ==
    ASSUME ScriptTypeOK, LoopInv, StampedNow, [ExperimentNext]_experimentVars
    PROVE  StampedNow'
<1>1. CASE UNCHANGED <<script, cwd, todo, minute>>
    BY <1>1 DEF StampedNow
<1>2. CASE script' \notin {"stamp", "file"}
    BY <1>2 DEF StampedNow
<1>3. CASE ProgramStep
  <2>1. script' \notin {"stamp", "file"}
      BY <1>3, ProgramEffect DEF LoopInv
  <2> QED
      BY <1>2, <2>1
<1>4. CASE Timestamp
    BY <1>4 DEF Timestamp, StampedNow
<1>5. CASE Stamp
  <2> DEFINE log == First(todo)
             stamped == Log(log.base, Append(log.stamps, minute))
  <2>1. /\ script = "stamp" /\ script' = script /\ todo # {} /\ todo' = todo \ {log}
        /\ cwd' = Put(Without(cwd, log), stamped, cwd[log]) /\ minute' = minute
      BY <1>5 DEF Stamp
  <2>2. log \in LogName /\ minute \in Nat
      BY <2>1 DEF First, ScriptTypeOK
  <2>3. StampIs(stamped, minute)
    <3>1. log.stamps \in Seq(Nat)
        BY <2>2 DEF LogName
    <3>2. \A s \in Seq(Nat) : Append(s, minute) # <<>> /\ Append(s, minute)[Len(Append(s, minute))] = minute
        BY <2>2
    <3> QED
        BY <3>1, <3>2 DEF StampIs, Log
  <2> HIDE DEF log, stamped
  <2>4. DOMAIN cwd' = (DOMAIN cwd \ {log}) \cup {stamped}
      BY <2>1 DEF Put, Without
  <2>5. \A f \in DOMAIN cwd' \ todo' : f \in DOMAIN cwd \ todo \/ f = stamped
      BY <2>1, <2>4
  <2>6. \A f \in DOMAIN cwd' \ todo' : StampIs(f, minute)
      BY <2>1, <2>3, <2>5 DEF StampedNow
  <2> QED
      BY <2>1, <2>6 DEF StampedNow
<1>6. CASE StartFiling
    BY <1>6 DEF StartFiling, StampedNow
<1>7. CASE File
  <2>1. /\ script = "file" /\ script' = script /\ minute' = minute
        /\ \A f \in DOMAIN cwd' : f \in DOMAIN cwd
      BY <1>7 DEF File, Without
  <2> QED
      BY <2>1 DEF StampedNow
<1>8. ASSUME NEW words \in HandLines, TypeByHand(words) PROVE StampedNow'
    BY <1>1, <1>8 DEF TypeByHand
<1>9. CASE Start \/ Clean \/ Setup \/ Common \/ Eval \/ CollectLOG \/ NextPolicy \/ Interrupt
           \/ UNCHANGED experimentVars
    BY <1>1, <1>2, <1>9 DEF Start, Clean, Setup, Common, Eval, CollectLOG, NextPolicy, Interrupt,
       experimentVars, scriptVars
<1> QED
    BY <1>3, <1>4, <1>5, <1>6, <1>7, <1>8, <1>9 DEF ExperimentNext, ScriptStep

\* The program writes while the script waits, and what it wrote before it has still
LEMMA WrittenWriting ==
    ASSUME ScriptTypeOK, runs # <<>>, Written, script = "wait", NEW bases \in SUBSET Bases,
           Write(bases), script' \in {"wait", "timestamp"}
    PROVE  Written'
<1>1. /\ Len(runs') = Len(runs) /\ Len(runs) \in Nat \ {0}
      /\ Last' = [Last EXCEPT !.wrote = @ \cup bases] /\ Last \in Run
      /\ DOMAIN cwd' = DOMAIN cwd \cup {Log(base, <<>>) : base \in bases}
      /\ \A base \in bases : cwd'[Log(base, <<>>)] = Len(runs)
      /\ \A log \in DOMAIN cwd : cwd'[log] \in {cwd[log], Len(runs)}
    BY WriteEffect DEF ScriptTypeOK
<1>2. Last'.wrote = Last.wrote \cup bases
    BY <1>1 DEF Run
<1>3. ASSUME NEW base \in Last.wrote \cup bases
      PROVE  Log(base, <<>>) \in DOMAIN cwd' /\ cwd'[Log(base, <<>>)] = Len(runs)
    BY <1>1, <1>3 DEF Written, Own
<1>4. /\ \A base : Log(base, <<>>).base = base /\ Log(base, <<>>).stamps = <<>>
      /\ \A other \in DOMAIN cwd' : ~Before(other.stamps, <<>>)
  <2>1. \A base : Log(base, <<>>) = [base |-> base, stamps |-> <<>>]
      BY DEF Log
  <2>2. \A other \in DOMAIN cwd' : other.stamps \in Seq(Nat)
    <3>1. \A other \in DOMAIN cwd : other.stamps \in Seq(Nat)
        BY DEF ScriptTypeOK, LogName
    <3>2. \A base : Log(base, <<>>).stamps = <<>> /\ <<>> \in Seq(Nat)
        BY <2>1
    <3> QED
        BY <1>1, <3>1, <3>2
  <2>3. \A s \in Seq(Nat) : ~(Len(s) < Len(<<>>))
      OBVIOUS
  <2> QED
      BY <2>1, <2>2, <2>3 DEF Before
<1>5. \A base \in Last'.wrote : Own(base, Log(base, <<>>))'
    BY <1>1, <1>2, <1>3, <1>4 DEF Own
<1> QED
    BY <1>5 DEF Written

\* While the loop stamps, the log of the run is stamped, and stays its own
LEMMA StampingKeepsOwn ==
    ASSUME ScriptTypeOK, Stamp, NEW base, NEW log \in DOMAIN cwd, Own(base, log)
    PROVE  (\E l \in DOMAIN cwd : Own(base, l))'
<1>1. PICK f : f = First(todo)
    OBVIOUS
<1>2. PICK g : g = Log(f.base, Append(f.stamps, minute))
    OBVIOUS
<1>3. /\ todo # {} /\ runs' = runs /\ minute \in Nat
      /\ cwd' = Put(Without(cwd, f), g, cwd[f])
    BY <1>1, <1>2 DEF Stamp, ScriptTypeOK
<1>4. f \in DOMAIN cwd /\ \A l \in DOMAIN cwd : l \in LogName
    BY <1>3, <1>1 DEF First, ScriptTypeOK
<1>5. \A l \in LogName : /\ l = Log(l.base, l.stamps) /\ l.stamps \in Seq(Nat)
    BY DEF LogName, Log
<1>6. g.base = f.base /\ g.stamps = Append(f.stamps, minute)
    BY <1>2 DEF Log
<1>7. /\ DOMAIN cwd' = (DOMAIN cwd \ {f}) \cup {g} /\ cwd'[g] = cwd[f]
      /\ \A l \in DOMAIN cwd' : l # g => cwd'[l] = cwd[l]
    BY <1>3 DEF Put, Without
<1>8. /\ log.base = base /\ cwd[log] = Len(runs)
      /\ \A other \in DOMAIN cwd : other.base = base => ~Before(other.stamps, log.stamps)
    BY DEF Own
<1>9. CASE log = f
  <2>1. ~Before(g.stamps, g.stamps)
    <3>1. f.stamps \in Seq(Nat)
        BY <1>4, <1>5
    <3>2. Len(g.stamps) \in Nat
        BY <1>3, <1>6, <3>1
    <3> QED
        BY <3>2 DEF Before
  <2>2. ASSUME NEW other \in DOMAIN cwd \ {f}, other.base = base, Before(other.stamps, g.stamps)
        PROVE  FALSE
    <3>1. other.stamps = f.stamps \/ Before(other.stamps, f.stamps)
        BY <1>3, <1>4, <1>5, <1>6, <2>2, Prefixes
    <3>2. other.stamps # f.stamps
        BY <1>4, <1>5, <1>8, <1>9, <2>2
    <3> QED
        BY <1>8, <1>9, <2>2, <3>1, <3>2
  <2>3. Own(base, g)'
      BY <1>3, <1>6, <1>7, <1>8, <1>9, <2>1, <2>2 DEF Own
  <2> QED
      BY <1>7, <2>3
<1>10. CASE log # f
  <2>1. log # g
    <3>1. ASSUME log = g PROVE FALSE
      <4>1. Before(f.stamps, log.stamps)
          BY <1>3, <1>4, <1>5, <1>6, <3>1, Prefixes
      <4> QED
          BY <1>4, <1>6, <1>8, <3>1, <4>1
    <3> QED
        BY <3>1
  <2>2. ASSUME g.base = base, Before(g.stamps, log.stamps) PROVE FALSE
    <3>1. Before(f.stamps, log.stamps)
        BY <1>3, <1>4, <1>5, <1>6, <2>2, Prefixes
    <3> QED
        BY <1>4, <1>6, <1>8, <2>2, <3>1
  <2>3. log \in DOMAIN cwd' /\ cwd'[log] = Len(runs)
      BY <1>7, <1>8, <1>10, <2>1
  <2>4. \A other \in DOMAIN cwd' : other.base = base => ~Before(other.stamps, log.stamps)
      BY <1>7, <1>8, <2>2
  <2>5. Own(base, log)'
      BY <1>3, <1>8, <2>3, <2>4 DEF Own
  <2> QED
      BY <2>3, <2>5
<1> QED
    BY <1>9, <1>10

\* Filing takes it, under this minute, or leaves it
LEMMA FilingKeepsOwn ==
    ASSUME ScriptTypeOK, StampedNow, File, NEW base,
           Taken(base) \/ \E log \in DOMAIN cwd : Own(base, log)
    PROVE  (Taken(base) \/ \E log \in DOMAIN cwd : Own(base, log))'
<1> DEFINE f == First(todo)
           name == [dir |-> Dir, log |-> f]
<1>1. /\ script = "file" /\ todo # {} /\ runs' = runs /\ minute' = minute /\ Dir' = Dir
      /\ filed' = Put(filed, name, cwd[f]) /\ cwd' = Without(cwd, f)
    BY DEF File, Dir, policy
<1>2. f \in DOMAIN cwd /\ StampIs(f, minute)
    BY <1>1 DEF First, ScriptTypeOK, StampedNow
<1>3. name.dir = Dir /\ name.log = f
    OBVIOUS
<1> HIDE DEF f, name
<1>4. /\ DOMAIN cwd' = DOMAIN cwd \ {f} /\ \A l \in DOMAIN cwd' : cwd'[l] = cwd[l]
      /\ DOMAIN filed' = DOMAIN filed \cup {name} /\ filed'[name] = cwd[f]
      /\ \A n \in DOMAIN filed : n # name => filed'[n] = filed[n]
    BY <1>1 DEF Put, Without
<1>5. CASE Taken(base)
  <2>1. PICK n \in DOMAIN filed : /\ n.dir = Dir /\ n.log.base = base /\ n.log \notin DOMAIN cwd
                                  /\ StampIs(n.log, minute) /\ filed[n] = Len(runs)
      BY <1>5 DEF Taken
  <2>2. n # name
      BY <1>2, <1>3, <2>1
  <2>3. n \in DOMAIN filed' /\ filed'[n] = Len(runs) /\ n.log \notin DOMAIN cwd'
      BY <1>4, <2>1, <2>2
  <2>4. Taken(base)'
      BY <1>1, <2>1, <2>3 DEF Taken
  <2> QED
      BY <2>4
<1>6. ASSUME NEW log \in DOMAIN cwd, Own(base, log)
      PROVE  (Taken(base) \/ \E l \in DOMAIN cwd : Own(base, l))'
  <2>1. CASE log = f
    <3>1. name \in DOMAIN filed' /\ filed'[name] = Len(runs) /\ name.log \notin DOMAIN cwd'
          /\ name.log.base = base
        BY <1>3, <1>4, <1>6, <2>1 DEF Own
    <3>2. Taken(base)'
        BY <1>1, <1>2, <1>3, <3>1 DEF Taken
    <3> QED
        BY <3>2
  <2>2. CASE log # f
    <3>1. log \in DOMAIN cwd' /\ Own(base, log)'
        BY <1>1, <1>4, <1>6, <2>2 DEF Own
    <3> QED
        BY <3>1
  <2> QED
      BY <2>1, <2>2
<1> QED
    BY <1>5, <1>6

LEMMA WrittenStep ==
    ASSUME ScriptTypeOK, LoopInv, StampedNow, Written, [ExperimentNext]_experimentVars
    PROVE  Written'
<1>1. CASE UNCHANGED <<script, list, header, ith, cwd, minute, filed, runs>>
    BY <1>1 DEF Written, Own, Taken, Last, Dir, policy
<1>2. CASE script' \notin Awaited
    BY <1>2 DEF Written, Awaited
<1>3. CASE ProgramStep
  <2>1. /\ UNCHANGED <<params, script, list, header, ith, todo, minute, filed>>
        /\ runs # <<>> /\ script \in {"wait", "off"}
      BY <1>3, ProgramEffect DEF LoopInv, Awaited
  <2>2. CASE script = "off"
      BY <1>2, <2>1, <2>2 DEF Awaited
  <2>3. CASE UNCHANGED <<cwd, runs>>
      BY <1>1, <2>1, <2>3
  <2>4. ASSUME NEW bases \in SUBSET {params.logname, "workload", "stats"}, Write(bases),
               script = "wait"
        PROVE  Written'
    <3>1. bases \in SUBSET Bases /\ script' = "wait"
        BY <2>1, <2>4 DEF ScriptTypeOK, Bases, Lines
    <3> QED
        BY <2>1, <2>4, <3>1, WrittenWriting
  <2> QED
      BY <1>3, <2>1, <2>2, <2>3, <2>4, ProgramEffect
<1>4. CASE Eval
  <2> DEFINE run == [NewRun(FALSE) EXCEPT !.wrote = {"stdout"}]
             log == Log("stdout", <<>>)
  <2>1. /\ script' = "wait" /\ runs' = Append(runs, run) /\ cwd' = Put(cwd, log, Len(runs'))
      BY <1>4 DEF Eval
  <2>2. run.wrote = {"stdout"} /\ log.base = "stdout" /\ log.stamps = <<>>
      BY DEF NewRun, Log
  <2> HIDE DEF run
  <2>3. Last' = run
    <3>1. Len(runs') = Len(runs) + 1 /\ runs'[Len(runs) + 1] = run
        BY <2>1 DEF ScriptTypeOK
    <3> QED
        BY <3>1 DEF Last
  <2> HIDE DEF log
  <2>4. log \in DOMAIN cwd' /\ cwd'[log] = Len(runs')
      BY <2>1 DEF Put
  <2>5. \A other \in DOMAIN cwd' : ~Before(other.stamps, <<>>)
    <3>1. \A other \in DOMAIN cwd' : other.stamps \in Seq(Nat)
        BY TypeStep DEF ScriptTypeOK, LogName
    <3>2. \A s \in Seq(Nat) : ~(Len(s) < Len(<<>>))
        OBVIOUS
    <3> QED
        BY <3>1, <3>2 DEF Before
  <2>6. Own("stdout", log)'
      BY <2>2, <2>4, <2>5 DEF Own
  <2> QED
      BY <2>1, <2>2, <2>3, <2>6 DEF Written, log
<1>5. CASE CollectLOG
  <2>1. /\ script = "wait" /\ script' = "timestamp" /\ runs # <<>> /\ {"rocksdb"} \in SUBSET Bases
      BY <1>5 DEF CollectLOG, LoopInv, Awaited, Bases
  <2>2. CASE UNCHANGED <<cwd, runs>>
      BY <2>1, <2>2 DEF Written, Own, Last
  <2> QED
      BY <1>5, <2>1, <2>2, WrittenWriting DEF CollectLOG
<1>6. CASE Timestamp
  <2>1. /\ script = "timestamp" /\ script' = "stamp" /\ cwd' = cwd /\ runs # <<>>
        /\ runs' = [runs EXCEPT ![Len(runs)] = [Last EXCEPT !.minute = minute']]
      BY <1>6 DEF Timestamp, LoopInv, Awaited, Last
  <2>2. Last \in Run /\ Len(runs) \in Nat \ {0}
      BY <2>1 DEF Last, ScriptTypeOK
  <2>3. [Last EXCEPT !.minute = minute'].wrote = Last.wrote
      BY <2>2 DEF Run
  <2>4. Len(runs') = Len(runs) /\ Last'.wrote = Last.wrote
    <3> DEFINE run == [Last EXCEPT !.minute = minute']
    <3>1. runs' = [runs EXCEPT ![Len(runs)] = run] /\ run.wrote = Last.wrote
        BY <2>1, <2>3
    <3> HIDE DEF run
    <3>2. Len(runs') = Len(runs) /\ runs'[Len(runs)] = run
        BY <2>2, <3>1 DEF ScriptTypeOK
    <3> QED
        BY <3>1, <3>2 DEF Last
  <2>5. ASSUME NEW base \in Last'.wrote PROVE (\E log \in DOMAIN cwd : Own(base, log))'
    <3>1. Own(base, Log(base, <<>>))
        BY <2>1, <2>4, <2>5 DEF Written
    <3>2. Own(base, Log(base, <<>>))'
        BY <2>1, <2>4, <3>1 DEF Own, Log
    <3>3. Log(base, <<>>) \in DOMAIN cwd'
        BY <2>1, <3>1 DEF Own
    <3> QED
        BY <3>2, <3>3 DEF Log
  <2> QED
      BY <2>1, <2>5 DEF Written
<1>7. CASE Stamp
  <2>1. script = "stamp" /\ script' = script /\ runs' = runs
      BY <1>7 DEF Stamp
  <2>2. \A base \in Last'.wrote : (\E log \in DOMAIN cwd : Own(base, log))'
    <3> SUFFICES ASSUME NEW base \in Last.wrote PROVE (\E log \in DOMAIN cwd : Own(base, log))'
        BY <2>1 DEF Last
    <3>1. PICK log \in DOMAIN cwd : Own(base, log)
        BY <2>1 DEF Written
    <3> QED
        BY <1>7, <3>1, StampingKeepsOwn
  <2> QED
      BY <2>1, <2>2 DEF Written
<1>8. CASE StartFiling
  <2>1. /\ script = "stamp" /\ script' = "file" /\ UNCHANGED <<cwd, runs>>
      BY <1>8 DEF StartFiling
  <2> QED
      BY <2>1 DEF Written, Own, Last
<1>9. CASE File
  <2>1. script = "file" /\ script' = script /\ runs' = runs
      BY <1>9 DEF File
  <2>2. \A base \in Last'.wrote : (Taken(base) \/ \E log \in DOMAIN cwd : Own(base, log))'
    <3> SUFFICES ASSUME NEW base \in Last.wrote
                 PROVE  (Taken(base) \/ \E log \in DOMAIN cwd : Own(base, log))'
        BY <2>1 DEF Last
    <3> QED
        BY <1>9, <2>1, FilingKeepsOwn DEF Written
  <2> QED
      BY <2>1, <2>2 DEF Written
<1>10. ASSUME NEW words \in HandLines, TypeByHand(words) PROVE Written'
    BY <1>2, <1>10 DEF TypeByHand, Awaited
<1>11. CASE Start \/ Clean \/ Setup \/ Common \/ NextPolicy \/ Interrupt \/ UNCHANGED experimentVars
    BY <1>1, <1>2, <1>11 DEF Start, Clean, Setup, Common, NextPolicy, Interrupt, experimentVars,
       scriptVars, Awaited
<1> QED
    BY <1>3, <1>4, <1>5, <1>6, <1>7, <1>8, <1>9, <1>10, <1>11 DEF ExperimentNext, ScriptStep

\* What is reported stays so, as long as no file of the directories is replaced
LEMMA ReportedKept ==
    ASSUME ScriptTypeOK, RunsKept, NEW r \in 1 .. Past, NEW base, Reported(r, base),
           ~runs[r].hand, filed' = filed, Settled \in Int, Settled' \in Int, Settled <= Settled'
    PROVE  Reported(r, base)'
<1>1. Len(runs) \in Nat /\ Past \in Int /\ Past <= Len(runs) /\ Settled <= Len(runs)
    BY DEF ScriptTypeOK, Past, Settled
<1>2. PICK name \in DOMAIN filed :
        /\ name.dir = runs[r].dir /\ name.log.base = base
        /\ StampIs(name.log, runs[r].minute)
        /\ \/ filed[name] = r
           \/ \E p \in r + 1 .. Settled :
                /\ filed[name] \in r + 1 .. p
                /\ runs[p].dir = runs[r].dir /\ runs[p].minute = runs[r].minute
    BY DEF Reported
<1>3. runs'[r] = runs[r]
    BY <1>1 DEF RunsKept
<1>4. ASSUME NEW p \in r + 1 .. Settled
      PROVE  runs'[p].dir = runs[p].dir /\ runs'[p].minute = runs[p].minute
  <2>1. p \in 1 .. Len(runs) /\ ~(script = "timestamp" /\ p = Len(runs))
      BY <1>1 DEF Settled
  <2> QED
      BY <2>1 DEF RunsKept
<1>5. \A p \in r + 1 .. Settled : p \in r + 1 .. Settled'
    BY <1>1
<1> QED
    BY <1>2, <1>3, <1>4, <1>5 DEF Reported

LEMMA AllReportedKept ==
    ASSUME ScriptTypeOK, RunsKept, AllReported, filed' = filed,
           Settled \in Int, Settled' \in Int, Settled <= Settled',
           \A r \in 1 .. Past' : r <= Past \/ Lost(r)'
    PROVE  AllReported'
<1>1. Len(runs) \in Nat /\ Past \in Int /\ Past <= Len(runs)
    BY DEF ScriptTypeOK, Past
<1> SUFFICES ASSUME NEW r \in 1 .. Past', ~Lost(r)' PROVE \A base \in runs'[r].wrote : Reported(r, base)'
    BY DEF AllReported
<1>2. r \in 1 .. Past /\ r \in 1 .. Len(runs)
    BY <1>1
<1>3. ~Lost(r)
    BY <1>2 DEF Lost, RunsKept
<1>4. ~runs[r].hand /\ runs'[r] = runs[r]
    BY <1>2, <1>3 DEF Lost, RunsKept
<1> QED
    BY <1>2, <1>3, <1>4, ReportedKept DEF AllReported

\* A log that takes the place of one in a directory is of a later run, one that was not
\* filed because it was lost, and the run that files it has the minute of the name
LEMMA FilingKeepsReported ==
    ASSUME ScriptTypeOK, LoopInv, Leftovers, StampedNow, File, NEW r \in 1 .. Past, ~Lost(r),
           NEW base, Reported(r, base)
    PROVE  Reported(r, base)'
<1> DEFINE f == First(todo)
           new == [dir |-> Dir, log |-> f]
<1>1. /\ script = "file" /\ script' = script /\ todo # {} /\ runs' = runs
      /\ filed' = Put(filed, new, cwd[f])
    BY DEF File
<1>2. f \in DOMAIN cwd /\ StampIs(f, minute)
    BY <1>1 DEF First, ScriptTypeOK, StampedNow
<1>3. new.dir = Dir /\ new.log = f
    OBVIOUS
<1> HIDE DEF f, new
<1>4. /\ DOMAIN filed' = DOMAIN filed \cup {new} /\ filed'[new] = cwd[f]
      /\ \A n \in DOMAIN filed : n # new => filed'[n] = filed[n]
    BY <1>1 DEF Put
<1>5. Len(runs) \in Nat /\ Past = Len(runs) - 1 /\ Settled = Len(runs) /\ Settled' = Len(runs)
    BY <1>1 DEF ScriptTypeOK, Past, Settled, Awaited
<1>6. runs[Len(runs)].dir = Dir /\ runs[Len(runs)].minute = minute
    BY <1>1 DEF LoopInv, Last, Awaited
<1>7. PICK name \in DOMAIN filed :
        /\ name.dir = runs[r].dir /\ name.log.base = base
        /\ StampIs(name.log, runs[r].minute)
        /\ \/ filed[name] = r
           \/ \E p \in r + 1 .. Settled :
                /\ filed[name] \in r + 1 .. p
                /\ runs[p].dir = runs[r].dir /\ runs[p].minute = runs[r].minute
    BY DEF Reported
<1>8. CASE name # new
    BY <1>1, <1>4, <1>5, <1>7, <1>8 DEF Reported
<1>9. CASE name = new
  <2>1. runs[r].dir = Dir /\ runs[r].minute = minute
      BY <1>2, <1>3, <1>7, <1>9 DEF StampIs
  <2>2. cwd[f] \in 1 .. Len(runs) /\ r < cwd[f]
    <3>1. cwd[f] \in 1 .. Len(runs)
        BY <1>2 DEF ScriptTypeOK
    <3>2. r \notin cwd[f] .. Past
        BY <1>2 DEF Leftovers
    <3> QED
        BY <1>5, <3>1, <3>2
  <2>3. Len(runs) \in r + 1 .. Settled' /\ filed'[new] \in r + 1 .. Len(runs)
      BY <1>4, <1>5, <2>2
  <2> QED
      BY <1>1, <1>4, <1>6, <1>7, <1>9, <2>1, <2>3 DEF Reported
<1> QED
    BY <1>8, <1>9

LEMMA ReportedStep ==
    ASSUME ScriptTypeOK, LoopInv, Leftovers, StampedNow, Written, AllReported,
           [ExperimentNext]_experimentVars
    PROVE  AllReported'
<1>1. RunsKept /\ ScriptTypeOK' /\ Len(runs) \in Nat /\ Len(runs') \in Nat
    BY RunsStep, TypeStep DEF ScriptTypeOK
<1>2. Past \in Int /\ Past' \in Int /\ Settled \in Int /\ Settled' \in Int
    BY <1>1 DEF Past, Settled
<1>3. ASSUME filed' = filed, Len(runs') = Len(runs), Settled <= Settled', Past' = Past
      PROVE  AllReported'
    BY <1>1, <1>2, <1>3, AllReportedKept
<1>4. CASE UNCHANGED <<script, filed>> /\ Len(runs') = Len(runs)
    BY <1>1, <1>3, <1>4 DEF Past, Settled
<1>5. CASE ProgramStep
  <2>1. /\ UNCHANGED <<script, filed>> /\ runs # <<>>
      BY <1>5, ProgramEffect DEF LoopInv, Awaited
  <2>2. ASSUME NEW bases \in SUBSET {params.logname, "workload", "stats"}, Write(bases)
        PROVE  Len(runs') = Len(runs)
      BY <2>2 DEF Write, ScriptTypeOK
  <2> QED
      BY <1>4, <1>5, <2>1, <2>2, ProgramEffect
<1>6. ASSUME NEW words \in HandLines, TypeByHand(words) PROVE AllReported'
  <2>1. /\ script = "off" /\ script' = script /\ runs' = Append(runs, NewRun(TRUE))
        /\ filed' = filed
      BY <1>6 DEF TypeByHand
  <2>2. Len(runs') = Len(runs) + 1 /\ runs'[Len(runs) + 1] = NewRun(TRUE)
    <3>1. \A run : /\ Len(Append(runs, run)) = Len(runs) + 1
                   /\ Append(runs, run)[Len(runs) + 1] = run
        BY <1>1 DEF ScriptTypeOK
    <3> QED
        BY <2>1, <3>1
  <2>3. runs'[Len(runs) + 1].hand
      BY <2>2 DEF NewRun
  <2>4. Past = Len(runs) /\ Past' = Len(runs) + 1 /\ Settled <= Settled'
      BY <1>1, <2>1, <2>2 DEF Past, Settled, Awaited
  <2>5. \A q \in 1 .. Past' : q <= Past \/ Lost(q)'
    <3>1. \A q \in 1 .. Past' : q <= Past \/ q = Len(runs) + 1
        BY <1>1, <2>4
    <3> QED
        BY <2>3, <3>1 DEF Lost
  <2> QED
      BY <1>1, <1>2, <2>1, <2>4, <2>5, AllReportedKept
<1>7. CASE Eval
  <2>1. script = "eval" /\ script' = "wait" /\ filed' = filed /\ Len(runs') = Len(runs) + 1
      BY <1>1, <1>7 DEF Eval, ScriptTypeOK
  <2>2. Past' = Past /\ Settled' = Settled
      BY <1>1, <2>1 DEF Past, Settled, Awaited
  <2> QED
      BY <1>1, <1>2, <2>1, <2>2, AllReportedKept
<1>8. CASE CollectLOG \/ Timestamp \/ Stamp \/ StartFiling
  <2>1. /\ script \in Awaited /\ script' \in Awaited /\ filed' = filed
        /\ script \notin {"wait", "timestamp"} => script' \notin {"wait", "timestamp"}
      BY <1>8 DEF CollectLOG, Timestamp, Stamp, StartFiling, Awaited
  <2>2. runs' = runs \/ Write({"rocksdb"}) \/ runs' = [runs EXCEPT ![Len(runs)].minute = minute']
      BY <1>8 DEF CollectLOG, Timestamp, Stamp, StartFiling
  <2>3. Len(runs') = Len(runs)
      BY <2>2 DEF Write, ScriptTypeOK
  <2>4. Past' = Past /\ Settled <= Settled'
      BY <1>1, <2>1, <2>3 DEF Past, Settled
  <2> QED
      BY <1>3, <2>1, <2>3, <2>4
<1>9. CASE File
  <2>1. script' = script /\ runs' = runs
      BY <1>9 DEF File
  <2>2. Past' = Past /\ \A r : Lost(r)' = Lost(r)
      BY <2>1 DEF Past, Lost
  <2> QED
      BY <1>9, <2>1, <2>2, FilingKeepsReported DEF AllReported
<1>10. CASE NextPolicy
  <2>1. /\ script = "file" /\ script' \in {"clean", "off"}
        /\ UNCHANGED <<cwd, filed, runs>> /\ DOMAIN cwd = {}
      BY <1>10 DEF NextPolicy, LoopInv
  <2>2. /\ Past' = Len(runs) /\ Past = Len(runs) - 1
        /\ Settled = Len(runs) /\ Settled' = Len(runs)
      BY <2>1 DEF Past, Settled, Awaited
  <2>3. ASSUME NEW base \in Last.wrote PROVE Reported(Len(runs), base)'
    <3>1. PICK name \in DOMAIN filed : /\ name.dir = Dir /\ name.log.base = base
                                       /\ StampIs(name.log, minute) /\ filed[name] = Len(runs)
        BY <2>1 DEF Written, Taken
    <3>2. Last.dir = Dir /\ Last.minute = minute
        BY <2>1 DEF LoopInv, Awaited
    <3> QED
        BY <2>1, <3>1, <3>2 DEF Reported, Last
  <2>4. ASSUME NEW r \in 1 .. Past, NEW base \in runs[r].wrote, ~Lost(r)
        PROVE  Reported(r, base)'
    <3>1. Reported(r, base) /\ ~runs[r].hand
        BY <2>4 DEF AllReported, Lost
    <3> QED
        BY <1>1, <1>2, <2>1, <2>2, <3>1, ReportedKept
  <2>5. \A r \in 1 .. Past' : r \in 1 .. Past \/ r = Len(runs)
      BY <1>1, <2>2
  <2> QED
      BY <2>1, <2>3, <2>4, <2>5 DEF AllReported, Lost, Last
<1>11. CASE Interrupt
  <2>1. /\ script' = "off" /\ filed' = filed /\ script # "off"
        /\ runs' = IF script \in {"clean", "setup", "common", "eval"} THEN runs
                   ELSE [runs EXCEPT ![Len(runs)].cut = TRUE]
      BY <1>11 DEF Interrupt
  <2>2. CASE script \in {"clean", "setup", "common", "eval"}
      BY <1>1, <1>3, <2>1, <2>2 DEF Past, Settled, Awaited
  <2>3. CASE script \in Awaited
    <3>1. Last \in Run /\ Len(runs) \in Nat \ {0}
        BY <1>1, <2>3 DEF Last, ScriptTypeOK, LoopInv
    <3>2. Len(runs') = Len(runs) /\ runs'[Len(runs)] = [Last EXCEPT !.cut = TRUE]
      <4>1. runs' = [runs EXCEPT ![Len(runs)] = [Last EXCEPT !.cut = TRUE]]
          BY <2>1, <2>3 DEF Last, Awaited
      <4> QED
          BY <3>1, <4>1 DEF ScriptTypeOK
    <3>3. runs'[Len(runs)].cut
        BY <3>1, <3>2 DEF Run
    <3>4. Past = Len(runs) - 1 /\ Past' = Len(runs) /\ Settled <= Settled'
        BY <1>1, <2>1, <2>3, <3>2 DEF Past, Settled, Awaited
    <3>5. \A q \in 1 .. Past' : q <= Past \/ Lost(q)'
      <4>1. \A q \in 1 .. Past' : q <= Past \/ q = Len(runs)
          BY <1>1, <3>4
      <4>2. Lost(Len(runs))'
          BY <3>2, <3>3 DEF Lost
      <4> QED
          BY <3>2, <4>1, <4>2
    <3> QED
        BY <1>1, <1>2, <2>1, <3>4, <3>5, AllReportedKept
  <2> QED
      BY <2>1, <2>2, <2>3 DEF ScriptTypeOK
<1>12. CASE Start \/ Clean \/ Setup \/ Common \/ UNCHANGED experimentVars
  <2>1. /\ UNCHANGED <<filed, runs>> /\ (script \in Awaited <=> script' \in Awaited)
        /\ script \in {"wait", "timestamp"} <=> script' \in {"wait", "timestamp"}
      BY <1>12 DEF Start, Clean, Setup, Common, experimentVars, scriptVars, Awaited
  <2> QED
      BY <1>1, <1>3, <2>1 DEF Past, Settled
<1> QED
    BY <1>5, <1>6, <1>7, <1>8, <1>9, <1>10, <1>11, <1>12 DEF ExperimentNext, ScriptStep

-----------------------------------------------------------------------------
FilingInv == ProcessInv /\ ScriptTypeOK /\ LoopInv /\ Leftovers /\ FiledWhereItBelongs

LEMMA FilingInit == ExperimentInit => FilingInv
<1> SUFFICES ASSUME ExperimentInit PROVE FilingInv
    OBVIOUS
<1>1. Len(<<>>) = 0 /\ DOMAIN <<>> = {}
    OBVIOUS
<1>2. ProcessInv
  <2>1. /\ argv = <<>> /\ it = 1 /\ matched = {} /\ value = Default /\ status = "idle"
        /\ phase = "none" /\ env = NewDBEnv /\ options = <<>>
      BY DEF ExperimentInit, NoProcess, ParserInit
  <2> QED
      BY <1>1, <2>1 DEF ProcessInv, ParserInv, ParserTypeOK, Default
<1>3. /\ params = [line \in Lines |-> "as it was"] /\ script = "off" /\ phase = "none"
      /\ todo = {} /\ minute = 0 /\ cwd = <<>> /\ LOG = 0 /\ filed = <<>> /\ runs = <<>>
    BY DEF ExperimentInit, NoProcess
<1>4. params \in [Lines -> ParamValues]
    BY <1>3 DEF ParamValues
<1>5. ScriptTypeOK
  <2>1. <<>> \in Seq(Run)
      OBVIOUS
  <2>2. /\ DOMAIN cwd = {} /\ DOMAIN filed = {} /\ Len(runs) = 0
        /\ minute \in Nat /\ runs \in Seq(Run)
      BY <1>1, <1>3, <2>1
  <2>3. script = "off" /\ todo = {} /\ LOG = 0
      BY <1>3
  <2> QED
      BY <1>4, <2>2, <2>3 DEF ScriptTypeOK
<1>6. LoopInv
    BY <1>3 DEF LoopInv, Awaited, Running
<1>7. Leftovers /\ FiledWhereItBelongs
    BY <1>1, <1>3 DEF Leftovers, FiledWhereItBelongs
<1> QED
    BY <1>2, <1>5, <1>6, <1>7 DEF FilingInv

LEMMA FilingInvariant == ExperimentSpec => []FilingInv
<1>1. FilingInv /\ [ExperimentNext]_experimentVars => FilingInv'
    BY ProcessStep, TypeStep, FilingStep DEF FilingInv
<1> QED
    BY <1>1, FilingInit, PTL DEF ExperimentSpec

(***************************************************************************)
(* However long the command line and whatever its words, the parser takes  *)
(* it for what it means, read as a whole, or refuses it when it means      *)
(* nothing (args.hxx, Parse; parse_arguments.h).                           *)
(***************************************************************************)
THEOREM LinesMeanWhatTheySay == ExperimentSpec => []ParsedAsWritten
<1>1. FilingInv => ParsedAsWritten
    BY ParserEnds DEF FilingInv, ProcessInv
<1> QED
    BY <1>1, FilingInvariant, PTL

(***************************************************************************)
(* The process and the script hold what they should, and every log that    *)
(* lies anywhere is of a run there was.                                    *)
(***************************************************************************)
THEOREM ExperimentTyped == ExperimentSpec => []ExperimentTypeOK
<1>1. FilingInv => ExperimentTypeOK
  <2> SUFFICES ASSUME FilingInv PROVE ExperimentTypeOK
      OBVIOUS
  <2>1. /\ it \in 1 .. Len(argv) + 1 /\ matched \subseteq Flags /\ DOMAIN value = Flags
        /\ status \in {"idle", "parsing", "parsed", "error"}
        /\ phase \in {"none", "parsing", "configuring", "opening", "replaying"}
        /\ DOMAIN env = DOMAIN NewDBEnv
        /\ options # <<>> <=> phase \in {"opening", "replaying"}
      BY DEF FilingInv, ProcessInv, ParserInv, ParserTypeOK
  <2>2. DOMAIN runs = 1 .. Len(runs)
      BY DEF FilingInv, ScriptTypeOK
  <2>3. /\ DOMAIN params = Lines
        /\ script \in {"off", "clean", "setup", "common", "eval", "wait", "timestamp",
                       "stamp", "file"}
        /\ todo \subseteq DOMAIN cwd
        /\ \A log \in DOMAIN cwd : cwd[log] \in DOMAIN runs
        /\ \A name \in DOMAIN filed : filed[name] \in DOMAIN runs
        /\ LOG \in 0 .. Len(runs)
      BY <2>2 DEF FilingInv, ScriptTypeOK, Awaited
  <2> QED
      BY <2>1, <2>3 DEF ExperimentTypeOK
<1> QED
    BY <1>1, FilingInvariant, PTL

(***************************************************************************)
(* Through any interruptions and runs by hand, a log that is filed lies in *)
(* the directory of its run, or of the next one that was not lost.         *)
(* (experiment.sh, its loop over the policies.)                            *)
(***************************************************************************)
THEOREM LogsAreFiledWhereTheyBelong == ExperimentSpec => []FiledWhereItBelongs
<1>1. FilingInv => FiledWhereItBelongs
    BY DEF FilingInv
<1> QED
    BY <1>1, FilingInvariant, PTL

-----------------------------------------------------------------------------
LEMMA ReportInit == ExperimentInit => ReportInv
<1> SUFFICES ASSUME ExperimentInit PROVE ReportInv
    OBVIOUS
<1>1. runs = <<>> /\ script = "off" /\ Len(<<>>) = 0
    BY DEF ExperimentInit
<1>2. Named
    BY <1>1 DEF Named
<1>3. Past = 0
    BY <1>1 DEF Past, Awaited
<1>4. AllReported
    BY <1>3 DEF AllReported
<1> QED
    BY <1>1, <1>2, <1>4 DEF ReportInv, StampedNow, Written

LEMMA ReportInvariant == ExperimentSpec => []ReportInv
<1>1. FilingInv /\ ReportInv /\ [ExperimentNext]_experimentVars => ReportInv'
    BY NamedStep, StampedStep, WrittenStep, ReportedStep DEF FilingInv, ReportInv
<1> QED
    BY <1>1, ReportInit, FilingInvariant, PTL DEF ExperimentSpec

(***************************************************************************)
(* An iteration that was not interrupted has its logs in its directory,    *)
(* stamped, whatever lay in the working directory and however its program  *)
(* ended, but for those that a later run of the same directory and minute  *)
(* replaced, or a leftover that was filed with that run's (experiment.sh   *)
(* 122-135).                                                               *)
(***************************************************************************)
THEOREM LogsOfWholeRunsAreReported == ExperimentSpec => []CompleteRunsAreReported
<1>1. FilingInv /\ ReportInv => CompleteRunsAreReported
  <2> SUFFICES ASSUME FilingInv, ReportInv, NEW r \in DOMAIN runs, Over(r)
               PROVE  /\ runs[r].wrote \subseteq OwnNames(r)
                      /\ \A base \in runs[r].wrote :
                          \E name \in DOMAIN filed :
                              /\ name.dir = runs[r].dir
                              /\ name.log.base = base /\ name.log.stamps # <<>>
                              /\ \/ filed[name] = r
                                 \/ \E p \in r + 1 .. Len(runs) :
                                      /\ filed[name] \in r + 1 .. p
                                      /\ runs[p].dir = runs[r].dir
                                      /\ runs[p].minute = runs[r].minute
      BY DEF CompleteRunsAreReported, OwnNames
  <2>1. r \in 1 .. Len(runs) /\ Len(runs) \in Nat
      BY DEF FilingInv, ScriptTypeOK
  <2>2. ~runs[r].hand /\ ~Lost(r) /\ r \in 1 .. Past
      BY <2>1 DEF Over, ByScript, Lost, Past, Awaited
  <2>3. runs[r].wrote \subseteq OwnNames(r) /\ \A base \in runs[r].wrote : Reported(r, base)
      BY <2>1, <2>2 DEF ReportInv, Named, AllReported
  <2>4. \A p \in r + 1 .. Settled : p \in r + 1 .. Len(runs)
      BY <2>1 DEF Settled
  <2> QED
      BY <2>3, <2>4 DEF Reported, StampIs
<1> QED
    BY <1>1, FilingInvariant, ReportInvariant, PTL

-----------------------------------------------------------------------------
(* Arithmetic in a width: remainders of products and of what fits. *)

LEMMA Remainder ==
    ASSUME NEW m \in Nat, m > 0, NEW q \in Int, NEW n \in 0 .. m - 1
    PROVE  (m * q + n) % m = n
OBVIOUS

LEMMA HasRemainder ==
    ASSUME NEW m \in Nat, m > 0, NEW a \in Int
    PROVE  a % m \in 0 .. m - 1 /\ \E q \in Int : a = m * q + (a % m)
<1>1. a % m \in 0 .. m - 1
    OBVIOUS
<1>2. \E q \in Int : a = m * q + (a % m)
    OBVIOUS
<1> QED
    BY <1>1, <1>2

\* Numbers that differ by a multiple of m
LEMMA SameRemainder ==
    ASSUME NEW m \in Nat, m > 0, NEW a \in Int, NEW b \in Int,
           \E q \in Int : a = m * q + b
    PROVE  a % m = b % m
<1>1. PICK q \in Int : a = m * q + b
    OBVIOUS
<1>2. PICK k \in Int : b = m * k + (b % m)
    BY HasRemainder
<1>3. b % m \in 0 .. m - 1
    BY HasRemainder
<1> DEFINE n == b % m
<1> HIDE DEF n
<1>4. n \in 0 .. m - 1 /\ b = m * k + n
    BY <1>2, <1>3 DEF n
<1>5. a = m * (q + k) + n
    BY <1>4, <1>1
<1>6. (m * (q + k) + n) % m = n
    BY <1>4, Remainder
<1> QED
    BY <1>5, <1>6 DEF n

LEMMA ProductOfSums ==
    ASSUME NEW m \in Nat, m > 0, NEW a \in Int, NEW b \in Int, NEW s \in Int, NEW t \in Int,
           \E x \in Int : a = m * x + s, \E y \in Int : b = m * y + t
    PROVE  (a * b) % m = (s * t) % m
<1>1. PICK x \in Int, y \in Int : a = m * x + s /\ b = m * y + t
    OBVIOUS
<1>2. a * b = m * (m * x * y + x * t + y * s) + s * t
    BY <1>1
<1>3. PICK u \in Int, v \in Int : u = a * b /\ v = s * t
    OBVIOUS
<1>4. \E q \in Int : u = m * q + v
    BY <1>2, <1>3
<1>5. u % m = v % m
    BY <1>4, SameRemainder
<1> QED
    BY <1>3, <1>5

Congruent(m, a, b) == a % m = b % m

LEMMA CongruentProducts ==
    ASSUME NEW m \in Nat, m > 0, NEW a \in Int, NEW b \in Int, NEW c \in Int, NEW d \in Int,
           Congruent(m, a, c), Congruent(m, b, d)
    PROVE  Congruent(m, a * b, c * d)
<1>1. PICK s \in Int, t \in Int : s = c % m /\ t = d % m
    BY HasRemainder
<1>2. /\ \E i \in Int : a = m * i + (a % m)
      /\ \E j \in Int : b = m * j + (b % m)
      /\ \E k \in Int : c = m * k + (c % m)
      /\ \E l \in Int : d = m * l + (d % m)
    BY HasRemainder
<1>3. /\ \E i \in Int : a = m * i + s
      /\ \E j \in Int : b = m * j + t
      /\ \E k \in Int : c = m * k + s
      /\ \E l \in Int : d = m * l + t
    BY <1>1, <1>2 DEF Congruent
<1>4. (a * b) % m = (s * t) % m
    BY <1>3, ProductOfSums
<1>5. (c * d) % m = (s * t) % m
    BY <1>3, ProductOfSums
<1> QED
    BY <1>4, <1>5 DEF Congruent

LEMMA RemainderTwice ==
    ASSUME NEW m \in Nat, m > 0, NEW a \in Int
    PROVE  (a % m) % m = a % m /\ (a \in 0 .. m - 1 => a % m = a)
<1>1. a % m \in 0 .. m - 1
    OBVIOUS
<1>2. \A n \in 0 .. m - 1 : n % m = n
    OBVIOUS
<1> QED
    BY <1>1, <1>2

\* Reducing on the way to a product of three changes nothing
LEMMA ProductOfThree ==
    ASSUME NEW m \in Nat, m > 0,
           NEW p \in Int, NEW b \in Int, NEW s \in Int, NEW P \in Int, NEW B \in Int, NEW E \in Int,
           Congruent(m, p, P), Congruent(m, b, B), Congruent(m, s, E)
    PROVE  Congruent(m, ((p * b) % m) * s, P * B * E)
<1>1. Congruent(m, p * b, P * B)
    BY CongruentProducts
<1>2. PICK x \in Int, X \in Int, k \in Int : x = p * b /\ X = P * B /\ k = x % m
    BY HasRemainder
<1>3. Congruent(m, k, X)
    BY <1>1, <1>2, RemainderTwice DEF Congruent
<1>4. Congruent(m, k * s, X * E)
    BY <1>3, CongruentProducts
<1> QED
    BY <1>2, <1>4

-----------------------------------------------------------------------------
LEMMA JoinedField ==
    ASSUME NEW parts, NEW k \in DOMAIN parts, NEW field \in DOMAIN parts[k],
           \A i \in DOMAIN parts : field \in DOMAIN parts[i] => i = k
    PROVE  field \in DOMAIN Joined(parts) /\ Joined(parts)[field] = parts[k][field]
<1>1. (CHOOSE i \in DOMAIN parts : field \in DOMAIN parts[i]) = k
    OBVIOUS
<1> QED
    BY <1>1 DEF Joined

\* The members that the options of OptionsAsAsked and BufferFitsFile come from
SizeMembers == {"size_ratio", "buffer_size_in_pages", "entries_per_page", "entry_size"}
AskedMembers ==
    SizeMembers \cup
    {"buffer_size_", "perf_stats_", "files_in_l0", "fs_uri", "compaction_pri",
     "compaction_style", "num_levels", "block_cache", "low_pri"}
TriggerMembers ==
    {"level0_slowdown_writes_trigger", "level0_stop_writes_trigger",
     "level0_file_num_compaction_trigger"}

\* Where they are in a DBEnv
LEMMA PlacesOfMembers ==
    LET members == AskedMembers \cup TriggerMembers IN
    /\ DOMAIN PrivateMembers \cap members = {"buffer_size_", "perf_stats_"}
    /\ DOMAIN DBOptions \cap members = {"files_in_l0", "fs_uri"}
    /\ DOMAIN TreeMembers \cap members =
            SizeMembers \cup {"compaction_pri", "compaction_style", "num_levels",
                              "level0_file_num_compaction_trigger"}
    /\ DOMAIN TableMembers \cap members = {"block_cache"}
    /\ DOMAIN ReadWriteMembers \cap members = {"low_pri"}
    /\ DOMAIN ColumnFamilyMembers \cap members =
            {"level0_slowdown_writes_trigger", "level0_stop_writes_trigger"}
<1> USE DEF AskedMembers, TriggerMembers, SizeMembers
<1> DEFINE members == AskedMembers \cup TriggerMembers
<1>1. DOMAIN PrivateMembers \cap members = {"buffer_size_", "perf_stats_"}
    BY DEF PrivateMembers
<1>2. DOMAIN DBOptions \cap members = {"files_in_l0", "fs_uri"}
    BY DEF DBOptions
<1>3. DOMAIN TreeMembers \cap members =
            SizeMembers \cup {"compaction_pri", "compaction_style", "num_levels",
                              "level0_file_num_compaction_trigger"}
    BY DEF TreeMembers
<1>4. DOMAIN TableMembers \cap members = {"block_cache"}
    BY DEF TableMembers
<1>5. DOMAIN ReadWriteMembers \cap members = {"low_pri"}
    BY DEF ReadWriteMembers
<1>6. DOMAIN ColumnFamilyMembers \cap members =
            {"level0_slowdown_writes_trigger", "level0_stop_writes_trigger"}
    BY DEF ColumnFamilyMembers
<1> QED
    BY <1>1, <1>2, <1>3, <1>4, <1>5, <1>6

\* Their defaults (db_env.h)
LEMMA DefaultsOfMembers ==
    /\ AskedMembers \cup TriggerMembers \subseteq DOMAIN NewDBEnv
    /\ NewDBEnv.size_ratio = 4 /\ NewDBEnv.buffer_size_in_pages = 128
    /\ NewDBEnv.entries_per_page = 64 /\ NewDBEnv.entry_size = 64
    /\ NewDBEnv.perf_stats_ = TRUE /\ NewDBEnv.files_in_l0 = 4 /\ NewDBEnv.fs_uri = Empty
    /\ NewDBEnv.compaction_pri = 1 /\ NewDBEnv.compaction_style = 1
    /\ NewDBEnv.num_levels = 10 /\ NewDBEnv.block_cache = 0 /\ NewDBEnv.low_pri = FALSE
<1> DEFINE parts == <<PrivateMembers, DBOptions, TreeMembers, TableMembers, ReadWriteMembers,
                      ColumnFamilyMembers>>
           members == AskedMembers \cup TriggerMembers
<1>1. NewDBEnv = Joined(parts)
    BY DEF NewDBEnv
<1>2. /\ DOMAIN parts = 1 .. 6
      /\ parts[1] = PrivateMembers /\ parts[2] = DBOptions /\ parts[3] = TreeMembers
      /\ parts[4] = TableMembers /\ parts[5] = ReadWriteMembers
      /\ parts[6] = ColumnFamilyMembers
    OBVIOUS
<1> HIDE DEF parts
<1>3. ASSUME NEW field \in members, NEW k \in 1 .. 6, field \in DOMAIN parts[k]
      PROVE  field \in DOMAIN NewDBEnv /\ NewDBEnv[field] = parts[k][field]
  <2>1. \A i \in 1 .. 6 : field \in DOMAIN parts[i] => i = k
      BY <1>2, <1>3, PlacesOfMembers DEF AskedMembers, TriggerMembers, SizeMembers
  <2> QED
      BY <1>1, <1>2, <1>3, <2>1, JoinedField
<1>4. \A field \in members : \E k \in 1 .. 6 : field \in DOMAIN parts[k]
    BY <1>2, PlacesOfMembers DEF AskedMembers, TriggerMembers, SizeMembers
<1>5. members \subseteq DOMAIN NewDBEnv
    BY <1>3, <1>4
<1>6. \A field \in SizeMembers \cup {"compaction_pri", "compaction_style", "num_levels"} :
            field \in members /\ field \in DOMAIN parts[3]
    BY <1>2, PlacesOfMembers DEF AskedMembers
<1>7. \A field \in SizeMembers \cup {"compaction_pri", "compaction_style", "num_levels"} :
            NewDBEnv[field] = TreeMembers[field]
    BY <1>2, <1>3, <1>6
<1>8. \A field \in {"files_in_l0", "fs_uri"} : NewDBEnv[field] = DBOptions[field]
    BY <1>2, <1>3, PlacesOfMembers DEF AskedMembers
<1>9. NewDBEnv["perf_stats_"] = PrivateMembers["perf_stats_"]
    BY <1>2, <1>3, PlacesOfMembers DEF AskedMembers
<1>10. NewDBEnv["block_cache"] = TableMembers["block_cache"]
    BY <1>2, <1>3, PlacesOfMembers DEF AskedMembers
<1>11. NewDBEnv["low_pri"] = ReadWriteMembers["low_pri"]
    BY <1>2, <1>3, PlacesOfMembers DEF AskedMembers
<1>12. /\ TreeMembers["compaction_pri"] = 1 /\ TreeMembers["compaction_style"] = 1
       /\ TreeMembers["num_levels"] = 10
       /\ TreeMembers["size_ratio"] = 4 /\ TreeMembers["buffer_size_in_pages"] = 128
       /\ TreeMembers["entries_per_page"] = 64 /\ TreeMembers["entry_size"] = 64
    BY DEF TreeMembers
<1>13. /\ NewDBEnv["files_in_l0"] = 4 /\ NewDBEnv["fs_uri"] = Empty
    BY <1>8 DEF DBOptions
<1>14. NewDBEnv["perf_stats_"] = TRUE
    BY <1>9 DEF PrivateMembers
<1>15. NewDBEnv["block_cache"] = 0
    BY <1>10 DEF TableMembers
<1>16. NewDBEnv["low_pri"] = FALSE
    BY <1>11 DEF ReadWriteMembers
<1>17. /\ NewDBEnv["compaction_pri"] = 1 /\ NewDBEnv["compaction_style"] = 1
       /\ NewDBEnv["num_levels"] = 10
       /\ NewDBEnv["size_ratio"] = 4 /\ NewDBEnv["buffer_size_in_pages"] = 128
       /\ NewDBEnv["entries_per_page"] = 64 /\ NewDBEnv["entry_size"] = 64
    BY <1>7, <1>12 DEF SizeMembers
<1> QED
    BY <1>5, <1>13, <1>14, <1>15, <1>16, <1>17

\* The flags that set them
LEMMA TypesOfFlags ==
    /\ \A flag \in AskedMembers : flag \in Flags
    /\ \A flag \in AskedMembers \ {"buffer_size_", "fs_uri"} : Type(flag) = "int"
    /\ Type("buffer_size_") = "long" /\ Type("fs_uri") = "string"
    /\ Flags \cap TriggerMembers = {}
<1>1. ASSUME NEW i \in DOMAIN Children
      PROVE  Children[i].flag \in Flags /\ Type(Children[i].flag) = Children[i].type
  <2>1. (CHOOSE j \in DOMAIN Children : Children[j].flag = Children[i].flag) = i
      BY ParserAssumption
  <2> QED
      BY <2>1 DEF Flags, Type
<1> DEFINE At(i, flag, type) == i \in DOMAIN Children /\ Children[i].flag = flag /\ Children[i].type = type
<1>2. /\ At(3, "size_ratio", "int") /\ At(4, "buffer_size_in_pages", "int")
      /\ At(5, "entries_per_page", "int") /\ At(6, "entry_size", "int")
      /\ At(7, "buffer_size_", "long") /\ At(10, "compaction_pri", "int")
      /\ At(11, "compaction_style", "int") /\ At(13, "block_cache", "int")
      /\ At(14, "perf_stats_", "int") /\ At(21, "low_pri", "int")
      /\ At(22, "num_levels", "int") /\ At(23, "files_in_l0", "int")
      /\ At(24, "fs_uri", "string")
    BY SettingsAssumption DEF ParserFlags, ValueFlag
<1>3. \A i, flag, type : At(i, flag, type) => flag \in Flags /\ Type(flag) = type
    BY <1>1
<1> HIDE DEF At
<1>4. Flags \cap TriggerMembers = {}
  <2>1. \A i \in 1 .. 24 : ParserFlags[i].flag \notin TriggerMembers
      BY DEF ParserFlags, ValueFlag, TriggerMembers
  <2>2. Len(ParserFlags) = 24 /\ DOMAIN ParserFlags = 1 .. 24
      BY DEF ParserFlags
  <2> QED
      BY <2>1, <2>2, SettingsAssumption DEF Flags
<1> QED
    BY <1>2, <1>3, <1>4 DEF AskedMembers, SizeMembers

-----------------------------------------------------------------------------
\* The options of OptionsAsAsked and BufferFitsFile, by what they are made of
LEMMA OptionsOfEnv ==
    ASSUME NEW e, NEW cache, NEW o, o = ConfigOptions(e, cache)
    PROVE  /\ o.level0_slowdown_writes_trigger = e.level0_slowdown_writes_trigger
           /\ o.level0_stop_writes_trigger = e.level0_stop_writes_trigger
           /\ o.low_pri = e.low_pri
           /\ o.max_bytes_for_level_multiplier = e.size_ratio
           /\ o.write_buffer_size = GetBufferSize(e)
           /\ o.target_file_size_base = AsSizeT(GetTargetFileSizeBase(e))
           /\ o.max_bytes_for_level_base = GetMaxBytesForLevelBase(e)
           /\ o.compaction_pri = SwitchedOptions(e).compaction_pri
           /\ o.num_levels = LevelOptions(e).num_levels
           /\ o.level0_file_num_compaction_trigger =
                LevelOptions(e).level0_file_num_compaction_trigger
           /\ o.no_block_cache = CacheOptions(e, cache).no_block_cache
           /\ o.block_cache = CacheOptions(e, cache).block_cache
           /\ o.per_level_perf_context = e.perf_stats_
           /\ o.fs = e.fs_uri
<1> DEFINE copied == CopiedOptions \cup CopiedTableOptions \cup CopiedCallOptions
           parts == <<[name \in copied |-> e[name]], SizeOptions(e), SwitchedOptions(e),
                      LevelOptions(e), CacheOptions(e, cache), StatsOptions(e),
                      [fs |-> e.fs_uri]>>
           size == {"max_bytes_for_level_multiplier", "write_buffer_size",
                    "target_file_size_base", "max_bytes_for_level_base"}
           level == {"num_levels", "level0_file_num_compaction_trigger"}
           block == {"no_block_cache", "block_cache"}
           triggers == {"level0_slowdown_writes_trigger", "level0_stop_writes_trigger"}
           asked == size \cup level \cup block \cup triggers \cup
                    {"low_pri", "compaction_pri", "per_level_perf_context", "fs"}
<1>1. copied \cap asked = triggers \cup {"low_pri"}
    BY DEF CopiedOptions, CopiedTableOptions, CopiedCallOptions
<1>2. DOMAIN SizeOptions(e) \cap asked = size
    BY DEF SizeOptions
<1>3. DOMAIN SwitchedOptions(e) \cap asked = {"compaction_pri"}
    BY DEF SwitchedOptions
<1>4. DOMAIN LevelOptions(e) \cap asked = level
    BY DEF LevelOptions
<1>5. DOMAIN CacheOptions(e, cache) \cap asked = block
    BY DEF CacheOptions
<1>6. DOMAIN StatsOptions(e) \cap asked = {"per_level_perf_context"}
    BY DEF StatsOptions
<1>7. /\ DOMAIN parts = 1 .. 7
      /\ parts[1] = [name \in copied |-> e[name]] /\ parts[2] = SizeOptions(e)
      /\ parts[3] = SwitchedOptions(e) /\ parts[4] = LevelOptions(e)
      /\ parts[5] = CacheOptions(e, cache) /\ parts[6] = StatsOptions(e)
      /\ parts[7] = [fs |-> e.fs_uri]
    OBVIOUS
<1>8. o = Joined(parts)
    BY DEF ConfigOptions
<1> HIDE DEF parts, copied
<1>9. DOMAIN parts[1] = copied /\ DOMAIN parts[7] \cap asked = {"fs"}
    BY <1>7
<1>10. ASSUME NEW field \in asked, NEW k \in 1 .. 7, field \in DOMAIN parts[k]
       PROVE  o[field] = parts[k][field]
  <2>1. \A i \in 1 .. 7 : field \in DOMAIN parts[i] => i = k
      BY <1>1, <1>2, <1>3, <1>4, <1>5, <1>6, <1>7, <1>9, <1>10
  <2> QED
      BY <1>7, <1>8, <1>10, <2>1, JoinedField
<1>11. \A field \in triggers \cup {"low_pri"} : o[field] = e[field]
    BY <1>1, <1>7, <1>9, <1>10
<1>12. \A field \in size : o[field] = SizeOptions(e)[field]
    BY <1>2, <1>7, <1>10
<1>13. o["compaction_pri"] = SwitchedOptions(e)["compaction_pri"]
    BY <1>3, <1>7, <1>10
<1>14. \A field \in level : o[field] = LevelOptions(e)[field]
    BY <1>4, <1>7, <1>10
<1>15. \A field \in block : o[field] = CacheOptions(e, cache)[field]
    BY <1>5, <1>7, <1>10
<1>16. o["per_level_perf_context"] = StatsOptions(e)["per_level_perf_context"]
    BY <1>6, <1>7, <1>10
<1>17. o["fs"] = e.fs_uri
    BY <1>7, <1>9, <1>10
<1>18. /\ SizeOptions(e).max_bytes_for_level_multiplier = e.size_ratio
       /\ SizeOptions(e).write_buffer_size = GetBufferSize(e)
       /\ SizeOptions(e).target_file_size_base = AsSizeT(GetTargetFileSizeBase(e))
       /\ SizeOptions(e).max_bytes_for_level_base = GetMaxBytesForLevelBase(e)
    BY DEF SizeOptions
<1>19. StatsOptions(e).per_level_perf_context = e.perf_stats_
    BY DEF StatsOptions
<1> QED
    BY <1>11, <1>12, <1>13, <1>14, <1>15, <1>16, <1>17, <1>18, <1>19

(***************************************************************************)
(* What parse_arguments makes of a new DBEnv for a command line.           *)
(***************************************************************************)
AssignedBy(words, member) ==
    CASE member \in DOMAIN Meaning(words) -> Converted(member, Meaning(words)[member])
      [] member = "buffer_size_" /\ member \notin DOMAIN Meaning(words) -> 0
      [] OTHER -> NewDBEnv[member]

EnvOf(words) ==
    [member \in DOMAIN NewDBEnv |->
        CASE member = "level0_slowdown_writes_trigger" -> AssignedBy(words, "size_ratio") - 1
          [] member \in {"level0_stop_writes_trigger", "level0_file_num_compaction_trigger"} ->
                AssignedBy(words, "size_ratio")
          [] member \in Flags -> AssignedBy(words, member)
          [] OTHER -> NewDBEnv[member]]

LEMMA MembersOfEnv ==
    ASSUME NEW words, NEW e, e = EnvOf(words)
    PROVE  /\ \A member \in AskedMembers : e[member] = AssignedBy(words, member)
           /\ e.level0_slowdown_writes_trigger = AssignedBy(words, "size_ratio") - 1
           /\ e.level0_stop_writes_trigger = AssignedBy(words, "size_ratio")
           /\ e.level0_file_num_compaction_trigger = AssignedBy(words, "size_ratio")
<1>1. AskedMembers \cap TriggerMembers = {}
    BY DEF AskedMembers, TriggerMembers, SizeMembers
<1>2. \A member \in AskedMembers : member \in DOMAIN NewDBEnv /\ member \in Flags
    BY DefaultsOfMembers, TypesOfFlags
<1>3. TriggerMembers \subseteq DOMAIN NewDBEnv
    BY DefaultsOfMembers
<1>4. \A member \in AskedMembers : e[member] = AssignedBy(words, member)
  <2> SUFFICES ASSUME NEW member \in AskedMembers PROVE e[member] = AssignedBy(words, member)
      OBVIOUS
  <2>1. member \notin TriggerMembers /\ member \in DOMAIN NewDBEnv /\ member \in Flags
      BY <1>1, <1>2
  <2> QED
      BY <2>1 DEF EnvOf, TriggerMembers
<1>5. \A member \in TriggerMembers : member \notin Flags
    BY TypesOfFlags
<1> QED
    BY <1>3, <1>4, <1>5 DEF EnvOf, TriggerMembers

\* The width of what a flag reads
WidthOf(flag) == IF Type(flag) = "int" THEN IntModulus ELSE LongModulus

LEMMA MeaningFits ==
    ASSUME NEW words \in Seq(Word), WellFormed(words), NEW flag \in DOMAIN Meaning(words)
    PROVE  /\ flag \in Flags
           /\ Type(flag) # "string" =>
                Meaning(words)[flag] \in -(WidthOf(flag) \div 2) .. (WidthOf(flag) \div 2) - 1
<1> DEFINE uses == {i \in Uses(words) : IsFlag(words[i])}
           said(g) == {i \in uses : /\ g \in Match(words[i])
                                    /\ Type(g) = "string" \/ TextOf(words, i).is # "empty"}
           last(g) == CHOOSE i \in said(g) : \A j \in said(g) : j <= i
           half == WidthOf(flag) \div 2
<1>1. Meaning(words) = [g \in UNION {Match(words[i]) : i \in uses} |->
                            IF said(g) = {} THEN Default[g]
                            ELSE Read(g, TextOf(words, last(g)), Default[g])]
    BY DEF Meaning
<1>2. Len(words) \in Nat /\ uses \subseteq 1 .. Len(words)
    BY UsesOfWords
<1>3. flag \in Flags
    BY <1>1, MatchIsOne
<1>4. IntModulus \in Nat /\ LongModulus \in Nat /\ IntModulus >= 4096 /\ LongModulus >= 4096
    BY ParserAssumption, SettingsAssumption
<1>5. half \in Nat /\ half >= 1
    BY <1>4 DEF WidthOf
<1>6. Type(flag) # "string" => Default[flag] = 0
    BY <1>3 DEF Default
<1>7. ASSUME NEW i \in uses PROVE TextOf(words, i) \in Text
  <2>1. words[i].joined # <<>> \/ i < Len(words)
      BY <1>7 DEF WellFormed, IsFlag
  <2>2. i \in 1 .. Len(words) /\ words[i] \in Word
      BY <1>2
  <2>3. CASE words[i].joined # <<>>
    <3>1. words[i].joined \in [{1} -> Text]
        BY <2>2, <2>3 DEF Word
    <3> QED
        BY <2>3, <3>1 DEF TextOf
  <2>4. CASE words[i].joined = <<>>
    <3>1. i + 1 \in 1 .. Len(words)
        BY <1>2, <2>1, <2>2, <2>4
    <3>2. words[i + 1] \in Word
        BY <3>1
    <3> QED
        BY <2>4, <3>2 DEF TextOf, Word
  <2> QED
      BY <2>3, <2>4
<1>8. said(flag) # {} => last(flag) \in uses
  <2>1. said(flag) \subseteq 1 .. Len(words) /\ said(flag) \subseteq uses
      BY <1>2
  <2> HIDE DEF said
  <2>2. ASSUME said(flag) # {}
        PROVE  \E i \in said(flag) : \A j \in said(flag) : j <= i
    <3>1. said(flag) \subseteq 0 .. Len(words)
        BY <1>2, <2>1
    <3> QED
        BY <1>2, <2>2, <3>1, HasLast
  <2> QED
      BY <2>1, <2>2
<1>9. ASSUME NEW text \in Text, Type(flag) # "string"
      PROVE  Read(flag, text, 0) \in -half .. half - 1
  <2> DEFINE width == WidthOf(flag)
  <2>1. width \in Nat /\ half = width \div 2 /\ half \in Nat /\ half >= 1
      BY <1>4, <1>5 DEF WidthOf
  <2>2. Read(flag, text, 0) = IF text.is = "empty" THEN 0 ELSE Fitted(text.n, width)
      BY <1>9 DEF Read, WidthOf
  <2>3. text.n \in Int
      BY <1>9 DEF Text
  <2> HIDE DEF width, half
  <2> QED
      BY <2>1, <2>2, <2>3 DEF Fitted
<1>10. Meaning(words)[flag] = IF said(flag) = {} THEN Default[flag]
                              ELSE Read(flag, TextOf(words, last(flag)), Default[flag])
    BY <1>1
<1> HIDE DEF said, last, half, uses
<1>11. Type(flag) # "string" => Meaning(words)[flag] \in -half .. half - 1
    BY <1>5, <1>6, <1>7, <1>8, <1>9, <1>10
<1> QED
    BY <1>3, <1>11 DEF half

Asked(words, flag, default) ==
    IF flag \in DOMAIN Meaning(words) THEN Meaning(words)[flag] ELSE default

\* A number that fits is 0, or small, exactly when its remainder is
LEMMA FittingRemainder ==
    ASSUME NEW m \in Nat, m > 0, NEW n \in Int, -m < n, n < m
    PROVE  n % m = IF n < 0 THEN n + m ELSE n
<1>1. CASE n < 0
  <2>1. n + m \in 0 .. m - 1
      BY <1>1
  <2>2. (n + m) % m = n + m
      BY <2>1
  <2>3. \E q \in Int : n = m * q + (n + m)
    <3>1. n = m * (-1) + (n + m)
        OBVIOUS
    <3> QED
        BY <3>1
  <2>4. PICK k \in Int : k = n + m
      OBVIOUS
  <2>5. n % m = k % m
      BY <2>3, <2>4, SameRemainder
  <2> QED
      BY <1>1, <2>2, <2>4, <2>5
<1>2. CASE n >= 0
    BY <1>2
<1> QED
    BY <1>1, <1>2

\* The numbers of a line
LEMMA AskedFits ==
    ASSUME NEW words \in Seq(Word), WellFormed(words),
           NEW flag \in AskedMembers \ {"buffer_size_", "fs_uri"}, NEW default \in 0 .. 1000
    PROVE  Asked(words, flag, default) \in -(IntModulus \div 2) .. (IntModulus \div 2) - 1
<1>1. IntModulus \in Nat /\ IntModulus >= 4096
    BY SettingsAssumption
<1>2. Type(flag) = "int"
    BY TypesOfFlags
<1> QED
    BY <1>1, <1>2, MeaningFits DEF Asked, WidthOf

\* What the members of the DBEnv are, each converted to its type
LEMMA AssignedMembers ==
    ASSUME NEW words
    PROVE  /\ AssignedBy(words, "size_ratio") = Asked(words, "size_ratio", 4)
           /\ AssignedBy(words, "num_levels") = Asked(words, "num_levels", 10)
           /\ AssignedBy(words, "block_cache") = Asked(words, "block_cache", 0)
           /\ AssignedBy(words, "fs_uri") = Asked(words, "fs_uri", Empty)
           /\ AssignedBy(words, "low_pri") = (Asked(words, "low_pri", 0) # 0)
           /\ AssignedBy(words, "perf_stats_") = (Asked(words, "perf_stats_", 1) # 0)
           /\ AssignedBy(words, "compaction_pri") = Asked(words, "compaction_pri", 1) % ShortModulus
           /\ AssignedBy(words, "compaction_style") =
                Asked(words, "compaction_style", 1) % LongModulus
           /\ AssignedBy(words, "buffer_size_") = Asked(words, "buffer_size_", 0) % LongModulus
<1> USE DEF AssignedBy, Asked, Converted, BoolMembers, UnsignedMembers, WideMembers
<1>1. IntModulus \in Nat /\ LongModulus \in Nat /\ LongModulus >= 4096
    BY ParserAssumption, SettingsAssumption
<1>2. 1 % ShortModulus = 1 /\ 1 % LongModulus = 1 /\ 0 % LongModulus = 0
    BY <1>1, SettingsAssumption
<1>3. AssignedBy(words, "size_ratio") = Asked(words, "size_ratio", 4)
    BY DefaultsOfMembers
<1>4. AssignedBy(words, "num_levels") = Asked(words, "num_levels", 10)
    BY DefaultsOfMembers
<1>5. AssignedBy(words, "block_cache") = Asked(words, "block_cache", 0)
    BY DefaultsOfMembers
<1>6. AssignedBy(words, "fs_uri") = Asked(words, "fs_uri", Empty)
    BY DefaultsOfMembers
<1>7. AssignedBy(words, "low_pri") = (Asked(words, "low_pri", 0) # 0)
    BY DefaultsOfMembers
<1>8. AssignedBy(words, "perf_stats_") = (Asked(words, "perf_stats_", 1) # 0)
  <2>1. CASE "perf_stats_" \in DOMAIN Meaning(words)
    <3>1. AssignedBy(words, "perf_stats_") = (Meaning(words)["perf_stats_"] # 0)
        BY <2>1
    <3> QED
        BY <2>1, <3>1
  <2>2. CASE "perf_stats_" \notin DOMAIN Meaning(words)
    <3>1. AssignedBy(words, "perf_stats_") = NewDBEnv["perf_stats_"]
        BY <2>2
    <3>2. Asked(words, "perf_stats_", 1) = 1
        BY <2>2
    <3>3. Asked(words, "perf_stats_", 1) # 0
        BY <3>2
    <3> QED
        BY <3>1, <3>3, DefaultsOfMembers
  <2> QED
      BY <2>1, <2>2
<1>9. AssignedBy(words, "compaction_pri") = Asked(words, "compaction_pri", 1) % ShortModulus
    BY <1>2, DefaultsOfMembers
<1>10. AssignedBy(words, "compaction_style") = Asked(words, "compaction_style", 1) % LongModulus
    BY <1>2, DefaultsOfMembers
<1>11. AssignedBy(words, "buffer_size_") = Asked(words, "buffer_size_", 0) % LongModulus
    BY <1>2
<1> QED
    BY <1>3, <1>4, <1>5, <1>6, <1>7, <1>8, <1>9, <1>10, <1>11

LEMMA AssignedSizes ==
    ASSUME NEW words \in Seq(Word), WellFormed(words), NEW flag, NEW default \in 0 .. 1000,
           \/ flag = "buffer_size_in_pages" /\ default = 128
           \/ flag = "entries_per_page" /\ default = 64
           \/ flag = "entry_size" /\ default = 64
    PROVE  /\ AssignedBy(words, flag) \in Nat /\ Asked(words, flag, default) \in Int
           /\ AssignedBy(words, flag) % IntModulus = Asked(words, flag, default) % IntModulus
<1>1. IntModulus \in Nat /\ IntModulus >= 4096
    BY SettingsAssumption
<1>2. Asked(words, flag, default) \in Int
    BY <1>1, AskedFits DEF AskedMembers, SizeMembers
<1>3. AssignedBy(words, flag) = IF flag \in DOMAIN Meaning(words)
                                THEN Meaning(words)[flag] % IntModulus ELSE default
    BY DefaultsOfMembers DEF AssignedBy, Converted, BoolMembers, UnsignedMembers, WideMembers
<1>4. \A n \in Int : n % IntModulus \in Nat /\ (n % IntModulus) % IntModulus = n % IntModulus
    BY <1>1, RemainderTwice, HasRemainder
<1> QED
    BY <1>2, <1>3, <1>4 DEF Asked

\* P * B * E in 32 bits, wherever it is reduced, unless the memory size is given
LEMMA BufferSizeAsked ==
    ASSUME NEW words \in Seq(Word), WellFormed(words)
    PROVE  GetBufferSize(EnvOf(words)) =
                LET M == Asked(words, "buffer_size_", 0) IN
                IF M # 0 THEN M % LongModulus
                ELSE (Asked(words, "buffer_size_in_pages", 128)
                        * Asked(words, "entries_per_page", 64)
                        * Asked(words, "entry_size", 64)) % IntModulus
<1> DEFINE e == EnvOf(words)
<1>1. /\ e.buffer_size_ = AssignedBy(words, "buffer_size_")
      /\ e.buffer_size_in_pages = AssignedBy(words, "buffer_size_in_pages")
      /\ e.entries_per_page = AssignedBy(words, "entries_per_page")
      /\ e.entry_size = AssignedBy(words, "entry_size")
    BY MembersOfEnv DEF AskedMembers, SizeMembers
<1>2. IntModulus \in Nat /\ LongModulus \in Nat /\ IntModulus > 0 /\ LongModulus >= 4096
    BY ParserAssumption, SettingsAssumption
<1>3. PICK M \in Int : /\ M = Asked(words, "buffer_size_", 0) /\ -LongModulus < M /\ M < LongModulus
                       /\ e.buffer_size_ = M % LongModulus
    BY <1>1, <1>2, MeaningFits, TypesOfFlags, AssignedMembers DEF Asked, WidthOf
<1>4. M % LongModulus = 0 <=> M = 0
    BY <1>2, <1>3, FittingRemainder
<1>5. PICK P \in Int, B \in Int, E \in Int :
        /\ P = Asked(words, "buffer_size_in_pages", 128)
        /\ B = Asked(words, "entries_per_page", 64) /\ E = Asked(words, "entry_size", 64)
        /\ e.buffer_size_in_pages \in Int /\ e.entries_per_page \in Int /\ e.entry_size \in Int
        /\ e.buffer_size_in_pages % IntModulus = P % IntModulus
        /\ e.entries_per_page % IntModulus = B % IntModulus
        /\ e.entry_size % IntModulus = E % IntModulus
    BY <1>1, AssignedSizes
<1>6. PICK p \in Int, b \in Int, s \in Int :
        p = e.buffer_size_in_pages /\ b = e.entries_per_page /\ s = e.entry_size
    BY <1>5
<1>7. (((p * b) % IntModulus) * s) % IntModulus = (P * B * E) % IntModulus
  <2>1. p % IntModulus = P % IntModulus /\ b % IntModulus = B % IntModulus
            /\ s % IntModulus = E % IntModulus
      BY <1>5, <1>6
  <2>2. Congruent(IntModulus, p, P) /\ Congruent(IntModulus, b, B)
            /\ Congruent(IntModulus, s, E)
      BY <2>1 DEF Congruent
  <2>3. Congruent(IntModulus, ((p * b) % IntModulus) * s, P * B * E)
      BY <1>2, <2>2, ProductOfThree
  <2> QED
      BY <2>3 DEF Congruent
<1>8. AsUnsigned(AsUnsigned(e.buffer_size_in_pages * e.entries_per_page) * e.entry_size)
            = (P * B * E) % IntModulus
    BY <1>6, <1>7 DEF AsUnsigned
<1> HIDE DEF e
<1>9. GetBufferSize(e) = IF M # 0 THEN M % LongModulus ELSE (P * B * E) % IntModulus
    BY <1>3, <1>4, <1>8 DEF GetBufferSize
<1> QED
    BY <1>3, <1>5, <1>9 DEF e

\* The switches: the compaction priority, and the levels unless compaction is universal
LEMMA SwitchesAsked ==
    ASSUME NEW words \in Seq(Word), WellFormed(words), NEW e, e = EnvOf(words)
    PROVE  /\ SwitchedOptions(e).compaction_pri =
                LET pri == Asked(words, "compaction_pri", 1) % ShortModulus IN
                IF pri <= 4 THEN CompactionPri[pri] ELSE "kMinOverlappingRatio"
           /\ Asked(words, "compaction_style", 1) # 2 =>
                /\ LevelOptions(e).num_levels = Asked(words, "num_levels", 10)
                /\ LevelOptions(e).level0_file_num_compaction_trigger =
                        Asked(words, "size_ratio", 4)
<1> DEFINE pri == Asked(words, "compaction_pri", 1) % ShortModulus
           style == Asked(words, "compaction_style", 1)
<1>1. /\ IntModulus \in Nat /\ LongModulus \in Nat /\ IntModulus >= 4096
      /\ LongModulus >= IntModulus /\ ShortModulus \in Nat /\ ShortModulus > 0
    BY ParserAssumption, SettingsAssumption
<1>2. /\ e["compaction_pri"] = AssignedBy(words, "compaction_pri")
      /\ e["compaction_style"] = AssignedBy(words, "compaction_style")
      /\ e["num_levels"] = AssignedBy(words, "num_levels")
      /\ e.level0_file_num_compaction_trigger = AssignedBy(words, "size_ratio")
    BY MembersOfEnv DEF AskedMembers
<1>3. /\ e.compaction_pri = pri /\ e.compaction_style = style % LongModulus
      /\ e.num_levels = Asked(words, "num_levels", 10)
      /\ e.level0_file_num_compaction_trigger = Asked(words, "size_ratio", 4)
    BY <1>2, AssignedMembers
<1>4. Asked(words, "compaction_pri", 1) \in Int
  <2>1. "compaction_pri" \in AskedMembers \ {"buffer_size_", "fs_uri"}
      BY DEF AskedMembers
  <2> QED
      BY <1>1, <2>1, AskedFits
<1>5. style \in -(IntModulus \div 2) .. (IntModulus \div 2) - 1
  <2>1. "compaction_style" \in AskedMembers \ {"buffer_size_", "fs_uri"}
      BY DEF AskedMembers
  <2> QED
      BY <1>1, <2>1, AskedFits
<1> HIDE DEF style
<1>6. pri \in Nat
    BY <1>1, <1>4, HasRemainder
<1> HIDE DEF pri
<1>7. SwitchedOptions(e).compaction_pri =
            IF pri <= 4 THEN CompactionPri[pri] ELSE "kMinOverlappingRatio"
  <2>1. DOMAIN CompactionPri = 0 .. 4
      BY DEF CompactionPri
  <2>2. SwitchedOptions(e).compaction_pri = Switch(CompactionPri, pri, "kMinOverlappingRatio")
      BY <1>3 DEF SwitchedOptions, RocksDBDefault
  <2> QED
      BY <1>6, <2>1, <2>2 DEF Switch
<1>8. ASSUME style # 2
      PROVE  /\ LevelOptions(e).num_levels = Asked(words, "num_levels", 10)
             /\ LevelOptions(e).level0_file_num_compaction_trigger =
                    Asked(words, "size_ratio", 4)
  <2>1. style % LongModulus = IF style < 0 THEN style + LongModulus ELSE style
      BY <1>1, <1>5, FittingRemainder
  <2>2. e.compaction_style # 2
      BY <1>1, <1>3, <1>5, <1>8, <2>1
  <2>3. SwitchedOptions(e).compaction_style =
            Switch(CompactionStyle, e.compaction_style, "kCompactionStyleLevel")
      BY DEF SwitchedOptions, RocksDBDefault
  <2>4. \A n : n # 2 => Switch(CompactionStyle, n, "kCompactionStyleLevel")
                            # "kCompactionStyleUniversal"
      BY DEF Switch, CompactionStyle
  <2>5. SwitchedOptions(e).compaction_style # "kCompactionStyleUniversal"
      BY <2>2, <2>3, <2>4
  <2> QED
      BY <1>3, <2>5 DEF LevelOptions
<1> QED
    BY <1>7, <1>8 DEF pri, style

\* The block cache, where the product in MiB is an int
InMiB(c) == c * MiB

LEMMA CacheAsked ==
    ASSUME NEW c \in 1 .. 2047, NEW size \in BlockCacheSizes(c)
    PROVE  size = InMiB(c)
<1>1. /\ IntModulus = 4096 * MiB /\ MiB \in Nat \ {0} /\ LongModulus \in Nat
      /\ LongModulus >= IntModulus
    BY ParserAssumption, SettingsAssumption
<1>2. PICK half \in Nat : half = 2048 * MiB
    BY <1>1
<1>3. IntModulus = 2 * half /\ IntModulus \div 2 = half
    BY <1>1, <1>2
<1>4. PICK n \in Nat : n = c * MiB
    BY <1>1
<1>5. n < half
    BY <1>1, <1>2, <1>4
<1>6. (n + half) % IntModulus = n + half /\ n % LongModulus = n
    BY <1>1, <1>3, <1>5, RemainderTwice
<1>7. AsInt(n) = n
    BY <1>3, <1>6 DEF AsInt
<1> QED
    BY <1>4, <1>6, <1>7 DEF BlockCacheSizes, InMiB

LEMMA CacheConfigured ==
    ASSUME NEW e, NEW size, size \in BlockCacheSizes(e.block_cache), e.block_cache \in 1 .. 2047
    PROVE  CacheOptions(e, size).block_cache = e.block_cache * MiB
<1>1. PICK c \in 1 .. 2047 : c = e.block_cache
    OBVIOUS
<1>2. size \in BlockCacheSizes(c)
    BY <1>1
<1>3. size = InMiB(c)
    BY <1>2, CacheAsked
<1>4. size = InMiB(e.block_cache)
    BY <1>1, <1>3
<1>5. size = e.block_cache * MiB
    BY <1>4 DEF InMiB
<1>6. c # 0
    OBVIOUS
<1>7. e.block_cache # 0
    BY <1>1, <1>6
<1> QED
    BY <1>5, <1>7 DEF CacheOptions

\* What OptionsAsAsked says of the options o that a command line gets
AsAsked(words, o) ==
    LET T     == Asked(words, "size_ratio", 4)
        bytes == Asked(words, "buffer_size_in_pages", 128)
                    * Asked(words, "entries_per_page", 64) * Asked(words, "entry_size", 64)
        M     == Asked(words, "buffer_size_", 0)
        pri   == Asked(words, "compaction_pri", 1) % ShortModulus
        cache == Asked(words, "block_cache", 0)
    IN  /\ WellFormed(words)
        /\ o.max_bytes_for_level_multiplier = T
        /\ o.level0_slowdown_writes_trigger = T - 1
        /\ o.level0_stop_writes_trigger = T
        /\ o.write_buffer_size = IF M # 0 THEN M % LongModulus ELSE bytes % IntModulus
        /\ o.compaction_pri = IF pri <= 4 THEN CompactionPri[pri] ELSE "kMinOverlappingRatio"
        /\ Asked(words, "compaction_style", 1) # 2 =>
                /\ o.num_levels = Asked(words, "num_levels", 10)
                /\ o.level0_file_num_compaction_trigger = T
        /\ cache = 0 <=> o.no_block_cache
        /\ cache \in 1 .. 2047 => o.block_cache = cache * MiB
        /\ o.low_pri = (Asked(words, "low_pri", 0) # 0)
        /\ o.per_level_perf_context = (Asked(words, "perf_stats_", 1) # 0)
        /\ o.fs = Asked(words, "fs_uri", Empty)

LEMMA OptionsOfLine ==
    ASSUME NEW words \in Seq(Word), WellFormed(words), NEW e, e = EnvOf(words),
           NEW size \in BlockCacheSizes(e.block_cache), NEW o, o = ConfigOptions(e, size)
    PROVE  AsAsked(words, o)
<1> DEFINE cache == Asked(words, "block_cache", 0)
<1>1. /\ e["size_ratio"] = AssignedBy(words, "size_ratio")
      /\ e["low_pri"] = AssignedBy(words, "low_pri")
      /\ e["perf_stats_"] = AssignedBy(words, "perf_stats_")
      /\ e["fs_uri"] = AssignedBy(words, "fs_uri")
      /\ e["block_cache"] = AssignedBy(words, "block_cache")
    BY MembersOfEnv DEF AskedMembers, SizeMembers
<1>2. /\ e.level0_slowdown_writes_trigger = AssignedBy(words, "size_ratio") - 1
      /\ e.level0_stop_writes_trigger = AssignedBy(words, "size_ratio")
    BY MembersOfEnv
<1>3. e.block_cache = cache
    BY <1>1, AssignedMembers
<1>4. CacheOptions(e, size).no_block_cache = (cache = 0)
    BY <1>3 DEF CacheOptions
<1>5. cache \in 1 .. 2047 => CacheOptions(e, size).block_cache = cache * MiB
  <2> HIDE DEF cache
  <2> SUFFICES ASSUME cache \in 1 .. 2047
               PROVE  CacheOptions(e, size).block_cache = cache * MiB
      OBVIOUS
  <2>1. e.block_cache \in 1 .. 2047
      BY <1>3
  <2>2. CacheOptions(e, size).block_cache = e.block_cache * MiB
      BY <2>1, CacheConfigured
  <2> QED
      BY <1>3, <2>2
<1>6. /\ o.level0_slowdown_writes_trigger = Asked(words, "size_ratio", 4) - 1
      /\ o.level0_stop_writes_trigger = Asked(words, "size_ratio", 4)
      /\ o.max_bytes_for_level_multiplier = Asked(words, "size_ratio", 4)
      /\ o.fs = Asked(words, "fs_uri", Empty)
    BY <1>1, <1>2, AssignedMembers, OptionsOfEnv
<1>7. o.low_pri = (Asked(words, "low_pri", 0) # 0)
  <2>1. o.low_pri = e["low_pri"]
      BY OptionsOfEnv
  <2> QED
      BY <1>1, <2>1, AssignedMembers, Zenon
<1>8. o.per_level_perf_context = (Asked(words, "perf_stats_", 1) # 0)
  <2>1. o.per_level_perf_context = e["perf_stats_"]
      BY OptionsOfEnv
  <2> QED
      BY <1>1, <2>1, AssignedMembers, Zenon
<1>9. o.write_buffer_size =
            LET M == Asked(words, "buffer_size_", 0) IN
            IF M # 0 THEN M % LongModulus
            ELSE (Asked(words, "buffer_size_in_pages", 128)
                    * Asked(words, "entries_per_page", 64)
                    * Asked(words, "entry_size", 64)) % IntModulus
  <2>1. o.write_buffer_size = GetBufferSize(e)
      BY OptionsOfEnv
  <2> QED
      BY <2>1, BufferSizeAsked, Zenon
<1>10. /\ o.compaction_pri =
                LET pri == Asked(words, "compaction_pri", 1) % ShortModulus IN
                IF pri <= 4 THEN CompactionPri[pri] ELSE "kMinOverlappingRatio"
       /\ Asked(words, "compaction_style", 1) # 2 =>
                /\ o.num_levels = Asked(words, "num_levels", 10)
                /\ o.level0_file_num_compaction_trigger = Asked(words, "size_ratio", 4)
  <2>1. /\ o.compaction_pri = SwitchedOptions(e).compaction_pri
        /\ o.num_levels = LevelOptions(e).num_levels
        /\ o.level0_file_num_compaction_trigger =
                LevelOptions(e).level0_file_num_compaction_trigger
      BY OptionsOfEnv
  <2> QED
      BY <2>1, SwitchesAsked, Zenon
<1>11. /\ o.no_block_cache = CacheOptions(e, size).no_block_cache
       /\ o.block_cache = CacheOptions(e, size).block_cache
    BY OptionsOfEnv
<1>12. cache = 0 <=> o.no_block_cache
    BY <1>4, <1>11, Zenon
<1>13. cache \in 1 .. 2047 => o.block_cache = cache * MiB
  <2> HIDE DEF cache
  <2> QED
      BY <1>5, <1>11
<1> QED
    BY <1>6, <1>7, <1>8, <1>9, <1>10, <1>12, <1>13, Zenon DEF AsAsked

-----------------------------------------------------------------------------
(* The process, from its command line to the options *)
SettingsInv ==
    /\ argv \in Seq(Word)
    /\ script = "wait" /\ Running => argv = run_wld(header)
    /\ phase \in {"none", "parsing"} => env = NewDBEnv
    /\ phase \in {"configuring", "opening", "replaying"} => WellFormed(argv)
    /\ phase = "configuring" => env = EnvOf(argv)
    /\ phase \in {"opening", "replaying"} =>
        \E e \in {EnvOf(argv)} : \E size \in BlockCacheSizes(e.block_cache) :
            options = ConfigOptions(e, size)

LEMMA LineOfScript ==
    ASSUME NEW h \in HeaderValues
    PROVE  run_wld(h) \in Seq(Word)
<1>1. \A name \in STRING, text \in Text : Long(name, text) \in Word
    BY DEF Long, Word, Text
<1>2. h.pages \in Int /\ h.entry_size \in Nat \ {0} /\ EntriesPerPage(h) \in Int
    BY ExperimentAssumption DEF HeaderValues, EntriesPerPage
<1>3. /\ \A n \in Int : Number(n) \in Text
      /\ [is |-> "word", n |-> 1] \in Text
    BY DEF Number, Text
<1>4. /\ Number(4) \in Text /\ Number(h.pages) \in Text /\ Number(1) \in Text
      /\ Number(7) \in Text /\ Number(6) \in Text /\ Number(h.entry_size) \in Text
      /\ Number(EntriesPerPage(h)) \in Text
    BY <1>2, <1>3
<1>5. \A i \in 1 .. 24 : \A name : name \in ParserFlags[i].long => name \in STRING
  <2>1. \A i \in DOMAIN Children : Children[i].long \subseteq STRING
    <3> DEFINE Flag == [flag : STRING, short : SUBSET STRING, long : SUBSET STRING,
                        type : {"int", "long", "string"}]
    <3>1. Children \in Seq(Flag)
        BY ParserAssumption
    <3> HIDE DEF Flag
    <3>2. \A i \in DOMAIN Children : Children[i] \in Flag
        BY <3>1
    <3> QED
        BY <3>2 DEF Flag
  <2>2. DOMAIN ParserFlags = 1 .. 24
      BY DEF ParserFlags
  <2> QED
      BY <2>1, <2>2, SettingsAssumption
<1>6. \A name \in {"size_ratio", "buffer_size_in_pages", "progress", "num_levels", "files_in_l0",
                    "fs_uri", "entry_size", "entries_per_page", "compaction_pri"} :
            name \in STRING
  <2>1. /\ "size_ratio" \in ParserFlags[3].long /\ "buffer_size_in_pages" \in ParserFlags[4].long
        /\ "entries_per_page" \in ParserFlags[5].long /\ "entry_size" \in ParserFlags[6].long
        /\ "compaction_pri" \in ParserFlags[10].long /\ "progress" \in ParserFlags[17].long
        /\ "num_levels" \in ParserFlags[22].long /\ "files_in_l0" \in ParserFlags[23].long
        /\ "fs_uri" \in ParserFlags[24].long
      BY DEF ParserFlags, ValueFlag
  <2> QED
      BY <1>5, <2>1
<1> HIDE DEF Long
<1> QED
    BY <1>1, <1>3, <1>4, <1>6 DEF run_wld

\* What parse_arguments copies is what the line means
LEMMA CopiedAsMeant ==
    ASSUME ParserInv, status = "parsed", env = NewDBEnv
    PROVE  WellFormed(argv) /\ CopyArguments = EnvOf(argv)
<1>1. /\ WellFormed(argv) /\ matched = DOMAIN Meaning(argv)
      /\ \A flag \in Flags : value[flag] = IF flag \in matched THEN Meaning(argv)[flag]
                                           ELSE Default[flag]
    BY ParserEnds DEF ParsedAsWritten
<1>2. matched \subseteq Flags
    BY DEF ParserInv, ParserTypeOK
<1>3. \A flag \in matched : value[flag] = Meaning(argv)[flag]
    BY <1>1, <1>2
<1>4. \A member : Assigned(member) = AssignedBy(argv, member)
  <2> SUFFICES ASSUME NEW member PROVE Assigned(member) = AssignedBy(argv, member)
      OBVIOUS
  <2>1. CASE member \in matched
    <3>1. Converted(member, value[member]) = Converted(member, Meaning(argv)[member])
        BY <1>3, <2>1
    <3> QED
        BY <1>1, <2>1, <3>1 DEF Assigned, AssignedBy
  <2>2. CASE member \notin matched
      BY <1>1, <2>2 DEF Assigned, AssignedBy
  <2> QED
      BY <2>1, <2>2
<1> QED
    BY <1>1, <1>4 DEF CopyArguments, EnvOf

LEMMA SettingsStep ==
    ASSUME SettingsInv, ProcessInv, ScriptTypeOK, LoopInv, [ExperimentNext]_experimentVars
    PROVE  SettingsInv'
<1>1. CASE Exit /\ (script' = "wait" => script = "wait")
  <2>1. argv' = <<>> /\ phase' = "none" /\ env' = NewDBEnv
      BY <1>1 DEF Exit
  <2>2. <<>> \in Seq(Word)
      OBVIOUS
  <2> QED
      BY <2>1, <2>2 DEF SettingsInv, Running
<1>2. CASE UNCHANGED settingsVars /\ (script' = "wait" /\ Running => script = "wait" /\ header' = header)
  <2>1. /\ argv' = argv /\ phase' = phase /\ env' = env /\ options' = options
      BY <1>2 DEF settingsVars, parserVars
  <2>2. (script = "wait" /\ Running => argv = run_wld(header))'
      BY <1>2, <2>1 DEF SettingsInv, Running, run_wld, EntriesPerPage
  <2> QED
      BY <2>1, <2>2 DEF SettingsInv
<1>3. CASE ProgramStep
  <2>1. script' = script /\ header' = header
      BY <1>3, ProgramEffect
  <2>2. CASE Exit
      BY <1>1, <2>1, <2>2
  <2>3. CASE ParseStep
    <3>1. argv' = argv /\ phase = "parsing" /\ phase' = phase /\ env' = env
        BY <2>3 DEF ParseStep, Parse, ParseTerminator, ParseFlag, ParseNothing, FinishParse
    <3> QED
        BY <2>1, <3>1 DEF SettingsInv, Running, run_wld, EntriesPerPage
  <2>4. CASE AcceptArguments
    <3>1. /\ argv' = argv /\ phase = "parsing" /\ phase' = "configuring" /\ env' = CopyArguments
          /\ status = "parsed"
        BY <2>4 DEF AcceptArguments
    <3>2. WellFormed(argv) /\ CopyArguments = EnvOf(argv)
        BY <3>1, CopiedAsMeant DEF SettingsInv, ProcessInv
    <3>3. phase' = "configuring" /\ WellFormed(argv') /\ env' = EnvOf(argv')
        BY <3>1, <3>2
    <3>4. argv' \in Seq(Word) /\ (script = "wait" /\ Running => argv = run_wld(header))'
        BY <2>1, <3>1 DEF SettingsInv, Running, run_wld, EntriesPerPage
    <3> QED
        BY <3>3, <3>4 DEF SettingsInv
  <2>5. CASE configOptions
    <3>1. /\ argv' = argv /\ phase = "configuring" /\ phase' = "opening"
          /\ \E size \in BlockCacheSizes(env.block_cache) : options' = ConfigOptions(env, size)
        BY <2>5 DEF configOptions, parserVars
    <3>2. WellFormed(argv') /\ env = EnvOf(argv')
        BY <3>1 DEF SettingsInv
    <3>3. argv' \in Seq(Word) /\ (script = "wait" /\ Running => argv = run_wld(header))'
        BY <2>1, <3>1 DEF SettingsInv, Running, run_wld, EntriesPerPage
    <3> QED
        BY <3>1, <3>2, <3>3 DEF SettingsInv
  <2>6. CASE OpenLogs
    <3>1. /\ argv' = argv /\ phase = "opening" /\ phase' = "replaying" /\ options' = options
        BY <2>6 DEF OpenLogs, parserVars
    <3>2. argv' \in Seq(Word) /\ (script = "wait" /\ Running => argv = run_wld(header))'
        BY <2>1, <3>1 DEF SettingsInv, Running, run_wld, EntriesPerPage
    <3>3. WellFormed(argv) /\ \E e \in {EnvOf(argv)} : \E size \in BlockCacheSizes(e.block_cache) :
                options = ConfigOptions(e, size)
        BY <3>1 DEF SettingsInv
    <3> QED
        BY <3>1, <3>2, <3>3 DEF SettingsInv
  <2> QED
      BY <1>3, <2>2, <2>3, <2>4, <2>5, <2>6 DEF ProgramStep, MountAndConfigure, RefuseArguments,
         CreateFromUriFails, EndReplay
<1>4. ASSUME NEW words \in Seq(Word), Main(words), script' = "wait" => words = run_wld(header')
      PROVE  SettingsInv'
  <2>1. argv' = words /\ phase' = "parsing" /\ env' = NewDBEnv
      BY <1>4 DEF Main, ParseCLI
  <2> QED
      BY <1>4, <2>1 DEF SettingsInv, Running
<1>5. CASE Eval
  <2>1. run_wld(header) \in Seq(Word)
      BY <1>5, LineOfScript DEF Eval, ScriptTypeOK
  <2>2. run_wld(header') = run_wld(header)
      BY <1>5 DEF Eval, run_wld, EntriesPerPage
  <2> QED
      BY <1>4, <1>5, <2>1, <2>2 DEF Eval
<1>6. ASSUME NEW words \in HandLines, TypeByHand(words) PROVE SettingsInv'
  <2>1. words \in Seq(Word) /\ script' # "wait"
      BY <1>6, ExperimentAssumption DEF TypeByHand
  <2> QED
      BY <1>4, <1>6, <2>1 DEF TypeByHand
<1>7. CASE ScriptStep \/ Start
  <2>1. Eval \/ (UNCHANGED settingsVars /\ script' # "wait")
      BY <1>7 DEF ScriptStep, Clean, Setup, Common, CollectLOG, Timestamp, Stamp, StartFiling,
         File, NextPolicy, Start
  <2> QED
      BY <1>2, <1>5, <2>1
<1>8. CASE Interrupt
    BY <1>1, <1>8 DEF Interrupt
<1>9. CASE UNCHANGED experimentVars
    BY <1>2, <1>9 DEF experimentVars, scriptVars
<1> QED
    BY <1>3, <1>6, <1>7, <1>8, <1>9 DEF ExperimentNext

LEMMA SettingsInvariant == ExperimentSpec => []SettingsInv
<1>1. ExperimentInit => SettingsInv
  <2> SUFFICES ASSUME ExperimentInit PROVE SettingsInv
      OBVIOUS
  <2>1. argv = <<>> /\ phase = "none" /\ env = NewDBEnv /\ script = "off"
      BY DEF ExperimentInit, NoProcess, ParserInit
  <2>2. <<>> \in Seq(Word)
      OBVIOUS
  <2> QED
      BY <2>1, <2>2 DEF SettingsInv
<1>2. SettingsInv /\ FilingInv /\ [ExperimentNext]_experimentVars => SettingsInv'
    BY SettingsStep DEF FilingInv
<1> QED
    BY <1>1, <1>2, FilingInvariant, PTL DEF ExperimentSpec

(***************************************************************************)
(* Whatever is typed, RocksDB gets the options that the command line asks  *)
(* for, or else the defaults of DBEnv, and none at all for a line that is   *)
(* refused (parse_arguments.h, db_env.h, config_options.h).                *)
(***************************************************************************)
THEOREM LinesAreObeyed == ExperimentSpec => []OptionsAsAsked
<1>1. SettingsInv => OptionsAsAsked
  <2> SUFFICES ASSUME SettingsInv, phase = "opening" PROVE AsAsked(argv, options)
      BY DEF AsAsked, Asked, OptionsAsAsked
  <2>1. PICK e \in {EnvOf(argv)} : \E size \in BlockCacheSizes(e.block_cache) :
                options = ConfigOptions(e, size)
      BY DEF SettingsInv
  <2>2. argv \in Seq(Word) /\ WellFormed(argv)
      BY DEF SettingsInv
  <2> QED
      BY <2>1, <2>2, OptionsOfLine
<1> QED
    BY <1>1, SettingsInvariant, PTL

-----------------------------------------------------------------------------
(* The command line of the script. *)

\* A line of long flags, each with its value and given once, means just that
GivesOnce(words, flags) ==
    /\ \A i \in 1 .. Len(words) :
            /\ words[i].form = "long" /\ words[i].joined # <<>>
            /\ Match(words[i]) = {flags[i]}
    /\ \A i, j \in 1 .. Len(words) : flags[i] = flags[j] => i = j

LEMMA FlagsGivenOnce ==
    ASSUME NEW words, Len(words) \in Nat, NEW flags, GivesOnce(words, flags)
    PROVE  /\ \A flag : flag \in DOMAIN Meaning(words) <=>
                            \E i \in 1 .. Len(words) : flag = flags[i]
           /\ \A i \in 1 .. Len(words) :
                TextOf(words, i).is = "number" =>
                    Meaning(words)[flags[i]] = Read(flags[i], TextOf(words, i), Default[flags[i]])
<1> USE DEF GivesOnce
<1> DEFINE uses == {i \in Uses(words) : IsFlag(words[i])}
           said(g) == {i \in uses : /\ g \in Match(words[i])
                                    /\ Type(g) = "string" \/ TextOf(words, i).is # "empty"}
           last(g) == CHOOSE i \in said(g) : \A j \in said(g) : j <= i
<1>1. Meaning(words) = [g \in UNION {Match(words[i]) : i \in uses} |->
                            IF said(g) = {} THEN Default[g]
                            ELSE Read(g, TextOf(words, last(g)), Default[g])]
    BY DEF Meaning
<1>2. \A i \in 1 .. Len(words) : IsFlag(words[i])
    BY DEF IsFlag
<1>3. Uses(words) = 1 .. Len(words)
  <2>1. /\ Uses(words) \subseteq 1 .. Len(words)
        /\ \A i \in 1 .. Len(words) :
            i \in Uses(words) <=> \/ i = 1 \/ i - 1 \notin Uses(words)
                                  \/ ~IsFlag(words[i - 1]) \/ words[i - 1].joined # <<>>
      BY UsesOfWords
  <2> QED
      BY <2>1
<1>4. uses = 1 .. Len(words)
    BY <1>2, <1>3
<1>5. UNION {Match(words[i]) : i \in uses} = {flags[i] : i \in 1 .. Len(words)}
  <2> DEFINE matches == {Match(words[i]) : i \in 1 .. Len(words)}
             named == {flags[i] : i \in 1 .. Len(words)}
  <2>1. ASSUME NEW flag \in UNION matches PROVE flag \in named
    <3>1. PICK i \in 1 .. Len(words) : flag \in Match(words[i])
        OBVIOUS
    <3>2. flag = flags[i]
        BY <3>1, Match(words[i]) = {flags[i]}
    <3> QED
        BY <3>2
  <2>2. ASSUME NEW flag \in named PROVE flag \in UNION matches
    <3>1. PICK i \in 1 .. Len(words) : flag = flags[i]
        OBVIOUS
    <3>2. flag \in Match(words[i]) /\ Match(words[i]) \in matches
        BY <3>1
    <3> QED
        BY <3>2
  <2> QED
      BY <1>4, <2>1, <2>2
<1>6. ASSUME NEW i \in 1 .. Len(words), TextOf(words, i).is = "number"
      PROVE  said(flags[i]) = {i} /\ last(flags[i]) = i
  <2>1. said(flags[i]) = {i}
    <3>1. \A j \in 1 .. Len(words) : flags[i] \in Match(words[j]) <=> j = i
        OBVIOUS
    <3> QED
        BY <1>4, <1>6, <3>1
  <2> HIDE DEF said
  <2> QED
      BY <2>1
<1> HIDE DEF uses, said, last
<1> QED
    BY <1>1, <1>5, <1>6

RunFlags == <<"size_ratio", "buffer_size_in_pages", "show_progress_bar_", "num_levels",
              "files_in_l0", "fs_uri", "entry_size", "entries_per_page", "compaction_pri">>

\* A name that one flag alone has
LEMMA MatchOfName ==
    ASSUME NEW word, word.form = "long", NEW k \in 1 .. 24, word.name \in ParserFlags[k].long,
           \A j \in 1 .. 24 : word.name \in ParserFlags[j].long => j = k
    PROVE  Match(word) = {ParserFlags[k].flag}
<1>1. DOMAIN Children = 1 .. 24 /\ Children = ParserFlags
    BY SettingsAssumption DEF ParserFlags
<1>2. \A j \in 1 .. 24 : Has(Children[j], word) <=> j = k
    BY <1>1 DEF Has
<1>3. \A j \in 1 .. k - 1 : j \in 1 .. 24 /\ j # k
    OBVIOUS
<1> QED
    BY <1>1, <1>2, <1>3 DEF Match

LongNames == <<"destroy", "cc", "size_ratio", "buffer_size_in_pages", "entries_per_page",
               "entry_size", "memory_size", "file_to_memtable_size_ratio", "file_size",
               "compaction_pri", "compaction_style", "bits_per_key", "bb", "perf", "iostat",
               "stat", "progress", "verbosity", "peroptime", "totaltime", "lowpri",
               "num_levels", "files_in_l0", "fs_uri">>

LEMMA LongNamesDiffer ==
    /\ \A i \in 1 .. 24 : ParserFlags[i].long = {LongNames[i]}
    /\ \A i, j \in 1 .. 24 : LongNames[i] = LongNames[j] => i = j
<1>1. \A i \in 1 .. 24 : ParserFlags[i].long = {LongNames[i]}
    BY DEF ParserFlags, ValueFlag, LongNames
<1>2. \A i, j \in 1 .. 24 : LongNames[i] = LongNames[j] => i = j
    BY DEF LongNames
<1> QED
    BY <1>1, <1>2

LEMMA RunLine ==
    ASSUME NEW h \in HeaderValues
    PROVE  /\ Len(run_wld(h)) = 9
           /\ \A i \in 1 .. 9 :
                /\ run_wld(h)[i].form = "long" /\ run_wld(h)[i].joined # <<>>
                /\ Match(run_wld(h)[i]) = {RunFlags[i]}
           /\ TextOf(run_wld(h), 2) = Number(h.pages)
           /\ TextOf(run_wld(h), 5) = Number(6)
           /\ TextOf(run_wld(h), 7) = Number(h.entry_size)
           /\ TextOf(run_wld(h), 8) = Number(EntriesPerPage(h))
<1> DEFINE w == run_wld(h)
           at == <<3, 4, 17, 22, 23, 24, 6, 5, 10>>
<1>1. Len(w) = 9 /\ \A i \in 1 .. 9 : w[i].form = "long" /\ w[i].joined # <<>>
  <2> DEFINE text == <<Number(4), Number(h.pages), Number(1), Number(7), Number(6),
                       [is |-> "word", n |-> 1], Number(h.entry_size),
                       Number(EntriesPerPage(h)), Number(4)>>
  <2>1. Len(w) = 9 /\ \A i \in 1 .. 9 : w[i] = Long(LongNames[at[i]], text[i])
      BY DEF run_wld, LongNames
  <2>2. \A name, value_text : /\ Long(name, value_text).form = "long"
                             /\ Long(name, value_text).joined # <<>>
      BY DEF Long
  <2> HIDE DEF w, at, text
  <2> QED
      BY <2>1, <2>2
<1>2. \A i \in 1 .. 9 : at[i] \in 1 .. 24 /\ w[i].name = LongNames[at[i]]
    BY DEF run_wld, Long, LongNames
<1>3. \A i \in 1 .. 9 : ParserFlags[at[i]].flag = RunFlags[i]
    BY DEF ParserFlags, ValueFlag, RunFlags
<1>4. /\ TextOf(w, 2) = Number(h.pages) /\ TextOf(w, 5) = Number(6)
      /\ TextOf(w, 7) = Number(h.entry_size) /\ TextOf(w, 8) = Number(EntriesPerPage(h))
    BY DEF TextOf, run_wld, Long
<1> HIDE DEF w, at
<1>5. ASSUME NEW i \in 1 .. 9 PROVE Match(w[i]) = {RunFlags[i]}
  <2>1. PICK k \in 1 .. 24 : k = at[i]
      BY <1>2
  <2>2. w[i].name \in ParserFlags[k].long
            /\ \A j \in 1 .. 24 : w[i].name \in ParserFlags[j].long => j = k
    <3>1. w[i].name = LongNames[k]
        BY <1>2, <2>1
    <3>2. \A j \in 1 .. 24 : w[i].name \in ParserFlags[j].long <=> LongNames[j] = LongNames[k]
        BY <3>1, LongNamesDiffer
    <3> QED
        BY <3>2, LongNamesDiffer
  <2>3. Match(w[i]) = {ParserFlags[k].flag}
      BY <1>1, <2>2, MatchOfName
  <2> QED
      BY <1>3, <2>1, <2>3
<1> QED
    BY <1>1, <1>4, <1>5 DEF w

-----------------------------------------------------------------------------
(* Entries in pages in a file. *)

LEMMA Quotient ==
    ASSUME NEW m \in Nat, m > 0, NEW a \in Int, NEW q \in Int, q = a \div m
    PROVE  m * q <= a /\ a < m * q + m
OBVIOUS

LEMMA Multiples ==
    ASSUME NEW n \in Nat, n > 0, NEW a \in Nat, NEW b \in Nat, a < b
    PROVE  n * a < n * b /\ n * a >= 0
OBVIOUS

LEMMA WholeEntries ==
    ASSUME NEW pages \in Nat, pages > 0, NEW entry \in Nat, entry > 0, NEW page \in Nat,
           NEW n \in Int, n = page \div entry
    PROVE  /\ n \in Nat /\ n <= page
           /\ pages * n * entry \in 0 .. pages * page
           /\ pages * page - pages * n * entry \in 0 .. pages * entry - 1
           /\ pages * n * entry = 0 <=> entry > page
<1>1. entry * n <= page /\ page < entry * n + entry
    BY Quotient
<1>2. n \in Nat
  <2> SUFFICES ASSUME n < 0 PROVE FALSE
      OBVIOUS
  <2>1. entry * n + entry <= 0
      OBVIOUS
  <2> QED
      BY <1>1, <2>1
<1>3. PICK k \in Nat : k = entry * n
    BY <1>2
<1>4. n <= k /\ (k = 0 <=> n = 0) /\ (n > 0 => entry <= k)
    BY <1>2, <1>3
<1>5. k <= page /\ page < k + entry
    BY <1>1, <1>3
<1>6. PICK d \in Nat : d = page - k /\ d < entry
    BY <1>5
<1>7. pages * n * entry = pages * k
    BY <1>3
<1>8. PICK x \in Nat, y \in Nat, z \in Nat, v \in Nat :
            x = pages * k /\ y = pages * page /\ z = pages * d /\ v = pages * entry
    OBVIOUS
<1>9. y - x = z
    BY <1>6, <1>8
<1>10. z < v
    BY <1>6, <1>8, Multiples
<1>11. x = 0 <=> k = 0
    BY <1>8
<1>12. k = 0 <=> entry > page
    BY <1>1, <1>2, <1>3, <1>4, <1>5
<1>13. x \in 0 .. y /\ y - x \in 0 .. v - 1
    BY <1>9, <1>10
<1> QED
    BY <1>2, <1>4, <1>5, <1>7, <1>8, <1>11, <1>12, <1>13

LEMMA RunAsked ==
    ASSUME NEW h \in HeaderValues, h.pages < IntModulus \div 2, h.entry_size < IntModulus \div 2,
           PageSize < IntModulus \div 2, NEW words, words = run_wld(h)
    PROVE  /\ Asked(words, "buffer_size_", 0) = 0
           /\ Asked(words, "buffer_size_in_pages", 128) = h.pages
           /\ Asked(words, "entries_per_page", 64) = EntriesPerPage(h)
           /\ Asked(words, "entry_size", 64) = h.entry_size
           /\ Asked(words, "files_in_l0", 4) = 6
<1>1. /\ Len(words) = 9
      /\ \A i \in 1 .. 9 :
            /\ words[i].form = "long" /\ words[i].joined # <<>> /\ Match(words[i]) = {RunFlags[i]}
      /\ TextOf(words, 2) = Number(h.pages) /\ TextOf(words, 5) = Number(6)
      /\ TextOf(words, 7) = Number(h.entry_size) /\ TextOf(words, 8) = Number(EntriesPerPage(h))
    BY RunLine
<1>2. \A i, j \in 1 .. 9 : RunFlags[i] = RunFlags[j] => i = j
    BY DEF RunFlags
<1>3. /\ \A flag : flag \in DOMAIN Meaning(words) <=>
                        \E i \in 1 .. Len(words) : flag = RunFlags[i]
      /\ \A i \in 1 .. Len(words) :
            TextOf(words, i).is = "number" =>
                Meaning(words)[RunFlags[i]] =
                    Read(RunFlags[i], TextOf(words, i), Default[RunFlags[i]])
  <2>1. Len(words) \in Nat /\ GivesOnce(words, RunFlags)
      BY <1>1, <1>2 DEF GivesOnce
  <2> QED
      BY <2>1, FlagsGivenOnce
<1>4. /\ RunFlags[2] = "buffer_size_in_pages" /\ RunFlags[5] = "files_in_l0"
      /\ RunFlags[7] = "entry_size" /\ RunFlags[8] = "entries_per_page"
      /\ \A i \in 1 .. 9 : RunFlags[i] # "buffer_size_"
    BY DEF RunFlags
<1>5. "buffer_size_" \notin DOMAIN Meaning(words)
    BY <1>1, <1>3, <1>4
<1>6. PICK half \in Nat : half = IntModulus \div 2 /\ half >= 2048
    BY SettingsAssumption
<1>7. ASSUME NEW i \in {2, 5, 7, 8}, NEW n \in Nat, n < half, TextOf(words, i) = Number(n)
      PROVE  RunFlags[i] \in DOMAIN Meaning(words) /\ Meaning(words)[RunFlags[i]] = n
  <2>1. i \in 1 .. Len(words) /\ TextOf(words, i).is = "number" /\ TextOf(words, i).n = n
      BY <1>1, <1>7 DEF Number
  <2>2. Type(RunFlags[i]) = "int"
      BY <1>4, TypesOfFlags DEF AskedMembers, SizeMembers
  <2>3. Meaning(words)[RunFlags[i]] = Fitted(n, IntModulus)
      BY <1>3, <2>1, <2>2 DEF Read, Number
  <2>4. Fitted(n, IntModulus) = n
      BY <1>6, <1>7 DEF Fitted
  <2> QED
      BY <1>3, <2>1, <2>3, <2>4
<1>8. PICK entries \in Nat : entries = EntriesPerPage(h) /\ entries <= PageSize
  <2>1. PageSize \in Nat /\ h.entry_size \in Nat /\ h.entry_size > 0
      BY ExperimentAssumption DEF HeaderValues
  <2>2. PICK n \in Int : n = PageSize \div h.entry_size
      BY <2>1
  <2>3. n \in Nat /\ n <= PageSize
      BY <2>1, <2>2, WholeEntries
  <2> QED
      BY <2>2, <2>3 DEF EntriesPerPage
<1>9. /\ h.pages \in Nat /\ h.pages < half /\ h.entry_size \in Nat /\ h.entry_size < half
      /\ entries < half /\ 6 < half
    BY <1>6, <1>8, ExperimentAssumption DEF HeaderValues
<1> QED
    BY <1>1, <1>4, <1>5, <1>7, <1>8, <1>9 DEF Asked

\* What the program makes of the script's line
LEMMA BufferOfRun ==
    ASSUME NEW h \in HeaderValues, h.pages > 0, h.pages * PageSize < IntModulus,
           h.pages < IntModulus \div 2, h.entry_size < IntModulus \div 2, FilesInRange,
           WellFormed(run_wld(h)),
           NEW e, e = EnvOf(run_wld(h)), NEW size, NEW o, o = ConfigOptions(e, size)
    PROVE  /\ h.pages * PageSize - o.write_buffer_size \in 0 .. h.pages * h.entry_size - 1
           /\ o.write_buffer_size = 0 <=> h.entry_size > PageSize
           /\ o.target_file_size_base = o.write_buffer_size
           /\ o.max_bytes_for_level_base = 6 * o.write_buffer_size
<1> DEFINE words == run_wld(h)
<1>1. words \in Seq(Word)
    BY LineOfScript
<1>2. /\ Asked(words, "buffer_size_", 0) = 0
      /\ Asked(words, "buffer_size_in_pages", 128) = h.pages
      /\ Asked(words, "entries_per_page", 64) = EntriesPerPage(h)
      /\ Asked(words, "entry_size", 64) = h.entry_size
      /\ Asked(words, "files_in_l0", 4) = 6
    BY RunAsked DEF FilesInRange
<1>3. /\ h.pages \in Nat /\ h.entry_size \in Nat /\ h.entry_size > 0 /\ PageSize \in Nat
      /\ IntModulus \in Nat /\ IntModulus >= 4096 /\ LongModulus \in Nat
      /\ LongModulus >= 6 * IntModulus
    BY ExperimentAssumption, ParserAssumption, SettingsAssumption DEF HeaderValues, FilesInRange
<1>4. PICK n \in Int : n = PageSize \div h.entry_size
    BY <1>3
<1>5. PICK file \in Nat, bytes \in Nat, spare \in Int :
            /\ file = h.pages * PageSize /\ bytes = h.pages * n * h.entry_size
            /\ spare = h.pages * h.entry_size - 1
            /\ file < IntModulus /\ bytes \in 0 .. file /\ file - bytes \in 0 .. spare
            /\ bytes = 0 <=> h.entry_size > PageSize
  <2>1. /\ h.pages * n * h.entry_size \in 0 .. h.pages * PageSize
        /\ h.pages * PageSize - h.pages * n * h.entry_size \in 0 .. h.pages * h.entry_size - 1
        /\ h.pages * n * h.entry_size = 0 <=> h.entry_size > PageSize
      BY <1>3, <1>4, WholeEntries
  <2>2. h.pages * PageSize \in Nat /\ h.pages * h.entry_size - 1 \in Int
      BY <1>3
  <2> QED
      BY <2>1, <2>2
<1>6. bytes < IntModulus
    BY <1>3, <1>5
<1>7. GetBufferSize(e) = bytes
  <2>1. GetBufferSize(e) = bytes % IntModulus
      BY <1>1, <1>2, <1>4, <1>5, BufferSizeAsked DEF EntriesPerPage
  <2>2. bytes % IntModulus = bytes
      BY <1>3, <1>5, <1>6, RemainderTwice
  <2> QED
      BY <2>1, <2>2
<1>8. e.files_in_l0 = 6
  <2>1. e["files_in_l0"] = AssignedBy(words, "files_in_l0")
      BY MembersOfEnv DEF AskedMembers
  <2>2. 4 % LongModulus = 4 /\ 6 % LongModulus = 6
      BY <1>3, RemainderTwice
  <2>3. AssignedBy(words, "files_in_l0") = Asked(words, "files_in_l0", 4) % LongModulus
      BY <2>2, DefaultsOfMembers
         DEF AssignedBy, Asked, Converted, BoolMembers, UnsignedMembers, WideMembers
  <2> QED
      BY <1>2, <2>1, <2>2, <2>3
<1>9. GetTargetFileSizeBase(e) = bytes
    BY <1>3, <1>5, <1>6, <1>7 DEF GetTargetFileSizeBase
<1>10. bytes % LongModulus = bytes /\ (6 * bytes) % LongModulus = 6 * bytes
  <2>1. bytes \in 0 .. LongModulus - 1 /\ 6 * bytes \in 0 .. LongModulus - 1
      BY <1>3, <1>6
  <2>2. LongModulus > 0
      BY <1>3
  <2> QED
      BY <1>3, <2>1, <2>2, RemainderTwice
<1>11. /\ o.write_buffer_size = bytes /\ o.target_file_size_base = bytes
       /\ o.max_bytes_for_level_base = 6 * bytes
    BY <1>7, <1>8, <1>9, <1>10, OptionsOfEnv DEF AsSizeT, GetMaxBytesForLevelBase
<1> QED
    BY <1>5, <1>11

\* The header is one that the top of the script may hold
HeaderInv == script # "off" => header \in {heading.header : heading \in Headings}

LEMMA HeaderStep ==
    ASSUME HeaderInv, ScriptTypeOK, [ExperimentNext]_experimentVars
    PROVE  HeaderInv'
<1>1. CASE Start
    BY <1>1 DEF Start, HeaderInv
<1>2. ASSUME UNCHANGED header, script' # "off" => script # "off" PROVE HeaderInv'
    BY <1>2 DEF HeaderInv
<1>3. CASE ProgramStep
    BY <1>2, <1>3, ProgramEffect
<1>4. CASE ScriptStep
    BY <1>2, <1>4 DEF ScriptStep, Clean, Setup, Common, Eval, CollectLOG, Timestamp, Stamp,
       StartFiling, File, NextPolicy
<1>5. CASE Interrupt \/ (\E words \in HandLines : TypeByHand(words)) \/ UNCHANGED experimentVars
    BY <1>2, <1>5 DEF Interrupt, TypeByHand, experimentVars, scriptVars
<1> QED
    BY <1>1, <1>3, <1>4, <1>5 DEF ExperimentNext

(***************************************************************************)
(* With files whose pages and bytes fit an int, the script's arithmetic    *)
(* and the program's agree: a buffer is the whole entries of the pages of  *)
(* a file, whatever the size of an entry (experiment.sh, db_env.h).        *)
(***************************************************************************)
THEOREM BuffersFillFiles == ASSUME FilesInRange PROVE ExperimentSpec => []BufferFitsFile
<1>1. ExperimentInit => HeaderInv
    BY DEF ExperimentInit, HeaderInv
<1>2. HeaderInv /\ FilingInv /\ [ExperimentNext]_experimentVars => HeaderInv'
    BY HeaderStep DEF FilingInv
<1>3. FilingInv /\ SettingsInv /\ HeaderInv => BufferFitsFile
  <2> SUFFICES ASSUME FilingInv, SettingsInv, HeaderInv, script = "wait", options # <<>>
               PROVE  BufferFitsFile
      BY DEF BufferFitsFile
  <2>1. phase \in {"opening", "replaying"} /\ header \in HeaderValues
      BY DEF FilingInv, ProcessInv, ScriptTypeOK, Awaited
  <2>2. argv = run_wld(header) /\ WellFormed(run_wld(header))
      BY <2>1 DEF SettingsInv, Running
  <2>3. PICK e \in {EnvOf(argv)} : \E size \in BlockCacheSizes(e.block_cache) :
                options = ConfigOptions(e, size)
      BY <2>1 DEF SettingsInv
  <2>4. PICK size : options = ConfigOptions(e, size)
      BY <2>3
  <2>5. e = EnvOf(run_wld(header))
      BY <2>2, <2>3
  <2>6. /\ header.pages > 0 /\ header.pages * PageSize < IntModulus
        /\ header.pages < IntModulus \div 2 /\ header.entry_size < IntModulus \div 2
      BY DEF HeaderInv, FilesInRange
  <2>7. /\ header.pages * PageSize - options.write_buffer_size
                \in 0 .. header.pages * header.entry_size - 1
        /\ options.write_buffer_size = 0 <=> header.entry_size > PageSize
        /\ options.target_file_size_base = options.write_buffer_size
        /\ options.max_bytes_for_level_base = 6 * options.write_buffer_size
      BY <2>1, <2>2, <2>4, <2>5, <2>6, BufferOfRun
  <2> QED
      BY <2>7 DEF BufferFitsFile
<1> QED
    BY <1>1, <1>2, <1>3, FilingInvariant, SettingsInvariant, PTL DEF ExperimentSpec

-----------------------------------------------------------------------------
(* params.txt: what a setup script and experiment.sh itself leave in it. *)

\* The lines that the setup script of a policy writes
Placed(lines, p) ==
    p.setup # "hybrid4" =>
        /\ lines["placement"] = Placement[p.setup]
        /\ \A line \in DOMAIN Boundary(p) : lines[line] = Boundary(p)[line]
        /\ \A line \in DOMAIN Switches(p) : lines[line] = Switches(p)[line]

\* The kind of garbage collection that a header names
Collects(lines, h) ==
    /\ h.gc_slope # "no" => lines["gc_type"] = "kDefaultGC"
    /\ h.gc_slope = "no" /\ h.gc_stop # "no" => lines["gc_type"] = "kImprovedGC"

SetUp(lines, p, h) == Placed(lines, p) /\ Collects(lines, h) /\ lines["logname"] = p.name

LEMMA SetupDomains ==
    ASSUME NEW p \in Policies
    PROVE  /\ p.setup # "hybrid4" => p.setup \in DOMAIN Placement
           /\ DOMAIN Boundary(p) \subseteq {"min_boundary"}
           /\ DOMAIN Switches(p) \subseteq {"real_caza", "real_oaza", "nearest_newzone_threshold",
                                            "zones_to_open"}
<1>1. DOMAIN <<>> = {}
    OBVIOUS
<1>2. p.setup \in DOMAIN Placement \cup {"hybrid4"}
    BY ExperimentAssumption
<1>3. DOMAIN Boundary(p) \subseteq {"min_boundary"}
    BY <1>1 DEF Boundary
<1>4. DOMAIN Switches(p) \subseteq {"real_caza", "real_oaza", "nearest_newzone_threshold",
                                    "zones_to_open"}
    BY <1>1 DEF Switches
<1> QED
    BY <1>2, <1>3, <1>4

LEMMA SetupPlaces ==
    ASSUME NEW p \in Policies
    PROVE  Placed(Edited(SetupLines(p)), p)
<1> SUFFICES ASSUME p.setup # "hybrid4" PROVE Placed(Edited(SetupLines(p)), p)
    BY DEF Placed
<1> DEFINE parts == <<[logname |-> p.name, placement |-> Placement[p.setup]], Boundary(p),
                      Switches(p)>>
<1>1. SetupLines(p) = Joined(parts)
    BY DEF SetupLines
<1>2. /\ DOMAIN parts = 1 .. 3 /\ parts[2] = Boundary(p) /\ parts[3] = Switches(p)
      /\ DOMAIN parts[1] = {"logname", "placement"} /\ parts[1]["placement"] = Placement[p.setup]
    OBVIOUS
<1> HIDE DEF parts
<1>3. ASSUME NEW k \in 1 .. 3, NEW line \in DOMAIN parts[k], line # "logname"
      PROVE  line \in DOMAIN SetupLines(p) /\ SetupLines(p)[line] = parts[k][line]
  <2>1. \A i \in 1 .. 3 : line \in DOMAIN parts[i] => i = k
      BY <1>2, <1>3, SetupDomains
  <2> QED
      BY <1>1, <1>2, <1>3, <2>1, JoinedField
<1>4. ASSUME NEW k \in 1 .. 3, NEW line \in DOMAIN parts[k], line # "logname"
      PROVE  Edited(SetupLines(p))[line] = parts[k][line]
  <2>1. line \in Lines
      BY <1>2, <1>4, SetupDomains DEF Lines
  <2> QED
      BY <1>3, <1>4, <2>1 DEF Edited
<1>5. Edited(SetupLines(p))["placement"] = Placement[p.setup]
    BY <1>2, <1>4
<1>6. \A line \in DOMAIN Boundary(p) : Edited(SetupLines(p))[line] = Boundary(p)[line]
    BY <1>2, <1>4, SetupDomains
<1>7. \A line \in DOMAIN Switches(p) : Edited(SetupLines(p))[line] = Switches(p)[line]
    BY <1>2, <1>4, SetupDomains
<1> QED
    BY <1>5, <1>6, <1>7 DEF Placed

LEMMA CommonSetsUp ==
    ASSUME NEW p \in Policies, NEW h, params \in [Lines -> ParamValues], Placed(params, p)
    PROVE  SetUp(Edited(CommonLines(p, h)), p, h)
<1> DEFINE parts == <<
        [logname |-> p.name, gc_start_level |-> h.gc_start],
        IF h.gc_stop # "no" THEN [gc_stop_level |-> h.gc_stop] ELSE <<>>,
        IF h.gc_slope # "no" THEN [gc_slope |-> h.gc_slope, gc_type |-> "kDefaultGC"]
        ELSE IF h.gc_stop # "no" THEN [gc_type |-> "kImprovedGC"] ELSE <<>> >>
           common == {"logname", "gc_start_level", "gc_stop_level", "gc_slope", "gc_type"}
           lines == Edited(CommonLines(p, h))
<1>1. CommonLines(p, h) = Joined(parts) /\ DOMAIN <<>> = {}
    BY DEF CommonLines
<1>2. /\ DOMAIN parts = 1 .. 3 /\ DOMAIN parts[1] = {"logname", "gc_start_level"}
      /\ DOMAIN parts[2] \subseteq {"gc_stop_level"}
      /\ DOMAIN parts[3] \subseteq {"gc_slope", "gc_type"}
    BY <1>1
<1>3. /\ h.gc_slope # "no" => "gc_type" \in DOMAIN parts[3] /\ parts[3]["gc_type"] = "kDefaultGC"
      /\ h.gc_slope = "no" /\ h.gc_stop # "no" =>
            "gc_type" \in DOMAIN parts[3] /\ parts[3]["gc_type"] = "kImprovedGC"
    OBVIOUS
<1> HIDE DEF parts
<1>4. DOMAIN CommonLines(p, h) \subseteq common
    BY <1>1, <1>2 DEF Joined
<1>5. \A line \in Lines \ common : lines[line] = params[line]
    BY <1>4 DEF Edited
<1>6. "gc_type" \in DOMAIN parts[3] => lines["gc_type"] = parts[3]["gc_type"]
  <2> SUFFICES ASSUME "gc_type" \in DOMAIN parts[3] PROVE lines["gc_type"] = parts[3]["gc_type"]
      OBVIOUS
  <2>1. \A i \in DOMAIN parts : "gc_type" \in DOMAIN parts[i] => i = 3
      BY <1>2
  <2>2. /\ "gc_type" \in DOMAIN CommonLines(p, h)
        /\ CommonLines(p, h)["gc_type"] = parts[3]["gc_type"]
      BY <1>1, <1>2, <2>1, JoinedField
  <2>3. "gc_type" \in Lines
      BY DEF Lines
  <2> QED
      BY <2>2, <2>3 DEF Edited
<1>7. Collects(lines, h)
    BY <1>3, <1>6 DEF Collects
<1>8. lines["logname"] = p.name
    BY NameIsSet
<1>9. Placed(lines, p)
  <2>1. \A line \in {"placement"} \cup DOMAIN Boundary(p) \cup DOMAIN Switches(p) :
            line \in Lines \ common
      BY SetupDomains DEF Lines
  <2> QED
      BY <1>5, <2>1 DEF Placed
<1> QED
    BY <1>7, <1>8, <1>9 DEF SetUp

PlacementInv ==
    /\ script = "common" => Placed(params, policy)
    /\ script = "eval" => SetUp(params, policy, header)
    /\ \A r \in 1 .. Len(runs) :
        ~runs[r].hand =>
            /\ runs[r].dir.policy \in Policies
            /\ SetUp(runs[r].params, runs[r].dir.policy, runs[r].dir.header)

LEMMA PlacementStep ==
    ASSUME PlacementInv, ScriptTypeOK, LoopInv, [ExperimentNext]_experimentVars
    PROVE  PlacementInv'
<1> DEFINE RunsSetUp ==
        \A r \in 1 .. Len(runs) :
            ~runs[r].hand =>
                /\ runs[r].dir.policy \in Policies
                /\ SetUp(runs[r].params, runs[r].dir.policy, runs[r].dir.header)
<1>1. Len(runs) \in Nat /\ runs \in Seq(Run)
    BY DEF ScriptTypeOK
<1>2. RunsKept
    BY RunsStep
<1>3. ASSUME Len(runs') = Len(runs) PROVE RunsSetUp'
  <2> SUFFICES ASSUME NEW r \in 1 .. Len(runs), ~runs'[r].hand
               PROVE  /\ runs'[r].dir.policy \in Policies
                      /\ SetUp(runs'[r].params, runs'[r].dir.policy, runs'[r].dir.header)
      BY <1>3 DEF SetUp, Placed, Collects, Boundary, Switches
  <2> QED
      BY <1>2 DEF RunsKept, PlacementInv
<1>4. ASSUME NEW run, runs' = Append(runs, run),
             ~run.hand => /\ run.dir.policy \in Policies
                          /\ SetUp(run.params, run.dir.policy, run.dir.header)
      PROVE  RunsSetUp'
  <2>1. /\ Len(runs') = Len(runs) + 1 /\ runs'[Len(runs) + 1] = run
        /\ \A r \in 1 .. Len(runs) : runs'[r] = runs[r]
      BY <1>1, <1>4
  <2> SUFFICES ASSUME NEW r \in 1 .. Len(runs) + 1, ~runs'[r].hand
               PROVE  /\ runs'[r].dir.policy \in Policies
                      /\ SetUp(runs'[r].params, runs'[r].dir.policy, runs'[r].dir.header)
      BY <1>1, <2>1 DEF SetUp, Placed, Collects, Boundary, Switches
  <2> QED
      BY <1>1, <1>4, <2>1 DEF PlacementInv
<1> HIDE DEF RunsSetUp
<1>5. script # "off" => policy \in Policies /\ header \in HeaderValues
    BY DEF ScriptTypeOK, policy
<1>6. CASE Setup
  <2>1. /\ script = "setup" /\ script' = "common" /\ params' = Edited(SetupLines(policy))
        /\ list' = list /\ ith' = ith /\ runs' = runs
      BY <1>6 DEF Setup
  <2>2. policy' = policy
      BY <2>1 DEF policy
  <2>3. Placed(Edited(SetupLines(policy)), policy)
      BY <1>5, <2>1, SetupPlaces
  <2>4. Placed(params', policy')
      BY <2>1, <2>2, <2>3
  <2> QED
      BY <1>3, <2>1, <2>4 DEF PlacementInv, RunsSetUp
<1>7. CASE Common
  <2>1. /\ script = "common" /\ script' = "eval"
        /\ params' = Edited(CommonLines(policy, header))
        /\ list' = list /\ ith' = ith /\ header' = header /\ runs' = runs
      BY <1>7 DEF Common
  <2>2. policy' = policy
      BY <2>1 DEF policy
  <2>3. SetUp(Edited(CommonLines(policy, header)), policy, header)
    <3>1. Placed(params, policy) /\ params \in [Lines -> ParamValues]
        BY <2>1 DEF PlacementInv, ScriptTypeOK
    <3> QED
        BY <1>5, <2>1, <3>1, CommonSetsUp
  <2>4. SetUp(params', policy', header')
      BY <2>1, <2>2, <2>3
  <2> QED
      BY <1>3, <2>1, <2>4 DEF PlacementInv, RunsSetUp
<1>8. CASE Eval
  <2> DEFINE run == [NewRun(FALSE) EXCEPT !.wrote = {"stdout"}]
  <2>1. script = "eval" /\ script' = "wait" /\ runs' = Append(runs, run)
      BY <1>8 DEF Eval
  <2>2. run.params = params /\ run.dir.policy = policy /\ run.dir.header = header
      BY DEF NewRun, Dir
  <2> HIDE DEF run
  <2>3. run.dir.policy \in Policies /\ SetUp(run.params, run.dir.policy, run.dir.header)
      BY <1>5, <2>1, <2>2 DEF PlacementInv
  <2> QED
      BY <1>4, <2>1, <2>3 DEF PlacementInv, RunsSetUp
<1>9. ASSUME NEW words \in HandLines, TypeByHand(words) PROVE PlacementInv'
  <2>1. script = "off" /\ script' = script /\ runs' = Append(runs, NewRun(TRUE))
      BY <1>9 DEF TypeByHand
  <2>2. NewRun(TRUE).hand
      BY DEF NewRun
  <2> QED
      BY <1>4, <2>1, <2>2 DEF PlacementInv, RunsSetUp
<1>10. ASSUME Len(runs') = Len(runs), script' \notin {"common", "eval"} PROVE PlacementInv'
    BY <1>3, <1>10 DEF PlacementInv, RunsSetUp
<1>11. CASE ProgramStep
  <2>1. script' = script /\ script \in {"wait", "off"}
      BY <1>11, ProgramEffect DEF LoopInv
  <2>2. Len(runs') = Len(runs)
    <3>1. ASSUME NEW bases, Write(bases) PROVE Len(runs') = Len(runs)
      <4>1. \E wrote : runs' = [runs EXCEPT ![Len(runs)].wrote = wrote]
          BY <3>1 DEF Write
      <4> QED
          BY <1>1, <4>1
    <3> QED
        BY <1>11, <3>1, ProgramEffect
  <2> QED
      BY <1>10, <2>1, <2>2
<1>12. CASE Start \/ Clean \/ CollectLOG \/ Timestamp \/ Stamp \/ StartFiling \/ File \/ NextPolicy
  <2>1. script' \notin {"common", "eval"}
      BY <1>12 DEF Start, Clean, CollectLOG, Timestamp, Stamp, StartFiling, File, NextPolicy
  <2>2. Len(runs') = Len(runs)
      BY <1>12 DEF Start, Clean, CollectLOG, Timestamp, Stamp, StartFiling, File, NextPolicy, Write
  <2> QED
      BY <1>10, <2>1, <2>2
<1>13. CASE Interrupt
  <2>1. script' = "off" /\ Len(runs') = Len(runs)
      BY <1>13 DEF Interrupt
  <2> QED
      BY <1>10, <2>1
<1>14. CASE UNCHANGED experimentVars
  <2>1. /\ script' = script /\ params' = params /\ runs' = runs
        /\ policy' = policy /\ header' = header
      BY <1>14 DEF experimentVars, scriptVars, policy
  <2>2. /\ script' = "common" => Placed(params', policy')
        /\ script' = "eval" => SetUp(params', policy', header')
      BY <2>1 DEF PlacementInv
  <2> QED
      BY <1>3, <2>1, <2>2 DEF PlacementInv, RunsSetUp
<1> QED
    BY <1>6, <1>7, <1>8, <1>9, <1>11, <1>12, <1>13, <1>14 DEF ExperimentNext, ScriptStep

\* Only those two setup scripts place files alike
LEMMA PlacementsDiffer ==
    ASSUME NEW s \in DOMAIN Placement, NEW t \in DOMAIN Placement, Placement[s] = Placement[t]
    PROVE  s = t \/ {s, t} \subseteq {"oaza", "ouroaza"}
<1>1. PICK v : v = Placement[s] /\ v = Placement[t]
    OBVIOUS
<1>2. ASSUME NEW x \in {"zonekv", "default", "modified_oaza", "overlap", "caza", "oaza", "ouroaza",
                          "hybrid1", "hybrid2", "hybrid3", "plazaadv", "plazabase", "plazaint"},
             Placement[x] = v
      PROVE   \/ v = "kArrivalTimeBased" /\ x = "zonekv"
              \/ v = "kLifetimeBased" /\ x = "default"
              \/ v = "kOverlapChildren below kClusterTogether" /\ x = "modified_oaza"
              \/ v = "kOverlapChildren" /\ x = "overlap"
              \/ v = "kCAZA" /\ x = "caza"
              \/ v = "kOAZA below kArrivalTimeBased" /\ x \in {"oaza", "ouroaza"}
              \/ v = "kCAZA below kClusterTogether" /\ x = "hybrid1"
              \/ v = "kSameLevelNearbyKeys below kClusterTogether" /\ x = "hybrid2"
              \/ v = "kSameLevelNearbyKeys below kCAZA" /\ x = "hybrid3"
              \/ v = "kPlazaAdvanced" /\ x = "plazaadv"
              \/ v = "kPlazaBase" /\ x = "plazabase"
              \/ v = "KPlazaIntermediate" /\ x = "plazaint"
  <2>1. /\ Placement["zonekv"] = "kArrivalTimeBased"
        /\ Placement["default"] = "kLifetimeBased"
        /\ Placement["modified_oaza"] = "kOverlapChildren below kClusterTogether"
        /\ Placement["overlap"] = "kOverlapChildren"
        /\ Placement["caza"] = "kCAZA"
        /\ Placement["oaza"] = "kOAZA below kArrivalTimeBased"
        /\ Placement["ouroaza"] = "kOAZA below kArrivalTimeBased"
        /\ Placement["hybrid1"] = "kCAZA below kClusterTogether"
        /\ Placement["hybrid2"] = "kSameLevelNearbyKeys below kClusterTogether"
        /\ Placement["hybrid3"] = "kSameLevelNearbyKeys below kCAZA"
        /\ Placement["plazaadv"] = "kPlazaAdvanced"
        /\ Placement["plazabase"] = "kPlazaBase"
        /\ Placement["plazaint"] = "KPlazaIntermediate"
      BY DEF Placement
  <2>2. x = "zonekv" => v = "kArrivalTimeBased"
      BY <1>2, <2>1
  <2>3. x = "default" => v = "kLifetimeBased"
      BY <1>2, <2>1
  <2>4. x = "modified_oaza" => v = "kOverlapChildren below kClusterTogether"
      BY <1>2, <2>1
  <2>5. x = "overlap" => v = "kOverlapChildren"
      BY <1>2, <2>1
  <2>6. x = "caza" => v = "kCAZA"
      BY <1>2, <2>1
  <2>7. x = "oaza" => v = "kOAZA below kArrivalTimeBased"
      BY <1>2, <2>1
  <2>8. x = "ouroaza" => v = "kOAZA below kArrivalTimeBased"
      BY <1>2, <2>1
  <2>9. x = "hybrid1" => v = "kCAZA below kClusterTogether"
      BY <1>2, <2>1
  <2>10. x = "hybrid2" => v = "kSameLevelNearbyKeys below kClusterTogether"
      BY <1>2, <2>1
  <2>11. x = "hybrid3" => v = "kSameLevelNearbyKeys below kCAZA"
      BY <1>2, <2>1
  <2>12. x = "plazaadv" => v = "kPlazaAdvanced"
      BY <1>2, <2>1
  <2>13. x = "plazabase" => v = "kPlazaBase"
      BY <1>2, <2>1
  <2>14. x = "plazaint" => v = "KPlazaIntermediate"
      BY <1>2, <2>1
  <2> QED
      BY <1>2, <2>2, <2>3, <2>4, <2>5, <2>6, <2>7, <2>8, <2>9, <2>10, <2>11, <2>12, <2>13, <2>14, ZenonT(30)
<1>3. \A x \in DOMAIN Placement :
        x \in {"zonekv", "default", "modified_oaza", "overlap", "caza", "oaza", "ouroaza",
              "hybrid1", "hybrid2", "hybrid3", "plazaadv", "plazabase", "plazaint"}
    BY DEF Placement
<1> QED
    BY <1>1, <1>2, <1>3

\* What a placement reads, its setup script sets, but for those of Leaky
LEMMA SetsWhatItReads ==
    ASSUME NEW p \in Policies, p.setup \notin Leaky, NEW line \in PlacementLines(p)
    PROVE  line = "placement" \/ line \in DOMAIN Boundary(p) \/ line \in DOMAIN Switches(p)
<1>1. line = "placement" \/ (line \in DOMAIN Readers /\ p.setup \in Readers[line])
    BY DEF PlacementLines
<1>2. /\ p.setup # "modified_oaza" /\ p.setup # "hybrid1"
    BY DEF Leaky
<1>3. ASSUME line \in DOMAIN Readers, p.setup \in Readers[line]
      PROVE  line \in DOMAIN Boundary(p) \/ line \in DOMAIN Switches(p)
  <2>1. line \in {"min_boundary", "real_caza", "real_oaza", "nearest_newzone_threshold",
                  "zones_to_open"}
      BY <1>3 DEF Readers
  <2>2. CASE line = "min_boundary"
    <3>1. p.setup \in {"oaza", "ouroaza", "hybrid2", "hybrid3"}
        BY <1>2, <1>3, <2>2 DEF Readers
    <3>2. Boundary(p) = [min_boundary |-> "1"]
        BY <3>1 DEF Boundary
    <3> QED
        BY <2>2, <3>2
  <2>3. CASE line = "real_caza"
    <3>1. p.setup \in {"caza", "hybrid3"}
        BY <1>2, <1>3, <2>3 DEF Readers
    <3>2. Switches(p) \in {[real_caza |-> "1"], [real_caza |-> "0"]}
        BY <3>1 DEF Switches
    <3> QED
        BY <2>3, <3>2
  <2>4. CASE line = "real_oaza"
    <3>1. p.setup \in {"oaza", "ouroaza"}
        BY <1>3, <2>4 DEF Readers
    <3>2. Switches(p) \in {[real_oaza |-> "1"], [real_oaza |-> "0"]}
        BY <3>1 DEF Switches
    <3> QED
        BY <2>4, <3>2
  <2>5. CASE line = "nearest_newzone_threshold"
    <3>1. p.setup \in {"plazaadv", "plazabase", "plazaint"}
        BY <1>3, <2>5 DEF Readers
    <3>2. \/ Switches(p) = [nearest_newzone_threshold |-> "0", zones_to_open |-> p.number]
          \/ Switches(p) = [nearest_newzone_threshold |-> p.number]
        BY <3>1 DEF Switches
    <3> QED
        BY <2>5, <3>2
  <2>6. CASE line = "zones_to_open"
    <3>1. p.setup = "plazaint"
        BY <1>3, <2>6 DEF Readers
    <3>2. Switches(p) = [nearest_newzone_threshold |-> "0", zones_to_open |-> p.number]
        BY <3>1 DEF Switches
    <3> QED
        BY <2>6, <3>2
  <2> QED
      BY <2>1, <2>2, <2>3, <2>4, <2>5, <2>6
<1> QED
    BY <1>1, <1>3

LEMMA PlacementAgrees ==
    ASSUME NEW p \in Policies, p.setup \notin Leaky, NEW a, NEW b, Placed(a, p), Placed(b, p)
    PROVE  \A line \in PlacementLines(p) : a[line] = b[line]
<1>1. p.setup # "hybrid4"
    BY DEF Leaky
<1>2. /\ a["placement"] = Placement[p.setup] /\ b["placement"] = Placement[p.setup]
      /\ \A line \in DOMAIN Boundary(p) : a[line] = Boundary(p)[line]
      /\ \A line \in DOMAIN Switches(p) : a[line] = Switches(p)[line]
      /\ \A line \in DOMAIN Boundary(p) : b[line] = Boundary(p)[line]
      /\ \A line \in DOMAIN Switches(p) : b[line] = Switches(p)[line]
    BY <1>1 DEF Placed
<1> QED
    BY <1>2, SetsWhatItReads

LEMMA PlacementTells ==
    ASSUME PoliciesDiffer, NEW p \in Policies, NEW q \in Policies,
           p.setup # "hybrid4", q.setup # "hybrid4",
           NEW a, NEW b, Placed(a, p), Placed(b, q),
           \A line \in PlacementLines(p) : a[line] = b[line]
    PROVE  p = q
<1>1. /\ a["placement"] = Placement[p.setup] /\ b["placement"] = Placement[q.setup]
      /\ \A line \in DOMAIN Switches(p) : a[line] = Switches(p)[line]
      /\ \A line \in DOMAIN Switches(q) : b[line] = Switches(q)[line]
    BY DEF Placed
<1>2. a["placement"] = b["placement"]
    BY DEF PlacementLines
<1>3. p.setup \in DOMAIN Placement /\ q.setup \in DOMAIN Placement
    BY SetupDomains
<1>4. p.setup = q.setup \/ {p.setup, q.setup} \subseteq {"oaza", "ouroaza"}
  <2>1. Placement[p.setup] = Placement[q.setup]
      BY <1>1, <1>2
  <2> QED
      BY <1>3, <2>1, PlacementsDiffer
<1>5. ASSUME {p.setup, q.setup} \subseteq {"oaza", "ouroaza"}, p.setup # q.setup PROVE FALSE
  <2> DEFINE line == "real_oaza"
  <2>1. (p.setup = "oaza" /\ q.setup = "ouroaza") \/ (p.setup = "ouroaza" /\ q.setup = "oaza")
      BY <1>5
  <2>2. line \in PlacementLines(p)
      BY <2>1 DEF PlacementLines, Readers
  <2>3. /\ p.setup = "oaza" => Switches(p) = [real_oaza |-> "1"]
        /\ p.setup = "ouroaza" => Switches(p) = [real_oaza |-> "0"]
        /\ q.setup = "oaza" => Switches(q) = [real_oaza |-> "1"]
        /\ q.setup = "ouroaza" => Switches(q) = [real_oaza |-> "0"]
      BY DEF Switches
  <2>4. /\ line \in DOMAIN Switches(p) /\ line \in DOMAIN Switches(q)
        /\ Switches(p)[line] # Switches(q)[line]
      BY <2>1, <2>3
  <2> HIDE DEF line
  <2> QED
      BY <1>1, <2>2, <2>4
<1>6. ASSUME p.setup = q.setup, p.setup \in {"plazaadv", "plazabase"} PROVE p.number = q.number
  <2> DEFINE line == "nearest_newzone_threshold"
  <2>1. line \in PlacementLines(p)
      BY <1>6 DEF PlacementLines, Readers
  <2>2. /\ line \in DOMAIN Switches(p) /\ Switches(p)[line] = p.number
        /\ line \in DOMAIN Switches(q) /\ Switches(q)[line] = q.number
      BY <1>6 DEF Switches
  <2> HIDE DEF line
  <2> QED
      BY <1>1, <2>1, <2>2
<1>7. ASSUME p.setup = q.setup, p.setup = "plazaint" PROVE p.number = q.number
  <2> DEFINE line == "zones_to_open"
  <2>1. line \in PlacementLines(p)
      BY <1>7 DEF PlacementLines, Readers
  <2>2. /\ line \in DOMAIN Switches(p) /\ Switches(p)[line] = p.number
        /\ line \in DOMAIN Switches(q) /\ Switches(q)[line] = q.number
      BY <1>7 DEF Switches
  <2> HIDE DEF line
  <2> QED
      BY <1>1, <2>1, <2>2
<1> QED
    BY <1>4, <1>5, <1>6, <1>7 DEF PoliciesDiffer

(***************************************************************************)
(* Whatever a run, a policy or an interruption before left in params.txt,  *)
(* each line that the placement of a run reads is as its policy has it,    *)
(* but for the three policies whose scripts leave some, and no two         *)
(* policies place files alike; its garbage collection is that of the       *)
(* header (experiment.sh, scripts/setup_*.sh).                             *)
(***************************************************************************)
THEOREM PoliciesRunAsNamed == ASSUME PoliciesDiffer PROVE ExperimentSpec => []PoliciesDetermineRuns
<1>1. ExperimentInit => PlacementInv
  <2> SUFFICES ASSUME ExperimentInit PROVE PlacementInv
      OBVIOUS
  <2>1. script = "off" /\ runs = <<>>
      BY DEF ExperimentInit
  <2>2. Len(runs) = 0
      BY <2>1
  <2> QED
      BY <2>1, <2>2 DEF PlacementInv
<1>2. PlacementInv /\ FilingInv /\ [ExperimentNext]_experimentVars => PlacementInv'
    BY PlacementStep DEF FilingInv
<1>3. PlacementInv /\ FilingInv => PoliciesDetermineRuns
  <2> SUFFICES ASSUME PlacementInv, FilingInv, NEW r \in DOMAIN runs, NEW q \in DOMAIN runs,
                      ByScript(r), ByScript(q), runs[r].dir.header = runs[q].dir.header
               PROVE  LET p     == runs[r].dir.policy
                          other == runs[q].dir.policy
                          PlacedAlike == \A line \in PlacementLines(p) :
                                            runs[r].params[line] = runs[q].params[line]
                      IN
                      /\ runs[r].params.logname = p.name
                      /\ p = other /\ p.setup \notin Leaky => PlacedAlike
                      /\ p # other /\ "hybrid4" \notin {p.setup, other.setup} => ~PlacedAlike
                      /\ runs[r].dir.header.gc_stop # "no" \/ runs[r].dir.header.gc_slope # "no" =>
                            runs[r].params.gc_type = runs[q].params.gc_type
      BY DEF PoliciesDetermineRuns
  <2> DEFINE p == runs[r].dir.policy
             other == runs[q].dir.policy
             PlacedAlike == \A line \in PlacementLines(p) :
                                runs[r].params[line] = runs[q].params[line]
  <2>1. r \in 1 .. Len(runs) /\ q \in 1 .. Len(runs)
      BY DEF FilingInv, ScriptTypeOK
  <2>2. /\ p \in Policies /\ other \in Policies
        /\ SetUp(runs[r].params, p, runs[r].dir.header)
        /\ SetUp(runs[q].params, other, runs[q].dir.header)
      BY <2>1 DEF PlacementInv, ByScript
  <2>3. runs[r].params.logname = p.name
      BY <2>2 DEF SetUp
  <2>4. Placed(runs[r].params, p) /\ Placed(runs[q].params, other)
      BY <2>2 DEF SetUp
  <2>5. ASSUME runs[r].dir.header.gc_stop # "no" \/ runs[r].dir.header.gc_slope # "no"
        PROVE  runs[r].params["gc_type"] = runs[q].params["gc_type"]
      BY <2>2, <2>5 DEF SetUp, Collects
  <2> HIDE DEF p, other
  <2>6. p = other /\ p.setup \notin Leaky => PlacedAlike
      BY <2>2, <2>4, PlacementAgrees
  <2>7. p # other /\ "hybrid4" \notin {p.setup, other.setup} => ~PlacedAlike
      BY <2>2, <2>4, PlacementTells
  <2> QED
      BY <2>3, <2>5, <2>6, <2>7 DEF p, other
<1> QED
    BY <1>1, <1>2, <1>3, FilingInvariant, PTL DEF ExperimentSpec

-----------------------------------------------------------------------------
(***************************************************************************)
(* analyze.py, in a directory of results: it loses no line and reports     *)
(* nothing that is not done, for any number of logs of any length, and     *)
(* however often it is run and killed.                                     *)
(***************************************************************************)
Active == process \in {"analysing", "analysed", "sorting", "sorted"}

AnalysisTypeOK ==
    /\ zonestate \in [Sources -> [lines : Int, sorted : BOOLEAN]]
    /\ analysis \in [Sources -> Int] /\ tmp \in [Sources -> Int]
    /\ process \in {"none", "between", "analysing", "analysed", "sorting", "sorted"}
    /\ sources \subseteq Sources /\ failed \subseteq Sources /\ reported \subseteq Sources
    /\ read \in Int

\* What is done of the source at hand, which nothing reports
Progress ==
    /\ Active => src \in Sources /\ src \notin reported
    /\ process \in {"analysed", "sorting", "sorted"} => analysis[src] = LogLength
    /\ process = "sorted" => tmp[src] = LogLength

\* Every source is still to do, at hand, failed or reported
Accounted ==
    process # "none" =>
        \A s \in Sources : s \in sources \/ s \in failed \/ s \in reported \/ (Active /\ s = src)

Done ==
    /\ \A s \in reported : zonestate[s].sorted /\ analysis[s] = LogLength /\ tmp[s] = None
    /\ exit = "success" => process = "none" /\ reported = Sources

AnalysisInv == AnalysisTypeOK /\ LogsAreWhole /\ Progress /\ Accounted /\ Done

LEMMA AnalysisStarts == AnalysisInit => AnalysisInv
  BY AnalysisAssumption, SMT DEF AnalysisInit, AnalysisInv, AnalysisTypeOK, LogsAreWhole,
     Progress, Accounted, Done, Active, None

LEMMA AnalysisStep == AnalysisInv /\ [AnalysisNext]_analysisVars => AnalysisInv'
<1> SUFFICES ASSUME AnalysisInv, [AnalysisNext]_analysisVars PROVE AnalysisInv'
  OBVIOUS
<1> USE AnalysisAssumption DEF AnalysisInv, AnalysisTypeOK, LogsAreWhole, Progress, Accounted,
        Done, Active, None, files
<1>1. CASE RunMain
  BY <1>1 DEF RunMain
<1>2. CASE OpenAnalysis
  <2>1. PICK s \in sources : /\ NextSource(s)
                             /\ analysis' = [analysis EXCEPT ![s] = 0]
                             /\ reported' = reported \ {s}
    BY <1>2 DEF OpenAnalysis
  <2> QED BY <1>2, <2>1 DEF OpenAnalysis, NextSource
<1>3. CASE OpenFails
  <2>1. PICK s \in sources : NextSource(s) /\ failed' = failed \cup {s}
    BY <1>3 DEF OpenFails
  <2> QED BY <1>3, <2>1 DEF OpenFails, NextSource
<1>4. CASE Summarize
  BY <1>4 DEF Summarize, Spilled
<1>5. CASE CloseAnalysis
  BY <1>5 DEF CloseAnalysis
<1>6. CASE WriteAnalysisFails
  BY <1>6 DEF WriteAnalysisFails, Spilled
<1>7. CASE OpenSorted
  BY <1>7 DEF OpenSorted
<1>8. CASE Sort
  BY <1>8 DEF Sort, Spilled
<1>9. CASE CloseSorted
  BY <1>9 DEF CloseSorted
<1>10. CASE Replace
  BY <1>10 DEF Replace
<1>11. CASE SortFails
  BY <1>11 DEF SortFails
<1>12. CASE ExitMain
  BY <1>12 DEF ExitMain
<1>13. CASE Kill
  BY <1>13 DEF Kill
<1>14. CASE UNCHANGED analysisVars
  BY <1>14 DEF analysisVars
<1> QED
  BY <1>1, <1>2, <1>3, <1>4, <1>5, <1>6, <1>7, <1>8, <1>9, <1>10, <1>11, <1>12, <1>13,
     <1>14 DEF AnalysisNext

LEMMA AnalysisInvariant == AnalysisSpec => []AnalysisInv
  BY AnalysisStarts, AnalysisStep, PTL DEF AnalysisSpec

\* Every log has all of its lines in every state, whatever fails and whenever analyze.py
\* is killed: sort_in_place replaces a log only by a file that was closed whole.
THEOREM NoLineIsLost == AnalysisSpec => []LogsAreWhole
<1>1. AnalysisInv => LogsAreWhole
  BY DEF AnalysisInv
<1> QED
  BY <1>1, AnalysisInvariant, PTL

\* Whatever earlier runs left behind, a source that is reported is analysed and sorted,
\* and success means that every source is reported (main, analyze.py 181-205).
THEOREM ReportsAreTrue == AnalysisSpec => []ReportedMeansDone
<1>1. AnalysisInv => ReportedMeansDone
  BY DEF AnalysisInv, Done, ReportedMeansDone
<1> QED
  BY <1>1, AnalysisInvariant, PTL
=============================================================================
