----------------------------- MODULE ArgsParser -----------------------------
(***************************************************************************)
(* The command line parser (include/args.hxx) as parse_arguments uses it:  *)
(* one group of ValueFlags, each of which takes exactly one value.  There  *)
(* are no positionals, commands, completions, required or single flags,    *)
(* and the validator of the group is DontCare, so those branches are not   *)
(* here.  One action is one turn of the loop of Parse.                     *)
(*                                                                         *)
(* A word of argv is not spelled out.  What matters of it is how           *)
(* ParseOption classifies it (form), the name and the joined value it      *)
(* splits into, and how the whole of it reads when it is taken as a value. *)
(***************************************************************************)
EXTENDS Integers, Sequences, FiniteSets

CONSTANTS
    Children,      \* the flags of the group, in the order they were added
    IntModulus,    \* 2^32, the width of an int
    LongModulus    \* 2^64, the width of a long

\* A text as ValueReader sees it: a number, nothing, a sign without digits,
\* or something that is no number, such as a word or a uri
Text == [is : {"number", "empty", "sign", "word"}, n : Int]

Number(n) == [is |-> "number", n |-> n]
Empty == [is |-> "empty", n |-> 0]

Word == [form : {"terminator", "long", "short", "positional"},
         name : STRING,
         joined : {<<>>} \cup [{1} -> Text],
         text : Text]

ASSUME ParserAssumption ==
    /\ Children \in Seq([flag : STRING, short : SUBSET STRING,
                         long : SUBSET STRING, type : {"int", "long", "string"}])
    /\ \A i, j \in DOMAIN Children : Children[i].flag = Children[j].flag => i = j
    /\ IntModulus \in Nat /\ LongModulus \in Nat

VARIABLES
    argv,        \* the words after the name of the program
    it,          \* the word Parse is at
    terminated,
    matched,     \* the flags whose matched is TRUE
    value,       \* the value of each flag: a number, or a text for a string
    status       \* "idle", "parsing", "parsed" or "error"

parserVars == <<argv, it, terminated, matched, value, status>>

Flags == {Children[i].flag : i \in DOMAIN Children}
Type(flag) ==
    Children[CHOOSE i \in DOMAIN Children : Children[i].flag = flag].type

Default == [flag \in Flags |-> IF Type(flag) = "string" THEN Empty ELSE 0]

ParserInit ==
    /\ argv = <<>> /\ it = 1 /\ terminated = FALSE
    /\ matched = {} /\ value = Default /\ status = "idle"

(***************************************************************************)
(* Matching: the first child with that name, as a short or as a long flag. *)
(***************************************************************************)
Has(child, word) ==
    word.name \in IF word.form = "short" THEN child.short ELSE child.long

Match(word) ==
    {Children[i].flag : i \in
        {i \in DOMAIN Children :
            /\ Has(Children[i], word)
            /\ \A j \in 1 .. i - 1 : ~Has(Children[j], word)}}

(***************************************************************************)
(* Reading a value.  A string takes any text.  A number is read with >>,   *)
(* and only characters left over are an error: what does not fit becomes   *)
(* the nearest bound, a lone sign 0, and nothing at all leaves the         *)
(* destination as it was.                                                  *)
(***************************************************************************)
\* Mutant: a reader that also takes the failure of >> for an error
ReadableStrictly(flag, text) == Type(flag) = "string" \/ text.is = "number"

Readable(flag, text) == Type(flag) = "string" \/ text.is # "word"

Fitted(n, modulus) ==
    IF n < -(modulus \div 2) THEN -(modulus \div 2)
    ELSE IF n >= modulus \div 2 THEN modulus \div 2 - 1 ELSE n

Read(flag, text, old) ==
    CASE Type(flag) = "string"  -> text
      [] Type(flag) # "string" /\ text.is = "empty" -> old
      [] OTHER -> Fitted(text.n, IF Type(flag) = "int" THEN IntModulus ELSE LongModulus)

(***************************************************************************)
(* ParseArgsValues: the joined value, else the next word whatever it looks *)
(* like, for a flag that takes exactly one value.                          *)
(***************************************************************************)
\* Mutant: the next word only if it is no flag, as for a flag with nargs.min # nargs.max
ValuesPositional(word, i) ==
    CASE word.joined # <<>> -> word.joined
      [] word.joined = <<>> /\ i < Len(argv) /\ argv[i + 1].form = "positional" ->
            <<argv[i + 1].text>>
      [] OTHER -> <<>>

Values(word, i) ==
    CASE word.joined # <<>>                   -> word.joined
      [] word.joined = <<>> /\ i < Len(argv)  -> <<argv[i + 1].text>>
      [] OTHER                                -> <<>>

Current == argv[it]
Unparsed == status = "parsing" /\ it <= Len(argv)

\* ParseCLI: Reset, then Parse
ParseCLI(words) ==
    /\ argv' = words /\ it' = 1 /\ terminated' = FALSE
    /\ matched' = {} /\ value' = Default /\ status' = "parsing"

ParseTerminator ==
    /\ Unparsed /\ ~terminated /\ Current.form = "terminator"
    /\ terminated' = TRUE /\ it' = it + 1
    /\ UNCHANGED <<argv, matched, value, status>>

\* ParseLong and ParseShort
ParseFlag ==
    /\ Unparsed /\ ~terminated /\ Current.form \in {"long", "short"}
    /\ \E flag \in Match(Current) :
        LET values == Values(Current, it)
            fine == values # <<>> /\ Readable(flag, values[1])
        IN
        /\ matched' = matched \cup {flag}
        /\ \/ /\ fine
              /\ value' = [value EXCEPT ![flag] = Read(flag, values[1], @)]
              /\ it' = it + (IF Current.joined = <<>> THEN 2 ELSE 1)
              /\ UNCHANGED status
           \/ /\ ~fine
              /\ status' = "error" /\ UNCHANGED <<value, it>>
    /\ UNCHANGED <<argv, terminated>>

\* No flag of that name, or no positional to receive the word
ParseNothing ==
    /\ Unparsed
    /\ \/ ~terminated /\ Current.form \in {"long", "short"} /\ Match(Current) = {}
       \/ ~terminated /\ Current.form = "positional"
       \/ terminated
    /\ status' = "error"
    /\ UNCHANGED <<argv, it, terminated, matched, value>>

\* The end of the loop, and Validate, which finds nothing to object to
FinishParse ==
    /\ status = "parsing" /\ it > Len(argv)
    /\ status' = "parsed"
    /\ UNCHANGED <<argv, it, terminated, matched, value>>

Parse == ParseTerminator \/ ParseFlag \/ ParseNothing \/ FinishParse

-----------------------------------------------------------------------------
(***************************************************************************)
(* What a command line means, said without a parser.  Uses holds the words *)
(* that are read as words of their own and not as the value of the word    *)
(* before them.                                                            *)
(***************************************************************************)
IsFlag(word) == word.form \in {"long", "short"} /\ Match(word) # {}

Uses(words) ==
    LET uses[i \in 1 .. Len(words)] ==
        \/ i = 1
        \/ ~uses[i - 1]
        \/ ~IsFlag(words[i - 1])
        \/ words[i - 1].joined # <<>>
    IN  {i \in 1 .. Len(words) : uses[i]}

TextOf(words, i) ==
    IF words[i].joined # <<>> THEN words[i].joined[1] ELSE words[i + 1].text

WellFormed(words) ==
    \A i \in Uses(words) :
        \/ words[i].form = "terminator" /\ i = Len(words)
        \/ /\ IsFlag(words[i])
           /\ words[i].joined # <<>> \/ i < Len(words)
           /\ \A flag \in Match(words[i]) : Readable(flag, TextOf(words, i))

\* The flags that are given, each with its last setting that says something
Meaning(words) ==
    LET uses == {i \in Uses(words) : IsFlag(words[i])}
        said(flag) ==
            {i \in uses :
                /\ flag \in Match(words[i])
                /\ Type(flag) = "string" \/ TextOf(words, i).is # "empty"}
        last(flag) == CHOOSE i \in said(flag) : \A j \in said(flag) : j <= i
    IN  [flag \in UNION {Match(words[i]) : i \in uses} |->
            IF said(flag) = {} THEN Default[flag]
            ELSE Read(flag, TextOf(words, last(flag)), Default[flag])]

\* What the parser makes of a command line is what the line means: it is accepted
\* exactly when it is well formed, a flag counts as given exactly when it is used,
\* and has the value of its last use that names one (Parse, ParseArgsValues,
\* ValueReader, args.hxx 2277-2463 and 2593-2756).
ParsedAsWritten ==
    /\ status = "error" => ~WellFormed(argv)
    /\ status = "parsed" =>
        LET meaning == Meaning(argv) IN
        /\ WellFormed(argv)
        /\ matched = DOMAIN meaning
        /\ \A flag \in Flags :
            value[flag] = IF flag \in matched THEN meaning[flag] ELSE Default[flag]
=============================================================================
