---------------------------- MODULE CommandLine ----------------------------
(***************************************************************************)
(* Parser::parse of src/cli: one round of its loop is one step.            *)
(*                                                                         *)
(* An argument is a record.  Its form is what parse tells apart by the     *)
(* first characters:                                                       *)
(*   "text"       does not begin with a dash                               *)
(*   "dash"       -                                                        *)
(*   "separator"  --                                                       *)
(*   "short"      -abc, with the letters in names                          *)
(*   "long"       --name or --name=value                                   *)
(* inline is the value behind the first equals sign, a sequence of at most *)
(* one argument, because a value may be any text.                          *)
(***************************************************************************)
EXTENDS Integers, Sequences, FiniteSets

CONSTANTS
  Flags,         \* Parser::_flags, a sequence of entries [short, long]
  Options,       \* Parser::_options
  NoName,        \* std::nullopt, the name an entry does not have
  Names,         \* the names and letters of arguments
  Arguments,     \* the arguments a command line is made of
  CommandLines   \* the command lines, without the program's name

Entries == [short : Names \cup {NoName}, long : Names \cup {NoName}]
Forms == {"text", "dash", "separator", "short", "long"}

ASSUME EntriesAssumption == Flags \in Seq(Entries) /\ Options \in Seq(Entries)
ASSUME NamesAssumption == NoName \notin Names /\ {"h", "help"} \subseteq Names
ASSUME ArgumentsAssumption ==
  \A a \in Arguments :
    /\ a.form \in Forms
    /\ a.names \in Seq(Names)
    /\ a.form \in {"short", "long"} => a.names # <<>>
    /\ a.inline \in Seq(Arguments)
ASSUME CommandLinesAssumption == CommandLines \subseteq Seq(Arguments)

\* Different entries have different names, and no long name is a letter.
Distinct(entries) ==
  /\ \A k, l \in DOMAIN entries : k # l =>
       /\ entries[k].short = NoName \/ entries[k].short # entries[l].short
       /\ entries[k].long = NoName \/ entries[k].long # entries[l].long
  /\ \A k, l \in DOMAIN entries : entries[k].short = NoName \/ entries[k].short # entries[l].long

\* So it is in cli_parser(); the parser does not ask for it.
ASSUME DistinctAssumption == Distinct(Flags) /\ Distinct(Options)

VARIABLES
  argv,             \* ParsingContext::arguments
  i,                \* ParsingContext::i
  positional_only,  \* the separator has been seen
  flags,            \* Args::_flags, whose values are all true
  values,           \* Args::_values
  positional,       \* Args::_positional
  status,           \* how parse has ended, or "parsing"
  error,            \* the ParseError: its message and the names in it
  places            \* history: where the positional arguments stood

parseVars == <<argv, i, positional_only, flags, values, positional, status, error, places>>

Errors == {"none", "unknown", "unknown_in_group", "value_missing", "value_unexpected"}

----------------------------------------------------------------------------
(* Names *)

Current == argv[i]
Name(a) == a.names[1]

\* find_in: among the short names for -a, among the long ones for --name.
Has(entries, form, name) ==
  \E k \in DOMAIN entries :
    name = IF form = "short" THEN entries[k].short ELSE entries[k].long

\* Mutant: a short name is stored as it is.
NameAsGiven(name, entries) == name

\* get_store_name: the long name that goes with a short one, if there is one.
StoreName(name, entries) ==
  LET named == {k \in DOMAIN entries : entries[k].short = name}
      entry == entries[CHOOSE k \in named : \A l \in named : k <= l]
  IN  IF named = {} \/ entry.long = NoName THEN name ELSE entry.long

\* Mutant: the last value wins.
Assigned(map, name, value) ==
  [n \in DOMAIN map \cup {name} |-> IF n = name THEN value ELSE map[n]]

\* std::unordered_map::emplace does not replace what is there.
Emplaced(map, name, value) ==
  [n \in DOMAIN map \cup {name} |-> IF n \in DOMAIN map THEN map[n] ELSE value]

----------------------------------------------------------------------------
(* One round of the loop *)

AtArgument == status = "parsing" /\ i <= Len(argv)

IsPlain(a) == a.form \in {"text", "dash"}

\* Behind the separator, or a file name, or the dash.
Positional ==
  /\ AtArgument
  /\ positional_only \/ IsPlain(Current)
  /\ positional' = Append(positional, Current)
  /\ places' = Append(places, i)
  /\ i' = i + 1
  /\ UNCHANGED <<argv, positional_only, flags, values, status, error>>

\* Mutant: the separator does not protect what is behind it.
AtOptionAnywhere(form) == AtArgument /\ Current.form = form

\* An argument that begins with a dash, in front of the separator.
AtOption(form) == AtArgument /\ ~positional_only /\ Current.form = form

Separator ==
  /\ AtOption("separator")
  /\ positional_only' = TRUE
  /\ i' = i + 1
  /\ UNCHANGED <<argv, flags, values, positional, status, error, places>>

IsHelp(a) ==
  \/ a.form = "long" /\ a.names = <<"help">> /\ a.inline = <<>>
  \/ a.form = "short" /\ a.names = <<"h">>

\* The help is printed and the process ends.
Help ==
  /\ AtArgument
  /\ ~positional_only
  /\ IsHelp(Current)
  /\ status' = "help"
  /\ UNCHANGED <<argv, i, positional_only, flags, values, positional, error, places>>

Fail(kind, what) ==
  /\ status' = "error"
  /\ error' = <<kind, what>>
  /\ UNCHANGED <<argv, i, positional_only, flags, values, positional, places>>

\* One letter or one long name.
IsSingle(a) == a.form = "long" \/ (a.form = "short" /\ Len(a.names) = 1)
IsFlag(a) == IsSingle(a) /\ Has(Flags, a.form, Name(a))
IsOption(a) == IsSingle(a) /\ ~IsFlag(a) /\ Has(Options, a.form, Name(a))

AtSingle == AtArgument /\ ~positional_only /\ IsSingle(Current) /\ ~IsHelp(Current)

\* set_flag, from parse_long_option and parse_short_option
Flag ==
  /\ AtSingle
  /\ IsFlag(Current)
  /\ IF Current.inline # <<>> THEN Fail("value_unexpected", Current.names)
     ELSE /\ flags' = flags \cup {StoreName(Name(Current), Flags)}
          /\ i' = i + 1
          /\ UNCHANGED <<argv, positional_only, values, positional, status, error, places>>

\* Mutant: the value is skipped once more.
SkipValue(value, next) ==
  /\ values' = Emplaced(values, StoreName(Name(Current), Options), value)
  /\ i' = next + 1
  /\ UNCHANGED <<argv, positional_only, flags, positional, status, error, places>>

\* Mutant: the loop does not advance.
ReadAgain(value, next) ==
  /\ values' = Emplaced(values, StoreName(Name(Current), Options), value)
  /\ UNCHANGED <<argv, i, positional_only, flags, positional, status, error, places>>

SetValue(value, next) ==
  /\ values' = Emplaced(values, StoreName(Name(Current), Options), value)
  /\ i' = next
  /\ UNCHANGED <<argv, positional_only, flags, positional, status, error, places>>

\* The value is behind the equals sign, or it is the next argument, whatever
\* that looks like.
Option ==
  /\ AtSingle
  /\ IsOption(Current)
  /\ IF Current.inline # <<>> THEN SetValue(Current.inline[1], i + 1)
     ELSE IF i < Len(argv) THEN SetValue(argv[i + 1], i + 2)
     ELSE Fail("value_missing", Current.names)

Unknown ==
  /\ AtSingle
  /\ ~IsFlag(Current)
  /\ ~IsOption(Current)
  /\ Fail("unknown", Current.names)

\* parse_combined_option takes flags only.  The flags set in front of an unknown
\* letter are lost with args.
Group ==
  LET letters == Current.names
      wrong == {k \in DOMAIN letters : ~Has(Flags, "short", letters[k])}
  IN  /\ AtOption("short")
      /\ Len(letters) > 1
      /\ IF wrong # {}
         THEN Fail("unknown_in_group", <<letters[CHOOSE k \in wrong : \A l \in wrong : k <= l]>>)
         ELSE /\ flags' = flags \cup {StoreName(letters[k], Flags) : k \in DOMAIN letters}
              /\ i' = i + 1
              /\ UNCHANGED <<argv, positional_only, values, positional, status, error, places>>

\* The loop ends and parse returns args.
Finish ==
  /\ status = "parsing"
  /\ i > Len(argv)
  /\ status' = "parsed"
  /\ UNCHANGED <<argv, i, positional_only, flags, values, positional, error, places>>

----------------------------------------------------------------------------

ParseInit ==
  /\ argv \in CommandLines
  /\ i = 1
  /\ positional_only = FALSE
  /\ flags = {}
  /\ values = [n \in {} |-> {}]
  /\ positional = <<>>
  /\ status = "parsing"
  /\ error = <<"none", <<>>>>
  /\ places = <<>>

ParseStep ==
  \/ Positional \/ Separator \/ Help
  \/ Flag \/ Option \/ Unknown \/ Group
  \/ Finish

----------------------------------------------------------------------------
(* What a command line means, from all its arguments at once *)

Label(entry) == IF entry.long = NoName THEN entry.short ELSE entry.long

Says(a, entry) ==
  \/ a.form = "long" /\ entry.long = Name(a)
  \/ a.form = "short" /\ \E l \in DOMAIN a.names : entry.short = a.names[l]

Earliest(S) == CHOOSE k \in S : \A l \in S : k <= l

\* Which arguments are values of the option in front of them.
Taken(args) ==
  LET taken[k \in Nat] ==
        k > 1 /\ ~taken[k - 1] /\ IsOption(args[k - 1]) /\ args[k - 1].inline = <<>>
  IN  taken

Words(args) == {k \in DOMAIN args : ~Taken(args)[k]}

\* Where the separator is, or the end of the command line.
Separators(args) == {k \in Words(args) : args[k].form = "separator"}
End(args) == IF Separators(args) = {} THEN Len(args) + 1 ELSE Earliest(Separators(args))

ReadWords(args) == {k \in Words(args) : k < End(args)}

Given(args) ==
  {k \in ReadWords(args) : IsOption(args[k]) /\ (args[k].inline # <<>> \/ k < Len(args))}
GivenName(args, k) ==
  Label(Options[CHOOSE l \in DOMAIN Options : Says(args[k], Options[l])])
GivenValue(args, k) == IF args[k].inline # <<>> THEN args[k].inline[1] ELSE args[k + 1]

Plain(args) == {k \in ReadWords(args) : IsPlain(args[k])} \cup End(args) + 1 .. Len(args)

\* Arguments that are wrong by themselves.
Faulty(a) ==
  \/ IsFlag(a) /\ a.inline # <<>>
  \/ IsSingle(a) /\ ~IsFlag(a) /\ ~IsOption(a)
  \/ a.form = "short" /\ Len(a.names) > 1
       /\ \E k \in DOMAIN a.names : ~Has(Flags, "short", a.names[k])

\* Where the parser has to stop: at a call for help, at a fault, at an option
\* without its value.
Stops(args) ==
  {k \in ReadWords(args) : \/ IsHelp(args[k]) \/ Faulty(args[k])
                           \/ IsOption(args[k]) /\ k \notin Given(args)}

\* What some of the words say of flags, options and positional arguments.
FlagsIn(args, K) ==
  {Label(Flags[l]) : l \in {m \in DOMAIN Flags : \E k \in K : Says(args[k], Flags[m])}}
ValuesIn(args, K) ==
  [n \in {GivenName(args, k) : k \in K} |->
     GivenValue(args, Earliest({k \in K : GivenName(args, k) = n}))]
InOrder(args, K) ==
  [k \in 1 .. Cardinality(K) |->
     args[CHOOSE l \in K : Cardinality({m \in K : m < l}) = k - 1]]

Meaning ==
  LET stops == Stops(argv)
  IN  [status |-> IF stops = {} THEN "parsed"
                  ELSE IF IsHelp(argv[Earliest(stops)]) THEN "help" ELSE "error",
       at |-> IF stops = {} THEN Len(argv) + 1 ELSE Earliest(stops),
       flags |-> FlagsIn(argv, ReadWords(argv)),
       values |-> ValuesIn(argv, Given(argv)),
       positional |-> InOrder(argv, Plain(argv))]

----------------------------------------------------------------------------
(* Properties *)

ParseTypeOK ==
  /\ argv \in Seq(Arguments)
  /\ i \in 1 .. Len(argv) + 1
  /\ positional_only \in BOOLEAN
  /\ flags \subseteq Names
  /\ DOMAIN values \subseteq Names
  /\ \A n \in DOMAIN values : values[n] \in Arguments
  /\ positional \in Seq(Arguments)
  /\ status \in {"parsing", "parsed", "help", "error"}
  /\ error \in Errors \X Seq(Names)
  /\ places \in Seq(Nat)

\* The positional arguments are arguments of the command line in their order,
\* each of them once; none in front of the separator looks like an option, and
\* behind it there is nothing else: no word is dropped, taken twice or read as a
\* flag there (the branches and the separator of Parser::parse).
PositionalInOrder ==
  /\ Len(places) = Len(positional)
  /\ \A k \in DOMAIN places : places[k] < i /\ positional[k] = argv[places[k]]
  /\ \A k, l \in DOMAIN places : k < l => places[k] < places[l]
  /\ ~positional_only => \A k \in DOMAIN positional : IsPlain(positional[k])
  /\ positional_only =>
       \E s \in 1 .. i - 1 :
         /\ argv[s].form = "separator"
         /\ \A k \in s + 1 .. i - 1 : \E l \in DOMAIN places : places[l] = k
         /\ \A k \in DOMAIN places : places[k] < s => IsPlain(positional[k])

\* The parser, which looks at one argument after the other, finds what the command
\* line means: it stops at the first argument that is wrong or asks for help and at
\* no other, an option's value is never read as a word of its own, a repeated
\* option has its first value, and both names of a flag say the same
\* (Parser::parse and the three functions it calls).
ArgumentsMeant ==
  /\ status # "parsing" => status = Meaning.status /\ i = Meaning.at
  /\ status = "parsed" =>
       <<flags, values, positional>> = <<Meaning.flags, Meaning.values, Meaning.positional>>

\* What was read stays: a repeated option keeps its first value, flags stay set
\* and the positional arguments stay where they are; once the separator was
\* read, no flag and no value is set any more (set_flag, set_value).
ReadOnce ==
  [][/\ flags \subseteq flags'
     /\ \A n \in DOMAIN values : n \in DOMAIN values' /\ values'[n] = values[n]
     /\ Len(positional) <= Len(positional')
     /\ \A k \in DOMAIN positional : positional'[k] = positional[k]
     /\ positional_only => positional_only' /\ flags' = flags /\ values' = values]_parseVars
=============================================================================
