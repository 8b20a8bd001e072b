---------------------------- MODULE Lang3_proofs ----------------------------
(***************************************************************************)
(* Proofs about the command line and main, for all entries, arguments and  *)
(* command lines: the parser, which has an index and a flag, finds what    *)
(* Meaning says of the whole line (MeantSoFar is the part of it in front   *)
(* of the index), and main does what that asks for (MainMeans, by stage).  *)
(***************************************************************************)
EXTENDS Lang3, WellFoundedInduction, SequenceTheorems, FunctionTheorems, FiniteSetTheorems, TLAPS

\* What the parser keeps about the positional arguments, and its types.
ParseInv == ParseTypeOK /\ PositionalInOrder

----------------------------------------------------------------------------
\* The first of some places.
LEMMA EarliestOf ==
  ASSUME NEW K \in SUBSET Nat, K # {}
  PROVE  Earliest(K) \in K /\ \A l \in K : Earliest(K) <= l
<1>1. IsWellFoundedOn({pair \in Nat \X Nat : pair[1] < pair[2]}, Nat)
  BY NatLessThanWellFounded DEF OpToRel
<1>2. PICK k \in K : \A l \in K : <<l, k>> \notin {pair \in Nat \X Nat : pair[1] < pair[2]}
  BY <1>1, WFMin
<1>3. ASSUME NEW l \in K
      PROVE  k <= l
  <2>1. k \in Nat /\ l \in Nat
    OBVIOUS
  <2>2. ~(<<l, k>>[1] < <<l, k>>[2])
    BY <1>2, <2>1, Zenon
  <2> QED BY <2>1, <2>2
<1>4. \E m \in K : \A l \in K : m <= l
  BY <1>3
<1> QED BY <1>4, Zenon DEF Earliest

\* So it is where the code looks for the first of something.
LEMMA FirstPlace ==
  ASSUME NEW K \in SUBSET Nat, K # {}
  PROVE  (CHOOSE k \in K : \A l \in K : k <= l) \in K
BY EarliestOf, Zenon DEF Earliest

\* An element of a sequence over a set.
LEMMA SeqElement ==
  ASSUME NEW S, NEW s \in Seq(S), NEW k \in DOMAIN s
  PROVE  s[k] \in S /\ k \in Nat
OBVIOUS

\* The name that a value is stored by is a name.
LEMMA StoredName ==
  ASSUME NEW entries \in Seq(Entries), NEW name \in Names
  PROVE  StoreName(name, entries) \in Names
<1> DEFINE named == {k \in DOMAIN entries : entries[k].short = name}
           first == CHOOSE k \in named : \A l \in named : k <= l
<1>1. CASE named = {}
  BY <1>1 DEF StoreName
<1>2. CASE named # {}
  <2>1. first \in named
    <3>1. named \in SUBSET Nat
      OBVIOUS
    <3> HIDE DEF named
    <3> QED BY <1>2, <3>1, FirstPlace
  <2>2. entries[first] \in Entries
    BY <2>1, SeqElement
  <2> HIDE DEF first
  <2>3. entries[first].long \in Names \cup {NoName}
    BY <2>2 DEF Entries
  <2>4. StoreName(name, entries) = IF entries[first].long = NoName THEN name ELSE entries[first].long
    BY <1>2 DEF StoreName, first
  <2> QED BY <2>3, <2>4
<1> QED BY <1>1, <1>2

\* The argument a round looks at.
LEMMA CurrentArgument ==
  ASSUME ParseTypeOK, AtArgument
  PROVE  /\ i \in Nat \ {0} /\ i <= Len(argv)
         /\ Current \in Arguments
         /\ Current.names \in Seq(Names)
         /\ Current.inline \in Seq(Arguments)
         /\ Current.form \in {"short", "long"} => Name(Current) \in Names
BY ArgumentsAssumption DEF ParseTypeOK, AtArgument, Current, Name

\* A stored value leaves the ones that are there, and is of their type.
LEMMA EmplacedValue ==
  ASSUME NEW map, NEW name \in Names, NEW value \in Arguments,
         DOMAIN map \subseteq Names, \A n \in DOMAIN map : map[n] \in Arguments
  PROVE  /\ DOMAIN Emplaced(map, name, value) \subseteq Names
         /\ \A n \in DOMAIN Emplaced(map, name, value) : Emplaced(map, name, value)[n] \in Arguments
         /\ \A n \in DOMAIN map : /\ n \in DOMAIN Emplaced(map, name, value)
                                  /\ Emplaced(map, name, value)[n] = map[n]
BY DEF Emplaced

----------------------------------------------------------------------------
\* The parser starts with its invariant.
LEMMA ParseStart == ParseInit => ParseInv
<1> SUFFICES ASSUME ParseInit PROVE ParseInv
  OBVIOUS
<1>1. ParseTypeOK
  <2>1. argv \in Seq(Arguments) /\ i \in 1 .. Len(argv) + 1
    BY CommandLinesAssumption DEF ParseInit
  <2>2. DOMAIN values = {}
    BY DEF ParseInit
  <2>3. DOMAIN values \subseteq Names /\ \A n \in DOMAIN values : values[n] \in Arguments
    BY <2>2, Zenon
  <2>4. "none" \in Errors /\ <<>> \in Seq(Names)
    BY DEF Errors
  <2>5. error \in Errors \X Seq(Names)
    BY <2>4, Zenon DEF ParseInit
  <2>6. positional \in Seq(Arguments) /\ places \in Seq(Nat)
    BY DEF ParseInit
  <2>7. positional_only \in BOOLEAN /\ flags \subseteq Names
    BY DEF ParseInit
  <2>8. status \in {"parsing", "parsed", "help", "error"}
    BY DEF ParseInit
  <2> QED BY <2>1, <2>3, <2>5, <2>6, <2>7, <2>8, Zenon DEF ParseTypeOK
<1>2. PositionalInOrder
  <2>1. places = <<>> /\ positional = <<>> /\ positional_only = FALSE
    BY DEF ParseInit
  <2>2. DOMAIN places = {} /\ DOMAIN positional = {} /\ Len(places) = Len(positional)
    BY <2>1
  <2> QED BY <2>1, <2>2, Zenon DEF PositionalInOrder
<1> QED BY <1>1, <1>2 DEF ParseInv

\* Reading an argument keeps the types of what was parsed.
LEMMA TypeStep == ParseTypeOK /\ ParseStep => ParseTypeOK'
<1> SUFFICES ASSUME ParseTypeOK, ParseStep PROVE ParseTypeOK'
  OBVIOUS
<1> USE DEF ParseTypeOK
<1>1. CASE Positional
  <2>1. Current \in Arguments /\ i \in Nat /\ i <= Len(argv)
    BY <1>1, CurrentArgument DEF Positional
  <2> QED BY <1>1, <2>1 DEF Positional
<1>2. CASE Separator
  BY <1>2 DEF Separator, AtOption, AtArgument
<1>3. CASE Help
  BY <1>3 DEF Help
<1>4. ASSUME NEW kind \in Errors, NEW what \in Seq(Names), Fail(kind, what)
      PROVE  ParseTypeOK'
  BY <1>4 DEF Fail
<1>5. CASE Flag
  <2>1. AtArgument /\ Current.names \in Seq(Names) /\ Name(Current) \in Names
    BY <1>5, CurrentArgument DEF Flag, AtSingle, IsSingle
  <2>2. CASE Current.inline # <<>>
    BY <1>4, <1>5, <2>1, <2>2 DEF Flag, Errors
  <2>3. CASE Current.inline = <<>>
    <3>1. StoreName(Name(Current), Flags) \in Names
      BY <2>1, StoredName, EntriesAssumption
    <3> QED BY <1>5, <2>1, <2>3, <3>1 DEF Flag, AtArgument
  <2> QED BY <2>2, <2>3
<1>6. CASE Option
  <2>1. /\ AtArgument /\ Current.names \in Seq(Names) /\ Name(Current) \in Names
        /\ Current.inline \in Seq(Arguments)
    BY <1>6, CurrentArgument DEF Option, AtSingle, IsSingle
  <2>2. StoreName(Name(Current), Options) \in Names
    BY <2>1, StoredName, EntriesAssumption
  <2>3. ASSUME NEW value \in Arguments, NEW n \in 1 .. Len(argv) + 1, SetValue(value, n)
        PROVE  ParseTypeOK'
    BY <2>2, <2>3, EmplacedValue DEF SetValue
  <2>4. CASE Current.inline # <<>>
    <3>1. Current.inline[1] \in Arguments
      BY <2>1, <2>4
    <3> QED BY <1>6, <2>1, <2>3, <2>4, <3>1 DEF Option, AtArgument
  <2>5. CASE Current.inline = <<>> /\ i < Len(argv)
    BY <1>6, <2>3, <2>5 DEF Option
  <2>6. CASE Current.inline = <<>> /\ ~(i < Len(argv))
    BY <1>4, <1>6, <2>1, <2>6 DEF Option, Errors
  <2> QED BY <2>4, <2>5, <2>6
<1>7. CASE Unknown
  <2>1. Current.names \in Seq(Names)
    BY <1>7, CurrentArgument DEF Unknown, AtSingle
  <2> QED BY <1>4, <1>7, <2>1 DEF Unknown, Errors
<1>8. CASE Group
  <2> DEFINE wrong == {k \in DOMAIN Current.names : ~Has(Flags, "short", Current.names[k])}
             first == CHOOSE k \in wrong : \A l \in wrong : k <= l
  <2>1. AtArgument /\ Current.names \in Seq(Names)
    BY <1>8, CurrentArgument DEF Group, AtOption
  <2>2. CASE wrong # {}
    <3>1. wrong \in SUBSET Nat
      BY <2>1
    <3>2. first \in wrong
      <4> HIDE DEF wrong
      <4> QED BY <2>2, <3>1, FirstPlace
    <3>3. Current.names[first] \in Names
      BY <2>1, <3>2, SeqElement
    <3>4. Fail("unknown_in_group", <<Current.names[first]>>)
      BY <1>8, <2>2 DEF Group
    <3> HIDE DEF first, wrong
    <3>5. "unknown_in_group" \in Errors /\ <<Current.names[first]>> \in Seq(Names)
      BY <3>3 DEF Errors
    <3> QED BY <1>4, <3>4, <3>5
  <2>3. CASE wrong = {}
    <3>1. ASSUME NEW k \in DOMAIN Current.names
          PROVE  StoreName(Current.names[k], Flags) \in Names
      BY <2>1, SeqElement, StoredName, EntriesAssumption
    <3> QED BY <1>8, <2>1, <2>3, <3>1 DEF Group, AtArgument
  <2> QED BY <2>2, <2>3
<1>9. CASE Finish
  BY <1>9 DEF Finish
<1> QED BY <1>1, <1>2, <1>3, <1>5, <1>6, <1>7, <1>8, <1>9 DEF ParseStep

\* The steps that leave the positional arguments, the separator and the command
\* line alone, and do not go back.
LEMMA PositionalKept ==
  ASSUME ParseInv, i' >= i, i' \in Nat, UNCHANGED <<argv, positional_only, positional, places>>,
         ~positional_only \/ i' = i
  PROVE  PositionalInOrder'
<1> USE DEF ParseInv, ParseTypeOK, PositionalInOrder
<1>1. places \in Seq(Nat) /\ i \in Nat
  OBVIOUS
<1>2. \A k \in DOMAIN places' : places'[k] < i' /\ positional'[k] = argv'[places'[k]]
  BY <1>1
<1>3. CASE ~positional_only
  BY <1>2, <1>3
<1>4. CASE i' = i
  BY <1>2, <1>4
<1> QED BY <1>3, <1>4

\* A positional argument behind the ones there are.
LEMMA PositionalAppended == ParseInv /\ Positional => PositionalInOrder'
<1> SUFFICES ASSUME ParseInv, Positional PROVE PositionalInOrder'
  OBVIOUS
<1> DEFINE n == Len(places) + 1
<1>1. /\ i \in Nat \ {0} /\ i <= Len(argv)
      /\ places \in Seq(Nat) /\ positional \in Seq(Arguments)
      /\ Len(positional) = Len(places)
      /\ i' = i + 1 /\ argv' = argv /\ positional_only' = positional_only
      /\ Current \in Arguments
  BY CurrentArgument DEF ParseInv, ParseTypeOK, PositionalInOrder, Positional
<1>2. /\ Len(places') = n /\ Len(positional') = n /\ DOMAIN places' = 1 .. n
      /\ DOMAIN positional' = 1 .. n
      /\ places'[n] = i /\ positional'[n] = argv[i]
      /\ \A k \in DOMAIN places : places'[k] = places[k] /\ positional'[k] = positional[k]
  BY <1>1 DEF Positional, Current
<1>3. \A k \in DOMAIN places : places[k] < i /\ positional[k] = argv[places[k]]
  BY DEF ParseInv, PositionalInOrder
<1>4. \A k \in 1 .. n : k = n \/ k \in DOMAIN places
  BY <1>1
<1>5. \A k \in DOMAIN places' : places'[k] < i' /\ positional'[k] = argv'[places'[k]]
  BY <1>1, <1>2, <1>3, <1>4
<1>6. \A k, l \in DOMAIN places' : k < l => places'[k] < places'[l]
  BY <1>1, <1>2, <1>3, <1>4 DEF ParseInv, PositionalInOrder
<1>7. CASE ~positional_only
  <2>1. IsPlain(argv[i])
    BY <1>7 DEF Positional, Current
  <2>2. \A k \in DOMAIN positional' : IsPlain(positional'[k])
    BY <1>1, <1>2, <1>4, <1>7, <2>1 DEF ParseInv, PositionalInOrder
  <2> QED BY <1>1, <1>2, <1>5, <1>6, <1>7, <2>2 DEF PositionalInOrder
<1>8. CASE positional_only
  <2>1. PICK s \in 1 .. i - 1 :
          /\ argv[s].form = "separator"
          /\ \A k \in s + 1 .. i - 1 : \E l \in DOMAIN places : places[l] = k
          /\ \A k \in DOMAIN places : places[k] < s => IsPlain(positional[k])
    BY <1>8 DEF ParseInv, PositionalInOrder
  <2>2. s \in 1 .. i' - 1 /\ argv'[s].form = "separator"
    BY <1>1, <2>1
  <2>3. \A k \in s + 1 .. i' - 1 : \E l \in DOMAIN places' : places'[l] = k
    <3>1. ASSUME NEW k \in s + 1 .. i' - 1 PROVE \E l \in DOMAIN places' : places'[l] = k
      <4>1. CASE k = i
        BY <1>1, <1>2, <4>1
      <4>2. CASE k # i
        <5>1. PICK l \in DOMAIN places : places[l] = k
          BY <1>1, <2>1, <4>2
        <5>2. l \in DOMAIN places' /\ places'[l] = k
          BY <1>1, <1>2, <5>1
        <5> QED BY <5>2
      <4> QED BY <4>1, <4>2
    <3> QED BY <3>1
  <2>4. \A k \in DOMAIN places' : places'[k] < s => IsPlain(positional'[k])
    BY <1>1, <1>2, <1>4, <2>1
  <2> QED BY <1>1, <1>2, <1>5, <1>6, <1>8, <2>2, <2>3, <2>4 DEF PositionalInOrder
<1> QED BY <1>7, <1>8 DEF ParseInv, ParseTypeOK

\* The separator itself: all words so far are in front of it.
LEMMA PositionalSeparated == ParseInv /\ Separator => PositionalInOrder'
<1> SUFFICES ASSUME ParseInv, Separator PROVE PositionalInOrder'
  OBVIOUS
<1>1. /\ i \in Nat \ {0} /\ i' = i + 1 /\ positional_only' = TRUE /\ ~positional_only
      /\ UNCHANGED <<argv, positional, places>> /\ argv[i].form = "separator"
  BY DEF ParseInv, ParseTypeOK, Separator, AtOption, Current
<1>2. places \in Seq(Nat) /\ DOMAIN positional = DOMAIN places
  BY DEF ParseInv, ParseTypeOK, PositionalInOrder
<1>3. \A k \in DOMAIN places : places[k] < i
  BY DEF ParseInv, PositionalInOrder
<1>4. \A k \in DOMAIN places : IsPlain(positional[k])
  BY <1>1, <1>2 DEF ParseInv, PositionalInOrder
<1>5. i \in 1 .. i' - 1 /\ i + 1 .. i' - 1 = {}
  BY <1>1
<1>6. \E s \in 1 .. i' - 1 :
         /\ argv'[s].form = "separator"
         /\ \A k \in s + 1 .. i' - 1 : \E l \in DOMAIN places' : places'[l] = k
         /\ \A k \in DOMAIN places' : places'[k] < s => IsPlain(positional'[k])
  BY <1>1, <1>4, <1>5
<1>7. \A k \in DOMAIN places' : places'[k] < i' /\ positional'[k] = argv'[places'[k]]
  BY <1>1, <1>2, <1>3 DEF ParseInv, PositionalInOrder
<1> QED BY <1>1, <1>6, <1>7 DEF ParseInv, PositionalInOrder

\* Reading an argument keeps the parser's invariant.
LEMMA ParseInvStep == ParseInv /\ [ParseStep]_parseVars => ParseInv'
<1> SUFFICES ASSUME ParseInv, [ParseStep]_parseVars PROVE ParseInv'
  OBVIOUS
<1>1. CASE ParseStep
  <2>1. ParseTypeOK'
    BY <1>1, TypeStep DEF ParseInv
  <2>2. i \in Nat
    BY DEF ParseInv, ParseTypeOK
  <2> DEFINE Kept == /\ i' >= i /\ i' \in Nat
                     /\ UNCHANGED <<argv, positional_only, positional, places>>
                     /\ ~positional_only \/ i' = i
  <2>3. CASE Positional
    BY <2>1, <2>3, PositionalAppended DEF ParseInv
  <2>4. CASE Separator
    BY <2>1, <2>4, PositionalSeparated DEF ParseInv
  <2>5. ASSUME NEW kind, NEW what, Fail(kind, what) PROVE Kept
    BY <2>2, <2>5 DEF Fail
  <2>6. CASE Help
    <3>1. Kept
      BY <2>2, <2>6 DEF Help
    <3> QED BY <2>1, <3>1, PositionalKept DEF ParseInv
  <2>7. CASE Flag
    <3>1. Kept
      BY <2>2, <2>5, <2>7 DEF Flag, AtSingle
    <3> QED BY <2>1, <3>1, PositionalKept DEF ParseInv
  <2>8. CASE Option
    <3>1. Kept
      BY <2>2, <2>5, <2>8 DEF Option, AtSingle, SetValue
    <3> QED BY <2>1, <3>1, PositionalKept DEF ParseInv
  <2>9. CASE Unknown
    <3>1. Kept
      BY <2>2, <2>5, <2>9 DEF Unknown
    <3> QED BY <2>1, <3>1, PositionalKept DEF ParseInv
  <2>10. CASE Group
    <3>1. Kept
      BY <2>2, <2>5, <2>10 DEF Group, AtOption
    <3> QED BY <2>1, <3>1, PositionalKept DEF ParseInv
  <2>11. CASE Finish
    <3>1. Kept
      BY <2>2, <2>11 DEF Finish
    <3> QED BY <2>1, <3>1, PositionalKept DEF ParseInv
  <2> QED BY <1>1, <2>3, <2>4, <2>6, <2>7, <2>8, <2>9, <2>10, <2>11 DEF ParseStep
<1>2. CASE UNCHANGED parseVars
  BY <1>2 DEF ParseInv, ParseTypeOK, PositionalInOrder, parseVars
<1> QED BY <1>1, <1>2

----------------------------------------------------------------------------
(* What the parser has read means what the command line means *)

\* It is the only one that no other one precedes.
LEMMA EarliestIs ==
  ASSUME NEW K \in SUBSET Nat, NEW k \in K, \A l \in K : k <= l
  PROVE  Earliest(K) = k
<1>1. Earliest(K) \in K /\ Earliest(K) <= k /\ k <= Earliest(K)
  BY EarliestOf
<1>2. \A m \in K : m \in Nat
  OBVIOUS
<1>3. k \in Nat /\ Earliest(K) \in Nat
  BY <1>1, <1>2
<1> QED BY <1>1, <1>3

\* The recursion that says which arguments are values has a solution: an argument
\* is one if the options before it that take the next word are odd in number.
LEMMA TakenIs ==
  ASSUME NEW args, NEW k \in Nat
  PROVE  Taken(args)[k] =
           (k > 1 /\ ~Taken(args)[k - 1] /\ IsOption(args[k - 1]) /\ args[k - 1].inline = <<>>)
<1> DEFINE Takes(j) == IsOption(args[j]) /\ args[j].inline = <<>>
           Body(f) == [j \in Nat |-> j > 1 /\ ~f[j - 1] /\ Takes(j - 1)]
           Distances(j) == {d \in Nat : d < j /\ (d = j - 1 \/ ~Takes(j - 1 - d))}
           Run(j) == Earliest(Distances(j))
           known == [j \in Nat |-> j > 1 /\ ~(Run(j) % 2 = 0)]
           taken == CHOOSE f : f = Body(f)
<1>1. ASSUME NEW j \in Nat, j > 0
      PROVE  /\ Run(j) \in Nat /\ Run(j) < j /\ (Run(j) = j - 1 \/ ~Takes(j - 1 - Run(j)))
             /\ \A d \in Nat : d < j /\ (d = j - 1 \/ ~Takes(j - 1 - d)) => Run(j) <= d
  <2>1. j - 1 \in Distances(j) /\ Distances(j) \in SUBSET Nat
    BY <1>1
  <2> HIDE DEF Takes
  <2> QED BY <2>1, EarliestOf
<1>2. ASSUME NEW j \in Nat, j > 1
      PROVE  known[j] = (~known[j - 1] /\ Takes(j - 1))
  <2> HIDE DEF Takes, Run
  <2>1. known[j] = (~(Run(j) % 2 = 0)) /\ known[j - 1] = (j - 1 > 1 /\ ~(Run(j - 1) % 2 = 0))
    BY <1>2
  <2>2. /\ Run(j) \in Nat /\ Run(j) < j /\ (Run(j) = j - 1 \/ ~Takes(j - 1 - Run(j)))
        /\ \A d \in Nat : d < j /\ (d = j - 1 \/ ~Takes(j - 1 - d)) => Run(j) <= d
    BY <1>1, <1>2
  <2>3. /\ Run(j - 1) \in Nat /\ Run(j - 1) < j - 1
        /\ (Run(j - 1) = j - 2 \/ ~Takes(j - 2 - Run(j - 1)))
        /\ \A d \in Nat : d < j - 1 /\ (d = j - 2 \/ ~Takes(j - 2 - d)) => Run(j - 1) <= d
    <3>1. j - 1 \in Nat /\ j - 1 > 0
      BY <1>2
    <3>2. /\ Run(j - 1) \in Nat /\ Run(j - 1) < j - 1
          /\ (Run(j - 1) = (j - 1) - 1 \/ ~Takes((j - 1) - 1 - Run(j - 1)))
          /\ \A d \in Nat : d < j - 1 /\ (d = (j - 1) - 1 \/ ~Takes((j - 1) - 1 - d)) => Run(j - 1) <= d
      BY <1>1, <3>1
    <3>3. (j - 1) - 1 = j - 2
      OBVIOUS
    <3> QED BY <3>2, <3>3
  <2>4. CASE ~Takes(j - 1)
    <3>1. Run(j) <= 0
      BY <1>2, <2>2, <2>4
    <3> QED BY <2>1, <2>2, <2>4, <3>1
  <2>5. CASE Takes(j - 1)
    <3>1. Run(j) # 0
      BY <1>2, <2>2, <2>5
    <3>2. Run(j - 1) <= Run(j) - 1
      <4> DEFINE d == Run(j) - 1
      <4>1. d \in Nat /\ d < j - 1 /\ (d = j - 2 \/ ~Takes(j - 2 - d))
        <5>1. j - 2 - d = j - 1 - Run(j)
          BY <2>2
        <5> QED BY <2>2, <3>1, <5>1
      <4> QED BY <2>3, <4>1
    <3>3. Run(j) <= Run(j - 1) + 1
      <4> DEFINE d == Run(j - 1) + 1
      <4>1. d \in Nat /\ d < j /\ (d = j - 1 \/ ~Takes(j - 1 - d))
        <5>1. j - 1 - d = j - 2 - Run(j - 1)
          BY <2>3
        <5> QED BY <2>3, <5>1
      <4> QED BY <2>2, <4>1
    <3>4. Run(j) = Run(j - 1) + 1
      BY <2>2, <2>3, <3>2, <3>3
    <3>5. (Run(j) % 2 = 0) <=> ~(Run(j - 1) % 2 = 0)
      BY <2>3, <3>4
    <3>6. CASE j - 1 > 1
      BY <2>1, <2>5, <3>5, <3>6
    <3>7. CASE ~(j - 1 > 1)
      <4>1. Run(j - 1) = 0
        BY <1>2, <2>3, <3>7
      <4>2. Run(j) = 1 /\ ~(Run(j) % 2 = 0)
        BY <3>4, <4>1
      <4> QED BY <2>1, <2>5, <3>7, <4>2
    <3> QED BY <3>6, <3>7
  <2> QED BY <2>4, <2>5
<1>3. known = Body(known)
  <2>1. ASSUME NEW j \in Nat
        PROVE  known[j] = (j > 1 /\ ~known[j - 1] /\ Takes(j - 1))
    <3>1. CASE j > 1
      <4> HIDE DEF known, Takes
      <4> QED BY <1>2, <3>1
    <3>2. CASE ~(j > 1)
      BY <3>2, Zenon
    <3> QED BY <3>1, <3>2
  <2> HIDE DEF Takes, Run
  <2> QED BY <2>1, Zenon
<1>4. taken = Body(taken)
  <2> HIDE DEF known
  <2> QED BY <1>3, Zenon
<1>5. Taken(args) = taken
  BY Zenon DEF Taken
<1> HIDE DEF taken
<1> QED BY <1>4, <1>5, Zenon
\* The separator is the first word of its form, or there is none.
LEMMA EndIs ==
  ASSUME NEW args \in Seq(Arguments)
  PROVE  /\ End(args) \in Nat \ {0} /\ End(args) <= Len(args) + 1
         /\ End(args) <= Len(args) =>
              End(args) \in Words(args) /\ args[End(args)].form = "separator"
         /\ \A k \in Words(args) : args[k].form = "separator" => End(args) <= k
<1>1. Separators(args) \in SUBSET Nat /\ \A k \in Separators(args) : k \in 1 .. Len(args)
  BY DEF Separators, Words
<1>2. CASE Separators(args) = {}
  <2>1. End(args) = Len(args) + 1
    BY <1>2 DEF End
  <2>2. \A k \in Words(args) : args[k].form # "separator"
    BY <1>2 DEF Separators
  <2> QED BY <2>1, <2>2
<1>3. CASE Separators(args) # {}
  <2>1. End(args) = Earliest(Separators(args))
    BY <1>3 DEF End
  <2>2. End(args) \in Separators(args) /\ \A l \in Separators(args) : End(args) <= l
    BY <1>1, <1>3, <2>1, EarliestOf
  <2>3. End(args) \in 1 .. Len(args)
    BY <1>1, <2>2
  <2>4. End(args) \in Words(args) /\ args[End(args)].form = "separator"
    BY <2>2 DEF Separators
  <2>5. \A k \in Words(args) : args[k].form = "separator" => End(args) <= k
    BY <2>2 DEF Separators
  <2> QED BY <2>3, <2>4, <2>5
<1> QED BY <1>2, <1>3

\* The words that were read lie in front of the separator, within the command line.
LEMMA WordsAre ==
  ASSUME NEW args \in Seq(Arguments)
  PROVE  /\ ReadWords(args) = {k \in 1 .. Len(args) : ~Taken(args)[k] /\ k < End(args)}
         /\ Given(args) \subseteq ReadWords(args)
         /\ Stops(args) \subseteq ReadWords(args)
         /\ \A k \in Nat : k <= End(args) =>
              (k \in Plain(args) <=> k \in ReadWords(args) /\ IsPlain(args[k]))
<1>1. End(args) \in Nat
  BY EndIs
<1>2. ReadWords(args) = {k \in 1 .. Len(args) : ~Taken(args)[k] /\ k < End(args)}
  BY DEF ReadWords, Words
<1>3. \A k \in Nat : k <= End(args) => k \notin End(args) + 1 .. Len(args)
  BY <1>1
<1>4. \A k \in Nat : k <= End(args) =>
              (k \in Plain(args) <=> k \in ReadWords(args) /\ IsPlain(args[k]))
  BY <1>3, Zenon DEF Plain
<1>5. Given(args) \subseteq ReadWords(args) /\ Stops(args) \subseteq ReadWords(args)
  BY Zenon DEF Given, Stops
<1> QED BY <1>2, <1>4, <1>5

----------------------------------------------------------------------------
\* Names: what an entry is stored by is its label, whichever of its names is given.
LEMMA StoredLabel ==
  ASSUME NEW entries \in Seq(Entries), Distinct(entries), NEW l \in DOMAIN entries,
         NEW name \in Names,
         name = entries[l].short \/ name = entries[l].long
  PROVE  StoreName(name, entries) = Label(entries[l])
<1> DEFINE named == {k \in DOMAIN entries : entries[k].short = name}
           entry == entries[CHOOSE k \in named : \A m \in named : k <= m]
<1>0. l \in Nat /\ name # NoName
  BY NamesAssumption, SeqElement
<1>1. CASE name = entries[l].short
  <2>1. named = {l}
    BY <1>0, <1>1 DEF Distinct
  <2>2. (CHOOSE k \in named : \A m \in named : k <= m) = l
    <3>1. \A k \in {l} : (\A m \in {l} : k <= m) <=> k = l
      BY <1>0
    <3> HIDE DEF named
    <3> QED BY <2>1, <3>1
  <2>3. StoreName(name, entries) = IF entries[l].long = NoName THEN name ELSE entries[l].long
    <3>1. entry = entries[l] /\ named # {}
      <4>1. entry = entries[l]
        BY <2>2, Zenon
      <4>2. l \in named
        BY <2>1, Zenon
      <4> QED BY <4>1, <4>2, Zenon
    <3>2. StoreName(name, entries) = IF named = {} \/ entry.long = NoName THEN name ELSE entry.long
      BY Zenon DEF StoreName
    <3> HIDE DEF named, entry
    <3> QED BY <3>1, <3>2, Zenon
  <2> QED BY <2>3, <1>1 DEF Label
<1>2. CASE name # entries[l].short
  <2>1. name = entries[l].long
    BY <1>2
  <2>2. named = {}
    BY <1>0, <2>1, Zenon DEF Distinct
  <2>3. StoreName(name, entries) = name
    BY <2>2, Zenon DEF StoreName
  <2> QED BY <1>0, <2>1, <2>3 DEF Label
<1> QED BY <1>1, <1>2

\* A single letter or long name says exactly the entries that have it.
LEMMA SinglesSay ==
  ASSUME NEW a \in Arguments, IsSingle(a), NEW entry
  PROVE  Says(a, entry) <=> Name(a) = IF a.form = "short" THEN entry.short ELSE entry.long
<1>1. a.form = "long" \/ (a.form = "short" /\ Len(a.names) = 1)
  BY DEF IsSingle
<1>2. a.names \in Seq(Names)
  BY ArgumentsAssumption
<1>3. CASE a.form = "long"
  BY <1>3 DEF Says, Name
<1>4. CASE a.form = "short" /\ Len(a.names) = 1
  <2>1. DOMAIN a.names = {1}
    BY <1>2, <1>4
  <2> QED BY <1>4, <2>1 DEF Says, Name
<1> QED BY <1>1, <1>3, <1>4

\* What a single letter or long name is stored by.
LEMMA SingleStored ==
  ASSUME NEW a \in Arguments, IsSingle(a), NEW entries \in Seq(Entries), Distinct(entries),
         NEW l \in DOMAIN entries, Says(a, entries[l])
  PROVE  StoreName(Name(a), entries) = Label(entries[l])
<1>1. Name(a) \in Names
  BY ArgumentsAssumption DEF IsSingle, Name
<1>2. Name(a) = entries[l].short \/ Name(a) = entries[l].long
  BY SinglesSay
<1> QED BY <1>1, <1>2, StoredLabel

\* What the words before and at an argument say, from what the ones before it say.
LEMMA FlagsJoined ==
  ASSUME NEW args, NEW K, NEW k
  PROVE  FlagsIn(args, K \cup {k}) = FlagsIn(args, K) \cup FlagsIn(args, {k})
BY DEF FlagsIn

\* A flag by itself says its entry.
LEMMA FlagSays ==
  ASSUME NEW args, NEW k, args[k] \in Arguments, IsFlag(args[k])
  PROVE  FlagsIn(args, {k}) = {StoreName(Name(args[k]), Flags)}
<1> DEFINE a == args[k]
           said == {m \in DOMAIN Flags : Says(a, Flags[m])}
<1>1. IsSingle(a) /\ Has(Flags, a.form, Name(a)) /\ Flags \in Seq(Entries) /\ Distinct(Flags)
  BY EntriesAssumption, DistinctAssumption DEF IsFlag
<1>2. PICK l \in DOMAIN Flags : Name(a) = IF a.form = "short" THEN Flags[l].short ELSE Flags[l].long
  BY <1>1, Zenon DEF Has
<1>3. Says(a, Flags[l])
  BY <1>1, <1>2, SinglesSay
<1>4. \A m \in said : Label(Flags[m]) = StoreName(Name(a), Flags)
  BY <1>1, SingleStored
<1>5. l \in said
  BY <1>3
<1>6. FlagsIn(args, {k}) = {Label(Flags[m]) : m \in said}
  BY DEF FlagsIn
<1> HIDE DEF said, a
<1>7. {Label(Flags[m]) : m \in said} = {StoreName(Name(a), Flags)}
  BY <1>4, <1>5
<1> QED BY <1>6, <1>7 DEF a

\* So does every letter of a group.
LEMMA GroupSays ==
  ASSUME NEW args, NEW k, args[k] \in Arguments, args[k].form = "short",
         \A j \in DOMAIN args[k].names : Has(Flags, "short", args[k].names[j])
  PROVE  FlagsIn(args, {k}) = {StoreName(args[k].names[j], Flags) : j \in DOMAIN args[k].names}
<1> DEFINE letters == args[k].names
           said == {m \in DOMAIN Flags : \E j \in DOMAIN letters : Flags[m].short = letters[j]}
<1>1. Flags \in Seq(Entries) /\ Distinct(Flags) /\ letters \in Seq(Names)
  BY EntriesAssumption, DistinctAssumption, ArgumentsAssumption
<1>2. ASSUME NEW j \in DOMAIN letters, NEW m \in DOMAIN Flags, Flags[m].short = letters[j]
      PROVE  Label(Flags[m]) = StoreName(letters[j], Flags)
  <2>1. letters[j] \in Names
    BY <1>1, SeqElement
  <2> QED BY <1>1, <1>2, <2>1, StoredLabel
<1>3. ASSUME NEW j \in DOMAIN letters
      PROVE  \E m \in DOMAIN Flags : Flags[m].short = letters[j]
  <2>1. Has(Flags, "short", letters[j])
    OBVIOUS
  <2> QED BY <2>1, Zenon DEF Has
<1>4. FlagsIn(args, {k}) = {Label(Flags[m]) : m \in said}
  BY DEF FlagsIn, Says
<1>5. {Label(Flags[m]) : m \in said} = {StoreName(letters[j], Flags) : j \in DOMAIN letters}
  BY <1>2, <1>3
<1> QED BY <1>4, <1>5

\* A word that is neither says no flag.
LEMMA NoFlagSaid ==
  ASSUME NEW args, NEW k, args[k] \in Arguments,
         args[k].form \notin {"short", "long"} \/ (IsSingle(args[k]) /\ ~IsFlag(args[k]))
  PROVE  FlagsIn(args, {k}) = {}
<1> DEFINE a == args[k]
<1>1. ASSUME NEW m \in DOMAIN Flags
      PROVE  ~Says(a, Flags[m])
  <2>1. CASE a.form \notin {"short", "long"}
    BY <2>1 DEF Says
  <2>2. CASE IsSingle(a) /\ ~IsFlag(a)
    <3>1. ~Has(Flags, a.form, Name(a))
      BY <2>2 DEF IsFlag
    <3>2. Name(a) # IF a.form = "short" THEN Flags[m].short ELSE Flags[m].long
      BY <3>1 DEF Has
    <3> QED BY <2>2, <3>2, SinglesSay
  <2> QED BY <2>1, <2>2
<1> QED BY <1>1 DEF FlagsIn

\* An option is stored by the label of its entry.
LEMMA OptionStored ==
  ASSUME NEW args, NEW k, args[k] \in Arguments, IsOption(args[k])
  PROVE  GivenName(args, k) = StoreName(Name(args[k]), Options)
<1> DEFINE a == args[k]
           l == CHOOSE m \in DOMAIN Options : Says(a, Options[m])
<1>1. IsSingle(a) /\ Has(Options, a.form, Name(a)) /\ Options \in Seq(Entries) /\ Distinct(Options)
  BY EntriesAssumption, DistinctAssumption DEF IsOption
<1>2. \E m \in DOMAIN Options : Says(a, Options[m])
  <2>1. PICK m \in DOMAIN Options : Name(a) = IF a.form = "short" THEN Options[m].short ELSE Options[m].long
    BY <1>1, Zenon DEF Has
  <2>2. Says(a, Options[m])
    BY <1>1, <2>1, SinglesSay
  <2> QED BY <2>2
<1>3. l \in DOMAIN Options /\ Says(a, Options[l])
  BY <1>2, Zenon
<1>4. GivenName(args, k) = Label(Options[l])
  BY Zenon DEF GivenName
<1> HIDE DEF l
<1> QED BY <1>1, <1>3, <1>4, SingleStored

\* A value behind the others is stored unless its option has one already.
LEMMA ValuesJoined ==
  ASSUME NEW args, NEW K \in SUBSET Nat, NEW k \in Nat, \A j \in K : j < k
  PROVE  ValuesIn(args, K \cup {k}) = Emplaced(ValuesIn(args, K), GivenName(args, k), GivenValue(args, k))
<1> DEFINE Named(S, n) == {j \in S : GivenName(args, j) = n}
           old == ValuesIn(args, K)
           new == Emplaced(old, GivenName(args, k), GivenValue(args, k))
           names == {GivenName(args, j) : j \in K}
<1>1. old = [n \in names |-> GivenValue(args, Earliest(Named(K, n)))]
  BY Zenon DEF ValuesIn
<1>2. ValuesIn(args, K \cup {k}) =
        [n \in names \cup {GivenName(args, k)} |-> GivenValue(args, Earliest(Named(K \cup {k}, n)))]
  <2>1. {GivenName(args, j) : j \in K \cup {k}} = names \cup {GivenName(args, k)}
    OBVIOUS
  <2> HIDE DEF names
  <2> QED BY <2>1, Zenon DEF ValuesIn
<1>3. ASSUME NEW n \in names
      PROVE  Earliest(Named(K \cup {k}, n)) = Earliest(Named(K, n))
  <2>1. Named(K, n) \in SUBSET Nat /\ Named(K, n) # {} /\ Named(K \cup {k}, n) \in SUBSET Nat
    OBVIOUS
  <2>2. Earliest(Named(K, n)) \in Named(K, n) /\ \A j \in Named(K, n) : Earliest(Named(K, n)) <= j
    <3> HIDE DEF Named
    <3> QED BY <2>1, EarliestOf
  <2> DEFINE e == Earliest(Named(K, n))
  <2>3. e \in K /\ e \in Nat /\ e < k /\ GivenName(args, e) = n
    BY <2>2
  <2>4. \A j \in Named(K \cup {k}, n) : e <= j
    BY <2>2, <2>3
  <2>5. e \in Named(K \cup {k}, n)
    BY <2>3
  <2> HIDE DEF Named, e
  <2>6. Earliest(Named(K \cup {k}, n)) = e
    BY <2>1, <2>4, <2>5, EarliestIs
  <2> QED BY <2>6 DEF e
<1>4. GivenName(args, k) \notin names => Earliest(Named(K \cup {k}, GivenName(args, k))) = k
  <2> SUFFICES ASSUME GivenName(args, k) \notin names
               PROVE  Earliest(Named(K \cup {k}, GivenName(args, k))) = k
    OBVIOUS
  <2>1. Named(K \cup {k}, GivenName(args, k)) = {k}
    OBVIOUS
  <2>2. \A j \in {k} : k <= j
    OBVIOUS
  <2> HIDE DEF Named
  <2>3. Earliest({k}) = k
    BY <2>2, EarliestIs
  <2> QED BY <2>1, <2>3
<1> HIDE DEF Named, names
<1>5. new = [n \in names \cup {GivenName(args, k)} |->
               IF n \in names THEN GivenValue(args, Earliest(Named(K, n))) ELSE GivenValue(args, k)]
  <2>1. DOMAIN old = names /\ \A n \in names : old[n] = GivenValue(args, Earliest(Named(K, n)))
    BY <1>1
  <2> HIDE DEF old
  <2> QED BY <2>1, Zenon DEF Emplaced
<1>6. \A n \in names \cup {GivenName(args, k)} :
        GivenValue(args, Earliest(Named(K \cup {k}, n))) =
          IF n \in names THEN GivenValue(args, Earliest(Named(K, n))) ELSE GivenValue(args, k)
  BY <1>3, <1>4, Zenon
<1> HIDE DEF new
<1> QED BY <1>2, <1>5, <1>6, Zenon DEF new

\* The first places of an increasing sequence are as many as their number.
LEMMA FirstPlaces ==
  ASSUME NEW s \in Seq(Nat), \A k, l \in DOMAIN s : k < l => s[k] < s[l],
         NEW n \in Nat, n <= Len(s)
  PROVE  Cardinality({s[k] : k \in 1 .. n}) = n
<1> DEFINE T == {s[k] : k \in 1 .. n}
           f == [k \in 1 .. n |-> s[k]]
<1>1. f \in [1 .. n -> T] /\ \A t \in T : \E k \in 1 .. n : f[k] = t
  OBVIOUS
<1>2. \A k, l \in 1 .. n : f[k] = f[l] => k = l
  <2> SUFFICES ASSUME NEW k \in 1 .. n, NEW l \in 1 .. n, s[k] = s[l] PROVE k = l
    OBVIOUS
  <2>1. k \in DOMAIN s /\ l \in DOMAIN s /\ s[k] \in Nat /\ s[l] \in Nat
    OBVIOUS
  <2>2. ~(k < l) /\ ~(l < k)
    BY <2>1
  <2> QED BY <2>2
<1> HIDE DEF T, f
<1>3. f \in Bijection(1 .. n, T)
  BY <1>1, <1>2, Fun_IsBij
<1>4. ExistsBijection(1 .. n, T)
  BY <1>3, Zenon DEF ExistsBijection
<1> QED BY <1>4, FS_CountingElements DEF T

\* Counting what precedes them finds the elements of a set in their order.
LEMMA Enumerated ==
  ASSUME NEW args, NEW s \in Seq(Nat), \A k, l \in DOMAIN s : k < l => s[k] < s[l],
         NEW K, K = {s[k] : k \in DOMAIN s}
  PROVE  InOrder(args, K) = [k \in DOMAIN s |-> args[s[k]]]
<1> DEFINE below(l) == {m \in K : m < l}
           nth(k) == CHOOSE l \in K : Cardinality(below(l)) = k - 1
<1>1. DOMAIN s = 1 .. Len(s) /\ Len(s) \in Nat
  OBVIOUS
<1>2. Cardinality(K) = Len(s)
  <2>1. Cardinality({s[k] : k \in 1 .. Len(s)}) = Len(s)
    <3>1. Len(s) <= Len(s)
      BY <1>1
    <3> QED BY <1>1, <3>1, FirstPlaces, Zenon
  <2>2. {s[k] : k \in 1 .. Len(s)} = K
    BY <1>1, Zenon
  <2> QED BY <2>1, <2>2
<1>3. ASSUME NEW k \in DOMAIN s
      PROVE  Cardinality(below(s[k])) = k - 1
  <2>1. k - 1 \in Nat /\ k - 1 <= Len(s) /\ k \in Nat /\ s[k] \in Nat
    BY <1>1
  <2>2. ASSUME NEW j \in DOMAIN s, s[j] < s[k]
        PROVE  j \in 1 .. k - 1
    <3>1. j \in Nat /\ j > 0 /\ s[j] \in Nat
      BY <1>1
    <3>2. ~(k < j) /\ j # k
      BY <2>1, <2>2, <3>1
    <3> QED BY <2>1, <3>1, <3>2
  <2>3. ASSUME NEW j \in 1 .. k - 1
        PROVE  j \in DOMAIN s /\ s[j] < s[k]
    <3>1. j \in DOMAIN s /\ j < k
      BY <1>1, <2>1
    <3> QED BY <3>1, Zenon
  <2>4. below(s[k]) = {s[j] : j \in 1 .. k - 1}
    BY <2>2, <2>3
  <2> HIDE DEF below
  <2>5. Cardinality({s[j] : j \in 1 .. k - 1}) = k - 1
    BY <2>1, FirstPlaces
  <2> QED BY <2>4, <2>5
<1> HIDE DEF below
<1>4. ASSUME NEW k \in DOMAIN s
      PROVE  nth(k) = s[k]
  <2>1. s[k] \in K /\ Cardinality(below(s[k])) = k - 1
    BY <1>3
  <2>2. nth(k) \in K /\ Cardinality(below(nth(k))) = k - 1
    BY <2>1, Zenon
  <2> HIDE DEF nth
  <2>3. PICK j \in DOMAIN s : nth(k) = s[j]
    BY <2>2
  <2>4. j - 1 = k - 1
    BY <1>3, <2>2, <2>3
  <2>5. j = k
    BY <1>1, <2>4
  <2> QED BY <2>3, <2>5
<1>5. InOrder(args, K) = [k \in 1 .. Cardinality(K) |-> args[nth(k)]]
  BY Zenon DEF InOrder, below
<1> HIDE DEF nth
<1> QED BY <1>1, <1>2, <1>4, <1>5, Zenon

----------------------------------------------------------------------------
\* What has been read means: the part of Meaning in front of the index.
Before(K) == {k \in K : k < i}

MeantSoFar ==
  status = "parsing" =>
    /\ positional_only => End(argv) < i
    /\ ~positional_only => i <= End(argv) /\ ~Taken(argv)[i]
    /\ \A k \in Stops(argv) : i <= k
    /\ flags = FlagsIn(argv, Before(ReadWords(argv)))
    /\ values = ValuesIn(argv, Before(Given(argv)))
    /\ Before(Plain(argv)) = {places[k] : k \in DOMAIN places}

\* The argument a round looks at in front of the separator is a word.
LEMMA AtWord ==
  ASSUME ParseTypeOK, MeantSoFar, AtArgument, ~positional_only
  PROVE  /\ i \in Words(argv) /\ i <= End(argv)
         /\ Current.form = "separator" => i = End(argv)
         /\ Current.form # "separator" => i \in ReadWords(argv)
<1>1. argv \in Seq(Arguments) /\ i \in 1 .. Len(argv) /\ i <= End(argv) /\ ~Taken(argv)[i]
  BY DEF ParseTypeOK, AtArgument, MeantSoFar
<1>2. i \in Words(argv)
  BY <1>1 DEF Words
<1>3. Current.form = "separator" => i = End(argv)
  <2>1. Current.form = "separator" => End(argv) <= i
    BY <1>1, <1>2, EndIs DEF Current
  <2> QED BY <1>1, <2>1, EndIs
<1>4. Current.form # "separator" => i # End(argv)
  BY <1>1, EndIs DEF Current
<1>5. Current.form # "separator" => i < End(argv)
  BY <1>1, <1>4, EndIs
<1> QED BY <1>1, <1>2, <1>3, <1>5 DEF ReadWords

\* A round that takes a word, and the value behind it, gets to the next word.
LEMMA Advance ==
  ASSUME ParseTypeOK, MeantSoFar, AtArgument, ~positional_only,
         Current.form # "separator", i \notin Stops(argv), NEW next,
         \/ next = i + 1 /\ ~(IsOption(Current) /\ Current.inline = <<>>)
         \/ next = i + 2 /\ i < Len(argv) /\ IsOption(Current) /\ Current.inline = <<>>
  PROVE  /\ next <= End(argv) /\ ~Taken(argv)[next]
         /\ \A k \in Stops(argv) : next <= k
         /\ {k \in ReadWords(argv) : k < next} = Before(ReadWords(argv)) \cup {i}
         /\ {k \in Given(argv) : k < next} = Before(Given(argv)) \cup (Given(argv) \cap {i})
         /\ {k \in Plain(argv) : k < next} =
               Before(Plain(argv)) \cup (IF IsPlain(Current) THEN {i} ELSE {})
<1>1. /\ argv \in Seq(Arguments) /\ i \in 1 .. Len(argv) /\ i \in Nat /\ Len(argv) \in Nat
      /\ i <= End(argv) /\ ~Taken(argv)[i] /\ \A k \in Stops(argv) : i <= k
  BY DEF ParseTypeOK, AtArgument, MeantSoFar
<1>2. i \in ReadWords(argv) /\ i < End(argv)
  <2>1. i \in ReadWords(argv)
    BY AtWord
  <2> QED BY <2>1 DEF ReadWords
<1>3. End(argv) \in Nat
  BY <1>1, EndIs
<1>4. Taken(argv)[i + 1] <=> IsOption(Current) /\ Current.inline = <<>>
  <2>1. i + 1 \in Nat /\ i + 1 > 1 /\ (i + 1) - 1 = i
    BY <1>1
  <2>2. Taken(argv)[i + 1] =
          (i + 1 > 1 /\ ~Taken(argv)[(i + 1) - 1] /\ IsOption(argv[(i + 1) - 1])
             /\ argv[(i + 1) - 1].inline = <<>>)
    BY <2>1, TakenIs
  <2> QED BY <1>1, <2>1, <2>2, Zenon DEF Current
<1>5. /\ next \in Nat /\ next > i /\ next <= End(argv) /\ ~Taken(argv)[next]
      /\ \A k \in ReadWords(argv) : k < next => k < i \/ k = i
  <2>1. CASE next = i + 1 /\ ~(IsOption(Current) /\ Current.inline = <<>>)
    <3>1. \A k \in ReadWords(argv) : k \in Nat
      BY <1>1, WordsAre
    <3> QED BY <1>1, <1>2, <1>3, <1>4, <2>1, <3>1
  <2>2. CASE next = i + 2 /\ i < Len(argv) /\ IsOption(Current) /\ Current.inline = <<>>
    <3>1. Taken(argv)[i + 1]
      BY <1>4, <2>2
    <3>2. i + 1 \notin Words(argv)
      BY <3>1 DEF Words
    <3>3. i + 1 # End(argv)
      BY <1>1, <2>2, <3>2, EndIs
    <3>4. i + 2 <= End(argv)
      BY <1>1, <1>2, <1>3, <3>3
    <3>5. ~Taken(argv)[i + 2]
      <4>1. i + 2 \in Nat /\ (i + 2) - 1 = i + 1
        BY <1>1
      <4>2. Taken(argv)[i + 2] =
              (i + 2 > 1 /\ ~Taken(argv)[(i + 2) - 1] /\ IsOption(argv[(i + 2) - 1])
                 /\ argv[(i + 2) - 1].inline = <<>>)
        BY <4>1, TakenIs
      <4> QED BY <3>1, <4>1, <4>2, Zenon
    <3>6. \A k \in ReadWords(argv) : k \in Nat /\ k # i + 1
      BY <1>1, <3>1, WordsAre
    <3>7. \A k \in Nat : k < i + 2 => k < i \/ k = i \/ k = i + 1
      BY <1>1
    <3> QED BY <1>1, <2>2, <3>4, <3>5, <3>6, <3>7
  <2> QED BY <2>1, <2>2
<1>6. \A k \in ReadWords(argv) : k \in Nat /\ (k < next <=> k < i \/ k = i)
  <2>1. \A k \in ReadWords(argv) : k \in Nat
    BY <1>1, WordsAre
  <2> QED BY <1>1, <1>5, <2>1
<1>7. \A k \in Stops(argv) : next <= k
  <2> TAKE k \in Stops(argv)
  <2>1. k \in ReadWords(argv) /\ i <= k /\ k # i
    BY <1>1, WordsAre
  <2> QED BY <1>1, <1>5, <1>6, <2>1
<1>8. {k \in ReadWords(argv) : k < next} = Before(ReadWords(argv)) \cup {i}
  BY <1>2, <1>6, Zenon DEF Before
<1>9. {k \in Given(argv) : k < next} = Before(Given(argv)) \cup (Given(argv) \cap {i})
  <2>1. \A k \in Given(argv) : k < next <=> k < i \/ k = i
    BY <1>1, <1>6, WordsAre
  <2> QED BY <2>1, Zenon DEF Before
<1>10. {k \in Plain(argv) : k < next} =
               Before(Plain(argv)) \cup (IF IsPlain(Current) THEN {i} ELSE {})
  <2>0. Plain(argv) \subseteq Nat
    <3>1. End(argv) + 1 .. Len(argv) \subseteq Nat
      BY <1>1, <1>3
    <3>2. ReadWords(argv) \subseteq Nat
      BY <1>6
    <3> QED BY <3>1, <3>2 DEF Plain
  <2>1. \A k \in Plain(argv) : k < next <=> k < i \/ (k = i /\ IsPlain(Current))
    <3> TAKE k \in Plain(argv)
    <3>1. CASE k <= End(argv)
      <4>1. k \in ReadWords(argv) /\ IsPlain(argv[k])
        BY <1>1, <2>0, <3>1, WordsAre
      <4> QED BY <1>6, <4>1 DEF Current
    <3>2. CASE ~(k <= End(argv))
      <4>1. k \in Nat /\ ~(k < next) /\ ~(k < i) /\ k # i
        BY <1>1, <1>3, <1>5, <2>0, <3>2
      <4> QED BY <4>1
    <3> QED BY <3>1, <3>2
  <2>2. IsPlain(Current) => i \in Plain(argv)
    BY <1>1, <1>2, WordsAre DEF Current
  <2>3. IsPlain(Current) \/ ~IsPlain(Current)
    OBVIOUS
  <2>4. CASE IsPlain(Current)
    BY <2>1, <2>2, <2>4, Zenon DEF Before
  <2>5. CASE ~IsPlain(Current)
    BY <2>1, <2>5, Zenon DEF Before
  <2> QED BY <2>4, <2>5
<1> QED BY <1>5, <1>7, <1>8, <1>9, <1>10

\* At the separator and behind it nothing but a positional argument is added.
LEMMA BehindSeparator ==
  ASSUME ParseTypeOK, MeantSoFar, AtArgument, End(argv) <= i, i <= End(argv) \/ positional_only
  PROVE  /\ \A k \in Stops(argv) : i + 1 <= k
         /\ {k \in ReadWords(argv) : k < i + 1} = Before(ReadWords(argv))
         /\ {k \in Given(argv) : k < i + 1} = Before(Given(argv))
         /\ {k \in Plain(argv) : k < i + 1} =
               Before(Plain(argv)) \cup (IF i = End(argv) THEN {} ELSE {i})
<1>1. /\ argv \in Seq(Arguments) /\ i \in 1 .. Len(argv) /\ i \in Nat /\ Len(argv) \in Nat
      /\ \A k \in Stops(argv) : i <= k
  BY DEF ParseTypeOK, AtArgument, MeantSoFar
<1>2. End(argv) \in Nat
  BY <1>1, EndIs
<1>3. \A k \in ReadWords(argv) : k \in Nat /\ k < End(argv) /\ k < i /\ k < i + 1
  BY <1>1, <1>2, WordsAre
<1>4. \A k \in Stops(argv) : i + 1 <= k
  <2>1. Stops(argv) \subseteq ReadWords(argv)
    BY <1>1, WordsAre
  <2>2. \A k \in Stops(argv) : FALSE
    BY <1>1, <1>3, <2>1
  <2> QED BY <2>2
<1>5. {k \in ReadWords(argv) : k < i + 1} = Before(ReadWords(argv))
  BY <1>3, Zenon DEF Before
<1>6. {k \in Given(argv) : k < i + 1} = Before(Given(argv))
  <2>1. Given(argv) \subseteq ReadWords(argv)
    BY <1>1, WordsAre
  <2> QED BY <1>3, <2>1, Zenon DEF Before
<1>7. \A k \in Plain(argv) : k \in Nat /\ (k < i + 1 <=> k < i \/ k = i)
  <2>1. \A k \in Nat : k < i + 1 <=> k < i \/ k = i
    BY <1>1
  <2>2. End(argv) + 1 .. Len(argv) \subseteq Nat
    BY <1>1, <1>2
  <2> QED BY <1>3, <2>1, <2>2 DEF Plain
<1>8. i \in Plain(argv) <=> i # End(argv)
  <2>1. i \in End(argv) + 1 .. Len(argv) <=> i # End(argv)
    BY <1>1, <1>2
  <2>2. i \notin ReadWords(argv)
    BY <1>1, <1>3
  <2> QED BY <2>1, <2>2 DEF Plain
<1>9. {k \in Plain(argv) : k < i + 1} =
               Before(Plain(argv)) \cup (IF i = End(argv) THEN {} ELSE {i})
  <2>1. CASE i = End(argv)
    <3>1. \A k \in Plain(argv) : k # i
      BY <1>8, <2>1
    <3> QED BY <1>7, <2>1, <3>1, Zenon DEF Before
  <2>2. CASE i # End(argv)
    BY <1>7, <1>8, <2>2, Zenon DEF Before
  <2> QED BY <2>1, <2>2
<1> QED BY <1>4, <1>5, <1>6, <1>9

\* The parser stops where the command line has its first fault or call for help.
LEMMA StopMeant ==
  ASSUME ParseTypeOK, MeantSoFar, status = "parsing", i \in Stops(argv), UNCHANGED <<argv, i>>,
         status' = IF IsHelp(Current) THEN "help" ELSE "error"
  PROVE  MeantSoFar' /\ ArgumentsMeant'
<1>1. argv \in Seq(Arguments) /\ \A k \in Stops(argv) : i <= k
  BY DEF ParseTypeOK, MeantSoFar
<1>2. Stops(argv) \in SUBSET Nat
  BY <1>1, WordsAre
<1>3. Earliest(Stops(argv)) = i
  BY <1>1, <1>2, EarliestIs
<1>4. Meaning.status = status' /\ Meaning.at = i
  <2>1. Stops(argv) # {}
    OBVIOUS
  <2> QED BY <1>3, <2>1 DEF Meaning, Current
<1>5. Meaning' = Meaning
  BY DEF Meaning
<1>6. status' # "parsing" /\ status' # "parsed"
  OBVIOUS
<1>7. MeantSoFar'
  BY <1>6 DEF MeantSoFar
<1> QED BY <1>4, <1>5, <1>6, <1>7, Zenon DEF ArgumentsMeant

\* At the end of the command line the parser has found what it means.
LEMMA FinishMeant ==
  ASSUME ParseInv, MeantSoFar, Finish
  PROVE  MeantSoFar' /\ ArgumentsMeant'
<1>1. /\ argv \in Seq(Arguments) /\ i = Len(argv) + 1 /\ Len(argv) \in Nat /\ status = "parsing"
      /\ status' = "parsed" /\ UNCHANGED <<argv, i, flags, values, positional>>
  <2>1. /\ argv \in Seq(Arguments) /\ i \in 1 .. Len(argv) + 1 /\ ~(i <= Len(argv))
    BY DEF ParseInv, ParseTypeOK, Finish
  <2>2. i = Len(argv) + 1 /\ Len(argv) \in Nat
    BY <2>1
  <2> QED BY <2>1, <2>2 DEF Finish
<1>2. /\ \A k \in Stops(argv) : i <= k
      /\ flags = FlagsIn(argv, Before(ReadWords(argv)))
      /\ values = ValuesIn(argv, Before(Given(argv)))
      /\ Before(Plain(argv)) = {places[k] : k \in DOMAIN places}
  BY <1>1 DEF MeantSoFar
<1>3. \A k \in ReadWords(argv) : k \in 1 .. Len(argv)
  BY <1>1, WordsAre
<1>4. Given(argv) \subseteq ReadWords(argv) /\ Stops(argv) \subseteq ReadWords(argv)
  BY <1>1, WordsAre
<1>5. \A k \in 1 .. Len(argv) : k < i /\ ~(i <= k)
  BY <1>1
<1>6. Stops(argv) = {}
  BY <1>2, <1>3, <1>4, <1>5
<1>7. Before(ReadWords(argv)) = ReadWords(argv) /\ Before(Given(argv)) = Given(argv)
  BY <1>3, <1>4, <1>5 DEF Before
<1>8. Before(Plain(argv)) = Plain(argv)
  <2>1. End(argv) \in Nat
    BY <1>1, EndIs
  <2>2. End(argv) + 1 .. Len(argv) \subseteq 1 .. Len(argv)
    BY <1>1, <2>1
  <2> QED BY <1>3, <1>5, <2>2 DEF Plain, Before
<1>9. positional = InOrder(argv, Plain(argv))
  <2>1. /\ places \in Seq(Nat) /\ positional \in Seq(Arguments) /\ Len(places) = Len(positional)
        /\ \A k \in DOMAIN places : positional[k] = argv[places[k]]
        /\ \A k, l \in DOMAIN places : k < l => places[k] < places[l]
    BY DEF ParseInv, ParseTypeOK, PositionalInOrder
  <2>2. InOrder(argv, Plain(argv)) = [k \in DOMAIN places |-> argv[places[k]]]
    BY <1>2, <1>8, <2>1, Enumerated
  <2>3. DOMAIN positional = DOMAIN places /\ positional = [k \in DOMAIN positional |-> positional[k]]
    BY <2>1
  <2> QED BY <2>1, <2>2, <2>3
<1>10. /\ Meaning.status = "parsed" /\ Meaning.at = i
       /\ Meaning.flags = flags /\ Meaning.values = values /\ Meaning.positional = positional
  BY <1>1, <1>2, <1>6, <1>7, <1>9 DEF Meaning
<1>11. Meaning' = Meaning
  BY <1>1 DEF Meaning
<1>12. MeantSoFar'
  BY <1>1 DEF MeantSoFar
<1> QED BY <1>1, <1>10, <1>11, <1>12, Zenon DEF ArgumentsMeant

\* Going on needs the next word, and what the words up to there say.
LEMMA GoOnMeant ==
  ASSUME UNCHANGED argv, status' = "parsing",
         positional_only' => End(argv) < i',
         ~positional_only' => i' <= End(argv) /\ ~Taken(argv)[i'],
         \A k \in Stops(argv) : i' <= k,
         flags' = FlagsIn(argv, {k \in ReadWords(argv) : k < i'}),
         values' = ValuesIn(argv, {k \in Given(argv) : k < i'}),
         {k \in Plain(argv) : k < i'} = {places'[k] : k \in DOMAIN places'}
  PROVE  MeantSoFar' /\ ArgumentsMeant'
<1>1. ArgumentsMeant'
  BY DEF ArgumentsMeant
<1>2. MeantSoFar'
  BY DEF MeantSoFar, Before
<1> QED BY <1>1, <1>2

\* A place behind the others.
LEMMA PlacesAppended ==
  ASSUME NEW s \in Seq(Nat), NEW k \in Nat
  PROVE  {Append(s, k)[j] : j \in DOMAIN Append(s, k)} = {s[j] : j \in DOMAIN s} \cup {k}
<1> DEFINE t == Append(s, k)
           n == Len(s) + 1
<1>1. /\ DOMAIN t = DOMAIN s \cup {n} /\ t[n] = k /\ \A j \in DOMAIN s : t[j] = s[j]
  OBVIOUS
<1> HIDE DEF t
<1>2. {t[j] : j \in DOMAIN t} = {s[j] : j \in DOMAIN s} \cup {k}
  BY <1>1, Zenon
<1> QED BY <1>2 DEF t

\* A positional argument, in front of the separator or behind it.
LEMMA PositionalMeant ==
  ASSUME ParseInv, MeantSoFar, Positional
  PROVE  MeantSoFar' /\ ArgumentsMeant'
<1>1. /\ AtArgument /\ status = "parsing" /\ status' = "parsing" /\ ParseTypeOK
      /\ i' = i + 1 /\ places' = Append(places, i)
      /\ UNCHANGED <<argv, positional_only, flags, values>> /\ (positional_only \/ IsPlain(Current))
      /\ argv \in Seq(Arguments) /\ i \in Nat /\ places \in Seq(Nat) /\ Current \in Arguments
  BY CurrentArgument DEF ParseInv, ParseTypeOK, Positional, AtArgument
<1>2. /\ positional_only => End(argv) < i
      /\ flags = FlagsIn(argv, Before(ReadWords(argv)))
      /\ values = ValuesIn(argv, Before(Given(argv)))
      /\ Before(Plain(argv)) = {places[k] : k \in DOMAIN places}
      /\ End(argv) \in Nat
  BY <1>1, EndIs DEF MeantSoFar
<1>3. {places'[k] : k \in DOMAIN places'} = Before(Plain(argv)) \cup {i}
  <2>1. {places'[k] : k \in DOMAIN places'} = {places[k] : k \in DOMAIN places} \cup {i}
    <3>1. {Append(places, i)[k] : k \in DOMAIN Append(places, i)} = {places[k] : k \in DOMAIN places} \cup {i}
      BY <1>1, PlacesAppended
    <3> QED BY <1>1, <3>1, Zenon
  <2> QED BY <1>2, <2>1
<1>4. CASE positional_only
  <2>1. End(argv) < i /\ End(argv) <= i /\ i # End(argv) /\ End(argv) < i'
    BY <1>1, <1>2, <1>4
  <2>2. /\ \A k \in Stops(argv) : i' <= k
        /\ {k \in ReadWords(argv) : k < i'} = Before(ReadWords(argv))
        /\ {k \in Given(argv) : k < i'} = Before(Given(argv))
        /\ {k \in Plain(argv) : k < i'} = Before(Plain(argv)) \cup {i}
    BY <1>1, <1>4, <2>1, BehindSeparator
  <2> QED BY <1>1, <1>2, <1>3, <1>4, <2>1, <2>2, GoOnMeant
<1>5. CASE ~positional_only
  <2>1. IsPlain(Current) /\ Current.form \notin {"separator", "short", "long"}
    BY <1>1, <1>5 DEF IsPlain
  <2>2. ~IsSingle(Current) /\ ~IsOption(Current) /\ ~IsFlag(Current) /\ ~IsHelp(Current)
    BY <2>1 DEF IsSingle, IsOption, IsFlag, IsHelp
  <2>3. i \notin Stops(argv) /\ i \notin Given(argv)
    BY <2>1, <2>2, Zenon DEF Stops, Given, Faulty, Current
  <2>4. /\ i' <= End(argv) /\ ~Taken(argv)[i']
        /\ \A k \in Stops(argv) : i' <= k
        /\ {k \in ReadWords(argv) : k < i'} = Before(ReadWords(argv)) \cup {i}
        /\ {k \in Given(argv) : k < i'} = Before(Given(argv)) \cup (Given(argv) \cap {i})
        /\ {k \in Plain(argv) : k < i'} = Before(Plain(argv)) \cup {i}
    BY <1>1, <1>5, <2>1, <2>2, <2>3, Advance
  <2>5. Given(argv) \cap {i} = {}
    BY <2>3
  <2>6. FlagsIn(argv, Before(ReadWords(argv)) \cup {i}) = flags
    <3>1. FlagsIn(argv, {i}) = {}
      BY <1>1, <2>1, NoFlagSaid DEF Current
    <3>2. FlagsIn(argv, Before(ReadWords(argv)) \cup {i}) =
            FlagsIn(argv, Before(ReadWords(argv))) \cup FlagsIn(argv, {i})
      BY FlagsJoined
    <3> QED BY <1>2, <3>1, <3>2
  <2> QED BY <1>1, <1>2, <1>3, <1>5, <2>4, <2>5, <2>6, GoOnMeant
<1> QED BY <1>4, <1>5

\* The separator ends the words.
LEMMA SeparatorMeant ==
  ASSUME ParseInv, MeantSoFar, Separator
  PROVE  MeantSoFar' /\ ArgumentsMeant'
<1>1. /\ AtArgument /\ status = "parsing" /\ status' = "parsing" /\ ParseTypeOK
      /\ ~positional_only /\ Current.form = "separator" /\ positional_only' = TRUE
      /\ i' = i + 1 /\ UNCHANGED <<argv, flags, values, places>> /\ i \in Nat
  BY DEF ParseInv, ParseTypeOK, Separator, AtOption, AtArgument
<1>2. i = End(argv) /\ End(argv) <= i /\ End(argv) < i'
  <2>1. i = End(argv)
    BY <1>1, AtWord
  <2> QED BY <1>1, <2>1
<1>3. /\ \A k \in Stops(argv) : i' <= k
      /\ {k \in ReadWords(argv) : k < i'} = Before(ReadWords(argv))
      /\ {k \in Given(argv) : k < i'} = Before(Given(argv))
      /\ {k \in Plain(argv) : k < i'} = Before(Plain(argv))
  BY <1>1, <1>2, BehindSeparator
<1>4. /\ flags = FlagsIn(argv, Before(ReadWords(argv)))
      /\ values = ValuesIn(argv, Before(Given(argv)))
      /\ Before(Plain(argv)) = {places[k] : k \in DOMAIN places}
  BY <1>1 DEF MeantSoFar
<1> QED BY <1>1, <1>2, <1>3, <1>4, GoOnMeant

\* A word that says what it can is no fault, and what it says is added.
LEMMA WordMeant ==
  ASSUME ParseInv, MeantSoFar, AtArgument, ~positional_only, status' = "parsing",
         UNCHANGED <<argv, positional_only, places>>,
         Current.form \in {"short", "long"}, i \notin Stops(argv),
         \/ i' = i + 1 /\ ~(IsOption(Current) /\ Current.inline = <<>>)
         \/ i' = i + 2 /\ i < Len(argv) /\ IsOption(Current) /\ Current.inline = <<>>,
         flags' = flags \cup FlagsIn(argv, {i}),
         values' = IF i \in Given(argv)
                   THEN Emplaced(values, GivenName(argv, i), GivenValue(argv, i)) ELSE values
  PROVE  MeantSoFar' /\ ArgumentsMeant'
<1>1. ParseTypeOK /\ Current.form # "separator" /\ ~IsPlain(Current) /\ i \in Nat
      /\ argv \in Seq(Arguments) /\ status = "parsing"
  BY DEF ParseInv, ParseTypeOK, IsPlain, AtArgument
<1>2. /\ i' <= End(argv) /\ ~Taken(argv)[i']
      /\ \A k \in Stops(argv) : i' <= k
      /\ {k \in ReadWords(argv) : k < i'} = Before(ReadWords(argv)) \cup {i}
      /\ {k \in Given(argv) : k < i'} = Before(Given(argv)) \cup (Given(argv) \cap {i})
      /\ {k \in Plain(argv) : k < i'} = Before(Plain(argv))
  BY <1>1, Advance
<1>3. /\ flags = FlagsIn(argv, Before(ReadWords(argv)))
      /\ values = ValuesIn(argv, Before(Given(argv)))
      /\ Before(Plain(argv)) = {places[k] : k \in DOMAIN places}
  BY <1>1 DEF MeantSoFar
<1>4. flags' = FlagsIn(argv, {k \in ReadWords(argv) : k < i'})
  <2>1. FlagsIn(argv, Before(ReadWords(argv)) \cup {i}) =
          FlagsIn(argv, Before(ReadWords(argv))) \cup FlagsIn(argv, {i})
    BY FlagsJoined
  <2> QED BY <1>2, <1>3, <2>1
<1>5. values' = ValuesIn(argv, {k \in Given(argv) : k < i'})
  <2>1. CASE i \in Given(argv)
    <3>1. Given(argv) \cap {i} = {i}
      BY <2>1
    <3>2. Before(Given(argv)) \in SUBSET Nat /\ \A j \in Before(Given(argv)) : j < i
      <4>1. Given(argv) \subseteq Nat
        BY <1>1, WordsAre
      <4> QED BY <4>1 DEF Before
    <3>3. ValuesIn(argv, Before(Given(argv)) \cup {i}) =
            Emplaced(ValuesIn(argv, Before(Given(argv))), GivenName(argv, i), GivenValue(argv, i))
      BY <1>1, <3>2, ValuesJoined
    <3> QED BY <1>2, <1>3, <2>1, <3>1, <3>3
  <2>2. CASE i \notin Given(argv)
    <3>1. Before(Given(argv)) \cup (Given(argv) \cap {i}) = Before(Given(argv))
      BY <2>2
    <3> QED BY <1>2, <1>3, <2>2, <3>1
  <2> QED BY <2>1, <2>2
<1> QED BY <1>2, <1>3, <1>4, <1>5, GoOnMeant

\* Which words are no faults.
LEMMA NoStop ==
  ASSUME ~IsHelp(Current),
         \/ IsFlag(Current) /\ Current.inline = <<>>
         \/ IsOption(Current) /\ i \in Given(argv)
         \/ /\ ~IsSingle(Current)
            /\ \A k \in DOMAIN Current.names : Has(Flags, "short", Current.names[k])
  PROVE  i \notin Stops(argv)
<1>1. IsOption(Current) => IsSingle(Current) /\ ~IsFlag(Current) /\ Has(Options, Current.form, Name(Current))
  BY DEF IsOption
<1>2. IsFlag(Current) => IsSingle(Current)
  BY DEF IsFlag
<1>3. IsSingle(Current) => ~(Current.form = "short" /\ Len(Current.names) > 1)
  <2>1. Current.form = "long" => Current.form # "short"
    OBVIOUS
  <2>2. Len(Current.names) = 1 => ~(Len(Current.names) > 1)
    OBVIOUS
  <2> QED BY <2>1, <2>2, Zenon DEF IsSingle
<1>4. ~Faulty(Current)
  BY <1>1, <1>2, <1>3 DEF Faulty
<1>5. ~(IsOption(Current) /\ i \notin Given(argv))
  BY <1>1, <1>2
<1> QED BY <1>4, <1>5 DEF Stops, Current

\* A flag by itself.
LEMMA FlagMeant ==
  ASSUME ParseInv, MeantSoFar, Flag
  PROVE  MeantSoFar' /\ ArgumentsMeant'
<1>1. /\ AtArgument /\ ~positional_only /\ IsSingle(Current) /\ ~IsHelp(Current) /\ IsFlag(Current)
      /\ status = "parsing" /\ ParseTypeOK /\ Current \in Arguments /\ i \in Nat
      /\ Current.form \in {"short", "long"}
  BY CurrentArgument DEF ParseInv, Flag, AtSingle, AtArgument, IsSingle
<1>2. i \in ReadWords(argv) /\ ~IsOption(Current)
  BY <1>1, AtWord DEF IsOption
<1>3. CASE Current.inline # <<>>
  <2>1. i \in Stops(argv)
    BY <1>1, <1>2, <1>3 DEF Stops, Faulty, Current
  <2>2. UNCHANGED <<argv, i>> /\ status' = "error"
    BY <1>3 DEF Flag, Fail
  <2> QED BY <1>1, <2>1, <2>2, StopMeant
<1>4. CASE Current.inline = <<>>
  <2>1. /\ flags' = flags \cup {StoreName(Name(Current), Flags)} /\ i' = i + 1
        /\ UNCHANGED <<argv, positional_only, values, status, places>>
    BY <1>4 DEF Flag
  <2>2. FlagsIn(argv, {i}) = {StoreName(Name(Current), Flags)}
    BY <1>1, FlagSays DEF Current
  <2>3. i \notin Stops(argv) /\ i \notin Given(argv)
    <3>1. i \notin Stops(argv)
      BY <1>1, <1>4, NoStop
    <3> QED BY <1>2, <3>1 DEF Given, Current
  <2> QED BY <1>1, <1>2, <2>1, <2>2, <2>3, WordMeant
<1> QED BY <1>3, <1>4

\* An option, with its value behind the equals sign or in the next word.
LEMMA OptionMeant ==
  ASSUME ParseInv, MeantSoFar, Option
  PROVE  MeantSoFar' /\ ArgumentsMeant'
<1>1. /\ AtArgument /\ ~positional_only /\ IsSingle(Current) /\ ~IsHelp(Current) /\ IsOption(Current)
      /\ status = "parsing" /\ ParseTypeOK /\ Current \in Arguments /\ i \in Nat
      /\ Current.form \in {"short", "long"} /\ ~IsFlag(Current)
  BY CurrentArgument DEF ParseInv, Option, AtSingle, AtArgument, IsSingle, IsOption
<1>2. i \in ReadWords(argv)
  BY <1>1, AtWord
<1>3. i \in Given(argv) <=> Current.inline # <<>> \/ i < Len(argv)
  BY <1>1, <1>2 DEF Given, Current
<1>4. GivenName(argv, i) = StoreName(Name(Current), Options) /\ FlagsIn(argv, {i}) = {}
  BY <1>1, OptionStored, NoFlagSaid DEF Current
<1>5. ASSUME i \in Given(argv), NEW next, SetValue(GivenValue(argv, i), next),
             \/ next = i + 1 /\ Current.inline # <<>>
             \/ next = i + 2 /\ i < Len(argv) /\ Current.inline = <<>>
      PROVE  MeantSoFar' /\ ArgumentsMeant'
  <2>1. /\ values' = Emplaced(values, GivenName(argv, i), GivenValue(argv, i)) /\ i' = next
        /\ UNCHANGED <<argv, positional_only, flags, status, places>>
    BY <1>4, <1>5 DEF SetValue
  <2>2. flags' = flags \cup FlagsIn(argv, {i})
    BY <1>4, <2>1
  <2>3. i \notin Stops(argv)
    BY <1>1, <1>5, NoStop
  <2>4. values' = IF i \in Given(argv)
                  THEN Emplaced(values, GivenName(argv, i), GivenValue(argv, i)) ELSE values
    BY <1>5, <2>1
  <2>5. \/ i' = i + 1 /\ ~(IsOption(Current) /\ Current.inline = <<>>)
        \/ i' = i + 2 /\ i < Len(argv) /\ IsOption(Current) /\ Current.inline = <<>>
    BY <1>1, <1>5, <2>1
  <2>6. status' = "parsing"
    BY <1>1, <2>1
  <2> QED BY <1>1, <2>1, <2>2, <2>3, <2>4, <2>5, <2>6, WordMeant
<1>6. CASE Current.inline # <<>>
  <2>1. SetValue(GivenValue(argv, i), i + 1)
    BY <1>6 DEF Option, GivenValue, Current
  <2> QED BY <1>3, <1>5, <1>6, <2>1
<1>7. CASE Current.inline = <<>> /\ i < Len(argv)
  <2>1. SetValue(GivenValue(argv, i), i + 2)
    BY <1>7 DEF Option, GivenValue, Current
  <2> QED BY <1>3, <1>5, <1>7, <2>1
<1>8. CASE Current.inline = <<>> /\ ~(i < Len(argv))
  <2>1. i \in Stops(argv)
    BY <1>1, <1>2, <1>3, <1>8 DEF Stops, Current
  <2>2. UNCHANGED <<argv, i>> /\ status' = "error"
    BY <1>8 DEF Option, Fail
  <2> QED BY <1>1, <2>1, <2>2, StopMeant
<1> QED BY <1>6, <1>7, <1>8

\* A group has more than one letter.
LEMMA ManyNotOne ==
  ASSUME NEW s, Len(s) > 1
  PROVE  Len(s) # 1
OBVIOUS

\* A group of flags.
LEMMA GroupMeant ==
  ASSUME ParseInv, MeantSoFar, Group
  PROVE  MeantSoFar' /\ ArgumentsMeant'
<1> DEFINE wrong == {k \in DOMAIN Current.names : ~Has(Flags, "short", Current.names[k])}
<1>1. /\ AtArgument /\ ~positional_only /\ Current.form = "short" /\ Len(Current.names) > 1
      /\ status = "parsing" /\ ParseTypeOK /\ Current \in Arguments /\ i \in Nat
      /\ Current.names \in Seq(Names)
  BY CurrentArgument DEF ParseInv, Group, AtOption, AtArgument
<1>2. ~IsSingle(Current) /\ ~IsHelp(Current) /\ ~IsOption(Current)
  <2>1. Len(Current.names) # 1
    <3>1. Len(Current.names) > 1
      BY <1>1, Zenon
    <3> QED BY <3>1, ManyNotOne, Zenon
  <2>2. ~IsSingle(Current)
    BY <1>1, <2>1 DEF IsSingle
  <2>3. ~IsHelp(Current)
    <3>1. Current.names # <<"h">>
      <4>1. Len(<<"h">>) = 1
        OBVIOUS
      <4> QED BY <2>1, <4>1, Zenon
    <3>2. Current.form # "long"
      BY <1>1
    <3> QED BY <3>1, <3>2, Zenon DEF IsHelp
  <2> QED BY <2>2, <2>3 DEF IsOption
<1>3. i \in ReadWords(argv) /\ i \notin Given(argv)
  BY <1>1, <1>2, AtWord DEF Given, Current
<1>4. CASE wrong # {}
  <2>1. i \in Stops(argv)
    <3>1. Faulty(Current)
      BY <1>1, <1>4 DEF Faulty
    <3> QED BY <1>3, <3>1 DEF Stops, Current
  <2>2. UNCHANGED <<argv, i>> /\ status' = "error"
    BY <1>4, Zenon DEF Group, Fail
  <2> QED BY <1>1, <1>2, <2>1, <2>2, StopMeant
<1>5. CASE wrong = {}
  <2>1. /\ flags' = flags \cup {StoreName(Current.names[k], Flags) : k \in DOMAIN Current.names}
        /\ i' = i + 1 /\ UNCHANGED <<argv, positional_only, values, status, places>>
    BY <1>5, Zenon DEF Group
  <2>2. \A k \in DOMAIN Current.names : Has(Flags, "short", Current.names[k])
    BY <1>5
  <2>3. FlagsIn(argv, {i}) = {StoreName(Current.names[k], Flags) : k \in DOMAIN Current.names}
    <3>1. argv[i] \in Arguments /\ argv[i].form = "short"
          /\ \A k \in DOMAIN argv[i].names : Has(Flags, "short", argv[i].names[k])
      BY <1>1, <2>2, Zenon DEF Current
    <3> QED BY <3>1, GroupSays, Zenon DEF Current
  <2>4. i \notin Stops(argv)
    BY <1>2, <2>2, NoStop
  <2>5. flags' = flags \cup FlagsIn(argv, {i})
    BY <2>1, <2>3
  <2> HIDE DEF wrong
  <2> QED BY <1>1, <1>2, <1>3, <2>1, <2>4, <2>5, WordMeant
<1> QED BY <1>4, <1>5

\* Help and unknown words stop the parser.
LEMMA RefusedMeant ==
  ASSUME ParseInv, MeantSoFar, Help \/ Unknown
  PROVE  MeantSoFar' /\ ArgumentsMeant'
<1>1. /\ AtArgument /\ ~positional_only /\ status = "parsing" /\ ParseTypeOK
      /\ IsHelp(Current) \/ (IsSingle(Current) /\ ~IsFlag(Current) /\ ~IsOption(Current))
      /\ UNCHANGED <<argv, i>>
      /\ status' = IF IsHelp(Current) THEN "help" ELSE "error"
  BY DEF ParseInv, Help, Unknown, Fail, AtSingle, AtArgument
<1>2. Current.form # "separator"
  BY <1>1 DEF IsHelp, IsSingle
<1>3. i \in ReadWords(argv)
  BY <1>1, <1>2, AtWord
<1>4. i \in Stops(argv)
  BY <1>1, <1>3 DEF Stops, Faulty, Current
<1> QED BY <1>1, <1>4, StopMeant

\* What the parser knows about the command line.
ParseMeans == ParseInv /\ MeantSoFar /\ ArgumentsMeant

\* It starts with nothing read.
LEMMA MeansStart == ParseInit => ParseMeans
<1> SUFFICES ASSUME ParseInit PROVE ParseMeans
  OBVIOUS
<1>1. ParseInv /\ argv \in Seq(Arguments)
  BY ParseStart DEF ParseInv, ParseTypeOK
<1>2. i = 1 /\ positional_only = FALSE /\ status = "parsing" /\ flags = {}
      /\ values = [n \in {} |-> {}] /\ places = <<>>
  BY DEF ParseInit
<1>3. i <= End(argv) /\ ~Taken(argv)[i]
  <2>1. Taken(argv)[1] = (1 > 1 /\ ~Taken(argv)[1 - 1] /\ IsOption(argv[1 - 1]) /\ argv[1 - 1].inline = <<>>)
    BY TakenIs
  <2>2. ~(1 > 1)
    OBVIOUS
  <2>3. ~Taken(argv)[1]
    BY <2>1, <2>2, Zenon
  <2>4. 1 <= End(argv)
    BY <1>1, EndIs
  <2> QED BY <1>2, <2>3, <2>4
<1>4. \A k \in ReadWords(argv) : k \in Nat /\ 1 <= k /\ ~(k < 1)
  BY <1>1, WordsAre
<1>5. \A k \in Stops(argv) : i <= k
  BY <1>1, <1>2, <1>4, WordsAre
<1>6. Before(ReadWords(argv)) = {} /\ Before(Given(argv)) = {}
  BY <1>1, <1>2, <1>4, WordsAre DEF Before
<1>7. Before(Plain(argv)) = {}
  <2>1. End(argv) \in Nat
    BY <1>1, EndIs
  <2>2. \A k \in End(argv) + 1 .. Len(argv) : ~(k < 1)
    BY <2>1
  <2> QED BY <1>2, <1>4, <2>2 DEF Before, Plain
<1>8. flags = FlagsIn(argv, {})
  BY <1>2 DEF FlagsIn
<1>9. values = ValuesIn(argv, {})
  <2>1. {GivenName(argv, k) : k \in {}} = {}
    OBVIOUS
  <2>2. ValuesIn(argv, {}) = [n \in {} |-> GivenValue(argv, Earliest({k \in {} : GivenName(argv, k) = n}))]
    BY <2>1, Zenon DEF ValuesIn
  <2>3. \A n \in {} : {} = GivenValue(argv, Earliest({k \in {} : GivenName(argv, k) = n}))
    OBVIOUS
  <2> QED BY <1>2, <2>2, <2>3, Zenon
<1>10. {places[k] : k \in DOMAIN places} = {}
  BY <1>2
<1>11. MeantSoFar
  BY <1>2, <1>3, <1>5, <1>6, <1>7, <1>8, <1>9, <1>10, Zenon DEF MeantSoFar
<1>12. ArgumentsMeant
  BY <1>2 DEF ArgumentsMeant
<1> QED BY <1>1, <1>11, <1>12 DEF ParseMeans

\* Every round keeps what it knows.
LEMMA MeansStep == ParseMeans /\ [ParseStep]_parseVars => ParseMeans'
<1> SUFFICES ASSUME ParseMeans, [ParseStep]_parseVars PROVE ParseMeans'
  OBVIOUS
<1>1. ParseInv'
  BY ParseInvStep DEF ParseMeans
<1>2. CASE ParseStep
  <2>1. ParseInv /\ MeantSoFar
    BY DEF ParseMeans
  <2>2. CASE Positional
    BY <1>1, <2>1, <2>2, PositionalMeant DEF ParseMeans
  <2>3. CASE Separator
    BY <1>1, <2>1, <2>3, SeparatorMeant DEF ParseMeans
  <2>4. CASE Help \/ Unknown
    BY <1>1, <2>1, <2>4, RefusedMeant DEF ParseMeans
  <2>5. CASE Flag
    BY <1>1, <2>1, <2>5, FlagMeant DEF ParseMeans
  <2>6. CASE Option
    BY <1>1, <2>1, <2>6, OptionMeant DEF ParseMeans
  <2>7. CASE Group
    BY <1>1, <2>1, <2>7, GroupMeant DEF ParseMeans
  <2>8. CASE Finish
    BY <1>1, <2>1, <2>8, FinishMeant DEF ParseMeans
  <2> QED BY <1>2, <2>2, <2>3, <2>4, <2>5, <2>6, <2>7, <2>8 DEF ParseStep
<1>3. CASE UNCHANGED parseVars
  <2>1. UNCHANGED <<argv, i, positional_only, flags, values, positional, status, places>>
    BY <1>3 DEF parseVars
  <2>2. MeantSoFar'
    BY <2>1 DEF ParseMeans, MeantSoFar, Before
  <2>3. ArgumentsMeant'
    <3>1. Meaning' = Meaning
      BY <2>1 DEF Meaning
    <3> QED BY <2>1, <3>1 DEF ParseMeans, ArgumentsMeant
  <2> QED BY <1>1, <2>2, <2>3 DEF ParseMeans
<1> QED BY <1>2, <1>3

----------------------------------------------------------------------------
\* The state of main.
MainTypeOK ==
  /\ stage \in Stages
  /\ input \in {<<>>} \cup {<<a>> : a \in Arguments}
  /\ effects \in Seq(Effects)
  /\ failure \in Failures
  /\ exit \in {"none", "success", "failure", "abort"}

\* A step of main keeps its types.
LEMMA MainStep ==
  ASSUME ParseTypeOK, MainTypeOK, Next
  PROVE  MainTypeOK'
<1>1. ASSUME NEW next \in Stages, NEW done \in Seq(Effects), GoOn(next, done)
      PROVE  MainTypeOK'
  BY <1>1 DEF GoOn, MainTypeOK
<1>2. ASSUME NEW code \in {"success", "failure", "abort"}, NEW reported \in Failures,
             Exit(code, reported), effects' \in Seq(Effects)
      PROVE  MainTypeOK'
  BY <1>2 DEF Exit, MainTypeOK, Stages
<1>3. ASSUME NEW reported \in Failures, Report(reported) PROVE MainTypeOK'
  BY <1>2, <1>3 DEF Report, MainTypeOK
<1>4. ASSUME Succeed \/ Abort PROVE MainTypeOK'
  BY <1>2, <1>4 DEF Succeed, Abort, MainTypeOK, Failures
<1>5. \A effect \in Effects : /\ Append(effects, effect) \in Seq(Effects)
                             /\ <<effect>> \in Seq(Effects)
  BY DEF MainTypeOK
<1>6. <<>> \in Seq(Effects)
  OBVIOUS
<1>7. CASE ReadArguments
  BY <1>7 DEF ReadArguments, mainVars, MainTypeOK
<1>8. CASE Usage
  <2>1. "none" \in Failures /\ "usage" \in Effects
    BY DEF Failures, Effects
  <2> QED BY <1>2, <1>5, <1>8, <2>1 DEF Usage
<1>9. CASE RefuseArguments
  BY <1>3, <1>9 DEF RefuseArguments, Failures
<1>10. CASE ChooseInput
  BY <1>10 DEF ChooseInput, ParseTypeOK, MainTypeOK, Stages
<1>11. CASE ParseAst
  <2>1. "syntax" \in Failures /\ "print_ast" \in Stages
    BY DEF Failures, Stages
  <2> QED BY <1>1, <1>3, <1>6, <1>11, <2>1 DEF ParseAst
<1>12. CASE PrintAst
  <2>1. "write_graph" \in Stages /\ "ast" \in Effects
    BY DEF Stages, Effects
  <2> QED BY <1>1, <1>5, <1>6, <1>12, <2>1 DEF PrintAst
<1>13. CASE WriteGraph
  <2>1. "stop_after_ast" \in Stages /\ "graph" \in Effects
    BY DEF Stages, Effects
  <2> QED BY <1>1, <1>5, <1>6, <1>13, <2>1 DEF WriteGraph
<1>14. CASE StopOrCompile
  <2>1. "compile" \in Stages
    BY DEF Stages
  <2> QED BY <1>1, <1>4, <1>6, <1>14, <2>1 DEF StopOrCompile
<1>15. CASE CompileAst
  <2>1. "compiler" \in Failures /\ "print_bytecode" \in Stages
    BY DEF Failures, Stages
  <2> QED BY <1>1, <1>3, <1>4, <1>6, <1>15, <2>1 DEF CompileAst
<1>16. CASE PrintBytecode
  <2>1. "none" \in Failures /\ "bytecode" \in Effects /\ "execute" \in Stages
    BY DEF Failures, Stages, Effects
  <2> QED BY <1>1, <1>2, <1>5, <1>6, <1>16, <2>1 DEF PrintBytecode
<1>17. CASE Execute
  <2>1. {"none", "runtime", "not_caught"} \subseteq Failures /\ "execution" \in Effects
    BY DEF Failures, Effects
  <2> QED BY <1>2, <1>5, <1>17, <2>1 DEF Execute
<1>18. CASE Exited
  BY <1>18 DEF Exited, vars, mainVars, MainTypeOK
<1> QED BY <1>7, <1>8, <1>9, <1>10, <1>11, <1>12, <1>13, <1>14, <1>15, <1>16, <1>17, <1>18
        DEF Next, BeforeExecution

\* Only ReadArguments steps the parser.
LEMMA ParserSteps == [Next]_vars => [ParseStep]_parseVars
<1> SUFFICES ASSUME [Next]_vars PROVE [ParseStep]_parseVars
  OBVIOUS
<1>1. ASSUME NEW code, NEW reported, Exit(code, reported) PROVE UNCHANGED parseVars
  BY <1>1 DEF Exit
<1>2. ASSUME NEW next, NEW done, GoOn(next, done) PROVE UNCHANGED parseVars
  BY <1>2 DEF GoOn
<1>3. CASE ReadArguments
  BY <1>3 DEF ReadArguments
<1>4. CASE Usage \/ RefuseArguments \/ ChooseInput
  BY <1>1, <1>4 DEF Usage, RefuseArguments, ChooseInput, Report
<1>5. CASE ParseAst \/ PrintAst \/ WriteGraph \/ StopOrCompile \/ CompileAst \/ PrintBytecode
  BY <1>1, <1>2, <1>5
     DEF ParseAst, PrintAst, WriteGraph, StopOrCompile, CompileAst, PrintBytecode,
         Report, Succeed, Abort
<1>6. CASE Execute
  BY <1>1, <1>6 DEF Execute
<1>7. CASE Exited \/ UNCHANGED vars
  BY <1>7 DEF Exited, vars
<1> QED BY <1>3, <1>4, <1>5, <1>6, <1>7 DEF Next, BeforeExecution

----------------------------------------------------------------------------
(* What main has done, by stage *)

Done == {effects[k] : k \in DOMAIN effects}

InTurn == \A k, l \in DOMAIN effects : k < l => Rank(effects[k]) < Rank(effects[l])

Chosen == IF positional = <<>> \/ positional[1].form = "dash" THEN <<>> ELSE <<positional[1]>>

Trees == IF Debug("debug-ast") THEN {"ast"} ELSE {}
Pictures == IF WantsGraph THEN {"graph"} ELSE {}
Listings == IF Debug("debug-bytecode") THEN {"bytecode"} ELSE {}

\* The ways main ends.
Ending ==
  \/ Done = {"usage"} /\ failure = "none"
  \/ Done = {} /\ failure \in {"command_line", "syntax"} /\ exit = "failure"
  \/ /\ status = "parsed"
     /\ \/ /\ Done = Trees \cup Pictures /\ StopsAfterAst
           /\ failure = "none"
        \/ /\ Done = Trees \cup Pictures
           /\ failure \in {"compiler", "not_caught"} /\ exit # "success"
        \/ /\ Done = Trees \cup Pictures \cup {"bytecode"}
           /\ Debug("debug-bytecode") /\ ~Debug("debug-vm")
           /\ failure = "none"
        \/ /\ Done = Trees \cup Pictures \cup Listings \cup {"execution"}
           /\ ~StopsAfterAst /\ (Debug("debug-bytecode") => Debug("debug-vm"))
           /\ input = Chosen /\ ~IsMissing
           /\ failure \in {"none", "runtime", "not_caught"}

MainMeans ==
  /\ InTurn
  /\ stage # "exited" => exit = "none" /\ failure = "none"
  /\ stage \notin {"arguments", "exited"} => status = "parsed" /\ input = Chosen
  /\ stage \notin {"arguments", "parse", "exited"} => ~IsMissing
  /\ stage \in {"arguments", "input", "parse", "print_ast"} => Done = {}
  /\ stage = "write_graph" => Done = Trees
  /\ stage \in {"stop_after_ast", "compile", "print_bytecode"} => Done = Trees \cup Pictures
  /\ stage \in {"compile", "print_bytecode", "execute"} => ~StopsAfterAst
  /\ stage = "execute" => /\ Done = Trees \cup Pictures \cup Listings
                          /\ Debug("debug-bytecode") => Debug("debug-vm")
  /\ stage = "exited" => Ending

\* The ranks of the effects.
LEMMA Ranks ==
  Rank("usage") = 1 /\ Rank("ast") = 2 /\ Rank("graph") = 3 /\ Rank("bytecode") = 4
    /\ Rank("execution") = 5
<1> DEFINE order == <<"usage", "ast", "graph", "bytecode", "execution">>
<1>1. DOMAIN order = 1 .. 5 /\ order[1] = "usage" /\ order[2] = "ast" /\ order[3] = "graph"
      /\ order[4] = "bytecode" /\ order[5] = "execution"
  OBVIOUS
<1>2. ASSUME NEW r \in 1 .. 5
      PROVE  (CHOOSE q \in DOMAIN order : order[q] = order[r]) = r
  <2>1. \A q \in 1 .. 5 : order[q] = order[r] => q = r
    BY <1>1
  <2> HIDE DEF order
  <2> QED BY <1>1, <2>1
<1>3. \A effect : Rank(effect) = CHOOSE q \in DOMAIN order : order[q] = effect
  BY Zenon DEF Rank
<1> HIDE DEF order
<1> QED BY <1>1, <1>2, <1>3

\* An effect that comes after all others so far.
LEMMA EffectAdded ==
  ASSUME effects \in Seq(Effects), InTurn, NEW effect \in Effects, effects' = Append(effects, effect),
         \A done \in Done : Rank(done) < Rank(effect)
  PROVE  InTurn' /\ Done' = Done \cup {effect}
<1> DEFINE n == Len(effects) + 1
<1>1. /\ DOMAIN effects' = DOMAIN effects \cup {n} /\ effects'[n] = effect
      /\ \A k \in DOMAIN effects : effects'[k] = effects[k] /\ k \in Nat /\ k < n
      /\ n \in Nat
  OBVIOUS
<1> HIDE DEF n
<1>2. Done' = Done \cup {effect}
  BY <1>1, Zenon DEF Done
<1>3. InTurn'
  <2>1. ASSUME NEW k \in DOMAIN effects', NEW l \in DOMAIN effects', k < l
        PROVE  Rank(effects'[k]) < Rank(effects'[l])
    <3>1. k \in DOMAIN effects
      BY <1>1, <2>1
    <3>2. CASE l \in DOMAIN effects
      BY <1>1, <2>1, <3>1, <3>2 DEF InTurn
    <3>3. CASE l = n
      <4>1. effects[k] \in Done
        BY <3>1 DEF Done
      <4> QED BY <1>1, <3>1, <3>3, <4>1
    <3> QED BY <1>1, <3>2, <3>3
  <2> QED BY <2>1 DEF InTurn
<1> QED BY <1>2, <1>3

\* Effects that do not change.
LEMMA EffectsKept ==
  ASSUME effects' = effects
  PROVE  Done' = Done /\ (InTurn => InTurn')
BY DEF Done, InTurn

\* What the options say stays when the parser does not step.
LEMMA OptionsKept ==
  ASSUME UNCHANGED parseVars
  PROVE  /\ Trees' = Trees /\ Pictures' = Pictures /\ Listings' = Listings
         /\ StopsAfterAst' = StopsAfterAst /\ status' = status /\ Chosen' = Chosen
         /\ (Debug("debug-bytecode") => Debug("debug-vm"))' =
              (Debug("debug-bytecode") => Debug("debug-vm"))
BY DEF parseVars, Trees, Pictures, Listings, StopsAfterAst, Chosen, Debug, WantsGraph

\* The next stage, with an effect or without one.
LEMMA StageDone ==
  ASSUME effects \in Seq(Effects), InTurn, NEW next, NEW done,
         \/ GoOn(next, done) /\ done = <<>>
         \/ /\ GoOn(next, done) /\ \E effect \in Effects : done = <<effect>>
            /\ \A before \in Done : Rank(before) < Rank(done[1])
  PROVE  /\ InTurn' /\ Done' = Done \cup {done[k] : k \in DOMAIN done}
         /\ stage' = next /\ UNCHANGED <<parseVars, input, failure, exit>>
<1>1. effects' = effects \o done /\ stage' = next /\ UNCHANGED <<parseVars, input, failure, exit>>
  BY DEF GoOn
<1>2. CASE done = <<>>
  <2>1. effects' = effects /\ {done[k] : k \in DOMAIN done} = {}
    BY <1>1, <1>2
  <2> QED BY <1>1, <2>1, EffectsKept
<1>3. CASE done # <<>>
  <2>1. PICK effect \in Effects : done = <<effect>>
    BY <1>3
  <2>2. effects' = Append(effects, effect) /\ {done[k] : k \in DOMAIN done} = {effect}
    BY <1>1, <2>1
  <2>3. \A before \in Done : Rank(before) < Rank(effect)
    BY <1>3, <2>1
  <2> QED BY <1>1, <2>2, <2>3, EffectAdded
<1> QED BY <1>2, <1>3

\* Where main ends.
LEMMA ExitMeant ==
  ASSUME MainMeans, stage' = "exited", InTurn', Ending'
  PROVE  MainMeans'
BY DEF MainMeans

\* A stage does what the options ask of it and leaves what was done before.
LEMMA MainMeansStep ==
  ASSUME MainTypeOK, MainMeans, BeforeExecution \/ Execute
  PROVE  MainMeans'
<1> USE DEF Effects
<1>1. effects \in Seq(Effects) /\ InTurn
  BY DEF MainTypeOK, MainMeans
<1>2. /\ Trees \subseteq {"ast"} /\ Pictures \subseteq {"graph"} /\ Listings \subseteq {"bytecode"}
      /\ \A done \in {"ast"} : Rank(done) = 2
      /\ \A done \in {"graph"} : Rank(done) = 3
      /\ \A done \in {"bytecode"} : Rank(done) = 4
  BY Ranks DEF Trees, Pictures, Listings
<1>3. CASE ReadArguments
  <2>1. stage = "arguments" /\ stage' = "arguments" /\ UNCHANGED <<effects, failure, exit>>
    BY <1>3 DEF ReadArguments, mainVars
  <2>2. Done' = Done /\ InTurn'
    BY <1>1, <2>1, EffectsKept
  <2> QED BY <2>1, <2>2 DEF MainMeans
<1>4. CASE Usage
  <2>1. stage = "arguments" /\ stage' = "exited" /\ failure' = "none"
        /\ effects' = Append(effects, "usage") /\ Done = {}
    BY <1>4 DEF Usage, Exit, MainMeans
  <2>2. InTurn' /\ Done' = {"usage"}
    <3>1. \A done \in Done : Rank(done) < Rank("usage")
      BY <2>1
    <3>2. InTurn' /\ Done' = Done \cup {"usage"}
      BY <1>1, <2>1, <3>1, EffectAdded
    <3> QED BY <2>1, <3>2
  <2>3. Ending'
    BY <2>1, <2>2 DEF Ending
  <2> QED BY <2>1, <2>2, <2>3, ExitMeant
<1>5. CASE RefuseArguments
  <2>1. stage = "arguments" /\ stage' = "exited" /\ failure' = "command_line" /\ exit' = "failure"
        /\ effects' = effects /\ Done = {}
    BY <1>5 DEF RefuseArguments, Report, Exit, MainMeans
  <2>2. InTurn' /\ Done' = {}
    BY <1>1, <2>1, EffectsKept
  <2>3. Ending'
    BY <2>1, <2>2 DEF Ending
  <2> QED BY <2>1, <2>2, <2>3, ExitMeant
<1>6. CASE ChooseInput
  <2>1. /\ stage = "arguments" /\ stage' = "parse" /\ status = "parsed" /\ UNCHANGED parseVars
        /\ UNCHANGED <<effects, failure, exit>> /\ exit = "none" /\ failure = "none" /\ Done = {}
    BY <1>6 DEF ChooseInput, MainMeans
  <2>2. input' = Chosen
    BY <1>6 DEF ChooseInput, Chosen
  <2>3. InTurn' /\ Done' = {} /\ status' = "parsed" /\ Chosen' = Chosen
    BY <1>1, <2>1, EffectsKept, OptionsKept
  <2> QED BY <2>1, <2>2, <2>3 DEF MainMeans
<1>7. ASSUME NEW code, NEW reported, Exit(code, reported), UNCHANGED effects,
             stage \notin {"arguments", "exited"}
      PROVE  /\ stage' = "exited" /\ InTurn' /\ Done' = Done /\ exit' = code /\ failure' = reported
             /\ status' = "parsed"
             /\ Trees' = Trees /\ Pictures' = Pictures /\ StopsAfterAst' = StopsAfterAst
  <2>1. UNCHANGED parseVars /\ status = "parsed"
    BY <1>7 DEF Exit, MainMeans
  <2> QED BY <1>1, <1>7, <2>1, EffectsKept, OptionsKept DEF Exit
<1>8. CASE ParseAst
  <2>1. stage = "parse" /\ Done = {} /\ status = "parsed" /\ input = Chosen
        /\ exit = "none" /\ failure = "none"
    BY <1>8 DEF ParseAst, MainMeans
  <2>2. CASE ~IsMissing /\ GoOn("print_ast", <<>>)
    <3>1. InTurn' /\ Done' = {} /\ stage' = "print_ast"
          /\ UNCHANGED <<parseVars, input, failure, exit>>
      BY <1>1, <2>1, <2>2, StageDone
    <3>2. status' = "parsed" /\ Chosen' = Chosen /\ ~IsMissing'
      BY <2>1, <2>2, <3>1, OptionsKept DEF IsMissing
    <3> QED BY <2>1, <3>1, <3>2 DEF MainMeans
  <2>3. CASE Report("syntax")
    <3>1. Exit("failure", "syntax") /\ UNCHANGED effects
      BY <2>3 DEF Report
    <3>2. stage' = "exited" /\ InTurn' /\ Done' = {} /\ exit' = "failure" /\ failure' = "syntax"
      BY <1>7, <2>1, <3>1
    <3>3. Ending'
      BY <3>2 DEF Ending
    <3> QED BY <3>2, <3>3, ExitMeant
  <2> QED BY <1>8, <2>2, <2>3 DEF ParseAst
<1>9. ASSUME NEW next \in Stages, NEW done, GoOn(next, done), stage \notin {"arguments", "parse", "exited"},
             \/ done = <<>>
             \/ /\ \E effect \in Effects : done = <<effect>>
                /\ \A before \in Done : Rank(before) < Rank(done[1])
      PROVE  /\ stage' = next /\ InTurn' /\ Done' = Done \cup {done[k] : k \in DOMAIN done}
             /\ exit' = "none" /\ failure' = "none" /\ status' = "parsed" /\ input' = Chosen'
             /\ ~IsMissing'
             /\ Trees' = Trees /\ Pictures' = Pictures /\ Listings' = Listings
             /\ StopsAfterAst' = StopsAfterAst
             /\ (Debug("debug-bytecode") => Debug("debug-vm"))' =
                  (Debug("debug-bytecode") => Debug("debug-vm"))
  <2>1. exit = "none" /\ failure = "none" /\ status = "parsed" /\ input = Chosen /\ ~IsMissing
    BY <1>9 DEF MainMeans
  <2>2. /\ InTurn' /\ Done' = Done \cup {done[k] : k \in DOMAIN done}
        /\ stage' = next /\ UNCHANGED <<parseVars, input, failure, exit>>
    BY <1>1, <1>9, StageDone
  <2> QED BY <2>1, <2>2, OptionsKept DEF IsMissing
<1>10. CASE PrintAst
  <2> DEFINE done == IF Debug("debug-ast") THEN <<"ast">> ELSE <<>>
  <2>1. stage = "print_ast" /\ Done = {} /\ GoOn("write_graph", done)
    BY <1>10 DEF PrintAst, MainMeans
  <2>2. {done[k] : k \in DOMAIN done} = Trees
    BY DEF Trees
  <2>3. \/ done = <<>>
        \/ /\ \E effect \in Effects : done = <<effect>>
           /\ \A before \in Done : Rank(before) < Rank(done[1])
    BY <2>1
  <2> HIDE DEF done
  <2>4. "write_graph" \in Stages
    BY DEF Stages
  <2>5. /\ stage' = "write_graph" /\ InTurn' /\ Done' = Trees' /\ exit' = "none" /\ failure' = "none"
        /\ status' = "parsed" /\ input' = Chosen' /\ ~IsMissing'
    BY <1>9, <2>1, <2>2, <2>3, <2>4
  <2> QED BY <2>5 DEF MainMeans
<1>11. CASE WriteGraph
  <2> DEFINE done == IF WantsGraph THEN <<"graph">> ELSE <<>>
  <2>1. stage = "write_graph" /\ Done = Trees /\ GoOn("stop_after_ast", done)
    BY <1>11 DEF WriteGraph, MainMeans
  <2>2. {done[k] : k \in DOMAIN done} = Pictures
    BY DEF Pictures
  <2>3. \/ done = <<>>
        \/ /\ \E effect \in Effects : done = <<effect>>
           /\ \A before \in Done : Rank(before) < Rank(done[1])
    BY <1>2, <2>1, Ranks
  <2> HIDE DEF done
  <2>4. "stop_after_ast" \in Stages
    BY DEF Stages
  <2>5. /\ stage' = "stop_after_ast" /\ InTurn' /\ Done' = Trees' \cup Pictures'
        /\ exit' = "none" /\ failure' = "none"
        /\ status' = "parsed" /\ input' = Chosen' /\ ~IsMissing'
    BY <1>9, <2>1, <2>2, <2>3, <2>4
  <2> QED BY <2>5 DEF MainMeans
<1>12. CASE StopOrCompile
  <2>1. stage = "stop_after_ast" /\ Done = Trees \cup Pictures
    BY <1>12 DEF StopOrCompile, MainMeans
  <2>2. CASE StopsAfterAst
    <3>1. Exit("success", "none") /\ UNCHANGED effects
      BY <1>12, <2>2 DEF StopOrCompile, Succeed
    <3>2. /\ stage' = "exited" /\ InTurn' /\ Done' = Trees' \cup Pictures' /\ failure' = "none"
          /\ status' = "parsed" /\ StopsAfterAst'
      BY <1>7, <2>1, <2>2, <3>1
    <3>3. Ending'
      BY <3>2 DEF Ending
    <3> QED BY <3>2, <3>3, ExitMeant
  <2>3. CASE ~StopsAfterAst
    <3>1. GoOn("compile", <<>>) /\ "compile" \in Stages
      BY <1>12, <2>3 DEF StopOrCompile, Stages
    <3>2. /\ stage' = "compile" /\ InTurn' /\ Done' = Trees' \cup Pictures' /\ ~StopsAfterAst'
          /\ exit' = "none" /\ failure' = "none"
          /\ status' = "parsed" /\ input' = Chosen' /\ ~IsMissing'
      BY <1>9, <2>1, <2>3, <3>1
    <3> QED BY <3>2 DEF MainMeans
  <2> QED BY <2>2, <2>3
<1>13. CASE CompileAst
  <2>1. stage = "compile" /\ Done = Trees \cup Pictures /\ ~StopsAfterAst
    BY <1>13 DEF CompileAst, MainMeans
  <2>2. CASE GoOn("print_bytecode", <<>>)
    <3>1. "print_bytecode" \in Stages
      BY DEF Stages
    <3>2. /\ stage' = "print_bytecode" /\ InTurn' /\ Done' = Trees' \cup Pictures' /\ ~StopsAfterAst'
          /\ exit' = "none" /\ failure' = "none"
          /\ status' = "parsed" /\ input' = Chosen' /\ ~IsMissing'
      BY <1>9, <2>1, <2>2, <3>1
    <3> QED BY <3>2 DEF MainMeans
  <2>3. CASE Report("compiler") \/ Abort
    <3>1. PICK code \in {"failure", "abort"}, reported \in {"compiler", "not_caught"} :
            Exit(code, reported) /\ UNCHANGED effects
      BY <2>3 DEF Report, Abort
    <3>2. /\ stage' = "exited" /\ InTurn' /\ Done' = Trees' \cup Pictures'
          /\ failure' \in {"compiler", "not_caught"} /\ exit' # "success" /\ status' = "parsed"
      BY <1>7, <2>1, <3>1
    <3>3. Ending'
      BY <3>2 DEF Ending
    <3> QED BY <3>2, <3>3, ExitMeant
  <2> QED BY <1>13, <2>2, <2>3 DEF CompileAst
<1>14. CASE PrintBytecode
  <2>1. stage = "print_bytecode" /\ Done = Trees \cup Pictures /\ ~StopsAfterAst
    BY <1>14 DEF PrintBytecode, MainMeans
  <2>2. \A before \in Done : Rank(before) < Rank("bytecode")
    BY <1>2, <2>1, Ranks
  <2>3. CASE ~Debug("debug-bytecode") \/ Debug("debug-vm")
    <3> DEFINE done == IF Debug("debug-bytecode") THEN <<"bytecode">> ELSE <<>>
    <3>1. GoOn("execute", done) /\ (Debug("debug-bytecode") => Debug("debug-vm"))
      BY <1>14, <2>3 DEF PrintBytecode
    <3>2. {done[k] : k \in DOMAIN done} = Listings
      BY DEF Listings
    <3>3. \/ done = <<>>
          \/ /\ \E effect \in Effects : done = <<effect>>
             /\ \A before \in Done : Rank(before) < Rank(done[1])
      BY <2>2
    <3> HIDE DEF done
    <3>4. "execute" \in Stages
      BY DEF Stages
    <3>5. /\ stage' = "execute" /\ InTurn' /\ Done' = Trees' \cup Pictures' \cup Listings'
          /\ ~StopsAfterAst' /\ exit' = "none" /\ failure' = "none"
          /\ status' = "parsed" /\ input' = Chosen' /\ ~IsMissing'
          /\ (Debug("debug-bytecode") => Debug("debug-vm"))'
      BY <1>9, <2>1, <3>1, <3>2, <3>3, <3>4
    <3> QED BY <3>5 DEF MainMeans
  <2>4. CASE Debug("debug-bytecode") /\ ~Debug("debug-vm")
    <3>1. Exit("success", "none") /\ effects' = Append(effects, "bytecode")
      BY <1>14, <2>4 DEF PrintBytecode
    <3>2. InTurn' /\ Done' = Done \cup {"bytecode"}
      BY <1>1, <2>2, <3>1, EffectAdded
    <3>3. /\ stage' = "exited" /\ failure' = "none" /\ UNCHANGED parseVars /\ status = "parsed"
      BY <2>1, <3>1 DEF Exit, MainMeans
    <3>4. Trees' = Trees /\ Pictures' = Pictures /\ status' = "parsed"
          /\ Debug("debug-bytecode")' /\ ~Debug("debug-vm")'
      BY <2>4, <3>3, OptionsKept DEF parseVars, Debug
    <3>5. Ending'
      BY <2>1, <3>2, <3>3, <3>4 DEF Ending
    <3> QED BY <3>2, <3>3, <3>5, ExitMeant
  <2> QED BY <2>3, <2>4
<1>15. CASE Execute
  <2>1. /\ stage = "execute" /\ Done = Trees \cup Pictures \cup Listings /\ ~StopsAfterAst
        /\ (Debug("debug-bytecode") => Debug("debug-vm"))
        /\ status = "parsed" /\ input = Chosen /\ ~IsMissing
    BY <1>15 DEF Execute, MainMeans
  <2>2. PICK code \in {"success", "failure", "abort"}, reported \in {"none", "runtime", "not_caught"} :
          Exit(code, reported)
    <3>1. Exit("success", "none") \/ Exit("failure", "runtime") \/ Exit("abort", "not_caught")
      BY <1>15 DEF Execute
    <3> QED BY <3>1
  <2>3. stage' = "exited" /\ failure' \in {"none", "runtime", "not_caught"}
        /\ UNCHANGED parseVars /\ UNCHANGED input /\ effects' = Append(effects, "execution")
    BY <1>15, <2>2 DEF Exit, Execute
  <2>4. InTurn' /\ Done' = Done \cup {"execution"}
    <3>1. \A done \in Done : Rank(done) < Rank("execution")
      BY <1>2, <2>1, Ranks
    <3> QED BY <1>1, <2>3, <3>1, EffectAdded
  <2>5. /\ Done' = Trees' \cup Pictures' \cup Listings' \cup {"execution"} /\ ~StopsAfterAst'
        /\ status' = "parsed" /\ input' = Chosen' /\ ~IsMissing'
        /\ (Debug("debug-bytecode") => Debug("debug-vm"))'
    BY <2>1, <2>3, <2>4, OptionsKept DEF IsMissing
  <2>6. Ending'
    BY <2>3, <2>5 DEF Ending
  <2> QED BY <2>3, <2>4, <2>6, ExitMeant
<1> QED BY <1>3, <1>4, <1>5, <1>6, <1>8, <1>10, <1>11, <1>12, <1>13, <1>14, <1>15 DEF BeforeExecution

Inv == ParseMeans /\ MainTypeOK /\ MainMeans

\* The program starts with its invariant.
LEMMA InvInit == Init => Inv
<1> SUFFICES ASSUME Init PROVE Inv
  OBVIOUS
<1>1. ParseMeans
  BY MeansStart DEF Init
<1>2. MainTypeOK
  BY DEF Init, MainTypeOK, Stages, Effects, Failures
<1>3. MainMeans
  BY DEF Init, MainMeans, Done, InTurn
<1> QED BY <1>1, <1>2, <1>3 DEF Inv

\* Every step of the program keeps it.
LEMMA InvStep == Inv /\ [Next]_vars => Inv'
<1> SUFFICES ASSUME Inv, [Next]_vars PROVE Inv'
  OBVIOUS
<1>1. ParseMeans'
  BY ParserSteps, MeansStep DEF Inv
<1>2. CASE BeforeExecution \/ Execute
  <2>1. MainTypeOK'
    BY <1>2, MainStep DEF Inv, ParseMeans, ParseInv, Next
  <2> QED BY <1>1, <1>2, <2>1, MainMeansStep DEF Inv
<1>3. CASE Exited \/ UNCHANGED vars
  <2>1. UNCHANGED vars
    BY <1>3 DEF Exited
  <2>2. UNCHANGED parseVars /\ UNCHANGED <<stage, input, effects, failure, exit>>
    BY <2>1 DEF vars, mainVars
  <2>3. MainTypeOK'
    BY <2>2 DEF Inv, MainTypeOK
  <2>4. /\ InTurn' = InTurn /\ Done' = Done /\ Trees' = Trees /\ Pictures' = Pictures
        /\ Listings' = Listings /\ StopsAfterAst' = StopsAfterAst /\ status' = status
        /\ Chosen' = Chosen /\ IsMissing' = IsMissing
        /\ Debug("debug-bytecode")' = Debug("debug-bytecode") /\ Debug("debug-vm")' = Debug("debug-vm")
    BY <2>2, OptionsKept DEF InTurn, Done, IsMissing, Debug, parseVars
  <2>5. MainMeans' = MainMeans
    BY <2>2, <2>4 DEF MainMeans, Ending
  <2> QED BY <1>1, <2>3, <2>5 DEF Inv
<1> QED BY <1>2, <1>3 DEF Next

\* So it always holds.
LEMMA InvCorrect == Spec => []Inv
BY InvInit, InvStep, PTL DEF Spec

\* The state of the parser and of main keeps its types, for all flags, options and
\* command lines: no value is read behind the end of the command line.
THEOREM TypeCorrect == Spec => []TypeOK
<1>1. Inv => TypeOK
  BY DEF Inv, ParseMeans, ParseInv, MainTypeOK, TypeOK
<1> QED BY <1>1, InvCorrect, PTL

\* No positional argument is lost, read twice or moved, and what is behind the
\* separator is nothing else, for all flags, options and command lines.
THEOREM PositionalInOrderCorrect == Spec => []PositionalInOrder
<1>1. Inv => PositionalInOrder
  BY DEF Inv, ParseMeans, ParseInv
<1> QED BY <1>1, InvCorrect, PTL

\* The parser finds what the command line means, for all flags and options with
\* different names and all command lines.
THEOREM ArgumentsMeantCorrect == Spec => []ArgumentsMeant
<1>1. Inv => ArgumentsMeant
  BY DEF Inv, ParseMeans
<1> QED BY <1>1, InvCorrect, PTL

\* What was done, and what the flags say, in the words of the properties.
LEMMA AskedIsDebug ==
  ASSUME Inv, status = "parsed"
  PROVE  /\ \A name : Asked(name) <=> Debug(name)
         /\ AskedForVm <=> Debug("debug-vm")
         /\ AskedForDump <=> \/ WantsGraph \/ Debug("debug-bytecode")
                            \/ \E name \in {"debug-lexer", "debug-parser", "debug-ast"} : Debug(name)
         /\ Chosen = IF Meaning.positional = <<>> \/ Meaning.positional[1].form = "dash" THEN <<>>
                     ELSE <<Meaning.positional[1]>>
<1>1. flags = Meaning.flags /\ values = Meaning.values /\ positional = Meaning.positional
  BY DEF Inv, ParseMeans, ArgumentsMeant
<1>2. \A name : Asked(name) <=> Debug(name)
  BY <1>1 DEF Asked, Debug
<1>3. AskedForVm <=> Debug("debug-vm")
  BY <1>2, Zenon DEF AskedForVm
<1>4. AskedForDump <=> \/ WantsGraph \/ Debug("debug-bytecode")
                      \/ \E name \in {"debug-lexer", "debug-parser", "debug-ast"} : Debug(name)
  BY <1>1, <1>2 DEF AskedForDump, AskedForTree, WantsGraph
<1>5. Chosen = IF Meaning.positional = <<>> \/ Meaning.positional[1].form = "dash" THEN <<>>
              ELSE <<Meaning.positional[1]>>
  BY <1>1 DEF Chosen
<1> QED BY <1>2, <1>3, <1>4, <1>5

\* What was done.
LEMMA DidIsDone == \A effect : Did(effect) <=> effect \in Done
BY DEF Did, Done

\* The program runs exactly when the command line asks for it, and what runs is
\* the file it names, for all flags, options and command lines.
THEOREM RunsWhenAskedCorrect == Spec => []RunsWhenAsked
<1>1. ASSUME Inv PROVE RunsWhenAsked
  <2>1. MainMeans /\ MainTypeOK
    BY <1>1 DEF Inv
  <2>2. /\ Trees \subseteq {"ast"} /\ Pictures \subseteq {"graph"} /\ Listings \subseteq {"bytecode"}
    BY DEF Trees, Pictures, Listings
  <2>3. stage # "exited" => "execution" \notin Done /\ exit = "none"
    BY <2>1, <2>2 DEF MainMeans, MainTypeOK, Stages
  <2>4. CASE stage # "exited"
    BY <2>3, <2>4, DidIsDone DEF RunsWhenAsked
  <2>5. CASE stage = "exited" /\ status # "parsed"
    <3>1. Ending
      BY <2>1, <2>5 DEF MainMeans
    <3>2. "execution" \notin Done /\ (exit = "success" => "usage" \in Done)
      BY <2>5, <3>1 DEF Ending
    <3> QED BY <3>2, DidIsDone DEF RunsWhenAsked
  <2>6. CASE stage = "exited" /\ status = "parsed"
    <3>1. Ending
      BY <2>1, <2>6 DEF MainMeans
    <3>2. CASE "execution" \in Done
      <4>1. ~StopsAfterAst /\ (Debug("debug-bytecode") => Debug("debug-vm")) /\ input = Chosen /\ ~IsMissing
        BY <2>2, <3>1, <3>2 DEF Ending
      <4>2. AskedForVm \/ ~AskedForDump
        BY <1>1, <2>6, <4>1, AskedIsDebug DEF StopsAfterAst
      <4>3. input = IF Meaning.positional = <<>> \/ Meaning.positional[1].form = "dash" THEN <<>>
                    ELSE <<Meaning.positional[1]>>
        BY <1>1, <2>6, <4>1, AskedIsDebug
      <4> QED BY <3>2, <4>1, <4>2, <4>3, DidIsDone, Zenon DEF RunsWhenAsked
    <3>3. CASE "execution" \notin Done /\ exit = "success" /\ "usage" \notin Done
      <4>1. \/ StopsAfterAst
            \/ Debug("debug-bytecode") /\ ~Debug("debug-vm")
        BY <3>1, <3>3 DEF Ending
      <4>2. ~AskedForVm /\ AskedForDump
        BY <1>1, <2>6, <4>1, AskedIsDebug DEF StopsAfterAst
      <4> QED BY <3>3, <4>2, DidIsDone, Zenon DEF RunsWhenAsked
    <3>4. CASE "execution" \notin Done /\ ~(exit = "success" /\ "usage" \notin Done)
      BY <3>4, DidIsDone, Zenon DEF RunsWhenAsked
    <3> QED BY <3>2, <3>3, <3>4
  <2> QED BY <2>4, <2>5, <2>6
<1> QED BY <1>1, InvCorrect, PTL

\* The dumps come in the order of the stages and before what fails, for all
\* flags, options and command lines.
THEOREM DumpsInOrderCorrect == Spec => []DumpsInOrder
<1>1. ASSUME Inv PROVE DumpsInOrder
  <2>1. MainMeans
    BY <1>1 DEF Inv
  <2>2. \A k, l \in DOMAIN effects : k < l => Rank(effects[k]) < Rank(effects[l])
    BY <2>1 DEF MainMeans, InTurn
  <2>3. ASSUME failure \in {"compiler", "runtime"}
        PROVE  /\ Asked("debug-ast") => "ast" \in Done
               /\ failure = "runtime" /\ Asked("debug-bytecode") => "bytecode" \in Done
    <3>1. Ending
      BY <2>1, <2>3 DEF MainMeans
    <3>2. /\ status = "parsed" /\ Trees \subseteq Done
          /\ failure = "runtime" => Listings \subseteq Done
      BY <2>3, <3>1 DEF Ending
    <3>3. \A name : Asked(name) <=> Debug(name)
      BY <1>1, <3>2, AskedIsDebug
    <3> QED BY <3>2, <3>3 DEF Trees, Listings
  <2> QED BY <2>2, <2>3, DidIsDone DEF DumpsInOrder
<1> QED BY <1>1, InvCorrect, PTL

\* What the parser keeps of what it has read.
Kept == /\ flags \subseteq flags'
        /\ \A n \in DOMAIN values : n \in DOMAIN values' /\ values'[n] = values[n]
        /\ Len(positional) <= Len(positional')
        /\ \A k \in DOMAIN positional : positional'[k] = positional[k]
        /\ positional_only => positional_only' /\ flags' = flags /\ values' = values

\* What was read stays: repeated options keep their first values, and nothing is
\* set behind the separator, for all flags, options and command lines.
THEOREM ReadOnceCorrect == Spec => ReadOnce
<1>1. Inv /\ [Next]_vars => [Kept]_parseVars
  <2> SUFFICES ASSUME Inv, [ParseStep]_parseVars PROVE [Kept]_parseVars
    BY ParserSteps
  <2>1. /\ flags \subseteq Names /\ positional \in Seq(Arguments)
        /\ DOMAIN values \subseteq Names /\ \A n \in DOMAIN values : values[n] \in Arguments
    BY DEF Inv, ParseMeans, ParseInv, ParseTypeOK
  <2>2. ASSUME UNCHANGED <<positional, positional_only>>, values' = values, flags \subseteq flags',
               ~positional_only \/ flags' = flags
        PROVE  Kept
    BY <2>1, <2>2 DEF Kept
  <2>3. ASSUME NEW kind, NEW what, Fail(kind, what) PROVE Kept
    BY <2>2, <2>3 DEF Fail
  <2>4. ASSUME NEW value, NEW n, SetValue(value, n), ~positional_only PROVE Kept
    BY <2>1, <2>4 DEF SetValue, Emplaced, Kept
  <2>5. CASE Positional
    BY <2>1, <2>5 DEF Positional, Kept
  <2>6. CASE Separator
    BY <2>1, <2>6 DEF Separator, AtOption, Kept
  <2>7. CASE Help \/ Finish
    BY <2>2, <2>7 DEF Help, Finish
  <2>8. CASE Flag
    BY <2>2, <2>3, <2>8 DEF Flag, AtSingle
  <2>9. CASE Option
    BY <2>3, <2>4, <2>9 DEF Option, AtSingle
  <2>10. CASE Unknown
    BY <2>3, <2>10 DEF Unknown
  <2>11. CASE Group
    BY <2>2, <2>3, <2>11 DEF Group, AtOption
  <2> QED BY <2>5, <2>6, <2>7, <2>8, <2>9, <2>10, <2>11 DEF ParseStep
<1>2. [][Kept]_parseVars => ReadOnce
  BY PTL DEF ReadOnce, Kept
<1> QED BY <1>1, <1>2, InvCorrect, PTL DEF Spec
=============================================================================
