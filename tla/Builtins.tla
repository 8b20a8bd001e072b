------------------------------- MODULE Builtins -------------------------------
(***************************************************************************)
(* What the builtin functions of builtins.cpp return or throw, given their *)
(* arguments.  Printing, collecting and calling back change more than the  *)
(* result: BytecodeVM does that.                                           *)
(*                                                                         *)
(* A result that is not a StackValue is new, and is stored in the heap.    *)
(***************************************************************************)
EXTENDS Values

CONSTANTS
  Inputs,        \* the lines standard input may have, as sequences of characters
  TextOf(_, _)   \* the text of a value (DeepValues)

\* The builtins that call a function for every element of an array.
CallingBack == {"map", "filter", "count"}

Expect(condition, kind, result) == IF condition THEN result ELSE Error(kind)

AreIntegers(ds) == \A i \in DOMAIN ds : IsA("int", ds[i])

AssertResult(d) ==
  LET t == Truthy(d) IN IF Failed(t) THEN t ELSE Expect(t[2], "RuntimeError", Nil)

\* head and tail split a container; the parts of a string, and the rest of an
\* array, are new values inside the new pair.
SplitOf(name, d) ==
  LET s == d[2]
      Part(part) == <<d[1], part>>
      One(x) == IF IsA("str", d) THEN Str(<<x>>) ELSE x
  IN  IF ~IsContainer(d) THEN Error("TypeError")
      ELSE IF s = <<>> THEN Error("RuntimeError")
      ELSE IF name = "head" THEN Vec(<<One(s[1]), Part(Tail(s))>>)
      ELSE Vec(<<Part(Front(s)), One(Last(s))>>)

\* A bound of drop, take and slice that is not an integer is refused first.
SliceOf(d, bounds, start, end) ==
  Expect(\A b \in bounds : IsA("int", b), "TypeError", Slice(d, start, end))

\* sum: the elements are copied and added from the left.
SumOf(mem, d) ==
  LET Add(total, v) ==
        IF Failed(total) THEN total ELSE Arithmetic("ADD", total, Deref(mem, v))
  IN  IF ~IsA("vec", d) \/ d[2] = <<>> THEN Error("TypeError")
      ELSE FoldLeft(Add, Deref(mem, d[2][1]), Tail(d[2]))

\* all stops at the first element that is not true, any at the first that is.
AllAny(mem, isAll, d) ==
  LET truths == [i \in DOMAIN d[2] |-> Truthy(Deref(mem, d[2][i]))]
      stops == {i \in DOMAIN truths : Failed(truths[i]) \/ truths[i][2] # isAll}
      first == CHOOSE i \in stops : \A j \in stops : i <= j
  IN  IF ~IsA("vec", d) THEN Error("TypeError")
      ELSE IF stops = {} THEN Bool(isAll)
      ELSE truths[first]

\* range: an argument that is not an integer throws std::bad_optional_access.
RangeOf(ds) ==
  LET start == IF Len(ds) = 1 THEN 0 ELSE ds[1][2]
      end == IF Len(ds) = 1 THEN ds[1][2] ELSE ds[2][2]
      step == IF Len(ds) = 3 THEN ds[3][2] ELSE 1
      wrong == (step > 0 /\ start > end) \/ (step < 0 /\ start < end)
      count == IF step > 0 THEN (end - start + step - 1) \div step
               ELSE (start - end - step - 1) \div (-step)
  IN  IF ~AreIntegers(ds) THEN Error("bad_optional_access")
      ELSE IF step = 0 \/ wrong THEN Error("ValueError")
      ELSE Vec([i \in 1 .. count |-> Num(start + (i - 1) * step)])

\* map, filter and count check their arguments before the first call.
CallBackError(ds) ==
  Expect(Len(ds) = 2 /\ IsFunction(ds[1]) /\ IsA("vec", ds[2]), "TypeError", Nil)

LengthOf(d) == Expect(IsContainer(d), "TypeError", Num(Len(d[2])))

\* str: a new string.
StrOf(mem, v) == Str(TextOf(mem, v))

SleepResult(ds) == Expect(AreIntegers(ds), "TypeError", Nil)

\* int: a number from a primitive, or from text in a base.
IntOf(ds) ==
  LET base == IF Len(ds) = 2 THEN ds[2] ELSE Num(10)
      d == ds[1]
  IN  IF ~IsA("int", base) \/ base[2] \notin 2 .. 36 THEN Error("RuntimeError")
      ELSE IF IsA("int", d) THEN d
      ELSE IF IsA("bool", d) THEN Num(IF d[2] THEN 1 ELSE 0)
      ELSE IF IsA("str", d) THEN FromChars(d[2], base[2])
      ELSE Error("RuntimeError")

\* random: a distribution from min to max, which must be in this order.
RandomsOf(ds) ==
  LET min == IF Len(ds) = 1 THEN 0 ELSE ds[1][2]
      max == ds[Len(ds)][2]
  IN  IF ~AreIntegers(ds) THEN {Error("TypeError")}
      ELSE IF min > max THEN {Undefined}
      ELSE {Num(n) : n \in min .. max}

\* How many arguments a builtin insists on before it looks at them.
WrongCount(name, n) ==
  CASE name \in {"len", "sum", "all", "any", "id", "str", "sleep"} -> n # 1
    [] name \in {"drop", "take"} -> n # 2
    [] name = "slice" -> n # 3
    [] name = "__trigger_gc" -> n # 0
    [] name \in {"head", "tail", "assert"} -> n = 0
    [] name \in {"int", "random"} -> n \notin 1 .. 2
    [] name = "range" -> n \notin 1 .. 3
    [] OTHER -> FALSE

\* assert reads its first argument whether there is one or not.
CountError(name) ==
  CASE name \in {"sum", "all", "any", "id", "range"} -> Error("TypeError")
    [] name = "assert" -> Undefined
    [] OTHER -> Error("RuntimeError")

\* The result of a builtin that does not call back.
BuiltinResult(mem, name, args) ==
  LET ds == [i \in DOMAIN args |-> Deref(mem, args[i])]
  IN  CASE name \in {"print", "println", "__trigger_gc"} -> Nil
        [] name = "assert" -> AssertResult(ds[1])
        [] name = "error" -> Error("RuntimeError")
        [] name = "len" -> LengthOf(ds[1])
        [] name \in {"head", "tail"} -> SplitOf(name, ds[1])
        [] name = "drop" -> SliceOf(ds[1], {ds[2]}, ds[2], Nil)
        [] name = "take" -> SliceOf(ds[1], {ds[2]}, Nil, ds[2])
        [] name = "slice" -> SliceOf(ds[1], {ds[2], ds[3]}, ds[2], ds[3])
        [] name = "sum" -> SumOf(mem, ds[1])
        [] name \in {"all", "any"} -> AllAny(mem, name = "all", ds[1])
        [] name = "id" -> args[1]
        [] name = "range" -> RangeOf(ds)
        [] name = "int" -> IntOf(ds)
        [] name = "str" -> StrOf(mem, args[1])
        [] name = "sleep" -> SleepResult(ds)

\* What a builtin may return: input and random depend on what is outside.
BuiltinResults(mem, name, args) ==
  IF WrongCount(name, Len(args)) THEN {CountError(name)}
  ELSE CASE name = "input" -> {Str(line) : line \in Inputs}
         [] name = "random" -> RandomsOf([i \in DOMAIN args |-> Deref(mem, args[i])])
         [] OTHER -> {BuiltinResult(mem, name, args)}
=============================================================================
