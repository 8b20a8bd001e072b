----------------------------- MODULE TreeMeaning -----------------------------
(***************************************************************************)
(* What a program means, read from its syntax tree as doc/main.tex         *)
(* describes the language and without bytecode, stack or slots: scopes map *)
(* names to variables, functions keep the scope they were defined in,      *)
(* arrays are shared, and a statement ends in one of the modes of the      *)
(* chapter on execution flow.  Pipeline compares what compiled programs do *)
(* with it.                                                                *)
(*                                                                         *)
(* Where the code differs, this takes the documentation's side: but for    *)
(* false, zero, nil and what is empty everything is true, every other      *)
(* mismatch of types is a TypeError (main.tex:284-287), and strings are    *)
(* collections like arrays (292-296).  Where it says nothing (the errors of values that are of the *)
(* right type, the value of and and or, functions known before their       *)
(* definition), this is what the code promises.  Every variable counts as  *)
(* declared mut.                                                           *)
(*                                                                         *)
(* s.scope: name -> number of a variable; s.vars: their values; s.arrays:  *)
(* the arrays; s.out: what was printed; s.mode: "normal", "return",        *)
(* "break", "continue" or "error"; s.value: the value of the expression,   *)
(* the returned one, or the error; s.list: values being collected.         *)
(* In another mode than "normal" every operator leaves s as it is.         *)
(***************************************************************************)
EXTENDS Syntax

CONSTANT BuiltinNames  \* the names of the builtins, in some order

Start == [scope |-> <<>>, vars |-> <<>>, arrays |-> <<>>, out |-> <<>>,
          mode |-> "normal", value |-> Nil, list |-> <<>>]

Normal(s) == s.mode = "normal"
Give(s, v) == IF Normal(s) THEN [s EXCEPT !.value = v] ELSE s
Raise(s, kind) == IF Normal(s) THEN [s EXCEPT !.mode = "error", !.value = kind] ELSE s

----------------------------------------------------------------------------
(* Values: an array is the number of what it holds, a closure a record.    *)

Closure(f) == <<"closure", f>>
Callable(v) == v[1] \in {"closure", "builtin"}
Listed(v) == v[1] \in {"array", "str"}

GiveArray(s, items) ==
  IF Normal(s) THEN Give([s EXCEPT !.arrays = Append(@, items)], <<"array", Len(s.arrays) + 1>>)
  ELSE s

\* The elements of an array, the characters of a string.
Items(s, v) ==
  IF IsA("array", v) THEN s.arrays[v[2]] ELSE [k \in DOMAIN v[2] |-> Str(<<v[2][k]>>)]

\* A container of the same kind.
GiveLike(s, v, items) ==
  IF IsA("array", v) THEN GiveArray(s, items)
  ELSE Give(s, Str([k \in DOMAIN items |-> items[k][2][1]]))

\* Zero, nil and what is empty are false, everything else is true.
Tested(s) ==
  LET v == s.value
  IN  IF ~Normal(s) THEN s
      ELSE Give(s, Bool(CASE IsA("bool", v) -> v[2]
                          [] IsA("int", v) -> v[2] # 0
                          [] IsA("nil", v) -> FALSE
                          [] Listed(v) -> Items(s, v) # <<>>
                          [] Callable(v) -> TRUE))
IsTrue(s) == Normal(s) /\ s.value = Bool(TRUE)
IsFalse(s) == Normal(s) /\ s.value = Bool(FALSE)

RECURSIVE Same(_, _, _), Shown(_, _)

\* Values are equal by what they hold.
Same(s, v, w) ==
  /\ v[1] = w[1]
  /\ IF IsA("array", v)
     THEN /\ Len(Items(s, v)) = Len(Items(s, w))
          /\ \A k \in DOMAIN Items(s, v) : Same(s, Items(s, v)[k], Items(s, w)[k])
     ELSE v = w

\* Values of one type can be compared.
OneType(v, w) == v[1] = w[1] \/ (Callable(v) /\ Callable(w))

Relates(s, op, v, w) ==
  LET numbers == IsA("int", v) /\ IsA("int", w)
  IN  CASE op = "EQUAL" -> Same(s, v, w)
        [] op = "NOT_EQUAL" -> ~Same(s, v, w)
        [] op = "LESS" -> numbers /\ v[2] < w[2]
        [] op = "LESS_EQUAL" -> numbers /\ v[2] <= w[2]
        [] op = "GREATER" -> numbers /\ v[2] > w[2]
        [] op = "GREATER_EQUAL" -> numbers /\ v[2] >= w[2]

\* What println writes.
Shown(s, v) ==
  IF IsA("array", v) THEN Vec([k \in DOMAIN Items(s, v) |-> Shown(s, Items(s, v)[k])])
  ELSE IF IsA("closure", v) THEN <<"function", v[2].name>>
  ELSE v

\* The quotient and the remainder, which has the sign of the dividend.
Divided(m, n) ==
  LET Size(k) == IF k < 0 THEN -k ELSE k
  IN  CHOOSE q \in -Size(m) .. Size(m) :
        LET r == m - q * n IN Size(r) < Size(n) /\ (r = 0 \/ (r < 0) = (m < 0))

OnNumbers(s, op, m, n) ==
  CASE op = "ADD" -> Give(s, Num(m + n))
    [] op = "SUBTRACT" -> Give(s, Num(m - n))
    [] op = "MULTIPLY" -> Give(s, Num(m * n))
    [] op = "DIVIDE" -> IF n = 0 THEN Raise(s, "UnsupportedOperation")
                        ELSE Give(s, Num(Divided(m, n)))
    [] op = "MODULO" -> Give(s, Num(m - n * Divided(m, n)))

Times(items, n) == FlattenSeq([k \in 1 .. n |-> items])
Repeatable(v, w) == Listed(v) /\ IsA("int", w)
Repeats(op, v, w) == op = "MULTIPLY" /\ Repeatable(v, w) /\ w[2] > 0

\* Values of the wrong types are a TypeError; a number of times that is not
\* positive is what the code calls unsupported.
Compute(s, op, v, w) ==
  IF ~Normal(s) THEN s
  ELSE IF IsA("int", v) /\ IsA("int", w) THEN OnNumbers(s, op, v[2], w[2])
  ELSE IF op = "ADD" /\ Listed(v) /\ v[1] = w[1]
  THEN GiveLike(s, v, Items(s, v) \o Items(s, w))
  ELSE IF Repeats(op, v, w) THEN GiveLike(s, v, Times(Items(s, v), w[2]))
  ELSE IF Repeats(op, w, v) THEN GiveLike(s, w, Times(Items(s, w), v[2]))
  ELSE Raise(s, IF op = "MULTIPLY" /\ (Repeatable(v, w) \/ Repeatable(w, v))
                THEN "UnsupportedOperation" ELSE "TypeError")

\* Is v an index of a value that has elements to read, or to write?  The error
\* that says why not.
IndexFault(s, indexable, list, v) ==
  IF ~indexable \/ ~IsA("int", v) THEN "TypeError"
  ELSE IF v[2] \notin 0 .. Len(Items(s, list)) - 1 THEN "ValueError"
  ELSE "none"

ElementOf(s, list, v) ==
  LET fault == IndexFault(s, Listed(list), list, v)
  IN  IF ~Normal(s) THEN s
      ELSE IF fault = "none" THEN Give(s, Items(s, list)[v[2] + 1])
      ELSE Raise(s, fault)

StoreElement(s, list, v, item) ==
  LET fault == IndexFault(s, IsA("array", list), list, v)
  IN  IF ~Normal(s) THEN s
      ELSE IF fault = "none" THEN [s EXCEPT !.arrays[list[2]][v[2] + 1] = item]
      ELSE Raise(s, fault)

----------------------------------------------------------------------------
(* Variables *)

Bind(s, name, v) ==
  IF Normal(s)
  THEN [s EXCEPT !.vars = Append(@, v), !.scope = (name :> Len(s.vars) + 1) @@ @]
  ELSE s

Assign(s, name, v) ==
  IF ~Normal(s) THEN s
  ELSE IF name \in DOMAIN s.scope THEN [s EXCEPT !.vars[s.scope[name]] = v]
  ELSE Raise(s, "RuntimeError")

Lookup(s, name) ==
  IF name \in DOMAIN s.scope THEN Give(s, s.vars[s.scope[name]])
  ELSE IF name \in ToSet(BuiltinNames) THEN Give(s, Builtin(name))
  ELSE Raise(s, "UndefinedVariableError")

----------------------------------------------------------------------------
(* Builtins *)

\* take, drop and slice: the elements from one place to another; negative places
\* count from the end, and the first bound is not larger than the second.
Part(s, list, bounds) ==
  LET items == Items(s, list)
      n == Len(items)
      Place(b) == IF b < 0 THEN n + b ELSE b
      from == IF bounds[1] = Nil THEN 0 ELSE bounds[1][2]
      to == IF bounds[2] = Nil THEN n ELSE bounds[2][2]
  IN  IF ~Listed(list) \/ \E b \in ToSet(bounds) : b # Nil /\ ~IsA("int", b)
      THEN Raise(s, "TypeError")
      ELSE IF from > to \/ Place(from) \notin 0 .. Place(to) \/ Place(to) > n
      THEN Raise(s, "ValueError")
      ELSE GiveLike(s, list, [k \in 1 .. Place(to) - Place(from) |-> items[Place(from) + k]])

\* head and tail: a pair of one element and the others.
SplitAt(s, list, isHead) ==
  LET items == Items(s, list)
      n == Len(items)
      rest == GiveLike(s, list, IF isHead THEN SubSeq(items, 2, n) ELSE SubSeq(items, 1, n - 1))
  IN  IF ~Listed(list) THEN Raise(s, "TypeError")
      ELSE IF n = 0 THEN Raise(s, "RuntimeError")
      ELSE GiveArray(rest, IF isHead THEN <<items[1], rest.value>> ELSE <<rest.value, items[n]>>)

\* range: the numbers start + k * step in front of the end.
Numbers(s, args) ==
  LET start == IF Len(args) = 1 THEN 0 ELSE args[1][2]
      end == IF Len(args) = 1 THEN args[1][2] ELSE args[2][2]
      step == IF Len(args) = 3 THEN args[3][2] ELSE 1
      Distance(k) == IF step > 0 THEN end - (start + k * step) ELSE start + k * step - end
      far == {k \in 0 .. Distance(0) : Distance(k) > 0}
  IN  IF step = 0 \/ Distance(0) < 0 THEN Raise(s, "ValueError")
      ELSE GiveArray(s, [k \in 1 .. Cardinality(far) |-> Num(start + (k - 1) * step)])

\* int of a text: the places of the numeral, each with its weight.
NumberIn(s, text, base) ==
  LET IsDigit(k) == \E v \in 0 .. base - 1 : DigitsLower[v + 1] = text[k]
      Digit(k) == CHOOSE v \in 0 .. base - 1 : DigitsLower[v + 1] = text[k]
      first == IF text # <<>> /\ text[1] = "-" THEN 2 ELSE 1
      last == CHOOSE l \in first - 1 .. Len(text) :
                /\ \A k \in first .. l : IsDigit(k)
                /\ l < Len(text) => ~IsDigit(l + 1)
      Plus(total, k) == total + Digit(k) * base ^ (last - k)
      size == FoldLeft(Plus, 0, [k \in 1 .. last - first + 1 |-> first + k - 1])
  IN  IF last < first THEN Raise(s, "RuntimeError")
      ELSE Give(s, Num(IF first = 2 THEN -size ELSE size))

\* all goes on while elements are true, any while they are not.
AllOrAny(s, isAll, list) ==
  LET Test(t, item) == IF t.value = Bool(isAll) THEN Tested(Give(t, item)) ELSE t
  IN  IF Listed(list) THEN FoldLeft(Test, Give(s, Bool(isAll)), Items(s, list))
      ELSE Raise(s, "TypeError")

SumOfAll(s, list) ==
  LET items == Items(s, list)
      Sum(t, item) == Compute(t, "ADD", t.value, item)
  IN  IF ~Listed(list) \/ items = <<>> THEN Raise(s, "TypeError")
      ELSE FoldLeft(Sum, Give(s, items[1]), Tail(items))

----------------------------------------------------------------------------
RECURSIVE Eval(_, _), RunBlock(_, _)

(* Expressions *)

\* Their values, in s.list.
EvalAll(s, es) ==
  LET Collect(t, e) ==
        LET v == Eval(t, e)
        IN  IF Normal(v) THEN [v EXCEPT !.list = Append(t.list, v.value)] ELSE v
  IN  IF Normal(s) THEN FoldLeft(Collect, [s EXCEPT !.list = <<>>], es) ELSE s

\* A chain holds when each of its links does; what is behind one that does not is
\* not evaluated, and nothing is evaluated twice.
Compared(s, links) ==
  LET Add(chain, link) ==
        LET operand == Eval(chain.s, link.operand)
            rhs == IF Normal(operand) /\ ~OneType(chain.s.value, operand.value)
                   THEN Raise(operand, "TypeError") ELSE operand
        IN  IF ~chain.holds THEN chain
            ELSE [s |-> rhs,
                  holds |-> Normal(rhs) /\ Relates(rhs, link.op, chain.s.value, rhs.value)]
      chain == FoldLeft(Add, [s |-> s, holds |-> Normal(s)], links)
  IN  Give(chain.s, Bool(chain.holds))

\* A call of a value, like a call by name.
Application(f, args) == [node |-> "application", function |-> f, arguments |-> args]

\* Apply f to every element; the results, or whether they are true, in s.list.
Mapped(s, f, v, test) ==
  LET Step(t, item) ==
        LET called == Eval(t, Application(f, <<item>>))
            result == IF test THEN Tested(called) ELSE called
        IN  IF Normal(result) THEN [result EXCEPT !.list = Append(t.list, result.value)]
            ELSE result
  IN  IF ~Callable(f) \/ ~Listed(v) THEN Raise(s, "TypeError")
      ELSE FoldLeft(Step, [s EXCEPT !.list = <<>>], Items(s, v))

ApplyBuiltin(s, name, args) ==
  LET mapped == Mapped(s, args[1], args[2], name # "map")
      chosen == SelectSeq([k \in DOMAIN mapped.list |-> k],
                          LAMBDA k : mapped.list[k] = Bool(TRUE))
  IN  CASE name = "println" ->
             [Give(s, Nil) EXCEPT !.out = Append(@, [k \in DOMAIN args |-> Shown(s, args[k])])]
        [] name = "id" -> Give(s, args[1])
        [] name = "len" -> IF Listed(args[1]) THEN Give(s, Num(Len(Items(s, args[1]))))
                           ELSE Raise(s, "TypeError")
        [] name \in {"head", "tail"} -> SplitAt(s, args[1], name = "head")
        [] name = "drop" -> Part(s, args[1], <<args[2], Nil>>)
        [] name = "take" -> Part(s, args[1], <<Nil, args[2]>>)
        [] name = "slice" -> Part(s, args[1], <<args[2], args[3]>>)
        [] name = "range" -> Numbers(s, args)
        [] name = "int" -> NumberIn(s, args[1][2], IF Len(args) = 2 THEN args[2][2] ELSE 10)
        [] name = "sum" -> SumOfAll(s, args[1])
        [] name \in {"all", "any"} -> AllOrAny(s, name = "all", args[1])
        [] name = "map" -> GiveArray(mapped, mapped.list)
        [] name = "filter" -> GiveArray(mapped, [k \in DOMAIN chosen |-> Items(s, args[2])[chosen[k]]])
        [] name = "count" -> Give(mapped, Num(Len(chosen)))

\* With fewer arguments than parameters a function waits for the others.
Apply(s, f, args) ==
  LET given == f[2].given \o args
      parameters == f[2].parameters
      entered == FoldLeft(LAMBDA t, k : Bind(t, parameters[k], given[k]),
                          [s EXCEPT !.scope = f[2].scope], [k \in DOMAIN parameters |-> k])
      left == [RunBlock(entered, f[2].block) EXCEPT !.scope = s.scope]
  IN  IF ~Normal(s) THEN s
      ELSE IF ~Callable(f) THEN Raise(s, "TypeError")
      ELSE IF IsA("builtin", f) THEN ApplyBuiltin(s, f[2], args)
      ELSE IF Len(given) > Len(parameters) THEN Raise(s, "RuntimeError")
      ELSE IF Len(given) < Len(parameters)
      THEN Give(s, Closure([f[2] EXCEPT !.given = given]))
      ELSE IF left.mode = "return" THEN [left EXCEPT !.mode = "normal"]
      ELSE Give(left, Nil)

FunctionOf(s, e, name) ==
  Closure([parameters |-> e.parameters, block |-> e.block, scope |-> s.scope,
           given |-> <<>>, name |-> name])

\* The first branch whose condition is true, or the other one.
Branched(s, branches, otherwise) ==
  LET Try(search, branch) ==
        LET tested == Tested(Eval(search.s, branch.condition))
        IN  IF search.block # <<>> THEN search
            ELSE [s |-> tested, block |-> IF IsTrue(tested) THEN <<branch.block>> ELSE <<>>]
      search == FoldLeft(Try, [s |-> s, block |-> <<>>], branches)
  IN  FoldLeft(RunBlock, search.s, IF search.block = <<>> THEN otherwise ELSE search.block)

EvalUnary(s, op) ==
  CASE op = "PLUS" -> s
    [] op = "NOT" -> LET t == Tested(s) IN Give(t, Bool(IsFalse(t)))
    [] op = "NEGATE" -> IF Normal(s) /\ IsA("int", s.value) THEN Give(s, Num(-s.value[2]))
                        ELSE Raise(s, "TypeError")

\* The operand that decides is the value.
Logically(s, op, rhs) ==
  LET t == Tested(s) IN IF ~Normal(t) THEN t ELSE IF IsTrue(t) = (op = "OR") THEN s ELSE Eval(s, rhs)

\* The text of a string is read from its start: a backslash gives the character
\* behind it another meaning, a second backslash included.
LiteralMeaning(e) ==
  LET Read(r, c) ==
        IF r.escape THEN [escape |-> FALSE, chars |-> Append(r.chars, DecodeEscape(c))]
        ELSE IF c = "backslash" THEN [r EXCEPT !.escape = TRUE]
        ELSE [r EXCEPT !.chars = Append(@, c)]
  IN  IF "text" \notin DOMAIN e THEN e.value
      ELSE Str(FoldLeft(Read, [escape |-> FALSE, chars |-> <<>>], e.text).chars)

\* The list of values that an expression needs.
Parts(e) ==
  CASE e.node = "array" -> e.elements
    [] e.node = "index" -> <<e.base, e.index>>
    [] e.node = "binary" -> <<e.lhs, e.rhs>>
    [] e.node = "call" -> <<Variable(e.name)>> \o e.arguments
    [] OTHER -> <<>>

Eval(s, e) ==
  LET t == EvalAll(s, Parts(e))
  IN  IF ~Normal(s) THEN s
      ELSE CASE e.node = "literal" -> Give(s, LiteralMeaning(e))
             [] e.node = "variable" -> Lookup(s, e.name)
             [] e.node = "array" -> GiveArray(t, t.list)
             [] e.node = "index" -> ElementOf(t, t.list[1], t.list[2])
             [] e.node = "unary" -> EvalUnary(Eval(s, e.operand), e.op)
             [] e.node = "binary" -> Compute(t, e.op, t.list[1], t.list[2])
             [] e.node = "logical" -> Logically(Eval(s, e.lhs), e.op, e.rhs)
             [] e.node = "comparison" -> Compared(Eval(s, e.start), e.links)
             [] e.node = "function" -> Give(s, FunctionOf(s, e, "<anonymous>"))
             [] e.node = "application" -> Apply(s, e.function, e.arguments)
             [] e.node = "call" -> Eval(t, Application(t.list[1], Tail(t.list)))
             [] e.node = "if" ->
                  LET chosen == Branched(s, e.branches, e.otherwise)
                  IN  IF chosen.mode = "return" THEN [chosen EXCEPT !.mode = "normal"] ELSE chosen

----------------------------------------------------------------------------
(* Statements *)

\* The elements of the value, each to its name.
Spread(s, names, declares) ==
  LET list == s.value
      One(t, k) ==
        LET element == ElementOf(t, list, Num(k - 1))
        IN  IF declares THEN Bind(element, names[k], element.value)
            ELSE Assign(element, names[k], element.value)
  IN  FoldLeft(One, s, [k \in DOMAIN names |-> k])

Declare(s, e) ==
  LET t == Eval(s, e.init[1])
  IN  IF e.init = <<>> THEN FoldLeft(LAMBDA u, name : Bind(u, name, Nil), s, e.names)
      ELSE IF Len(e.names) = 1 THEN Bind(t, e.names[1], t.value)
      ELSE Spread(t, e.names, TRUE)

\* x op= e is x = x op e, with what x stands for looked up once; s.value is x.
Updated(s, e) ==
  LET t == Eval(s, e.value) IN IF e.op = "ASSIGN" THEN t ELSE Compute(t, e.op, s.value, t.value)

Update(s, e) ==
  LET place == EvalAll(s, IF e.target.node = "index" THEN Parts(e.target) ELSE <<>>)
      list == place.list[1]
      at == place.list[2]
      old == IF e.op = "ASSIGN" THEN place
             ELSE IF e.target.node = "index" THEN ElementOf(place, list, at)
             ELSE Lookup(place, e.target.name)
      new == Updated(old, e)
  IN  IF e.target.node = "index" THEN StoreElement(new, list, at, new.value)
      ELSE Assign(new, e.target.name, new.value)

\* One round of a loop; "continue" ends the round and "break" the loop.
Round(s, block, names, v) ==
  LET ran == RunBlock(FoldLeft(LAMBDA t, name : Bind(t, name, v), s, names), block)
      back == [ran EXCEPT !.scope = s.scope]
  IN  IF ran.mode = "continue" THEN [back EXCEPT !.mode = "normal"] ELSE back

AfterLoop(s) == IF s.mode = "break" THEN [s EXCEPT !.mode = "normal"] ELSE s

\* A loop is a round and the loop again.
Repeat(s, e) ==
  LET t == Tested(Eval(s, e.condition))
  IN  IF IsTrue(t) THEN RunBlock(Round(t, e.block, <<>>, Nil), Block(<<e>>)) ELSE t

ForAll(s, e, items) ==
  FoldLeft(LAMBDA t, item : IF Normal(t) THEN Round(t, e.block, <<e.name>>, item) ELSE t, s, items)

\* start .. end and start ..= end, by step
ForNumbers(s, e) ==
  LET t == EvalAll(s, <<e.start, e.end>> \o e.step)
      start == t.list[1][2]
      step == IF e.step = <<>> THEN 1 ELSE t.list[3][2]
      end == IF e.inclusive THEN t.list[2][2] + 1 ELSE t.list[2][2]
      rounds == {k \in 0 .. end - start : start + k * step < end}
  IN  IF ~Normal(t) THEN t
      ELSE ForAll(t, e, [k \in 1 .. Cardinality(rounds) |-> Num(start + (k - 1) * step)])

ForEveryItem(s, e) ==
  LET t == Eval(s, e.collection)
  IN  IF ~Normal(t) THEN t
      ELSE IF Listed(t.value) THEN ForAll(t, e, Items(t, t.value))
      ELSE Raise(t, "TypeError")

Run(s, e) ==
  IF ~Normal(s) THEN s
  ELSE CASE e.node = "declaration" -> Declare(s, e)
         [] e.node = "call" -> Eval(s, e)
         [] e.node = "if" -> Branched(s, e.branches, e.otherwise)
         [] e.node = "assignment" -> Spread(Eval(s, e.value), e.names, FALSE)
         [] e.node = "named" -> Assign(s, e.name, FunctionOf(s, e, e.name))
         [] e.node = "update" -> Update(s, e)
         [] e.node = "while" -> AfterLoop(Repeat(s, e))
         [] e.node = "for" -> AfterLoop(ForEveryItem(s, e))
         [] e.node = "range_for" -> AfterLoop(ForNumbers(s, e))

Leave(s, last) ==
  LET given == IF last.node # "return" \/ last.value = <<>> THEN Give(s, Nil)
               ELSE Eval(s, last.value[1])
  IN  IF Normal(given) THEN [given EXCEPT !.mode = last.node] ELSE given

\* A block has a scope of its own, and its functions are there from the start.
RunBlock(s, block) ==
  LET functions == SelectSeq(block.statements, LAMBDA e : e.node = "named")
      hoisted == FoldLeft(LAMBDA t, e : Bind(t, e.name, Nil), s, functions)
      left == FoldLeft(Leave, FoldLeft(Run, hoisted, block.statements), block.last)
  IN  [left EXCEPT !.scope = s.scope]

\* What a program prints, and the error it ends with, if it does.
Meaning(tree) ==
  LET s == RunBlock(Start, tree)
  IN  [out |-> s.out, result |-> IF s.mode = "error" THEN s.value ELSE "done"]
=============================================================================
