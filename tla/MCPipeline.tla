----------------------------- MODULE MCPipeline -----------------------------
(***************************************************************************)
(* Families of programs for Pipeline.  A program is named by a tuple: its  *)
(* family and what it combines.  What the code is known to get wrong       *)
(* (README, "Known divergences") is left out by named conditions.          *)
(***************************************************************************)
EXTENDS Pipeline

K == INSTANCE Compiler
T == INSTANCE Sources

MCBuiltinNames ==
  <<"print", "println", "__trigger_gc", "assert", "error", "input", "int", "str", "head",
    "tail", "len", "drop", "take", "slice", "random", "sleep", "map", "filter", "sum", "all",
    "any", "count", "id", "range">>

M == INSTANCE TreeMeaning WITH BuiltinNames <- MCBuiltinNames
Deep == INSTANCE DeepValues

MCCompileTree(tree) == K!CompileProgram(tree)
MCCompare(memory, v, w) == Deep!Compare(memory, v, w)
MCShow(memory, v) == Deep!Show(memory, v)
MCText(memory, v) == Deep!Text(memory, v)
MCInputs == {<<>>}

\* The programs come from the compiler.
MCNoPrograms == <<>>

V(name) == T!V(name)
N(n) == IF n < 0 THEN T!Unary("NEGATE", T!N(-n)) ELSE T!N(n)
Text(chars) == T!Literal(Str(chars))
NilOf == T!Literal(Nil)
Array12 == T!ArrayOf(<<N(1), N(2)>>)
PrintCall(name, arguments) == T!Println(T!FunctionCall(name, arguments))
Define(name, parameters, statements, last) ==
  T!NamedFunction(name, parameters, [statements |-> statements, last |-> last])
Lambda(parameters, statements, last) ==
  T!Lambda(parameters, [statements |-> statements, last |-> last])
Returns(e) == <<T!ReturnOf(<<e>>)>>
When(condition, last) == T!If(condition, [statements |-> <<>>, last |-> last])
Is(name, n) == T!Is2(V(name), "EQUAL", N(n))

----------------------------------------------------------------------------
(* Operators, on all kinds of values: constants, which the optimizer folds, *)
(* variables, and elements that are updated.                               *)

Operands ==
  [zero |-> N(0), three |-> N(3), minus_two |-> N(-2), a |-> Text(<<"a">>),
   ba |-> Text(<<"b", "a">>), true |-> T!True, nil |-> NilOf, array |-> Array12,
   builtin |-> V("len")]
Numbers_ == {"zero", "three", "minus_two"}
Texts_ == {"a", "ba"}

\* The operands an operator is defined for.  Others are a TypeError by the
\* documentation; the code has an error of its own for them.
Matching(op, v, w) ==
  \/ {v, w} \subseteq Numbers_
  \/ op = "ADD" /\ ({v, w} \subseteq Texts_ \/ {v, w} = {"array"})
  \/ op = "MULTIPLY" /\ \E n \in Numbers_ : \E c \in Texts_ \cup {"array"} : {v, w} = {n, c}

UndefinedModulo(op, w) == op = "MODULO" /\ w = "zero"

Operators ==
  {p \in {"operator"} \X {"constants", "variable", "element"}
           \X {"ADD", "SUBTRACT", "MULTIPLY", "DIVIDE", "MODULO"}
           \X (DOMAIN Operands) \X (DOMAIN Operands) :
     ~UndefinedModulo(p[3], p[5]) /\ ~(p[2] = "constants" /\ p[3] = "MODULO")}

OperatorTree(form, op, v, w) ==
  LET variable == T!Let("x", Operands[v])
      array == T!Let("x", T!ArrayOf(<<Operands[v]>>))
      updates(target) == T!OperatorAssignment(target, op, Operands[w])
  IN  CASE form = "constants" -> <<T!Println(T!Binary(Operands[v], op, Operands[w]))>>
        [] form = "variable" -> <<variable, updates(V("x")), T!Println(V("x"))>>
        [] form = "element" ->
             <<array, updates(T!Element(V("x"), N(0))), T!Println(V("x"))>>

\* Values of different types cannot be compared by the documentation; the code
\* finds them different and in no order.
MismatchedComparison(v, w) == v # w /\ ~({v, w} \subseteq Numbers_) /\ ~({v, w} \subseteq Texts_)

Comparisons ==
  {p \in {"comparison"} \X {"constants", "variable"} \X (DOMAIN Operands) \X (DOMAIN Operands) :
     ~MismatchedComparison(p[3], p[4])}

\* The order of two strings, booleans or arrays is left to the runs of the VM.
Ordered(v, w) == v # w /\ ({v, w} \subseteq Numbers_ \/ {v, w} # {"a", "ba"})

ComparisonTree(form, v, w) ==
  LET lhs == IF form = "constants" THEN Operands[v] ELSE V("x")
      ops == <<"EQUAL", "NOT_EQUAL">> \o
               IF Ordered(v, w) THEN <<"LESS", "LESS_EQUAL", "GREATER", "GREATER_EQUAL">>
               ELSE <<>>
  IN  <<T!Let("x", Operands[v])>>
        \o [i \in DOMAIN ops |-> T!Println(T!Is2(lhs, ops[i], Operands[w]))]

\* Functions are true by the documentation; the code has no truth value for them.
FunctionTested(use, v) == use \in {"if", "NOT"} /\ v = "builtin"

\* Negating a constant true throws inside the optimizer.
Tests ==
  {p \in {"test"} \X {"constants", "variable"} \X {"if", "NOT", "NEGATE"} \X (DOMAIN Operands) :
     /\ p[2] = "constants" /\ p[3] = "NEGATE" => p[4] # "true"
     /\ ~FunctionTested(p[3], p[4])}

TestTree(form, use, v) ==
  LET e == IF form = "constants" THEN Operands[v] ELSE V("x")
  IN  <<T!Let("x", Operands[v])>> \o
        IF use = "if"
        THEN <<T!IfElse(T!Branch(e, T!Block(<<T!Println(N(1))>>)), <<>>,
                        <<T!Block(<<T!Println(N(2))>>)>>)>>
        ELSE <<T!Println(T!Unary(use, e))>>

Indexes == {"index"} \X {"get", "set"} \X (DOMAIN Operands) \X {"zero", "three", "minus_two", "a"}

IndexTree(use, v, w) ==
  <<T!Let("x", Operands[v])>> \o
    IF use = "get" THEN <<T!Println(T!Element(V("x"), Operands[w]))>>
    ELSE <<T!OperatorAssignment(T!Element(V("x"), Operands[w]), "ASSIGN", N(7)),
           T!Println(V("x"))>>

----------------------------------------------------------------------------
(* Builtins *)

Lists == [array |-> Array12, text |-> Text(<<"b", "a">>), nil |-> NilOf, number |-> N(3)]

\* A start in front of the list or behind the end is undefined, see slice_bounds.
Place(b) == IF b < 0 THEN b + 2 ELSE b
Crossed(from, to) == from <= to /\ Place(to) <= 2 /\ Place(from) \notin 0 .. Place(to)

Slices ==
  {p \in {"slice"} \X (DOMAIN Lists) \X (-3 .. 3) \X (-3 .. 3) : ~Crossed(p[3], p[4])}
Takes == {"take"} \X (DOMAIN Lists) \X (-3 .. 3)
Drops == {p \in {"drop"} \X (DOMAIN Lists) \X (-3 .. 3) : ~Crossed(p[3], 2)}

Ranges ==
  {"range"} \X (UNION {[1 .. n -> {-2, 0, 3}] : n \in 1 .. 2}
                  \cup {-1, 0, 2} \X {-2, 0, 3} \X {-2, -1, 0, 1, 2})

Ints == {"int"} \X {<<>>, <<"-">>, <<"1", "0">>, <<"-", "2">>, <<"a", "1">>, <<"1", "c">>}
                \X {<<>>, <<2>>, <<8>>, <<15>>}

\* any tests the function behind a false element.
FunctionInAny(name, list) == name = "any" /\ list = <<"zero", "builtin">>

\* By the documentation sum takes strings, too.
SumOfText(name, v) == name = "sum" /\ v \in Texts_

OnLists ==
  {p \in {"on_list"} \X {"len", "head", "tail", "sum", "all", "any", "id"}
           \X {<<>>, <<"zero">>, <<"three", "minus_two">>, <<"a", "ba">>, <<"array", "array">>,
               <<"three", "nil", "builtin">>, <<"zero", "builtin">>} : ~FunctionInAny(p[2], p[3])}
OnOperands ==
  {p \in {"on_operand"} \X {"len", "head", "tail", "sum", "id"} \X (DOMAIN Operands) :
     ~SumOfText(p[2], p[3])}

----------------------------------------------------------------------------
(* Evaluation: what is evaluated, how often and in which order.  t prints  *)
(* and returns its argument.                                               *)

Traced == Define("t", <<"n">>, <<T!Println(V("n"))>>, Returns(V("n")))
TracedTest(n) == T!FunctionCall("t", <<N(n)>>)

Chains ==
  {"chain"} \X [1 .. 3 -> 0 .. 1]
    \X {ops \in [1 .. 2 -> {"LESS", "LESS_EQUAL", "EQUAL", "NOT_EQUAL"}] : T!AddsComparison(ops)}
LongChains == {"chain"} \X [1 .. 4 -> 0 .. 1] \X {[i \in 1 .. 3 |-> "LESS_EQUAL"]}

ChainTree(ns, ops) ==
  <<Traced,
    T!Println(T!Comparison(TracedTest(ns[1]),
                           [i \in DOMAIN ops |-> T!Link(ops[i], TracedTest(ns[i + 1]))]))>>

Logicals == {"logical"} \X {"left", "right"} \X [1 .. 3 -> 0 .. 1] \X [1 .. 2 -> {"AND", "OR"}]

LogicalTree(side, ns, ops) ==
  LET t == [i \in 1 .. 3 |-> TracedTest(ns[i])]
      e == IF side = "left" THEN T!Logical(T!Logical(t[1], ops[1], t[2]), ops[2], t[3])
           ELSE T!Logical(t[1], ops[1], T!Logical(t[2], ops[2], t[3]))
  IN  <<Traced, T!Println(e), T!If(e, T!Block(<<T!Println(N(7))>>))>>

\* Conditions that exclude each other, so that their order does not matter; no
\* constant behind the expression, which would be folded with the last branch.
Elifs == {"elif"} \X {"statement", "expression"} \X (0 .. 4)

ElifTree(kind, x) ==
  LET Leaf(n) == IF kind = "statement" THEN T!Block(<<T!Println(N(n))>>) ELSE T!Gives(N(n))
      chosen == T!IfElse(T!Branch(Is("x", 0), Leaf(10)),
                         [n \in 1 .. 3 |-> T!Branch(Is("x", n), Leaf(10 + n))], <<Leaf(20)>>)
  IN  <<T!Let("x", N(x))>> \o
        IF kind = "statement" THEN <<chosen>>
        ELSE <<T!Println(T!Binary(V("x"), "ADD", chosen))>>

\* Arithmetic of three operands, each a constant or a variable.
Nested ==
  {"nested"} \X {"left", "right"} \X [1 .. 2 -> {"ADD", "SUBTRACT", "MULTIPLY", "DIVIDE"}]
    \X (SUBSET (1 .. 3)) \X {<<7, 2, 3>>, <<3, 5, 0>>, <<-7, 2, 2>>}

NestedTree(side, ops, constant, ns) ==
  LET names == <<"a", "b", "c">>
      e == [i \in 1 .. 3 |-> IF i \in constant THEN N(ns[i]) ELSE V(names[i])]
  IN  [i \in 1 .. 3 |-> T!Let(names[i], N(ns[i]))]
        \o <<T!Println(IF side = "left" THEN T!Binary(T!Binary(e[1], ops[1], e[2]), ops[2], e[3])
                       ELSE T!Binary(e[1], ops[1], T!Binary(e[2], ops[2], e[3])))>>

\* An if in an if, at its end or not, where any block may declare a variable.  At the
\* end of a block the pops of both scopes are merged, across the target of a jump.
MergedPops(atEnd, declaring) == atEnd /\ "else" \in declaring

Blocks ==
  {p \in {"block"} \X BOOLEAN \X (0 .. 1) \X (0 .. 1)
           \X (SUBSET {"outer", "then", "else", "otherwise"}) : ~MergedPops(p[2], p[5])}

BlockTree(atEnd, x, y, declaring) ==
  LET In(block, n) ==
        (IF block \in declaring THEN <<T!Let("t", N(n)), T!Println(V("t"))>> ELSE <<>>)
          \o <<T!Println(N(n + 10))>>
      inner == T!IfElse(T!Branch(V("y"), T!Block(In("then", 1))), <<>>, <<T!Block(In("else", 2))>>)
      outer == In("outer", 3) \o <<inner>> \o IF atEnd THEN <<>> ELSE <<T!Println(N(9))>>
  IN  <<T!Let("x", N(x)), T!Let("y", N(y)),
        T!IfElse(T!Branch(V("x"), T!Block(outer)), <<>>, <<T!Block(In("otherwise", 4))>>),
        T!Let("z", N(5)), T!Println(V("z")), T!Println(V("x"))>>

----------------------------------------------------------------------------
(* Loops *)

\* A break with locals on the stack, or out of a loop that keeps some there,
\* leaves them; a break or continue outside of loops is an error.
BreakKeepsLocals(loop, statement, ending) ==
  ending = "breaks" /\ (loop \in {"for", "range"} \/ statement \notin DOMAIN T!Effects)
NoLoop(loop, ending) == loop = "no" /\ ending \in {"breaks", "continues"}

Statements == T!Effects @@ T!Binders

Bodies ==
  {p \in {"body"} \X {"no", "while", "for", "range", "function"}
           \X (DOMAIN T!Conditions \ {"conjunction"}) \X (DOMAIN Statements) \X (DOMAIN T!Endings) :
     ~BreakKeepsLocals(p[2], p[4], p[5]) /\ ~NoLoop(p[2], p[5])}

BodyTree(loop, condition, statement, ending) ==
  T!Program(loop, T!Body(T!Add("x", N(1)), T!Conditions[condition], Statements[statement],
                         T!Endings[ending])).statements

\* A loop in a loop; "function" is a function called twice.  In the second round
\* each may go on with the next round or leave.
Kinds == {"while", "for", "range", "function"}
Turns == {"falls", "next", "leaves"}

\* What leaves a loop of two rounds in its first one, or ends the round.
Turn(kind, turn) ==
  CASE kind = "function" -> Returns(N(0))
    [] turn = "next" -> <<T!ContinueLoop>>
    [] turn = "leaves" -> <<T!BreakLoop>>

Leaving(kind, turn) == turn = "leaves" /\ kind # "while"
Nests ==
  {p \in {"nest"} \X Kinds \X Turns \X Kinds \X Turns :
     ~Leaving(p[2], p[3]) /\ ~Leaving(p[4], p[5])}

Rounds(kind, name, turn, inner) ==
  LET f == "f" \o name
      turned == IF turn = "falls" THEN <<>> ELSE <<When(Is(name, 1), Turn(kind, turn))>>
      body == <<T!Println(V(name))>> \o turned \o inner \o <<T!Println(N(0))>>
  IN  CASE kind = "while" ->
             <<T!Let(name, N(0)),
               T!While(T!Is2(V(name), "LESS", N(2)), T!Block(<<T!Add(name, N(1))>> \o body))>>
        [] kind = "for" -> <<T!ForEach(name, Array12, T!Block(body))>>
        [] kind = "range" -> <<T!RangeFor(name, N(1), N(2), TRUE, <<>>, T!Block(body))>>
        [] kind = "function" ->
             <<Define(f, <<name>>, body, <<>>), T!FunctionCall(f, <<N(1)>>),
               T!FunctionCall(f, <<N(2)>>)>>

\* The inner loop may leave a local in the outer one's block.
NestTree(outer, turn, inner, innerTurn) ==
  Rounds(outer, "i", turn, Rounds(inner, "j", innerTurn, <<>>)) \o <<T!Println(N(9))>>

RangeFors == {"range_for"} \X {0, 2} \X {-1, 0, 1, 3} \X {<<>>, <<1>>, <<2>>} \X BOOLEAN

----------------------------------------------------------------------------
(* Closures *)

\* inc, get and their owner share v: the owner writes it and calls them.  What the
\* closures wrote does not reach the owner, so it does not read v.
SharedStep(step, i) ==
  CASE step = "owner" -> T!Set("v", N(10 * i))
    [] step = "inc" -> PrintCall("inc", <<N(i)>>)
    [] step = "get" -> PrintCall("get", <<>>)

Shared == {"shared"} \X {"top", "function"} \X [1 .. 4 -> {"owner", "inc", "get"}]

SharedTree(place, steps) ==
  LET body ==
        <<T!Let("v", N(0)),
          T!Let("inc", Lambda(<<"d">>, <<T!Add("v", V("d"))>>, Returns(V("v")))),
          T!Let("get", Lambda(<<>>, <<>>, Returns(V("v"))))>>
          \o [i \in DOMAIN steps |-> SharedStep(steps[i], i)]
  IN  IF place = "top" THEN body
      ELSE <<Define("f", <<"a", "b">>, body, <<>>), T!FunctionCall("f", <<N(1), N(2)>>)>>

\* Two pairs of closures from one factory share nothing; the variable has outlived
\* its function, and one closure reaches it through another function.
Factories == {"factory"} \X [1 .. 4 -> {<<"inc", "p">>, <<"inc", "q">>, <<"get", "q">>}]

FactoryTree(steps) ==
  LET Call(step) ==
        IF step[1] = "inc" THEN T!FunctionCall("inc_" \o step[2], <<N(1)>>)
        ELSE T!FunctionCall("get_" \o step[2], <<>>)
      Take(p, n) ==
        <<T!Let(p, T!FunctionCall("make", <<N(n)>>)),
          T!Let("inc_" \o p, T!Element(V(p), N(0))), T!Let("get_" \o p, T!Element(V(p), N(1)))>>
      inner == Lambda(<<"e">>, <<T!Add("v", V("e"))>>, Returns(V("v")))
  IN  <<Define("make", <<"v">>,
          <<T!Let("inc", Lambda(<<"d">>, <<T!Let("deeper", inner)>>,
                                Returns(T!FunctionCall("deeper", <<V("d")>>)))),
            T!Let("get", Lambda(<<>>, <<>>, Returns(V("v"))))>>,
          Returns(T!ArrayOf(<<V("inc"), V("get")>>)))>>
        \o Take("p", 10) \o Take("q", 20) \o [i \in DOMAIN steps |-> T!Println(Call(steps[i]))]

\* Functions that call each other, and a call, in any order: a function is
\* there from the start of its block, but nil until its definition.
Hoists == {"hoist"} \X {order \in [1 .. 3 -> 1 .. 3] : Cardinality({order[i] : i \in 1 .. 3}) = 3}
                    \X {"top", "function"}

HoistTree(order, place) ==
  LET Parity(name, other, n) ==
        Define(name, <<"n">>, <<When(Is("n", 0), Returns(N(n)))>>,
               Returns(T!FunctionCall(other, <<T!Binary(V("n"), "SUBTRACT", N(1))>>)))
      parts == <<Parity("even", "odd", 1), Parity("odd", "even", 0), PrintCall("even", <<N(3)>>)>>
      body == [i \in 1 .. 3 |-> parts[order[i]]]
  IN  IF place = "top" THEN body ELSE <<Define("f", <<>>, body, <<>>), T!FunctionCall("f", <<>>)>>

\* The arguments of a function of three parameters come in groups; what was
\* given before can be used again.
Groups == {<<3>>, <<1, 2>>, <<2, 1>>, <<1, 1, 1>>, <<4>>, <<1, 3>>, <<2, 2>>, <<0, 3>>, <<1, 0, 2>>}
Curries == {"curry"} \X {"plain", "closure"} \X Groups

CurryTree(kind, groups) ==
  LET n == Len(groups)
      Name(k) == <<"g0", "g1", "g2", "g3">>[k + 1]
      Call(k, first) ==
        T!FunctionCall(Name(k - 1), [i \in 1 .. groups[k] |-> N(first + 10 * k + i)])
      sum == T!Binary(V("a"), "ADD", T!Binary(N(2), "MULTIPLY", V("b")))
      value == T!Binary(sum, "SUBTRACT", IF kind = "closure" THEN V("base") ELSE V("c"))
  IN  <<T!Let("base", N(1)), Define("f", <<"a", "b", "c">>, <<T!Println(V("c"))>>, Returns(value)),
        T!Let("g0", V("f"))>>
        \o [k \in 1 .. n - 1 |-> T!Let(Name(k), Call(k, 0))]
        \o <<T!Println(Call(n, 0)), T!Println(Call(n, 100))>>

\* Builtins that call back, with closures that write what they share.  The stack is
\* made large before, so that it does not move while they hold their arguments.
\* A result of filter's or count's function that is a function itself is tested.
FunctionResult(name, f, ns) == name # "map" /\ f = "too_few" /\ ns # <<>>

CallBacks ==
  {p \in {"call_back"} \X {"map", "filter", "count"}
           \X {"adds", "selects", "fails", "too_few", "builtin", "number"}
           \X {<<>>, <<1>>, <<1, 2, 3>>} : ~FunctionResult(p[2], p[3], p[4])}

CallBackTree(name, f, ns) ==
  LET callee ==
        CASE f = "adds" -> Lambda(<<"d">>, <<T!Add("v", V("d"))>>, Returns(V("v")))
          [] f = "selects" ->
               Lambda(<<"d">>, <<T!Add("v", V("d"))>>, Returns(T!Is2(V("v"), "LESS", N(3))))
          [] f = "fails" ->
               Lambda(<<"d">>, <<T!Println(V("d"))>>, Returns(T!Element(V("pair"), V("d"))))
          [] f = "too_few" -> Lambda(<<"d", "e">>, <<>>, Returns(V("d")))
          [] f = "builtin" -> V("id")
          [] f = "number" -> N(1)
  IN  <<T!Println(T!ArrayOf([i \in 1 .. 12 |-> N(i)])), T!Let("pair", Array12), T!Let("v", N(0)), T!Let("f", callee),
        T!Let("r", T!FunctionCall(name, <<V("f"), T!ArrayOf([i \in DOMAIN ns |-> N(ns[i])])>>)),
        T!Println(V("r"))>>

\* The text of a string between its quotes.  A backslash that is escaped disappears.
LosesBackslash(text) ==
  \E k \in 1 .. 3 : text[k] = "backslash" /\ (k = 3 \/ text[k + 1] = "backslash")
Texts == {p \in {"text"} \X [1 .. 3 -> {"a", "n", "t", "backslash"}] : ~LosesBackslash(p[2])}

\* Names: shadowed in a block, declared again, captured before that.
Names == {"names"} \X {"shadowed", "again", "destructured", "short", "missing", "assigned_missing"}

NamesTree(kind) ==
  LET x == T!Println(V("x"))
  IN  CASE kind = "shadowed" ->
             <<T!Let("x", N(1)), T!If(T!True, T!Block(<<x, T!Let("x", N(2)), x, T!Add("x", N(1)), x>>)),
               x>>
        [] kind = "again" ->
             <<T!Let("x", N(1)), T!Let("f", Lambda(<<>>, <<>>, Returns(V("x")))), T!Let("x", N(2)),
               x, PrintCall("f", <<>>)>>
        [] kind = "destructured" ->
             <<T!Declaration(<<"x", "y">>, <<Array12>>), x, T!Println(V("y")),
               T!Declaration(<<"y", "z">>, <<>>), T!Println(V("z"))>>
        [] kind = "short" -> <<T!Declaration(<<"x", "y", "z">>, <<Array12>>), x>>
        [] kind = "missing" -> <<T!Println(V("x"))>>
        [] kind = "assigned_missing" -> <<T!Println(N(1)), T!Set("x", N(1))>>

\* Snapshot tests of the repository.
Snapshots ==
  [closures_stateful |-> T!ClosuresStatefulTree,
   closures_recursive_factory |-> T!ClosuresRecursiveFactoryTree,
   functions_closures |-> T!FunctionsClosuresTree, recursion_direct |-> T!RecursionDirectTree,
   mutable_references |-> T!MutableReferencesTree, nested_error |-> T!NestedErrorTree,
   chained_comparison |-> T!ChainedComparisonTree, range_for |-> T!RangeForTree,
   indexing_assignments |-> T!IndexingAssignmentsTree,
   comparisons_and_logic |-> T!ComparisonsAndLogicTree, control_flow |-> T!ControlFlowTree,
   expressions |-> T!ExpressionsTree]

----------------------------------------------------------------------------

Families ==
  Operators \cup Comparisons \cup Tests \cup Indexes \cup Slices \cup Takes \cup Drops
    \cup Ranges \cup Ints \cup OnLists \cup OnOperands \cup Chains \cup LongChains
    \cup Logicals \cup Elifs \cup Nested \cup Blocks \cup Bodies \cup Nests \cup RangeFors \cup Shared \cup Factories
    \cup Hoists \cup Curries \cup CallBacks \cup Texts \cup Names \cup {"snapshot"} \X (DOMAIN Snapshots)

StatementsOf(p) ==
  LET Numbers(ns) == [i \in DOMAIN ns |-> N(ns[i])]
  IN  CASE p[1] = "operator" -> OperatorTree(p[2], p[3], p[4], p[5])
        [] p[1] = "comparison" -> ComparisonTree(p[2], p[3], p[4])
        [] p[1] = "test" -> TestTree(p[2], p[3], p[4])
        [] p[1] = "index" -> IndexTree(p[2], p[3], p[4])
        [] p[1] = "slice" -> <<PrintCall("slice", <<Lists[p[2]], N(p[3]), N(p[4])>>)>>
        [] p[1] \in {"take", "drop"} -> <<PrintCall(p[1], <<Lists[p[2]], N(p[3])>>)>>
        [] p[1] = "range" -> <<PrintCall("range", Numbers(p[2]))>>
        [] p[1] = "int" -> <<PrintCall("int", <<Text(p[2])>> \o Numbers(p[3]))>>
        [] p[1] = "on_list" ->
             <<PrintCall(p[2], <<T!ArrayOf([i \in DOMAIN p[3] |-> Operands[p[3][i]]])>>)>>
        [] p[1] = "on_operand" -> <<PrintCall(p[2], <<Operands[p[3]]>>)>>
        [] p[1] = "chain" -> ChainTree(p[2], p[3])
        [] p[1] = "logical" -> LogicalTree(p[2], p[3], p[4])
        [] p[1] = "elif" -> ElifTree(p[2], p[3])
        [] p[1] = "nested" -> NestedTree(p[2], p[3], p[4], p[5])
        [] p[1] = "block" -> BlockTree(p[2], p[3], p[4], p[5])
        [] p[1] = "body" -> BodyTree(p[2], p[3], p[4], p[5])
        [] p[1] = "nest" -> NestTree(p[2], p[3], p[4], p[5])
        [] p[1] = "range_for" ->
             <<T!RangeFor("i", N(p[2]), N(p[3]), p[5], Numbers(p[4]),
                          T!Block(<<T!Println(V("i"))>>))>>
        [] p[1] = "shared" -> SharedTree(p[2], p[3])
        [] p[1] = "factory" -> FactoryTree(p[2])
        [] p[1] = "hoist" -> HoistTree(p[2], p[3])
        [] p[1] = "curry" -> CurryTree(p[2], p[3])
        [] p[1] = "call_back" -> CallBackTree(p[2], p[3], p[4])
        [] p[1] = "text" ->
             <<T!Let("x", T!StringLiteral(p[2])), T!Println(V("x")), PrintCall("len", <<V("x")>>)>>
        [] p[1] = "names" -> NamesTree(p[2])
        [] p[1] = "snapshot" -> Snapshots[p[2]].statements

\* Where the documentation asks for a TypeError and the code is known to report
\* another error: operands that do not match, an index that is negative besides
\* being one of something that has no elements (or is not writable), parts of what
\* is no list, and the call of a function that is still nil.
Disputed(p) ==
  CASE p[1] = "operator" /\ ~Matching(p[3], p[4], p[5]) -> {"UnsupportedOperation"}
    [] p[1] = "test" /\ p[3] = "NEGATE" /\ p[4] \notin Numbers_ -> {"UnsupportedOperation"}
    [] p[1] = "on_list" /\ p[2] = "sum" /\ "builtin" \in ToSet(p[3]) -> {"UnsupportedOperation"}
    [] p[1] = "index" /\ p[4] = "minus_two" -> {"ValueError"}
    [] p[1] \in {"slice", "take", "drop"} /\ p[2] \in {"nil", "number"} -> {"RuntimeError"}
    [] p[1] = "hoist" /\ p[2][3] # 3 -> {"RuntimeError"}
    [] OTHER -> {}

\* The collector may run once in every program without closures, which it does
\* not mark rightly (HeapGc).
NoClosures == Families \ (Shared \cup Factories \cup Hoists \cup Curries \cup CallBacks \cup Names
                           \cup {"snapshot"} \X (DOMAIN Snapshots))

MCSources ==
  LET Source(p) ==
        LET tree == T!Block(StatementsOf(p))
            meaning == M!Meaning(tree)
        IN  [tree |-> tree, listing |-> <<>>, meaning |-> meaning,
             disputed |-> IF meaning.result = "TypeError" THEN Disputed(p) ELSE {},
             collections |-> IF p \in NoClosures THEN 1 ELSE 0]
  IN  [p \in Families |-> Source(p)]
=============================================================================
