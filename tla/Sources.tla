------------------------------- MODULE Sources -------------------------------
(***************************************************************************)
(* Programs as syntax trees.  The first ones are those snapshot tests of   *)
(* test/snapshot/inputs whose bytecode Listings has, with the same         *)
(* deviations; the others are small programs put together from parts.      *)
(***************************************************************************)
EXTENDS Syntax

V(name) == Variable(name)
N(n) == Literal(Num(n))
S(s) == Literal(Str(<<s>>))
True == Literal(Bool(TRUE))
False == Literal(Bool(FALSE))
Let(name, e) == Declaration(<<name>>, <<e>>)
Set(name, e) == OperatorAssignment(V(name), "ASSIGN", e)
Add(name, e) == OperatorAssignment(V(name), "ADD", e)
Is2(lhs, op, rhs) == Comparison(lhs, <<Link(op, rhs)>>)
Apply(name, e) == FunctionCall(name, <<e>>)
Println(e) == FunctionCall("println", <<e>>)
If(condition, block) == IfElse(Branch(condition, block), <<>>, <<>>)
Gives(e) == BlockWith(<<>>, ReturnOf(<<e>>))

----------------------------------------------------------------------------
(* Snapshot tests *)

ClosuresStatefulTree ==
  Block(<<
    NamedFunction("make_counter", <<"start">>,
      BlockWith(<<Let("value", V("start"))>>,
        ReturnOf(<<Lambda(<<"delta">>,
          BlockWith(<<Add("value", V("delta"))>>, ReturnOf(<<V("value")>>)))>>))),
    Let("c1", Apply("make_counter", N(0))),
    Let("c2", Apply("make_counter", N(10))),
    Println(Apply("c1", N(1))), Println(Apply("c1", N(5))), Println(Apply("c2", N(2))),
    Println(Apply("c1", N(3))), Println(Apply("c2", N(1)))>>)

ClosuresRecursiveFactoryTree ==
  Block(<<
    NamedFunction("make_power", <<"exponent">>,
      BlockWith(<<
        NamedFunction("power", <<"base">>,
          BlockWith(<<
            If(Is2(V("exponent"), "EQUAL", N(0)), Gives(N(1))),
            If(Is2(V("exponent"), "EQUAL", N(1)), Gives(V("base"))),
            Let("prev", Apply("make_power", Binary(V("exponent"), "SUBTRACT", N(1))))>>,
            ReturnOf(<<Binary(V("base"), "MULTIPLY", Apply("prev", V("base")))>>)))>>,
        ReturnOf(<<V("power")>>))),
    Let("square", Apply("make_power", N(2))),
    Let("cube", Apply("make_power", N(3))),
    Println(Apply("square", N(5))), Println(Apply("cube", N(4)))>>)

FunctionsClosuresTree ==
  Block(<<
    NamedFunction("add", <<"a", "b">>, Gives(Binary(V("a"), "ADD", V("b")))),
    NamedFunction("curry_add", <<"a">>,
      Gives(Lambda(<<"b">>, Gives(Binary(V("a"), "ADD", V("b")))))),
    Let("add_five", Apply("curry_add", N(5))),
    Println(FunctionCall("add", <<N(2), N(3)>>)), Println(Apply("add_five", N(7))),
    Let("sum", N(0)),
    ForEach("n", ArrayOf(<<N(1), N(2), N(3), N(4)>>), Block(<<Add("sum", V("n"))>>)),
    Println(V("sum"))>>)

RecursionDirectTree ==
  LET Before(f, n) == Apply(f, Binary(V("n"), "SUBTRACT", N(n)))
  IN  Block(<<
        NamedFunction("factorial", <<"n">>,
          BlockWith(<<If(Is2(V("n"), "EQUAL", N(0)), Gives(N(1)))>>,
            ReturnOf(<<Binary(V("n"), "MULTIPLY", Before("factorial", 1))>>))),
        NamedFunction("fib", <<"n">>,
          BlockWith(<<If(Is2(V("n"), "LESS", N(2)), Gives(V("n")))>>,
            ReturnOf(<<Binary(Before("fib", 1), "ADD", Before("fib", 2))>>))),
        Println(Apply("factorial", N(2))), Println(Apply("fib", N(3)))>>)

MutableReferencesTree ==
  Block(<<
    NamedFunction("set_index", <<"arr", "idx", "value">>,
      Block(<<OperatorAssignment(Element(V("arr"), V("idx")), "ASSIGN", V("value"))>>)),
    Let("arr", ArrayOf(<<N(1), N(2), N(3)>>)),
    FunctionCall("set_index", <<V("arr"), N(0), N(99)>>),
    Println(V("arr"))>>)

NestedErrorTree ==
  LET Inner == Element(Element(V("nested"), N(1)), N(1))
  IN  Block(<<
        Let("nested", ArrayOf(<<ArrayOf(<<N(1), N(2)>>), ArrayOf(<<N(3), N(4)>>)>>)),
        Println(Inner), Println(Element(Inner, N(0))), Println(S("unreachable"))>>)

ChainedComparisonTree ==
  Block(<<
    NamedFunction("mid", <<>>,
      BlockWith(<<Println(S("mid called"))>>, ReturnOf(<<N(1)>>))),
    Println(Comparison(N(0), <<Link("LESS", FunctionCall("mid", <<>>)),
                               Link("LESS", N(2))>>))>>)

RangeForTree ==
  Block(<<
    Let("inclusive_sum", N(0)),
    RangeFor("i", N(0), N(6), TRUE, <<N(2)>>, Block(<<Add("inclusive_sum", V("i"))>>)),
    Println(V("inclusive_sum")),
    Let("exclusive_sum", N(0)),
    RangeFor("j", N(1), N(6), FALSE, <<>>, Block(<<Add("exclusive_sum", V("j"))>>)),
    Println(V("exclusive_sum"))>>)

IndexingAssignmentsTree ==
  LET At(name, i) == Element(V(name), N(i))
  IN  Block(<<
        Let("s", Literal(Str(<<"a","b","c","d","e">>))), Println(At("s", 0)), Println(At("s", 2)),
        Let("values", ArrayOf(<<N(1), N(2), N(3)>>)),
        OperatorAssignment(At("values", 0), "ADD", N(9)),
        OperatorAssignment(At("values", 1), "MULTIPLY", N(3)),
        Println(V("values")),
        Let("nested", ArrayOf(<<ArrayOf(<<N(10), N(11)>>), ArrayOf(<<N(20), N(21)>>)>>)),
        OperatorAssignment(Element(At("nested", 1), N(0)), "ASSIGN", N(99)),
        Println(V("nested"))>>)

ComparisonsAndLogicTree ==
  LET Equal == Is2(V("a"), "EQUAL", V("b"))
  IN  Block(<<
        Let("a", N(5)), Let("b", N(8)), Let("c", N(8)),
        Println(Comparison(N(0), <<Link("LESS", V("a")), Link("LESS", V("b"))>>)),
        Println(Equal), Println(Is2(V("b"), "EQUAL", V("c"))),
        Println(Logical(Unary("NOT", Equal), "AND",
                        Logical(Is2(V("b"), "EQUAL", V("c")), "OR",
                                Is2(V("a"), "GREATER", V("b"))))),
        Let("message", IfElse(Branch(Is2(V("a"), "LESS", V("b")), Gives(S("ok"))), <<>>,
                              <<Gives(S("bad"))>>)),
        Println(V("message"))>>)

ControlFlowTree ==
  LET Only(e) == Block(<<e>>)
  IN  Block(<<
        Let("a", N(2)), Let("b", N(5)),
        IfElse(Branch(Is2(V("a"), "LESS", V("b")), Only(Println(S("lt")))),
               <<Branch(Is2(V("a"), "EQUAL", V("b")), Only(Println(S("eq"))))>>,
               <<Only(Println(S("gt")))>>),
        Let("i", N(0)),
        While(Is2(V("i"), "LESS", N(4)),
          Block(<<
            If(Is2(V("i"), "EQUAL", N(1)), BlockWith(<<Add("i", N(1))>>, ContinueLoop)),
            If(Is2(V("i"), "EQUAL", N(3)), BlockWith(<<>>, BreakLoop)),
            Println(V("i")), Add("i", N(1))>>))>>)

ExpressionsTree ==
  Block(<<
    Let("x", Binary(N(1), "ADD", Binary(N(2), "MULTIPLY", Unary("NEGATE", N(3))))),
    Let("y", Binary(Binary(V("x"), "ADD", N(10)), "DIVIDE", N(2))),
    Let("z", N(42)), Let("w", N(314)),
    Println(V("x")), Println(V("y")), Println(V("z")), Println(V("w"))>>)

----------------------------------------------------------------------------
(* Programs from parts: in some kind of loop, a statement and an if whose  *)
(* branch has a statement and some end.                                    *)

Numbers == ArrayOf(<<N(1), N(2)>>)
XIsLess == Is2(V("x"), "LESS", N(3))

Conditions ==
  [compared |-> XIsLess,
   conjunction |-> Logical(Comparison(N(0), <<Link("LESS", V("x")), Link("LESS", N(3))>>),
                           "AND", V("pair")),
   always |-> True,
   never |-> Unary("NOT", True),
   folded |-> Is2(Binary(N(1), "ADD", N(2)), "EQUAL", Unary("NEGATE", N(3)))]

\* The ones that leave no local in their block, and the ones that do.
Effects ==
  [computes |-> Add("x", Binary(N(2), "MULTIPLY", N(3))),
   updates |-> OperatorAssignment(Element(V("pair"), N(0)), "ADD", N(1)),
   branches |-> IfElse(Branch(XIsLess, Block(<<Let("t", V("x")), Println(V("t"))>>)),
                       <<Branch(V("pair"), Block(<<Println(V("x"))>>))>>,
                       <<Block(<<Set("x", N(1))>>)>>)]

Binders ==
  [declares |-> Let("t", Binary(N(1), "ADD", N(2))),
   destructures |-> Declaration(<<"p", "q">>, <<V("pair")>>),
   captures |-> NamedFunction("f", <<"d">>,
     Block(<<Let("g", Lambda(<<>>, Gives(Binary(V("x"), "ADD", V("d"))))),
             Add("x", V("d"))>>))]

Endings ==
  [falls |-> <<>>, breaks |-> <<BreakLoop>>, continues |-> <<ContinueLoop>>,
   returns |-> <<ReturnOf(<<V("x")>>)>>]

\* The body of the loop ends with a call, behind the if.
Body(first, condition, second, ending) ==
  Block(<<first,
          If(condition, [statements |-> <<second>>, last |-> ending]),
          Println(V("x"))>>)

InLoop(loop, block) ==
  CASE loop = "no" -> <<If(V("pair"), block)>>
    [] loop = "while" -> <<While(XIsLess, block)>>
    [] loop = "for" -> <<ForEach("x", V("pair"), block)>>
    [] loop = "range" -> <<RangeFor("i", N(0), N(2), TRUE, <<>>, block)>>
    [] loop = "function" ->
         <<NamedFunction("h", <<"x">>, Block(<<While(XIsLess, block)>>)),
           FunctionCall("h", <<N(1)>>)>>

Program(loop, block) ==
  Block(<<Let("x", N(0)), Let("pair", Numbers)>> \o InLoop(loop, block) \o
        <<Let("y", V("x")), Println(V("y"))>>)

\* Two local functions of one name; one of them captures a variable.
SameNamesTree ==
  Block(<<
    NamedFunction("holds", <<"a">>,
      BlockWith(<<NamedFunction("get", <<>>, Gives(V("a")))>>, ReturnOf(<<V("get")>>))),
    NamedFunction("gives", <<"a">>,
      BlockWith(<<NamedFunction("get", <<>>, Gives(N(1)))>>, ReturnOf(<<V("get")>>))),
    Println(Apply("holds", N(2))), Println(Apply("gives", N(2)))>>)

----------------------------------------------------------------------------
(* What the compiler and the optimizer get wrong *)

\* The if of the listing in doc/main.tex, with c = 5 and a = b = 0.
ChainedConditionTree ==
  Block(<<
    Let("a", N(0)), Let("b", N(0)), Let("c", N(5)),
    IfElse(Branch(Logical(Comparison(N(0), <<Link("LESS_EQUAL", V("c")), Link("LESS", N(10))>>),
                          "AND",
                          Comparison(V("a"), <<Link("EQUAL", V("b")), Link("EQUAL", N(0))>>)),
                  Block(<<Println(N(1))>>)),
           <<>>, <<Block(<<Println(N(2))>>)>>)>>)

BreakTree ==
  Block(<<
    ForEach("x", Numbers, Block(<<If(XIsLess, BlockWith(<<>>, BreakLoop)), Println(V("x"))>>)),
    Let("y", N(7)),
    Println(V("y"))>>)
=============================================================================
