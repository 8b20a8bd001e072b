------------------------------ MODULE Listings ------------------------------
(***************************************************************************)
(* Programs as bytecode: snapshot tests of the repository, as listed in    *)
(* test/snapshot/expected/<name>/bytecode.txt (recursion with smaller      *)
(* numbers; currying with - for +, which tells arguments apart, and without *)
(* the part that converts to strings; the failing one with its index 1),   *)
(* and programs for callbacks, failing calls and the collector.            *)
(***************************************************************************)
EXTENDS Instructions

(* Instructions, named like the listings but shorter *)

O(op) == Plain(op)
K(i) == Constant(i)
L(i) == GetLocal(i)
SetL(i) == SetLocal(i)
G(i) == GetGlobal(i)
SetG(i) == SetGlobal(i)
U(i) == GetUpvalue(i)
SetU(i) == SetUpvalue(i)
Dup(i) == Duplicate(i)
Array(n) == MakeArray(n)
Call(n) == CallWith(n, TRUE)
Run(n) == CallWith(n, FALSE)
Unless(to, keepJump) == JumpIf(to, FALSE, keepJump)
Is(op) == Compares(op, FALSE)
IsKeep(op) == Compares(op, TRUE)
For(control, limit, body, inclusive, step) == ForLoop(control, limit, body, inclusive, step)
Closure_(i, captured) == MakeClosure(i, captured)
Local(i) == LocalSlot(i)
Outer(i) == OuterUpvalue(i)
Ret == Return

Name(s) == Str(<<s>>)
Function(chunk, name, arity) == Template(chunk, name, arity)
Nums(ns) == Vec([i \in DOMAIN ns |-> Num(ns[i])])
Table(ds) == [i \in 0 .. Len(ds) - 1 |-> ds[i + 1]]
Lines(ds) == [i \in DOMAIN ds |-> <<ds[i]>>]

\* A program that ends and one that fails; gc is the bound on collections.
Ends(gc, chunks, ds, lines) ==
  [chunks |-> chunks, constants |-> Table(ds), collections |-> gc, out |-> Lines(lines),
   result |-> "done", stacktrace |-> <<>>]
Fails(gc, chunks, ds, lines, kind, trace) ==
  [chunks |-> chunks, constants |-> Table(ds), collections |-> gc, out |-> Lines(lines),
   result |-> kind, stacktrace |-> trace]

----------------------------------------------------------------------------
(* Snapshot tests.  Where closures outlive the frames whose variables they  *)
(* capture, the collector would free those variables (see README): these    *)
(* run without it, as the small tests do.                                   *)

ClosuresStateful ==
  Ends(0,
    << <<K(0), K(2), SetL(0), L(0), K(3), Call(1), L(0), K(4), Call(1),
         G(5), L(1), K(6), Call(1), Run(1), G(5), L(1), K(7), Call(1), Run(1),
         G(5), L(2), K(8), Call(1), Run(1), G(5), L(1), K(9), Call(1), Run(1),
         G(5), L(2), K(6), Call(1), Run(1), K(0), Ret>>,
       <<L(0), Closure_(1, <<Local(1)>>), Ret>>,
       <<U(0), L(0), O("ADD"), SetU(0), U(0), Ret>> >>,
    <<Nil, Function(2, "<anonymous>", 1), Function(1, "make_counter", 1), Num(0), Num(10),
      Name("println"), Num(1), Num(5), Num(2), Num(3)>>,
    <<Num(1), Num(6), Num(12), Num(9), Num(13)>>)

ClosuresRecursiveFactory ==
  Ends(0,
    << <<K(0), Closure_(4, <<Local(0)>>), SetL(0), L(0), K(5), Call(1), L(0), K(6), Call(1),
         G(7), L(1), K(8), Call(1), Run(1), G(7), L(2), K(9), Call(1), Run(1), K(0), Ret>>,
       <<K(0), Closure_(3, <<Local(0), Outer(0)>>), SetL(1), L(1), Ret>>,
       <<U(0), K(1), Is("EQUAL"), Unless(6, FALSE), K(2), Ret,
         U(0), K(2), Is("EQUAL"), Unless(12, FALSE), L(0), Ret,
         U(1), U(0), K(2), O("SUBTRACT"), Call(1), L(0), L(1), L(0), Call(1),
         O("MULTIPLY"), Ret>> >>,
    <<Nil, Num(0), Num(1), Function(2, "power", 1), Function(1, "make_power", 1), Num(2),
      Num(3), Name("println"), Num(5), Num(4)>>,
    <<Num(25), Num(64)>>)

Currying ==
  Ends(2,
    << <<K(0), K(0), K(1), SetL(0), L(0), K(2), Call(1), L(2), K(3), Call(1),
         G(4), L(3), K(5), Call(1), Run(1), L(0), K(6), Call(1),
         G(4), L(4), K(7), K(8), Call(2), Run(1), K(0), Ret>>,
       <<L(0), L(1), O("SUBTRACT"), L(2), O("SUBTRACT"), Ret>> >>,
    <<Nil, Function(1, "sub3", 3), Num(2), Num(3), Name("println"), Num(4), Num(10), Num(20),
      Num(30)>>,
    <<Num(-5), Num(-40)>>)

FunctionsClosures ==
  Ends(0,
    << <<K(0), K(0), K(1), SetL(0), K(3), SetL(1), L(1), K(4), Call(1),
         G(5), L(0), K(6), K(7), Call(2), Run(1), G(5), L(2), K(8), Call(1), Run(1),
         K(9), K(10), K(6), K(7), K(11), Array(4), G(12), L(4), Call(1), K(13), Jump(39),
         L(4), L(6), O("GET_INDEX"), L(3), L(7), O("ADD"), SetL(3), Pop(1),
         For(6, 5, 31, FALSE, -1), Pop(3), G(5), L(3), Run(1), K(0), Ret>>,
       <<L(0), L(1), O("ADD"), Ret>>,
       <<Closure_(2, <<Local(0)>>), Ret>>,
       <<U(0), L(0), O("ADD"), Ret>> >>,
    <<Nil, Function(1, "add", 2), Function(3, "<anonymous>", 1), Function(2, "curry_add", 1),
      Num(5), Name("println"), Num(2), Num(3), Num(7), Num(0), Num(1), Num(4), Name("len"),
      Num(-1)>>,
    <<Num(5), Num(12), Num(10)>>)

NestedError ==
  Fails(2,
    << <<K(0), K(1), Array(2), K(2), K(3), Array(2), Array(2),
         G(4), L(0), K(0), O("GET_INDEX"), K(0), O("GET_INDEX"), Run(1),
         G(4), L(0), K(0), O("GET_INDEX"), K(0), O("GET_INDEX"), K(5), O("GET_INDEX"),
         Run(1), G(4), K(6), Run(1), K(7), Ret>> >>,
    <<Num(1), Num(2), Num(3), Num(4), Name("println"), Num(0), Name("unreachable"), Nil>>,
    <<Num(4)>>, "TypeError", << <<0, 22>> >>)

RecursionDirect ==
  Ends(2,
    << <<K(0), K(0), Closure_(3, <<Local(0)>>), SetL(0), Closure_(5, <<Local(1)>>), SetL(1),
         G(6), L(0), K(4), Call(1), Run(1), G(6), L(1), K(7), Call(1), Run(1), K(0), Ret>>,
       <<L(0), K(1), Is("EQUAL"), Unless(6, FALSE), K(2), Ret,
         L(0), U(0), L(0), K(2), O("SUBTRACT"), Call(1), O("MULTIPLY"), Ret>>,
       <<L(0), K(4), Is("LESS"), Unless(6, FALSE), L(0), Ret,
         U(0), L(0), K(2), O("SUBTRACT"), Call(1), U(0), L(0), K(4), O("SUBTRACT"), Call(1),
         O("ADD"), Ret>> >>,
    <<Nil, Num(0), Num(1), Function(1, "factorial", 1), Num(2), Function(2, "fib", 1),
      Name("println"), Num(3)>>,
    <<Num(2), Num(2)>>)

MutableReferences ==
  Ends(2,
    << <<K(0), K(1), SetL(0), K(2), K(3), K(4), Array(3), L(0), L(1), K(5), K(6), Run(3),
         G(7), L(1), Run(1), K(0), Ret>>,
       <<L(0), L(1), L(2), O("SET_INDEX"), K(0), Ret>> >>,
    <<Nil, Function(1, "set_index", 3), Num(1), Num(2), Num(3), Num(0), Num(99),
      Name("println")>>,
    <<Nums(<<99, 2, 3>>)>>)

ChainedComparison ==
  Ends(2,
    << <<K(0), K(4), SetL(0), G(1), K(5), L(0), Call(0), IsKeep("LESS"), Unless(12, TRUE),
         K(6), Is("LESS"), Jump(14), Pop(2), K(7), Run(1), K(0), Ret>>,
       <<G(1), K(2), Run(1), K(3), Ret>> >>,
    <<Nil, Name("println"), Name("mid called"), Num(1), Function(1, "mid", 0), Num(0), Num(2),
      Bool(FALSE)>>,
    <<Name("mid called"), Bool(TRUE)>>)

RangeFor ==
  Ends(2,
    << <<K(0), K(0), K(1), K(2), L(1), L(3), O("SUBTRACT"), SetL(1), Jump(15),
         L(1), L(0), L(4), O("ADD"), SetL(0), Pop(1), For(1, 2, 9, TRUE, 3), Pop(3),
         G(3), L(0), Run(1),
         K(0), K(4), K(1), K(4), L(2), L(4), O("SUBTRACT"), SetL(2), Jump(35),
         L(2), L(1), L(5), O("ADD"), SetL(1), Pop(1), For(2, 3, 29, FALSE, 4), Pop(3),
         G(3), L(1), Run(1), K(5), Ret>> >>,
    <<Num(0), Num(6), Num(2), Name("println"), Num(1), Nil>>,
    <<Num(12), Num(15)>>)

IndexingAssignments ==
  Ends(2,
    << <<K(0), G(1), L(0), K(2), O("GET_INDEX"), Run(1), G(1), L(0), K(3), O("GET_INDEX"),
         Run(1), K(4), K(3), K(5), Array(3),
         L(1), K(2), Dup(1), Dup(1), O("GET_INDEX"), K(6), O("ADD"), O("SET_INDEX"),
         L(1), K(4), Dup(1), Dup(1), O("GET_INDEX"), K(5), O("MULTIPLY"), O("SET_INDEX"),
         G(1), L(1), Run(1), K(7), K(8), Array(2), K(9), K(10), Array(2), Array(2),
         L(2), K(4), O("GET_INDEX"), K(2), K(11), O("SET_INDEX"), G(1), L(2), Run(1),
         K(12), Ret>> >>,
    <<Str(<<"a", "b", "c", "d", "e">>), Name("println"), Num(0), Num(2), Num(1), Num(3),
      Num(9), Num(10), Num(11), Num(20), Num(21), Num(99), Nil>>,
    <<Str(<<"a">>), Str(<<"c">>), Nums(<<10, 6, 3>>),
      Vec(<<Nums(<<10, 11>>), Nums(<<99, 21>>)>>)>>)

ComparisonsAndLogic ==
  Ends(1,
    << <<K(0), K(1), K(1), G(2), K(3), L(0), IsKeep("LESS"), Unless(11, TRUE), L(1), Is("LESS"),
         Jump(13), Pop(2), K(4), Run(1), G(2), L(0), L(1), Is("EQUAL"), Run(1),
         G(2), L(1), L(2), Is("EQUAL"), Run(1), G(2), L(0), L(1), Is("EQUAL"), O("NOT"),
         Unless(37, TRUE), L(1), L(2), Is("EQUAL"), JumpIf(37, TRUE, TRUE), L(0), L(1),
         Is("GREATER"), Run(1), L(0), L(1), Is("LESS"), Unless(44, FALSE), K(5), Jump(45), K(6),
         G(2), L(3), Run(1), K(7), Ret>> >>,
    <<Num(5), Num(8), Name("println"), Num(0), Bool(FALSE), Name("ok"), Name("bad"), Nil>>,
    <<Bool(TRUE), Bool(FALSE), Bool(TRUE), Bool(TRUE), Name("ok")>>)

ControlFlow ==
  Ends(1,
    << <<K(0), K(1), L(0), L(1), Is("LESS"), Unless(10, FALSE), G(2), K(3), Run(1), Jump(21),
         L(0), L(1), Is("EQUAL"), Unless(18, FALSE), G(2), K(4), Run(1), Jump(21),
         G(2), K(5), Run(1), K(6), L(2), K(7), Is("LESS"), Unless(48, FALSE),
         L(2), K(8), Is("EQUAL"), Unless(35, FALSE), L(2), K(8), O("ADD"), SetL(2), Jump(22),
         L(2), K(9), Is("EQUAL"), Unless(40, FALSE), Jump(48), G(2), L(2), Run(1),
         L(2), K(8), O("ADD"), SetL(2), Jump(22), K(10), Ret>> >>,
    <<Num(2), Num(5), Name("println"), Name("lt"), Name("eq"), Name("gt"), Num(0), Num(4),
      Num(1), Num(3), Nil>>,
    <<Name("lt"), Num(0), Num(2)>>)

\* With integers for the two floats.
Expressions ==
  Ends(1,
    << <<K(10), L(0), K(3), O("ADD"), K(1), O("DIVIDE"), K(4), K(5), G(6), L(0), Run(1),
         G(6), L(1), Run(1), G(6), L(2), Run(1), G(6), L(3), Run(1), K(7), Ret>> >>,
    <<Num(1), Num(2), Num(3), Num(10), Num(42), Num(314), Name("println"), Nil, Num(-3),
      Num(-6), Num(-5)>>,
    <<Num(-5), Num(2), Num(42), Num(314)>>)

----------------------------------------------------------------------------
(* Callbacks, builtins and the collector.  The array of nine makes the      *)
(* stack's storage large enough to stay where it is during the callbacks.   *)

Callbacks ==
  Ends(2,
    << <<K(0), K(1), K(2), K(3), K(4), K(5), K(6), K(7), K(8), Array(9),
         G(9), G(10), K(18), G(15), L(0), K(1), Call(2), Call(2), Run(1),
         G(9), G(11), K(19), G(17), L(0), K(0), K(3), Call(3), Call(2), Run(1),
         G(9), G(12), K(19), G(16), L(0), K(6), Call(2), Call(2), Run(1),
         G(9), G(13), G(10), G(14), G(15), L(0), K(1), Call(2), Call(2), Call(1), Run(1),
         G(9), G(22), G(10), K(20), G(15), L(0), K(1), Call(2), Call(2), Call(1), Run(1),
         K(21), Ret>>,
       <<L(0), L(0), O("ADD"), Ret>>,
       <<L(0), K(2), Is("LESS"), Ret>>,
       <<L(0), L(1), O("SUBTRACT"), Ret>> >>,
    <<Num(1), Num(2), Num(3), Num(4), Num(5), Num(6), Num(7), Num(8), Num(9),
      Name("println"), Name("map"), Name("filter"), Name("count"), Name("sum"), Name("id"),
      Name("take"), Name("drop"), Name("slice"), Function(1, "double", 1),
      Function(2, "small", 1), Function(3, "sub2", 2), Nil, Name("len")>>,
    <<Nums(<<2, 4>>), Nums(<<2>>), Num(0), Num(3), Num(2)>>)

Containers ==
  [Fails(2,
    << <<K(0), K(1), Array(2), G(4), G(5), L(0), Call(1), Run(1),
         G(4), G(6), K(11), Call(1), Run(1), G(4), G(7), L(0), Call(1), G(8), L(0), Call(1),
         Run(2), G(4), G(9), K(0), K(2), K(3), Call(3), Run(1), G(10), K(0), O("NOT"),
         O("NOT"), Run(1), G(4), K(2), K(3), O("POWER"), O("NEGATE"), Run(1),
         G(10), K(1), Run(1), K(12), Ret>> >>,
    <<Num(1), Num(0), Num(6), Num(2), Name("println"), Name("head"), Name("tail"),
      Name("all"), Name("any"), Name("range"), Name("assert"), Str(<<"a", "b">>), Nil>>,
    <<>>, "RuntimeError", << <<0, 42>> >>)
   EXCEPT !.out = << <<Vec(<<Num(1), Nums(<<0>>)>>)>>, <<Vec(<<Str(<<"a">>), Str(<<"b">>)>>)>>,
                     <<Bool(FALSE), Bool(TRUE)>>, <<Nums(<<1, 3, 5>>)>>, <<Num(-36)>> >>]

\* A cycle of two arrays becomes garbage, another array stays.
GarbageCycle ==
  Ends(2,
    << <<K(1), Array(1), L(0), Array(1), L(0), K(0), L(1), O("SET_INDEX"),
         K(3), SetL(0), K(3), SetL(1), K(1), Array(1), Array(1), G(4), Run(0),
         G(2), L(2), Run(1), K(3), Ret>> >>,
    <<Num(0), Num(7), Name("println"), Nil, Name("__trigger_gc")>>,
    <<Vec(<<Nums(<<7>>)>>)>>)

\* A captured variable is assigned to after the closure was made.
CapturedArray ==
  Ends(2,
    << <<K(0), Array(1), Closure_(1, <<Local(0)>>), K(2), Array(1), SetL(0),
         G(3), L(1), Call(0), Run(1), K(4), Ret>>,
       <<U(0), Ret>> >>,
    <<Num(1), Function(1, "get", 0), Num(2), Name("println"), Nil>>,
    <<Nums(<<2>>)>>)

\* One closure assigns a new array to the variable, another reads it; only the
\* variable's cell refers to that array.
ReplacedArray ==
  Ends(2,
    << <<K(0), Array(1), Closure_(1, <<Local(0)>>), Closure_(2, <<Local(0)>>),
         L(1), Run(0), G(4), L(2), Call(0), Run(1), K(5), Ret>>,
       <<K(3), Array(1), SetU(0), K(5), Ret>>,
       <<U(0), Ret>> >>,
    <<Num(1), Function(1, "set", 0), Function(2, "get", 0), Num(2), Name("println"), Nil>>,
    <<Nums(<<2>>)>>)

\* len = 5 changes nothing.
AssignGlobal ==
  Ends(2,
    << <<K(0), SetG(1), G(2), G(1), K(0), Array(1), Call(1), Run(1), K(3), Ret>> >>,
    <<Num(5), Name("len"), Name("println"), Nil>>,
    <<Num(1)>>)

\* Binary search for 1 in [1, 3, 5].
BinarySearch ==
  Ends(1,
    << <<K(0), K(1), K(2), Array(3), K(3), K(1),
         L(1), L(2), Is("LESS"), Unless(30, FALSE),
         L(1), L(2), O("ADD"), K(4), O("DIVIDE"),
         L(0), L(3), O("GET_INDEX"), K(0), Is("LESS"), Unless(26, FALSE),
         L(3), K(0), O("ADD"), SetL(1), Jump(28), L(3), SetL(2), Pop(1), Jump(6),
         G(5), L(1), Run(1), K(6), Ret>> >>,
    <<Num(1), Num(3), Num(5), Num(0), Num(2), Name("println"), Nil>>,
    <<Num(0)>>)

----------------------------------------------------------------------------
(* Errors in and around calls *)

CallMismatch ==
  Fails(2,
    << <<K(0), K(2), Call(1), Pop(1), K(3), Ret>>, <<K(1), L(0), L(0), Call(2), Ret>>,
       <<L(0), Ret>> >>,
    <<Function(1, "f", 1), Function(2, "g", 1), Num(1), Nil>>,
    <<>>, "RuntimeError", << <<1, 4>>, <<"f", <<0, 3>>>> >>)

UndefinedName ==
  Fails(2,
    << <<K(0), Call(0), Ret>>, <<K(1), Array(1), G(2), Ret>> >>,
    <<Function(1, "f", 0), Num(1), Name("nothing")>>,
    <<>>, "UndefinedVariableError", << <<1, 3>>, <<"f", <<0, 2>>>> >>)

\* map or filter, called with a function and [1]
CallBack(builtin, f, body, kind, trace) ==
  Fails(2,
    << <<G(0), K(1), K(2), Array(1), Call(2), Ret>>, body >>,
    <<Name(builtin), f, Num(1), Nil>>, <<>>, kind, trace)

CallbackFails ==
  CallBack("map", Function(1, "f", 1), <<L(0), K(3), O("ADD"), Ret>>, "UnsupportedOperation",
           << <<1, 3>>, <<"f", <<-1, -1>>>> >>)

CallbackMismatch ==
  CallBack("map", Function(1, "f", 0), <<K(3), Ret>>, "RuntimeError", << <<0, 5>> >>)

\* A function has no truth value.
FilterPartial ==
  CallBack("filter", Function(1, "f", 2), <<K(3), Ret>>, "TypeError", << <<0, 5>> >>)
FilterFunction ==
  CallBack("filter", Function(1, "f", 1), <<K(1), Ret>>, "TypeError", << <<0, 5>> >>)

\* filter with a builtin and nothing that is kept
FilterNone ==
  Ends(2,
    << <<G(0), G(1), G(2), K(3), K(4), Array(2), Call(2), Run(1), K(5), Ret>> >>,
    <<Name("println"), Name("filter"), Name("id"), Num(0), Bool(FALSE), Nil>>,
    <<Nums(<<>>)>>)

\* map in a program that has used little of the stack.
SmallStackMap ==
  Ends(0,
    << <<G(1), K(2), K(3), K(4), Array(2), Call(2), G(0), L(0), Run(1), K(5), Ret>>,
       <<L(0), L(0), O("ADD"), Ret>> >>,
    <<Name("println"), Name("map"), Function(1, "double", 1), Num(1), Num(2), Nil>>,
    <<Nums(<<2, 4>>)>>)

----------------------------------------------------------------------------
(* Programs that show what the code does differently *)

\* let fs = [nil, nil]
\* for i in 0..2 do fs[i] = fn() return i end end
\* let f = fs[1]  println(f())
ClosuresInLoop ==
  [closures_in_loop |->
    Ends(0,
      << <<K(0), K(0), Array(2), K(1), K(2), K(3), L(1), L(3), O("SUBTRACT"), SetL(1), Jump(17),
           L(1), L(0), L(4), Closure_(4, <<Local(4)>>), O("SET_INDEX"), Pop(1),
           For(1, 2, 11, FALSE, 3), Pop(3), L(0), K(3), O("GET_INDEX"),
           G(5), L(1), Call(0), Run(1), K(0), Ret>>,
         <<U(0), Ret>> >>,
      <<Nil, Num(0), Num(2), Num(1), Function(1, "<anonymous>", 0), Name("println")>>,
      <<Num(1)>>)]

SmallMap == [small_stack_map |-> SmallStackMap]
=============================================================================
