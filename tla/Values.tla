------------------------------- MODULE Values -------------------------------
(***************************************************************************)
(* The values of the Lang3 runtime: StackValue, HeapData and the           *)
(* operations of heap_data.cpp and primitive.cpp on them.                  *)
(*                                                                         *)
(* A value is a tuple whose first element is its alternative.  A           *)
(* StackValue is nil, a bool, an int or a pointer, to a cell of the heap or *)
(* to a constant of the program; what a pointer leads to is a string, an   *)
(* array of StackValues or a function.  Floats are left out.  Integers are *)
(* unbounded here and 64 bits wide in the code, where overflow is          *)
(* undefined; no program of the instances comes near that.                 *)
(***************************************************************************)
EXTENDS Integers, SequencesExt

Nil == <<"nil">>
Bool(b) == <<"bool", b>>
Num(n) == <<"int", n>>
Cell(c) == <<"cell", c>>
Const(i) == <<"const", i>>

Str(chars) == <<"str", chars>>
Vec(elements) == <<"vec", elements>>
Fun(f) == <<"fun", f>>           \* a BytecodeFunction
Builtin(name) == <<"builtin", name>>

Free == <<"free">>               \* an address that holds nothing
Error(kind) == <<"error", kind>> \* the exception an operation throws
Undefined == Error("undefined")  \* what it does is undefined behaviour

IsA(type, d) == d[1] = type
Failed(d) == IsA("error", d)
IsPrimitive(v) == v[1] \in {"bool", "int"}
IsPointer(v) == v[1] \in {"cell", "const"}
IsStackValue(v) == v = Nil \/ IsPrimitive(v) \/ IsPointer(v)
IsFunction(d) == d[1] \in {"fun", "builtin"}
IsContainer(d) == d[1] \in {"str", "vec"}

\* What a StackValue stands for, given the heap and the program's constants.
Deref(mem, v) ==
  IF IsA("cell", v) THEN mem.heap[v[2]]
  ELSE IF IsA("const", v) THEN mem.constants[v[2]]
  ELSE v

\* The StackValues inside a value's representation, and the upvalue cells.
ValuesIn(d) ==
  IF IsA("vec", d) THEN ToSet(d[2])
  ELSE IF IsA("fun", d) THEN ToSet(d[2].curried)
  ELSE {}
UpvaluesIn(d) == IF IsA("fun", d) THEN ToSet(d[2].upvals) ELSE {}

----------------------------------------------------------------------------
(* Truth *)

\* is_truthy: functions have no truth value, and what an erased cell holds is
\* undefined.
Truthy(d) ==
  CASE IsA("bool", d) -> d
    [] IsA("int", d) -> Bool(d[2] # 0)
    [] IsA("nil", d) -> Bool(FALSE)
    [] IsContainer(d) -> Bool(d[2] # <<>>)
    [] IsFunction(d) -> Error("TypeError")
    [] d = Free -> Undefined

NotOp(d) == LET t == Truthy(d) IN IF Failed(t) THEN t ELSE Bool(~t[2])

----------------------------------------------------------------------------
(* Arithmetic *)

ArithmeticOps == {"ADD", "SUBTRACT", "MULTIPLY", "DIVIDE", "MODULO", "POWER"}

\* Integer division of C++ rounds towards zero.
Quotient(m, n) ==
  LET Abs(k) == IF k < 0 THEN -k ELSE k
      q == Abs(m) \div Abs(n)
  IN  IF (m < 0) = (n < 0) THEN q ELSE -q

\* The loop of pow_op: 1 for an exponent that is not positive.
Power(m, n) == FoldLeft(LAMBDA result, i : result * m, 1, [i \in 1 .. n |-> i])

\* On two integers.
IntegerOp(op, m, n) ==
  CASE op = "ADD" -> Num(m + n)
    [] op = "SUBTRACT" -> Num(m - n)
    [] op = "MULTIPLY" -> Num(m * n)
    [] op = "DIVIDE" ->
         IF n = 0 THEN Error("UnsupportedOperation") ELSE Num(Quotient(m, n))
    [] op = "MODULO" -> IF n = 0 THEN Undefined ELSE Num(m - n * Quotient(m, n))
    [] op = "POWER" -> Num(Power(m, n))

\* multiply_container: s, count times.
Repeated(s, count) ==
  [i \in 1 .. count * Len(s) |-> s[((i - 1) % Len(s)) + 1]]

MultiplyContainer(d, count) ==
  IF IsA("int", count) /\ count[2] > 0
  THEN <<d[1], Repeated(d[2], count[2])>>
  ELSE Error("UnsupportedOperation")

\* add, sub, mul, div, mod, pow
Arithmetic(op, a, b) ==
  CASE IsA("int", a) /\ IsA("int", b) -> IntegerOp(op, a[2], b[2])
    [] op = "ADD" /\ IsContainer(a) /\ a[1] = b[1] -> <<a[1], a[2] \o b[2]>>
    [] op = "MULTIPLY" /\ IsContainer(a) /\ IsPrimitive(b) -> MultiplyContainer(a, b)
    [] op = "MULTIPLY" /\ IsPrimitive(a) /\ IsContainer(b) -> MultiplyContainer(b, a)
    [] OTHER -> Error("UnsupportedOperation")

Negative(d) == IF IsA("int", d) THEN Num(-d[2]) ELSE Error("UnsupportedOperation")

----------------------------------------------------------------------------
(* Indexing *)

IndexError(container, index) ==
  IF ~IsA("int", index) THEN Error("TypeError")
  ELSE IF index[2] < 0 THEN Error("ValueError")
  ELSE IF ~IsContainer(container) THEN Error("TypeError")
  ELSE IF index[2] >= Len(container[2]) THEN Error("ValueError")
  ELSE Nil

\* index: an element of an array, or a new one-character string.
Index(container, index) ==
  LET e == IndexError(container, index)
      i == index[2] + 1
  IN  IF Failed(e) THEN e
      ELSE IF IsA("vec", container) THEN container[2][i]
      ELSE Str(<<container[2][i]>>)

\* index_mut accepts arrays only.
IndexMutError(container, index) ==
  IF IsA("str", container) /\ IsA("int", index) /\ index[2] >= 0
  THEN Error("TypeError")
  ELSE IndexError(container, index)

\* Mutant: the bounds are compared after the size was added.
SliceBoundsLate(size, start, end) ==
  LET FromEnd(k) == IF k < 0 THEN k + size ELSE k
      first == FromEnd(IF start = Nil THEN 0 ELSE start[2])
      last == FromEnd(IF end = Nil THEN size ELSE end[2])
  IN  IF first > last \/ last > size THEN Error("ValueError") ELSE <<"bounds", first, last>>

\* slice_bounds; Nil stands for a bound that is not given.
SliceBounds(size, start, end) ==
  LET first == IF start = Nil THEN 0 ELSE start[2]
      last == IF end = Nil THEN size ELSE end[2]
      FromEnd(k) == IF k < 0 THEN k + size ELSE k
  IN  IF first > last \/ FromEnd(last) > size \/ FromEnd(first) > size
      THEN Error("ValueError")
      ELSE <<"bounds", FromEnd(first), FromEnd(last)>>

\* HeapData::slice with the bounds.  Those in front of the container, or in the
\* wrong order: iterators that make no range, or what std::string::substr does.
Sliced(d, first, last) ==
  IF 0 <= first /\ first <= last THEN <<d[1], SubSeq(d[2], first + 1, last)>>
  ELSE IF IsA("vec", d) THEN Undefined
  ELSE IF first < 0 THEN Error("out_of_range")
  ELSE Str(SubSeq(d[2], first + 1, Len(d[2])))

\* StackValue::slice
Slice(d, start, end) ==
  LET bounds == SliceBounds(Len(d[2]), start, end)
  IN  IF IsFunction(d) THEN Error("TypeError")
      ELSE IF ~IsContainer(d) THEN Error("RuntimeError")
      ELSE IF Failed(bounds) THEN bounds
      ELSE Sliced(d, bounds[2], bounds[3])

----------------------------------------------------------------------------
(* Text *)

DigitsLower == <<"0", "1", "2", "3", "4", "5", "6", "7", "8", "9", "a", "b", "c", "d", "e">>
DigitsUpper == <<"0", "1", "2", "3", "4", "5", "6", "7", "8", "9", "A", "B", "C", "D">>

\* The numeral of a natural number, as std::format writes it.
Numeral[n \in Nat] ==
  (IF n < 10 THEN <<>> ELSE Numeral[n \div 10]) \o <<DigitsLower[(n % 10) + 1]>>

\* The values a character has as a digit in some base.
ValuesOfDigit(char, base) ==
  {v \in 0 .. base - 1 :
     \/ v + 1 \in DOMAIN DigitsLower /\ DigitsLower[v + 1] = char
     \/ v + 1 \in DOMAIN DigitsUpper /\ DigitsUpper[v + 1] = char}

\* std::from_chars: a sign and the longest row of digits; what follows is ignored.
FromChars(chars, base) ==
  LET signed == chars # <<>> /\ chars[1] = "-"
      rest == IF signed THEN Tail(chars) ELSE chars
      wrong == {i \in DOMAIN rest : ValuesOfDigit(rest[i], base) = {}}
      count == IF wrong = {} THEN Len(rest) ELSE (CHOOSE i \in wrong : \A j \in wrong : i <= j) - 1
      Shift(total, char) == base * total + (CHOOSE v \in ValuesOfDigit(char, base) : TRUE)
      number == FoldLeft(Shift, 0, SubSeq(rest, 1, count))
  IN  IF count = 0 THEN Error("RuntimeError") ELSE Num(IF signed THEN -number ELSE number)

----------------------------------------------------------------------------
(* Order *)

CompareOps == {"EQUAL", "NOT_EQUAL", "LESS", "LESS_EQUAL", "GREATER", "GREATER_EQUAL"}

\* The order of two numbers, as std::partial_ordering.
OrderOf(m, n) == IF m < n THEN "less" ELSE IF m = n THEN "equal" ELSE "greater"

\* Mutant: < also accepts equal values.
AcceptsLate(op, order) ==
  CASE op = "EQUAL" -> order = "equal"
    [] op = "NOT_EQUAL" -> order # "equal"
    [] op \in {"LESS", "LESS_EQUAL"} -> order \in {"less", "equal"}
    [] op = "GREATER" -> order = "greater"
    [] op = "GREATER_EQUAL" -> order \in {"greater", "equal"}

\* Does a comparison instruction accept an order?
Accepts(op, order) ==
  CASE op = "EQUAL" -> order = "equal"
    [] op = "NOT_EQUAL" -> order # "equal"
    [] op = "LESS" -> order = "less"
    [] op = "LESS_EQUAL" -> order \in {"less", "equal"}
    [] op = "GREATER" -> order = "greater"
    [] op = "GREATER_EQUAL" -> order \in {"greater", "equal"}
=============================================================================
