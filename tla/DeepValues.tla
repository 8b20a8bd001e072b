----------------------------- MODULE DeepValues -----------------------------
(***************************************************************************)
(* The operations on values that follow pointers to any depth: the         *)
(* comparison of two values, the text println writes and the one str       *)
(* returns.                                                                *)
(***************************************************************************)
EXTENDS Values

\* The order of the bytes of strings.
Alphabet ==
  <<"", "-", "0", "1", "2", "3", "4", "5", "6", "7", "8", "9", ":", "A", "B", "C", "D",
    "a", "b", "c", "d", "e">>
Code(char) == CHOOSE i \in DOMAIN Alphabet : Alphabet[i] = char

\* std::string compares lexicographically.
OrderOfStrings(s, t) ==
  LET n == IF Len(s) < Len(t) THEN Len(s) ELSE Len(t)
      differ == {i \in 1 .. n : s[i] # t[i]}
      i == CHOOSE i \in differ : \A j \in differ : i <= j
  IN  IF differ = {} THEN OrderOf(Len(s), Len(t))
      ELSE OrderOf(Code(s[i]), Code(t[i]))

\* Functions compare by address: constants are taken to lie below the cells.
OrderOfAddresses(p, q) ==
  IF p[1] = q[1] THEN OrderOf(p[2], q[2])
  ELSE IF IsA("const", p) THEN "less" ELSE "greater"

RECURSIVE Compare(_, _, _)

\* compare_op: arrays by length, then by their first elements that differ.
Compare(mem, v, w) ==
  LET a == Deref(mem, v)
      b == Deref(mem, w)
      Element(i) == Compare(mem, a[2][i], b[2][i])
      differ == {i \in DOMAIN a[2] : Element(i) # "equal"}
  IN  CASE IsA("int", a) /\ IsA("int", b) -> OrderOf(a[2], b[2])
        [] IsA("bool", a) /\ IsA("bool", b) ->
             IF a[2] = b[2] THEN "equal" ELSE IF b[2] THEN "less" ELSE "greater"
        [] IsA("nil", a) /\ IsA("nil", b) -> "equal"
        [] IsA("str", a) /\ IsA("str", b) -> OrderOfStrings(a[2], b[2])
        [] IsA("vec", a) /\ IsA("vec", b) ->
             IF Len(a[2]) # Len(b[2]) THEN OrderOf(Len(a[2]), Len(b[2]))
             ELSE IF differ = {} THEN "equal"
             ELSE Element(CHOOSE i \in differ : \A j \in differ : i <= j)
        [] IsFunction(a) /\ IsFunction(b) -> OrderOfAddresses(v, w)
        [] OTHER -> "unordered"

RECURSIVE Show(_, _)

\* The text of a value, up to its layout: an array is the texts of its elements.
Show(mem, v) ==
  LET d == Deref(mem, v)
  IN  IF IsA("vec", d) THEN Vec([i \in DOMAIN d[2] |-> Show(mem, d[2][i])])
      ELSE IF IsA("fun", d) THEN <<"function", d[2].name>>
      ELSE d

RECURSIVE Text(_, _)

\* What std::format writes for a value, which str returns.  A few of the words are
\* taken as one character.
Text(mem, v) ==
  LET d == Deref(mem, v)
      Listed(text, e) == text \o (IF Len(text) = 1 THEN <<>> ELSE <<", ">>) \o Text(mem, e)
  IN  CASE IsA("nil", d) -> <<"nil">>
        [] IsA("bool", d) -> IF d[2] THEN <<"true">> ELSE <<"false">>
        [] IsA("int", d) -> IF d[2] < 0 THEN <<"-">> \o Numeral[-d[2]] ELSE Numeral[d[2]]
        [] IsA("str", d) -> d[2]
        [] IsA("vec", d) -> Append(FoldLeft(Listed, <<"[">>, d[2]), "]")
        [] IsA("fun", d) -> <<"function <", d[2].name, ">">>
        [] IsA("builtin", d) -> <<"function <", d[2], ">">>
=============================================================================
