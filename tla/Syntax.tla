------------------------------- MODULE Syntax -------------------------------
(***************************************************************************)
(* The syntax trees of src/ast that the parser builds, as records.  An     *)
(* optional part is a sequence of at most one element.  Operators carry    *)
(* the names of the instructions that compute them.                        *)
(***************************************************************************)
EXTENDS Values

(* Expressions *)

Literal(d) == [node |-> "literal", value |-> d]

\* String::String splits the text at its backslashes and decodes the first character
\* of each further segment; of two backslashes in a row nothing is left.
DecodeEscape(c) == CASE c = "n" -> "newline" [] c = "t" -> "tab" [] OTHER -> c
StringLiteral(text) ==
  LET kept == SelectSeq([k \in DOMAIN text |-> k], LAMBDA k : text[k] # "backslash")
      Escaped(k) == k > 1 /\ text[k - 1] = "backslash"
      chars == [k \in DOMAIN kept |-> IF Escaped(kept[k]) THEN DecodeEscape(text[kept[k]])
                                      ELSE text[kept[k]]]
  IN  [node |-> "literal", value |-> Str(chars), text |-> text]

ArrayOf(elements) == [node |-> "array", elements |-> elements]
Variable(name) == [node |-> "variable", name |-> name]
Element(base, index) == [node |-> "index", base |-> base, index |-> index]
Unary(op, e) == [node |-> "unary", op |-> op, operand |-> e]
Binary(lhs, op, rhs) == [node |-> "binary", lhs |-> lhs, op |-> op, rhs |-> rhs]
Logical(lhs, op, rhs) == [node |-> "logical", lhs |-> lhs, op |-> op, rhs |-> rhs]

\* A chain of comparisons: the first operand and the further ones.
\* Comparison::add_comparison refuses a link of the other type.
Link(op, e) == [op |-> op, operand |-> e]
Comparison(start, links) == [node |-> "comparison", start |-> start, links |-> links]
ComparisonType(op) == IF op \in {"EQUAL", "NOT_EQUAL"} THEN "equality" ELSE "inequality"
AddsComparison(ops) == \A k \in DOMAIN ops : ComparisonType(ops[k]) = ComparisonType(ops[1])

Lambda(parameters, block) ==
  [node |-> "function", parameters |-> parameters, block |-> block]
FunctionCall(name, arguments) ==
  [node |-> "call", name |-> name, arguments |-> arguments]

\* IfExpression and IfStatement.  The grammar adds the first elif last and
\* ElseIfList::with_if appends, so the list is in reverse order.
Branch(condition, block) == [condition |-> condition, block |-> block]
IfElse(base, elifs, otherwise) ==
  [node |-> "if", branches |-> <<base>> \o Reverse(elifs), otherwise |-> otherwise]

(* Statements *)

Declaration(names, init) == [node |-> "declaration", names |-> names, init |-> init]
NameAssignment(names, e) == [node |-> "assignment", names |-> names, value |-> e]
OperatorAssignment(target, op, e) ==
  [node |-> "update", target |-> target, op |-> op, value |-> e]
NamedFunction(name, parameters, block) ==
  [node |-> "named", name |-> name, parameters |-> parameters, block |-> block]
While(condition, block) == [node |-> "while", condition |-> condition, block |-> block]
ForEach(name, collection, block) ==
  [node |-> "for", name |-> name, collection |-> collection, block |-> block]
RangeFor(name, start, end, inclusive, step, block) ==
  [node |-> "range_for", name |-> name, start |-> start, end |-> end,
   inclusive |-> inclusive, step |-> step, block |-> block]

(* Blocks and their last statements *)

ReturnOf(e) == [node |-> "return", value |-> e]
BreakLoop == [node |-> "break"]
ContinueLoop == [node |-> "continue"]

Block(statements) == [statements |-> statements, last |-> <<>>]
BlockWith(statements, last) == [statements |-> statements, last |-> <<last>>]
=============================================================================
