-------------------------------- MODULE SafeVM --------------------------------
(***************************************************************************)
(* The interpreter on well-formed programs: what execute_op takes for      *)
(* granted of the stack, the frames and the heap.  The definitions down to *)
(* Safe are the inductive invariant of the theorems of SafeVM_proofs, in   *)
(* parts that TLC checks on programs.                                      *)
(***************************************************************************)
EXTENDS BytecodeVM, WellFormedness

CONSTANT ShapeOf(_)  \* program -> what it is well formed with (see WellFormed)

\* What the compiler promises of a program (ProgramWellFormed of CompiledCode).
ASSUME ProgramsAssumption ==
  \A name \in DOMAIN Programs :
    /\ WellFormed(Programs[name], ShapeOf(Programs[name]))
    /\ Programs[name].collections \in Nat

\* All builtins, in the order of the source.
KnownBuiltins ==
  {"print", "println", "__trigger_gc", "assert", "error", "input", "int", "str", "head", "tail",
   "len", "drop", "take", "slice", "random", "sleep", "map", "filter", "sum", "all", "any",
   "count", "id", "range"}

\* The constructor registers each builtin once, and there are addresses for them.
ASSUME BuiltinsAssumption ==
  /\ BuiltinNames \in Seq(KnownBuiltins)
  /\ Len(BuiltinNames) <= CellBound

ASSUME BoundsAssumption == CellBound \in Nat /\ UpvalueBound \in Nat

ASSUME InputsAssumption == Inputs \subseteq Seq(STRING)

----------------------------------------------------------------------------
(* Values of the running program *)

Shape == ShapeOf(program)

\* The values the stack, an array and an upvalue may hold.
StackValues ==
  {Nil} \cup ({"bool"} \X BOOLEAN) \cup ({"int"} \X Int) \cup ({"cell"} \X Cells)
    \cup ({"const"} \X Loadable(program, Shape))

\* A function that can be called: the chunk it belongs to has its parameters and
\* uses the cells it holds.
IsClosure(f) ==
  /\ DOMAIN f = {"chunk", "arity", "name", "curried", "upvals"}
  /\ f.chunk \in Nat /\ f.chunk + 1 \in DOMAIN Shape
  /\ f.curried \in Seq(StackValues) /\ f.upvals \in Seq(UpvalueCells)
  /\ f.arity = Shape[f.chunk + 1].arity
  /\ Len(f.upvals) = Shape[f.chunk + 1].cells

\* What a cell of the heap holds.
IsHeapData(d) ==
  \/ d \in {Free} \cup ({"str"} \X Seq(STRING)) \cup ({"vec"} \X Seq(StackValues))
             \cup ({"builtin"} \X KnownBuiltins)
  \/ IsA("fun", d) /\ d = Fun(d[2]) /\ IsClosure(d[2])

IsData(d) == d \in StackValues \/ IsHeapData(d)

\* A constant stays what it was; a template may have lost its name.
ConstantKept(i) ==
  IF i \in Templates(program)
  THEN constants[i] = Fun([program.constants[i][2] EXCEPT !.name = constants[i][2].name])
  ELSE constants[i] = program.constants[i]

----------------------------------------------------------------------------
(* Frames *)

HeightsOf(f) == Shape[f.chunk + 1].heights

\* A frame belongs to the closure it was called with.
FrameOK(f) ==
  /\ DOMAIN f = {"chunk", "ip", "fp", "site", "self", "closure", "upvals", "captured"}
  /\ f.ip \in Nat /\ f.fp \in Nat
  /\ f.self \in StackValues
  /\ IsClosure(f.closure)
  /\ f.chunk = f.closure.chunk
  /\ f.upvals = f.closure.upvals
  /\ \A s \in DOMAIN f.captured : f.captured[s] \in UpvalueCells

CallOK(c) ==
  /\ c.kind \in {"call", "native", "callback"}
  /\ c.below \in Seq(StackValues) /\ c.args \in Seq(StackValues)
  /\ c.keep \in BOOLEAN
  /\ c.target \in Nat
  /\ DOMAIN c = {"kind", "target", "below", "keep", "args"}
                  \cup (IF c.kind = "native" THEN {"name", "next", "results", "moves"} ELSE {})
  /\ c.kind = "native" =>
       /\ c.name \in CallingBack /\ c.next \in Nat \ {0}
       /\ c.results \in Seq(StackValues)
       /\ Len(c.args) = 2

\* All parts of the state have the types of the code's members.
Typed ==
  /\ \E name \in DOMAIN Programs : program = Programs[name]
  /\ stack \in Seq(StackValues)
  /\ buffer.cap \in Nat /\ buffer.cap >= Len(stack) /\ DOMAIN buffer = {"cap", "moves"}
  /\ frames \in Seq(ToSet(frames)) /\ \A i \in DOMAIN frames : FrameOK(frames[i])
  /\ calls \in Seq(ToSet(calls)) /\ \A i \in DOMAIN calls : CallOK(calls[i])
  /\ DOMAIN heap = Cells /\ \A c \in Cells : IsHeapData(heap[c])
  /\ upvalues \in [UpvalueCells -> {Free} \cup StackValues]
  /\ DOMAIN constants = DOMAIN program.constants
  /\ \A i \in DOMAIN constants : ConstantKept(i)
  /\ mode \in Modes \ {"waiting"}
  /\ collected \in 0 .. program.collections

\* The length of the stack that a call relies on: a builtin that calls back reads
\* the callee and the two arguments again.
Relied(c) == Len(c.below) + (IF c.kind = "native" THEN 3 ELSE 0)

\* How many values a call leaves behind.
Left(c) == IF c.keep THEN 1 ELSE 0

\* What lies below a call is where it was, and an inner call lies above the outer
\* ones, above the callee and the arguments of a builtin that called it.
Isolated ==
  /\ \A i \in DOMAIN calls :
       /\ Len(calls[i].below) <= Len(stack)
       /\ \A k \in DOMAIN calls[i].below : stack[k] = calls[i].below[k]
  /\ \A i, j \in DOMAIN calls : i < j => Relied(calls[i]) <= Len(calls[j].below)

\* When a call ends, its caller's frame has the height that the instruction
\* behind the call expects.
CallersResume ==
  \A i \in DOMAIN calls :
    calls[i].kind # "callback" =>
      LET caller == frames[calls[i].target]
      IN  /\ caller.ip \in DOMAIN HeightsOf(caller)
          /\ Len(calls[i].below) + Left(calls[i]) = caller.fp + HeightsOf(caller)[caller.ip]

\* A builtin that calls back finds its array where it was on the stack; the
\* array keeps its length.
ArraysHeld ==
  \A i \in DOMAIN calls :
    calls[i].kind = "native" =>
      LET n == calls[i]
          array == n.args[2]
      IN  /\ Len(n.below) + 3 <= Len(stack)
          /\ stack[Len(n.below) + 3] = array
          /\ IsA("cell", array) /\ IsA("vec", heap[array[2]])
          /\ i < Len(calls) => n.next <= Len(heap[array[2]][2])

\* A frame that returned has left its result.
ResultLeft ==
  mode = "run" /\ calls # <<>> /\ Len(frames) = Target => Len(Last(calls).below) < Len(stack)

\* The frame of the code that runs holds as many values as the analysis of the
\* code says, however it came there: through jumps, calls that returned values,
\* builtins that called back.  Every instruction finds its operands above the
\* frame's start, and the compiler's slots are the right ones.
HeightsMatch ==
  InLoop => /\ Frame.ip \in DOMAIN HeightsOf(Frame)
            /\ Len(stack) = Frame.fp + HeightsOf(Frame)[Frame.ip]

Nested == CallStackMatches /\ CallersResume /\ ArraysHeld /\ ResultLeft /\ HeightsMatch

\* What execute_op takes for granted at every moment: values, frames and closures
\* are what the code casts them to, every closure has the cells that its chunk
\* names (OpClosure uses a template again that was moved from), what lies below
\* a call has not changed, each caller waits with the stack its next instruction
\* expects, and the builtins that call back find their array again.  While an error
\* unwinds the calls, frames and calls need not match.  It is inductive.
Safe ==
  /\ Typed
  /\ Isolated
  /\ mode \in {"run", "native"} => Nested
=============================================================================
