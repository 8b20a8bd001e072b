----------------------------- MODULE BytecodeVM -----------------------------
(***************************************************************************)
(* The bytecode interpreter of Lang3: BytecodeVM::execute, execute_loop,   *)
(* the 32 execute_op handlers, call_function_impl with its two callers     *)
(* (OpCall and call_function, which builtins use to call back), the        *)
(* builtins without input, output or floats, and the unwinding of the C++  *)
(* stack when a RuntimeError is thrown.                                    *)
(*                                                                         *)
(* Instructions follow each other inside one C++ thread, but activations   *)
(* nest: OpCall runs execute_loop recursively, and map, filter and count   *)
(* run it once per element while they hold C++ references into the value   *)
(* stack.  `calls' is that C++ stack.  At every head of a loop the         *)
(* collector may run; here it takes one step (HeapGc shows the steps).     *)
(* The collector starts when about a thousand cells were allocated, so     *)
(* where it starts in a small program depends on what ran before; the      *)
(* model lets it start at any head, as often as the program's bound says.  *)
(*                                                                         *)
(* Lists are indexed from 1 here and slots, chunks, instructions and       *)
(* constants from 0 in the bytecode, as in the code.                       *)
(***************************************************************************)
EXTENDS Builtins, FiniteSets

CONSTANTS
  Programs,      \* name -> [chunks, constants, collections (the bound on how often
                 \*   maybe_gc collects), out, result and stacktrace it should give]
  BuiltinNames,  \* the builtins registered by the constructor, in order
  CellBound,     \* bound: number of heap addresses
  UpvalueBound,  \* bound: number of upvalue addresses
  CompareValues(_, _, _),  \* the order of two values (DeepValues)
  ShowValue(_, _)         \* the text of a value (DeepValues)

VARIABLES
  program,    \* the running program, one of Programs
  constants,  \* ProgramBytecode::constants: OpClosure changes them
  stack,      \* BytecodeVM::stack
  buffer,     \* the stack's storage: its capacity and how often it moved
  frames,     \* BytecodeVM::frames, the current one last
  calls,      \* the C++ activations inside execute_loop(0), the innermost last
  heap,       \* heap address -> value, or Free
  upvalues,   \* upvalue address -> StackValue, or Free
  out,        \* what was printed
  mode,       \* what the C++ code is doing, see Modes
  error,      \* the exception being thrown
  collected   \* how often maybe_gc collected

vars == <<program, constants, stack, buffer, frames, calls, heap, upvalues, out,
          mode, error, collected>>

\* "run": in an execute_loop; "native": in a builtin that calls back; "throw":
\* unwinding; "done", "failed": execute returned or reported a RuntimeError;
\* "aborted": another exception left it, which nothing catches; "undefined": the
\* behaviour of the code is; "waiting": not constructed yet (Pipeline).
Modes == {"waiting", "run", "native", "throw", "done", "failed", "aborted", "undefined"}

Cells == 1 .. CellBound
UpvalueCells == 1 .. UpvalueBound

Memory == [heap |-> heap, constants |-> constants]

----------------------------------------------------------------------------
(* Storage *)

FreeCells == {c \in Cells : heap[c] = Free}

\* Room for the values one instruction may allocate.
HasRoom == Cardinality(FreeCells) >= 3

LowestFree(memory) == CHOOSE a \in DOMAIN memory :
  memory[a] = Free /\ \A b \in DOMAIN memory : memory[b] = Free => a <= b

\* Mutant: heap_store forgets its branch for primitives, which go to cells, too.
HeapStoreBoxed(memory, d) ==
  IF d = Nil THEN [heap |-> memory, value |-> d]
  ELSE LET c == LowestFree(memory)
       IN  [heap |-> [memory EXCEPT ![c] = d], value |-> Cell(c)]

\* heap_store: nil and primitives stay in the StackValue, the rest goes to a
\* cell; addresses of erased cells are used again.
HeapStore(memory, d) ==
  IF IsStackValue(d) THEN [heap |-> memory, value |-> d]
  ELSE LET c == LowestFree(memory)
       IN  [heap |-> [memory EXCEPT ![c] = d], value |-> Cell(c)]

\* std::vector grows by doubling and moves when it does.
Grown(b, size) ==
  IF size <= b.cap THEN b
  ELSE [cap |-> IF 2 * b.cap >= size THEN 2 * b.cap ELSE size, moves |-> b.moves + 1]

\* std::vector::reserve
Reserved(b, size) ==
  IF size <= b.cap THEN b ELSE [cap |-> size, moves |-> b.moves + 1]

SetStack(s) ==
  /\ stack' = s
  /\ buffer' = Grown(buffer, Len(s))

----------------------------------------------------------------------------
(* Frames *)

\* The globals: the constructor stores one function per builtin; OpSetGlobal
\* assigns to a copy of the entry it found.
Globals == [name \in ToSet(BuiltinNames) |->
              Cell(CHOOSE i \in DOMAIN BuiltinNames : BuiltinNames[i] = name)]

\* CallFrame.  "site" is call_location: <<>> is the absent one.
TopLevel ==
  [chunk |-> 0, ip |-> 0, fp |-> 0, site |-> <<>>, self |-> Nil,
   closure |-> [chunk |-> 0, arity |-> 0, name |-> "<toplevel>",
                curried |-> <<>>, upvals |-> <<>>],
   upvals |-> <<>>, captured |-> <<>>]

\* Mutant: the frame starts behind its first argument.
NewFrameLate(f, self, fp, site) ==
  [chunk |-> f.chunk, ip |-> 0, fp |-> fp + 1, site |-> site, self |-> self,
   closure |-> f, upvals |-> f.upvals, captured |-> <<>>]

NewFrame(f, self, fp, site) ==
  [chunk |-> f.chunk, ip |-> 0, fp |-> fp, site |-> site, self |-> self,
   closure |-> f, upvals |-> f.upvals, captured |-> <<>>]

Frame == Last(frames)
CodeOf(f) == program.chunks[f.chunk + 1]
Instr == CodeOf(Frame)[Frame.ip + 1]

\* frame.ip++ of execute_loop, and the jumps.
GoTo(ip) == [frames EXCEPT ![Len(frames)].ip = ip]
Advanced == GoTo(Frame.ip + 1)

\* current_instruction_location: the instruction in front of ip.
Location(f) == <<f.chunk, f.ip>>

\* Mutant: slots are counted from the bottom of the stack.
SlotIndexAbsolute(i) == i + 1

SlotIndex(i) == Frame.fp + i + 1

Peek(depth) == stack[Len(stack) - depth]
Without(n) == SubSeq(stack, 1, Len(stack) - n)

\* The number of frames below the innermost execute_loop.
Target == IF calls = <<>> THEN 0 ELSE Last(calls).target

InLoop == mode = "run" /\ Len(frames) > Target

----------------------------------------------------------------------------
(* The collector *)

Up(u) == <<"upvalue", u>>
PointersOf(S) == {v \in S : IsPointer(v)}

\* The root set of run_gc.
RootSet ==
  LET inFrame(f) == PointersOf({f.self}) \cup {Up(u) : u \in ToSet(f.upvals)}
                             \cup {Up(f.captured[s]) : s \in DOMAIN f.captured}
  IN  PointersOf(ToSet(stack))
        \cup {Globals[name] : name \in DOMAIN Globals}
        \cup {Const(i) : i \in DOMAIN constants}
        \cup UNION {inFrame(f) : f \in ToSet(frames)}

\* Everything an object refers to.
Refs(o) ==
  IF IsA("upvalue", o) THEN PointersOf({upvalues[o[2]]})
  ELSE LET d == Deref(Memory, o)
       IN  PointersOf(ValuesIn(d)) \cup {Up(u) : u \in UpvaluesIn(d)}

\* Mutant: UpvalueCell::mark does not go on to the cell's value.
MarksShallow(o) ==
  IF IsA("upvalue", o) \/ IsFunction(Deref(Memory, o)) THEN {} ELSE Refs(o)

\* HeapCell::mark and UpvalueCell::mark.  The handler for functions never runs:
\* HeapData holds a unique_ptr<Function>, which only the empty handler takes.
Marks(o) ==
  IF ~IsA("upvalue", o) /\ IsFunction(Deref(Memory, o)) THEN {} ELSE Refs(o)

\* What is reached from S by following Follow.
Objects ==
  {Cell(c) : c \in Cells} \cup {Up(u) : u \in UpvalueCells}
    \cup {Const(i) : i \in DOMAIN constants}
Closure(S, Follow(_)) ==
  LET reached[X \in SUBSET Objects] ==
        LET wider == X \cup UNION {Follow(o) : o \in X}
        IN  IF wider = X THEN X ELSE reached[wider]
  IN  reached[S]

Marked == Closure(RootSet, Marks)
InUse == Closure(RootSet, Refs)

\* Heap::sweep and UpvalueStorage::sweep.
SweptHeap(marked) == [c \in Cells |-> IF Cell(c) \in marked THEN heap[c] ELSE Free]
SweptUpvalues(marked) ==
  [u \in UpvalueCells |-> IF Up(u) \in marked THEN upvalues[u] ELSE Free]

\* maybe_gc at the head of execute_loop, when it collects and finds garbage.
MaybeGc ==
  LET marked == Marked
  IN  /\ InLoop
      /\ collected < program.collections
      /\ <<heap, upvalues>> # <<SweptHeap(marked), SweptUpvalues(marked)>>
      /\ collected' = collected + 1
      /\ heap' = SweptHeap(marked)
      /\ upvalues' = SweptUpvalues(marked)
      /\ UNCHANGED <<program, constants, stack, buffer, frames, calls, out, mode, error>>

----------------------------------------------------------------------------
(* Shapes of instructions *)

At(op) == InLoop /\ Instr.op = op

\* Only the value stack changes.
Continue(s) ==
  /\ SetStack(s)
  /\ frames' = Advanced
  /\ UNCHANGED <<program, constants, calls, heap, upvalues, out, mode, error, collected>>

\* The exceptions that are not RuntimeErrors.
Uncaught == {"bad_optional_access", "out_of_range"}

ModeAfter(kind) == IF kind = "undefined" THEN "undefined" ELSE "throw"

Throw(kind, s) ==
  /\ stack' = s
  /\ frames' = Advanced
  /\ mode' = ModeAfter(kind)
  /\ error' = kind
  /\ UNCHANGED <<program, constants, buffer, calls, heap, upvalues, out, collected>>

\* The operands are replaced by a new value, or the operation throws.
Produce(rest, d) ==
  LET stored == HeapStore(heap, d)
  IN  IF Failed(d) THEN Throw(d[2], stack)
      ELSE /\ HasRoom
           /\ SetStack(Append(rest, stored.value))
           /\ heap' = stored.heap
           /\ frames' = Advanced
           /\ UNCHANGED <<program, constants, calls, upvalues, out, mode, error, collected>>

----------------------------------------------------------------------------
(* Instructions without calls *)

\* The result stays on the stack, on top of the frame's locals.
OpReturn ==
  /\ At("RETURN")
  /\ frames' = Front(frames)
  /\ UNCHANGED <<program, constants, stack, buffer, calls, heap, upvalues, out, mode,
                 error, collected>>

OpConstant ==
  /\ At("CONSTANT")
  /\ LET d == constants[Instr.index]
     IN  Continue(Append(stack, IF IsStackValue(d) THEN d ELSE Const(Instr.index)))

OpPop ==
  /\ At("POP")
  /\ IF Len(stack) - Frame.fp < Instr.count
     THEN Throw("RuntimeError", stack)
     ELSE Continue(Without(Instr.count))

OpDuplicate == At("DUPLICATE") /\ Continue(Append(stack, Peek(Instr.index)))

\* OpAdd, OpSubtract, OpMultiply, OpDivide, OpModulo, OpPower
BinaryOp ==
  /\ InLoop
  /\ Instr.op \in ArithmeticOps
  /\ Produce(Without(2), Arithmetic(Instr.op, Deref(Memory, Peek(1)), Deref(Memory, Peek(0))))

OpNegate == At("NEGATE") /\ Produce(Without(1), Negative(Deref(Memory, Peek(0))))

OpNot == At("NOT") /\ Produce(Without(1), NotOp(Deref(Memory, Peek(0))))

\* OpEqual and the other five; chained comparisons keep the right operand.
CompareOp ==
  /\ InLoop
  /\ Instr.op \in CompareOps
  /\ LET result == Bool(Accepts(Instr.op, CompareValues(Memory, Peek(1), Peek(0))))
     IN  Continue(Without(2) \o (IF Instr.keep_rhs THEN <<Peek(0), result>> ELSE <<result>>))

OpJump ==
  /\ At("JUMP")
  /\ frames' = GoTo(Instr.offset)
  /\ UNCHANGED <<program, constants, stack, buffer, calls, heap, upvalues, out, mode,
                 error, collected>>

OpJumpIf ==
  LET truth == Truthy(Deref(Memory, Peek(0)))
      jump == truth = Bool(Instr.expected)
      pop == IF jump THEN ~Instr.keep_jump ELSE ~Instr.keep_stay
  IN  /\ At("JUMP_IF")
      /\ IF Failed(truth) THEN Throw(truth[2], stack)
         ELSE /\ frames' = IF jump THEN GoTo(Instr.offset) ELSE Advanced
              /\ SetStack(IF pop THEN Without(1) ELSE stack)
              /\ UNCHANGED <<program, constants, calls, heap, upvalues, out, mode, error,
                             collected>>

\* A name is a string constant of one token.
Named(index) == {name \in DOMAIN Globals : constants[index] = Str(<<name>>)}

OpGetGlobal ==
  /\ At("GET_GLOBAL")
  /\ IF ~IsA("str", constants[Instr.index]) THEN Throw("RuntimeError", stack)
     ELSE IF Named(Instr.index) = {} THEN Throw("UndefinedVariableError", stack)
     ELSE \E name \in Named(Instr.index) : Continue(Append(stack, Globals[name]))

OpSetGlobal ==
  /\ At("SET_GLOBAL")
  /\ IF Named(Instr.index) = {} THEN Throw("RuntimeError", stack)
     ELSE Continue(Without(1))

OpGetLocal == At("GET_LOCAL") /\ Continue(Append(stack, stack[SlotIndex(Instr.index)]))

\* Mutant: closures keep the value that the variable had.
OpSetLocalOnce ==
  /\ At("SET_LOCAL")
  /\ Continue([Without(1) EXCEPT ![SlotIndex(Instr.index)] = Peek(0)])

\* The slot and, when a closure captured the slot, the cell it shares.
OpSetLocal ==
  /\ At("SET_LOCAL")
  /\ SetStack([Without(1) EXCEPT ![SlotIndex(Instr.index)] = Peek(0)])
  /\ upvalues' = IF Instr.index \in DOMAIN Frame.captured
                 THEN [upvalues EXCEPT ![Frame.captured[Instr.index]] = Peek(0)]
                 ELSE upvalues
  /\ frames' = Advanced
  /\ UNCHANGED <<program, constants, calls, heap, out, mode, error, collected>>

\* A primitive as a loop counter.
Counter(v) == IF IsA("bool", v) THEN (IF v[2] THEN 1 ELSE 0) ELSE v[2]

\* step is the slot of the step, or a negative number for none.
OpForLoop ==
  LET control == SlotIndex(Instr.control)
      limit == stack[SlotIndex(Instr.limit)]
      step == IF Instr.step < 0 THEN Num(1) ELSE stack[SlotIndex(Instr.step)]
      next == Counter(stack[control]) + Counter(step)
      moved == [stack EXCEPT ![control] = Num(next)]
      again == IF Instr.inclusive THEN next <= Counter(limit) ELSE next < Counter(limit)
  IN  /\ At("FOR_LOOP")
      /\ IF ~IsPrimitive(stack[control]) \/ ~IsPrimitive(step)
         THEN Throw("RuntimeError", stack)
         ELSE IF ~IsPrimitive(limit) THEN Throw("RuntimeError", moved)
         ELSE /\ SetStack(moved)
              /\ frames' = IF again THEN GoTo(Instr.body) ELSE Advanced
              /\ UNCHANGED <<program, constants, calls, heap, upvalues, out, mode, error,
                             collected>>

OpMakeArray ==
  LET rest == Without(Instr.count)
  IN  At("MAKE_ARRAY") /\ Produce(rest, Vec(SubSeq(stack, Len(rest) + 1, Len(stack))))

OpGetIndex ==
  /\ At("GET_INDEX")
  /\ Produce(Without(2), Index(Deref(Memory, Peek(1)), Peek(0)))

OpSetIndex ==
  LET array == Peek(2)
      e == IndexMutError(Deref(Memory, array), Peek(1))
  IN  /\ At("SET_INDEX")
      /\ IF Failed(e) THEN Throw(e[2], Without(2))
         ELSE /\ heap' = [heap EXCEPT ![array[2]][2][Peek(1)[2] + 1] = Peek(0)]
              /\ SetStack(Without(3))
              /\ frames' = Advanced
              /\ UNCHANGED <<program, constants, calls, upvalues, out, mode, error, collected>>

\* The upvalue that an instruction names; the collector may have erased its cell.
Upvalue == Frame.upvals[Instr.index + 1]

OpGetUpvalue ==
  /\ At("GET_UPVALUE")
  /\ IF upvalues[Upvalue] = Free THEN Throw("undefined", stack)
     ELSE Continue(Append(stack, upvalues[Upvalue]))

OpSetUpvalue ==
  /\ At("SET_UPVALUE")
  /\ IF upvalues[Upvalue] = Free THEN Throw("undefined", stack)
     ELSE /\ SetStack(Without(1))
          /\ upvalues' = [upvalues EXCEPT ![Upvalue] = Peek(0)]
          /\ frames' = Advanced
          /\ UNCHANGED <<program, constants, calls, heap, out, mode, error, collected>>

\* One entry of OpClosure's list: a captured slot keeps its first cell, an
\* upvalue of the enclosing function is shared.
Capture(acc, upvalue) ==
  LET fresh == LowestFree(acc.store)
      i == upvalue.index
  IN  IF ~upvalue.local
      THEN [acc EXCEPT !.refs = Append(@, Frame.closure.upvals[i + 1])]
      ELSE IF i \in DOMAIN acc.captured
      THEN [acc EXCEPT !.refs = Append(@, acc.captured[i])]
      ELSE [refs |-> Append(acc.refs, fresh),
            captured |-> [s \in DOMAIN acc.captured \cup {i} |->
                            IF s = i THEN fresh ELSE acc.captured[s]],
            store |-> [acc.store EXCEPT ![fresh] = stack[SlotIndex(i)]]]

\* Mutant: the template keeps what it captured.
MovedFromKeeps(f) == [f EXCEPT !.name = "", !.curried = <<>>]

\* The template in the constants is moved from: it loses its name, too.
MovedFrom(f) == [f EXCEPT !.name = "", !.curried = <<>>, !.upvals = <<>>]

OpClosure ==
  LET template == constants[Instr.function][2]
      acc == FoldLeft(Capture, [refs |-> template.upvals, captured |-> Frame.captured,
                                store |-> upvalues], Instr.upvalues)
      closed == [template EXCEPT !.upvals = acc.refs]
      stored == HeapStore(heap, Fun(closed))
  IN  /\ At("CLOSURE")
      /\ IF ~IsA("fun", constants[Instr.function]) THEN Throw("RuntimeError", stack)
         ELSE /\ HasRoom
              /\ Cardinality({u \in UpvalueCells : upvalues[u] = Free}) >= Len(Instr.upvalues)
              /\ constants' = [constants EXCEPT ![Instr.function] = Fun(MovedFrom(closed))]
              /\ upvalues' = acc.store
              /\ frames' = [Advanced EXCEPT ![Len(frames)].captured = acc.captured]
              /\ heap' = stored.heap
              /\ SetStack(Append(stack, stored.value))
              /\ UNCHANGED <<program, calls, out, mode, error, collected>>

----------------------------------------------------------------------------
(* Calls *)

\* OpCall's operands: below the callee, the callee and the arguments.
Base == Len(stack) - Instr.argc
Below == SubSeq(stack, 1, Base - 1)
Callee == stack[Base]
Args == SubSeq(stack, Base + 1, Len(stack))

\* What call_function_impl does with a function and a number of arguments.
CallKind(v, n) ==
  LET d == Deref(Memory, v)
      total == Len(d[2].curried) + n
  IN  IF ~IsPointer(v) \/ ~IsFunction(d) THEN "invalid"
      ELSE IF IsA("builtin", d) THEN "builtin"
      ELSE IF total > d[2].arity THEN "mismatch"
      ELSE IF total < d[2].arity THEN "partial"
      ELSE "enter"

Calling(kind) == At("CALL") /\ CallKind(Callee, Instr.argc) = kind

\* A function with more of its arguments.
Curry(f, args) == Fun([f EXCEPT !.curried = @ \o args])

\* Mutant: the result stays although nobody uses it.
CompleteKeeps(below, keep, v) == Append(below, v)
\* The cleanup of OpCall: only the result remains, if it is kept.
Complete(below, keep, v) == IF keep THEN Append(below, v) ELSE below

\* Mutant: the arguments are moved from the first to the last.
InsertCurriedForward(s, base, curried) ==
  LET k == Len(curried)
      grown == s \o [i \in 1 .. k |-> Nil]
      moved == FoldLeft(LAMBDA t, i : [t EXCEPT ![base + i + k] = t[base + i]],
                        grown, [i \in 1 .. Len(s) - base |-> i])
  IN  [i \in DOMAIN moved |->
         IF i \in base + 1 .. base + k THEN curried[i - base] ELSE moved[i]]

\* Makes room for the curried arguments in front of the others, from the last
\* argument to the first, in place.
InsertCurried(s, base, curried) ==
  LET k == Len(curried)
      grown == s \o [i \in 1 .. k |-> Nil]
      moved == FoldLeft(LAMBDA t, i : [t EXCEPT ![base + i + k] = t[base + i]],
                        grown, Reverse([i \in 1 .. Len(s) - base |-> i]))
  IN  [i \in DOMAIN moved |->
         IF i \in base + 1 .. base + k THEN curried[i - base] ELSE moved[i]]

OpCallFails ==
  /\ At("CALL")
  /\ CallKind(Callee, Instr.argc) \in {"invalid", "mismatch"}
  /\ Throw("RuntimeError", Below)

\* call_function_impl enters a function.
OpCallEnter ==
  LET f == Deref(Memory, Callee)[2]
  IN  /\ Calling("enter")
      /\ frames' = Append(Advanced, NewFrame(f, Callee, Base, Location(Last(Advanced))))
      /\ SetStack(InsertCurried(stack, Base, f.curried))
      /\ calls' = Append(calls, [kind |-> "call", target |-> Len(frames), below |-> Below,
                                 keep |-> Instr.keep, args |-> Args])
      /\ UNCHANGED <<program, constants, heap, upvalues, out, mode, error, collected>>

\* head and tail of strings store the parts before the pair.
Stored(d) ==
  LET Step(acc, x) ==
        LET stored == HeapStore(acc.heap, x)
        IN  [heap |-> stored.heap, elements |-> Append(acc.elements, stored.value)]
      parts == FoldLeft(Step, [heap |-> heap, elements |-> <<>>], d[2])
  IN  IF IsA("vec", d) THEN HeapStore(parts.heap, Vec(parts.elements))
      ELSE HeapStore(heap, d)

\* The call is over at once: a partial application.
OpCallPartial ==
  LET stored == HeapStore(heap, Curry(Deref(Memory, Callee)[2], Args))
  IN  /\ Calling("partial")
      /\ HasRoom
      /\ SetStack(Complete(Below, Instr.keep, stored.value))
      /\ heap' = stored.heap
      /\ frames' = Advanced
      /\ UNCHANGED <<program, constants, calls, upvalues, out, mode, error, collected>>

BuiltinCalled == Deref(Memory, Callee)[2]

Printed(name, args) ==
  IF name \in {"print", "println"} \/ (name = "input" /\ args # <<>>)
  THEN <<[i \in DOMAIN args |-> ShowValue(Memory, args[i])]>>
  ELSE <<>>

\* A builtin that does not call back.
OpCallBuiltin ==
  /\ Calling("builtin")
  /\ BuiltinCalled \notin CallingBack
  /\ \E result \in BuiltinResults(Memory, BuiltinCalled, Args) :
       LET stored == Stored(result)
           marked == Marked
           sweeps == BuiltinCalled = "__trigger_gc"
       IN  IF Failed(result) THEN Throw(result[2], Below)
           ELSE /\ HasRoom
                /\ SetStack(Complete(Below, Instr.keep, stored.value))
                /\ heap' = IF sweeps THEN SweptHeap(marked) ELSE stored.heap
                /\ upvalues' = IF sweeps THEN SweptUpvalues(marked) ELSE upvalues
                /\ out' = out \o Printed(BuiltinCalled, Args)
                /\ frames' = Advanced
                /\ UNCHANGED <<program, constants, calls, mode, error, collected>>

\* map, filter and count: C++ holds the stack's storage and the array.
OpCallNative ==
  LET e == CallBackError([i \in DOMAIN Args |-> Deref(Memory, Args[i])])
  IN  /\ Calling("builtin")
      /\ BuiltinCalled \in CallingBack
      /\ IF Failed(e) THEN Throw(e[2], Below)
         ELSE /\ calls' = Append(calls,
                   [kind |-> "native", target |-> Len(frames), below |-> Below,
                    keep |-> Instr.keep, args |-> Args, name |-> BuiltinCalled, next |-> 1,
                    results |-> <<>>, moves |-> buffer.moves])
              /\ mode' = "native"
              /\ frames' = Advanced
              /\ UNCHANGED <<program, constants, stack, buffer, heap, upvalues, out, error,
                             collected>>

----------------------------------------------------------------------------
(* Builtins that call back *)

Native == Last(calls)
Elements(n) == Deref(Memory, n.args[2])[2]
Callback(n) == n.args[1]

\* Every call reads args[0] through the span OpCall made of the old storage.
NativeReadsStale ==
  /\ mode = "native"
  /\ Native.next <= Len(Elements(Native))
  /\ Native.moves # buffer.moves
  /\ mode' = "undefined"
  /\ UNCHANGED <<program, constants, stack, buffer, frames, calls, heap, upvalues, out,
                 error, collected>>

NativeCalling(kind) ==
  /\ mode = "native"
  /\ Native.next <= Len(Elements(Native))
  /\ Native.moves = buffer.moves
  /\ CallKind(Callback(Native), 1) = kind

\* A callback's result: map collects it, filter and count test it.
Delivered(cs, memory, v) ==
  LET n == Last(cs)
      item == Deref(memory, n.args[2])[2][n.next]
      truth == Truthy(Deref(memory, v))
      added == IF n.name = "map" THEN <<v>> ELSE IF truth[2] THEN <<item>> ELSE <<>>
  IN  IF n.name # "map" /\ Failed(truth) THEN truth
      ELSE <<"calls", [cs EXCEPT ![Len(cs)].results = @ \o added, ![Len(cs)].next = @ + 1]>>

Deliver(cs, memory, v) ==
  LET d == Delivered(cs, memory, v)
  IN  IF Failed(d) THEN calls' = cs /\ mode' = ModeAfter(d[2]) /\ error' = d[2]
      ELSE calls' = d[2] /\ mode' = "native" /\ error' = error

NativeCallFails ==
  /\ NativeCalling("mismatch")
  /\ mode' = "throw"
  /\ error' = "RuntimeError"
  /\ UNCHANGED <<program, constants, stack, buffer, frames, calls, heap, upvalues, out,
                 collected>>

\* call_function: the arguments are copied behind everything on the stack.
NativeCallEnter ==
  LET f == Deref(Memory, Callback(Native))[2]
      args == Append(f.curried, Elements(Native)[Native.next])
  IN  /\ NativeCalling("enter")
      /\ frames' = Append(frames, NewFrame(f, Callback(Native), Len(stack), <<-1, -1>>))
      /\ stack' = stack \o args
      /\ buffer' = Reserved(buffer, Len(stack) + Len(args))
      /\ calls' = Append(calls, [kind |-> "callback", target |-> Len(frames),
                                 below |-> stack, keep |-> TRUE, args |-> args])
      /\ mode' = "run"
      /\ UNCHANGED <<program, constants, heap, upvalues, out, error, collected>>

\* The call is over at once: a builtin or a partial application.
NativeCallBuiltin ==
  LET name == Deref(Memory, Callback(Native))[2]
      args == <<Elements(Native)[Native.next]>>
      results == IF name \in CallingBack THEN {Error("TypeError")}
                 ELSE BuiltinResults(Memory, name, args)
  IN  /\ NativeCalling("builtin")
      /\ \E result \in results :
           LET stored == Stored(result)
           IN  IF Failed(result)
               THEN mode' = ModeAfter(result[2]) /\ error' = result[2] /\ UNCHANGED <<calls, heap, out>>
               ELSE /\ HasRoom
                    /\ heap' = stored.heap
                    /\ out' = out \o Printed(name, args)
                    /\ Deliver(calls, [Memory EXCEPT !.heap = stored.heap], stored.value)
      /\ UNCHANGED <<program, constants, stack, buffer, frames, upvalues, collected>>

NativeCallPartial ==
  LET args == <<Elements(Native)[Native.next]>>
      stored == HeapStore(heap, Curry(Deref(Memory, Callback(Native))[2], args))
  IN  /\ NativeCalling("partial")
      /\ HasRoom
      /\ heap' = stored.heap
      /\ Deliver(calls, [Memory EXCEPT !.heap = stored.heap], stored.value)
      /\ UNCHANGED <<program, constants, stack, buffer, frames, upvalues, out, collected>>

FinishNative ==
  LET results == Native.results
      stored == HeapStore(heap, IF Native.name = "count" THEN Num(Len(results))
                                ELSE Vec(results))
  IN  /\ mode = "native"
      /\ Native.next > Len(Elements(Native))
      /\ HasRoom
      /\ heap' = stored.heap
      /\ SetStack(Complete(Native.below, Native.keep, stored.value))
      /\ calls' = Front(calls)
      /\ mode' = "run"
      /\ UNCHANGED <<program, constants, frames, upvalues, out, error, collected>>

----------------------------------------------------------------------------
(* Ends of activations *)

LoopEnds(kind) == mode = "run" /\ calls # <<>> /\ Len(frames) = Target /\ Last(calls).kind = kind

\* stack_pop takes the result, the cleanup removes what is left above the caller.
FinishCall ==
  LET call == Last(calls)
  IN  /\ LoopEnds("call")
      /\ SetStack(Complete(SubSeq(stack, 1, Len(call.below)), call.keep, Last(stack)))
      /\ calls' = Front(calls)
      /\ UNCHANGED <<program, constants, frames, heap, upvalues, out, mode, error, collected>>

\* call_function takes the result and leaves the rest of the frame.
FinishCallback ==
  /\ LoopEnds("callback")
  /\ stack' = Front(stack)
  /\ Deliver(Front(calls), Memory, Last(stack))
  /\ UNCHANGED <<program, constants, buffer, frames, heap, upvalues, out, collected>>

FinishProgram ==
  /\ mode = "run"
  /\ calls = <<>>
  /\ frames = <<>>
  /\ stack' = <<>>
  /\ mode' = "done"
  /\ UNCHANGED <<program, constants, buffer, frames, calls, heap, upvalues, out, error,
                 collected>>

\* The catch clause of OpCall cleans the stack; the frames stay.
Unwind ==
  /\ mode = "throw"
  /\ calls # <<>>
  /\ stack' = IF Last(calls).kind = "callback" THEN stack
              ELSE SubSeq(stack, 1, Len(Last(calls).below))
  /\ calls' = Front(calls)
  /\ UNCHANGED <<program, constants, buffer, frames, heap, upvalues, out, mode, error,
                 collected>>

\* execute's catch clause collects the stack trace from the frames.
Fail ==
  /\ mode = "throw"
  /\ calls = <<>>
  /\ mode' = IF error \in Uncaught THEN "aborted" ELSE "failed"
  /\ UNCHANGED <<program, constants, stack, buffer, frames, calls, heap, upvalues, out,
                 error, collected>>

\* The error's location, then the called functions and where they were called.
Stacktrace ==
  <<Location(Frame)>>
    \o [i \in 1 .. Len(frames) - 1 |-> <<frames[i + 1].closure.name, frames[i + 1].site>>]

Ended == mode \in {"done", "failed", "aborted", "undefined"}
Halted == Ended /\ UNCHANGED vars

----------------------------------------------------------------------------

\* The constructor stores the builtins.
HeapAtStart ==
  [c \in Cells |-> IF c <= Len(BuiltinNames) THEN Builtin(BuiltinNames[c]) ELSE Free]

Init ==
  /\ \E name \in DOMAIN Programs : program = Programs[name]
  /\ constants = program.constants
  /\ stack = <<>>
  /\ buffer = [cap |-> 0, moves |-> 0]
  /\ frames = <<TopLevel>>
  /\ calls = <<>>
  /\ heap = HeapAtStart
  /\ upvalues = [u \in UpvalueCells |-> Free]
  /\ out = <<>>
  /\ mode = "run"
  /\ error = ""
  /\ collected = 0

Instruction ==
  \/ OpReturn \/ OpConstant \/ OpPop \/ OpDuplicate
  \/ BinaryOp \/ OpNegate \/ OpNot \/ CompareOp
  \/ OpJump \/ OpJumpIf
  \/ OpGetGlobal \/ OpSetGlobal \/ OpGetLocal \/ OpSetLocal
  \/ OpForLoop \/ OpMakeArray \/ OpGetIndex \/ OpSetIndex
  \/ OpGetUpvalue \/ OpSetUpvalue \/ OpClosure
  \/ OpCallFails \/ OpCallEnter \/ OpCallPartial \/ OpCallBuiltin \/ OpCallNative

Activation ==
  \/ NativeReadsStale \/ NativeCallFails \/ NativeCallEnter
  \/ NativeCallBuiltin \/ NativeCallPartial \/ FinishNative
  \/ FinishCall \/ FinishCallback \/ FinishProgram \/ Unwind \/ Fail

Next == MaybeGc \/ Instruction \/ Activation \/ Halted

\* One thread, which does nothing but interpret: until the program has ended it
\* makes steps.  As collections are bounded, this is weak fairness of Instruction
\* \/ Activation, which is enabled until then; written without ENABLED, which takes
\* TLC longer than everything else.
Spec == Init /\ [][Next]_vars /\ ([]<>Ended \/ []<><<TRUE>>_vars)
----------------------------------------------------------------------------
(* Properties *)

FrameType(f) ==
  /\ {f.chunk, f.ip, f.fp} \subseteq Nat
  /\ IsStackValue(f.self)
  /\ ToSet(f.upvals) \cup {f.captured[s] : s \in DOMAIN f.captured} \subseteq UpvalueCells

\* The parts of the state have the types of the code's members; what a cell
\* holds is never a bare primitive.
TypeOK ==
  /\ \E name \in DOMAIN Programs : program = Programs[name]
  /\ \A i \in DOMAIN stack : IsStackValue(stack[i])
  /\ \A i \in DOMAIN frames : FrameType(frames[i])
  /\ \A i \in DOMAIN calls : calls[i].kind \in {"call", "native", "callback"}
  /\ \A c \in Cells : heap[c] = Free \/ IsContainer(heap[c]) \/ IsFunction(heap[c])
  /\ \A u \in UpvalueCells : upvalues[u] = Free \/ IsStackValue(upvalues[u])
  /\ mode \in Modes
  /\ collected \in 0 .. program.collections
  /\ buffer.cap >= Len(stack)

Allocated(o) ==
  CASE IsA("cell", o) -> heap[o[2]] # Free
    [] IsA("upvalue", o) -> upvalues[o[2]] # Free
    [] IsA("const", o) -> o[2] \in DOMAIN constants

NativeCalls == {n \in ToSet(calls) : n.kind = "native"}

\* What the C++ code can still reach: the roots, what builtins that call back
\* hold in local variables, and whatever those lead to.
Reachable ==
  Closure(RootSet \cup PointersOf(UNION {ToSet(n.results) : n \in NativeCalls}), Refs)

\* No pointer the interpreter can still follow leads to an erased cell, at
\* whichever heads of execute_loop the collector runs (run_gc, HeapCell::mark,
\* UpvalueCell::mark).
NoDangling == \A o \in Reachable : Allocated(o)

\* While an activation runs, and while an error unwinds it, the part of the
\* value stack below the called function is what it was at the call: slots are
\* relative to the frame pointer, and only the cleanup reaches lower.
FramesIsolated ==
  \A i \in DOMAIN calls :
    LET below == calls[i].below
    IN  Len(stack) >= Len(below) /\ SubSeq(stack, 1, Len(below)) = below

\* The number of frames that call i found: those of the loop it was made in, and
\* the frame that made it.
TargetOf(i) ==
  IF i = 1 THEN 1
  ELSE IF calls[i - 1].kind = "native" THEN calls[i - 1].target ELSE calls[i - 1].target + 1

\* The CallFrames and the C++ activations of execute_loop nest alike: one frame
\* each, which starts at its first argument, and an inner loop that returns when
\* only the frames it found are left; only builtins call back.
CallStackMatches ==
  mode \in {"run", "native"} =>
    /\ \A i \in DOMAIN calls :
         /\ calls[i].target = TargetOf(i)
         /\ calls[i].kind = "callback" <=> i > 1 /\ calls[i - 1].kind = "native"
         /\ calls[i].kind # "native" /\ calls[i].target < Len(frames) =>
              frames[calls[i].target + 1].fp =
                Len(calls[i].below) + (IF calls[i].kind = "call" THEN 1 ELSE 0)
    /\ mode = "run" =>
         Len(frames) \in {Target, Target + 1} /\ (calls # <<>> => Last(calls).kind # "native")
    /\ mode = "native" =>
         calls # <<>> /\ Last(calls).kind = "native" /\ Len(frames) = Target

\* When a function starts, its slots hold its curried arguments and then the
\* arguments of the call, each in its place, whoever calls it: OpCall moves the
\* arguments up in place, call_function copies them behind the stack.
ParametersInPlace ==
  [][Len(frames') > Len(frames) =>
       LET called == Last(frames')
           args == IF mode = "native" THEN <<Elements(Native)[Native.next]>> ELSE Args
       IN  SubSeq(stack', called.fp + 1, Len(stack')) = called.closure.curried \o args]_vars

\* A program that ends has printed what it should and left nothing behind; one
\* that fails has thrown the right error at the right place, and its stack trace
\* names the functions that were being called, wherever the collector ran.
OutputCorrect ==
  /\ mode = "done" => program.result = "done" /\ out = program.out /\ calls = <<>>
  /\ mode \in {"failed", "aborted"} =>
       error = program.result /\ out = program.out /\ Stacktrace = program.stacktrace

\* No builtin reads its arguments through storage the value stack has left.
DefinedBehaviour == mode # "undefined"

\* OpClosure takes the current values of the variables the function captures.
SnapshotTaken ==
  [][OpClosure =>
       \A i \in DOMAIN Instr.upvalues :
         LET slot == Instr.upvalues[i].index
         IN  Instr.upvalues[i].local =>
               upvalues'[Last(frames').captured[slot]] = stack[SlotIndex(slot)]]_vars

\* Every program stops: execute returns or throws.
Terminates == <>Ended
=============================================================================
