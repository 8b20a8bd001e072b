------------------------------ MODULE Compiler ------------------------------
(***************************************************************************)
(* compiler.cpp: from syntax trees to chunks and constants, up to the call *)
(* of the optimizer.  A compilation is one pass over the tree, so each     *)
(* method is an operator from the state before it to the state after it.   *)
(*                                                                         *)
(* The state: the program's chunks and constants, a context per function   *)
(* that is being compiled (its locals with their scope depth, upvalues,    *)
(* chunk, scope depth, is_in_expression), the loops around the current     *)
(* statement, and whether a CompileError was thrown.  `marks' is history:  *)
(* <<chunk, offset, number of locals>> at the start of every statement.    *)
(* Locations are left out, and so is the counter in synthetic names, which *)
(* no program can refer to.                                                *)
(***************************************************************************)
EXTENDS Instructions, Syntax, FiniteSetsExt

----------------------------------------------------------------------------
(* Contexts and code *)

NewContext(chunk) ==
  [locals |-> <<>>, upvalues |-> <<>>, chunk |-> chunk, depth |-> 0,
   in_expression |-> FALSE]

Current(s) == Last(s.contexts)
SetCurrent(s, context) == [s EXCEPT !.contexts = Append(Front(@), context)]
CodeOf(s) == s.chunks[Current(s).chunk + 1]

\* current_instruction_offset
Here(s) == Len(CodeOf(s))

Emit(s, instr) == [s EXCEPT !.chunks[Current(s).chunk + 1] = Append(@, instr)]
CompileError(s) == [s EXCEPT !.error = TRUE]

\* make_constant: the index of the next constant.
NextConstant(s) == Len(s.constants)
AddConstant(s, d) == [s EXCEPT !.constants = Append(@, d)]
EmitConstant(s, d) == Emit(AddConstant(s, d), Constant(NextConstant(s)))
EmitNil(s) == EmitConstant(s, Nil)

\* The offset of a jump to be patched later; jumps collects where such jumps are.
Hole == -1
EmitJump(acc, instr) ==
  [acc EXCEPT !.s = Emit(@, instr), !.jumps = Append(@, Here(acc.s))]

\* patch_jump.  An offset beyond the chunk is undefined behaviour, here an error.
Patch(s, offset, target) ==
  IF offset < Here(s) /\ CodeOf(s)[offset + 1].op \in {"JUMP", "JUMP_IF"}
  THEN [s EXCEPT !.chunks[Current(s).chunk + 1][offset + 1].offset = target]
  ELSE CompileError(s)
PatchHere(s, offset) == Patch(s, offset, Here(s))
PatchAllHere(s, offsets) == FoldLeft(PatchHere, s, offsets)

----------------------------------------------------------------------------
(* Scopes and variables *)

BeginScope(s) == SetCurrent(s, [Current(s) EXCEPT !.depth = @ + 1])

\* end_scope: the locals of the scope go, and their values if pop is set.
EndScope(s, pop) ==
  LET depth == Current(s).depth - 1
      kept == SelectSeq(Current(s).locals, LAMBDA local : local.depth <= depth)
      count == Len(Current(s).locals) - Len(kept)
      left == SetCurrent(s, [Current(s) EXCEPT !.depth = depth, !.locals = kept])
  IN  IF pop THEN Emit(left, Pop(count)) ELSE left

Locals(s) == Len(Current(s).locals)
AddLocal(s, name) ==
  SetCurrent(s, [Current(s) EXCEPT
                   !.locals = Append(@, [name |-> name, depth |-> Current(s).depth])])

\* resolve_in_context: the innermost local of a name shadows the others.
Named(context, name) == {i \in DOMAIN context.locals : context.locals[i].name = name}
Slot(context, name) == Max(Named(context, name)) - 1

\* Mutant: the index of a new upvalue is taken after it was added.
AddUpvalueLate(acc, k) ==
  LET entry == [local |-> acc.local, index |-> acc.index]
      upvalues == acc.s.contexts[k].upvalues
  IN  [s |-> [acc.s EXCEPT !.contexts[k].upvalues = Append(@, entry)],
       local |-> FALSE, index |-> Len(upvalues) + 1]
\* add_upvalue_to_context, in the context that is k-th from the outside.
AddUpvalue(acc, k) ==
  LET entry == [local |-> acc.local, index |-> acc.index]
      upvalues == acc.s.contexts[k].upvalues
      at == {i \in DOMAIN upvalues : upvalues[i] = entry}
  IN  IF at = {}
      THEN [s |-> [acc.s EXCEPT !.contexts[k].upvalues = Append(@, entry)],
            local |-> FALSE, index |-> Len(upvalues)]
      ELSE [acc EXCEPT !.local = FALSE, !.index = Min(at) - 1]

\* resolve_variable: a local, an upvalue threaded through the functions in
\* between, or a global, whose name becomes a constant.
Resolve(s, name) ==
  LET n == Len(s.contexts)
      owners == {k \in 1 .. n - 1 : Named(s.contexts[k], name) # {}}
      owner == Max(owners)
      inner == [i \in 1 .. n - owner |-> owner + i]
      found == [s |-> s, local |-> TRUE, index |-> Slot(s.contexts[owner], name)]
  IN  IF Named(Current(s), name) # {}
      THEN [s |-> s, kind |-> "local", index |-> Slot(Current(s), name)]
      ELSE IF owners # {}
      THEN LET threaded == FoldLeft(AddUpvalue, found, inner)
           IN  [s |-> threaded.s, kind |-> "upvalue", index |-> threaded.index]
      ELSE [s |-> AddConstant(s, Str(<<name>>)), kind |-> "global",
            index |-> NextConstant(s)]

EmitGet(s, name) ==
  LET r == Resolve(s, name)
  IN  Emit(r.s, CASE r.kind = "local" -> GetLocal(r.index)
                  [] r.kind = "upvalue" -> GetUpvalue(r.index)
                  [] r.kind = "global" -> GetGlobal(r.index))

EmitSet(s, name) ==
  LET r == Resolve(s, name)
  IN  Emit(r.s, CASE r.kind = "local" -> SetLocal(r.index)
                  [] r.kind = "upvalue" -> SetUpvalue(r.index)
                  [] r.kind = "global" -> SetGlobal(r.index))

----------------------------------------------------------------------------
RECURSIVE CompileExpression(_, _), CompileBlock(_, _)

(* Expressions *)

CompileAll(s, expressions) == FoldLeft(CompileExpression, s, expressions)

\* Unary plus does nothing.
CompileUnary(s, e) ==
  LET operand == CompileExpression(s, e.operand)
  IN  IF e.op = "PLUS" THEN operand ELSE Emit(operand, Plain(e.op))

CompileBinary(s, e) == Emit(CompileAll(s, <<e.lhs, e.rhs>>), Plain(e.op))

\* The jump keeps the value that decides.
CompileLogical(s, e) ==
  LET lhs == CompileExpression(s, e.lhs)
      test == Emit(lhs, JumpIf(Hole, e.op = "OR", TRUE))
  IN  PatchHere(CompileExpression(test, e.rhs), Here(lhs))

\* Every link but the last keeps its right operand and jumps to a stub of its
\* own when it is false; the stub replaces operand and result by false.
CompileComparison(s, e) ==
  LET n == Len(e.links)
      CompileLink(acc, i) ==
        LET link == e.links[i]
            compared == [acc EXCEPT !.s = Emit(CompileExpression(@, link.operand),
                                               Compares(link.op, i < n))]
        IN  IF i < n THEN EmitJump(compared, JumpIf(Hole, FALSE, TRUE)) ELSE compared
      chain == FoldLeft(CompileLink, [s |-> CompileExpression(s, e.start), jumps |-> <<>>],
                        [i \in 1 .. n |-> i])
      Stub(acc, jump) ==
        EmitJump([acc EXCEPT !.s = EmitConstant(Emit(PatchHere(@, jump), Pop(2)),
                                                Bool(FALSE))], Jump(Hole))
      stubs == FoldLeft(Stub, EmitJump([chain EXCEPT !.jumps = <<>>], Jump(Hole)),
                        chain.jumps)
  IN  PatchAllHere(stubs.s, stubs.jumps)

CompileVariable(s, e) == EmitGet(s, e.name)
CompileIndex(s, e) == Emit(CompileAll(s, <<e.base, e.index>>), Plain("GET_INDEX"))
CompileArray(s, e) == Emit(CompileAll(s, e.elements), MakeArray(Len(e.elements)))
\* Mutant: a statement's call keeps what it returns.
CompileCallKeeps(s, e, keep) ==
  Emit(CompileAll(EmitGet(s, e.name), e.arguments), CallWith(Len(e.arguments), TRUE))
CompileCall(s, e, keep) ==
  Emit(CompileAll(EmitGet(s, e.name), e.arguments), CallWith(Len(e.arguments), keep))

\* compile_function_body: in a context and a chunk of its own.
CompileFunctionBody(s, f) ==
  LET chunk == Len(s.chunks)
      entered == [s EXCEPT !.contexts = Append(@, NewContext(chunk)),
                           !.chunks = Append(@, <<>>)]
      body == CompileBlock(FoldLeft(AddLocal, entered, f.parameters), f.block)
      ended == IF f.block.last = <<>> THEN Emit(EmitNil(body), Return) ELSE body
  IN  [s |-> [ended EXCEPT !.contexts = Front(@)],
       upvalues |-> Current(ended).upvalues, chunk |-> chunk]

\* A closure only where there is something to capture.
CompileFunction(s, f, name) ==
  LET body == CompileFunctionBody(s, f)
      template == Template(body.chunk, name, Len(f.parameters))
      i == NextConstant(body.s)
  IN  Emit(AddConstant(body.s, template),
           IF body.upvalues = <<>> THEN Constant(i) ELSE MakeClosure(i, body.upvalues))

\* compile_if_branch
CompileIfBranch(acc, branch) ==
  LET condition == CompileExpression(acc.s, branch.condition)
      block == CompileBlock(Emit(condition, JumpIf(Hole, FALSE, FALSE)), branch.block)
      done == EmitJump([acc EXCEPT !.s = block], Jump(Hole))
  IN  [done EXCEPT !.s = PatchHere(@, Here(condition))]

\* compile_if_expression and compile_if_statement
CompileIf(s, e) ==
  LET branches == FoldLeft(CompileIfBranch, [s |-> s, jumps |-> <<>>], e.branches)
  IN  PatchAllHere(FoldLeft(CompileBlock, branches.s, e.otherwise), branches.jumps)

\* While an expression is compiled the context knows.  A CompileError ends the
\* compilation.
CompileExpression(s, e) ==
  LET outside == Current(s).in_expression
      inside == SetCurrent(s, [Current(s) EXCEPT !.in_expression = TRUE])
      compiled ==
        CASE e.node = "literal" -> EmitConstant(inside, e.value)
          [] e.node = "array" -> CompileArray(inside, e)
          [] e.node = "unary" -> CompileUnary(inside, e)
          [] e.node = "binary" -> CompileBinary(inside, e)
          [] e.node = "logical" -> CompileLogical(inside, e)
          [] e.node = "comparison" -> CompileComparison(inside, e)
          [] e.node = "variable" -> CompileVariable(inside, e)
          [] e.node = "index" -> CompileIndex(inside, e)
          [] e.node = "function" -> CompileFunction(inside, e, "<anonymous>")
          [] e.node = "call" -> CompileCall(inside, e, TRUE)
          [] e.node = "if" -> CompileIf(inside, e)
  IN  IF s.error THEN s
      ELSE SetCurrent(compiled, [Current(compiled) EXCEPT !.in_expression = outside])

----------------------------------------------------------------------------
(* Loops *)

\* break and continue find the innermost loop in loops, which functions share.
EnterLoop(s, locals) ==
  [s EXCEPT !.loops = Append(@, [breaks |-> <<>>, continues |-> <<>>, locals |-> locals])]

\* The end of a loop: its break jumps lead behind it, its continue jumps to
\* target, where the next round is decided.
LeaveLoop(s, target) ==
  LET loop == Last(s.loops)
      broken == PatchAllHere(s, loop.breaks)
      continued == FoldLeft(LAMBDA t, jump : Patch(t, jump, target), broken, loop.continues)
  IN  [continued EXCEPT !.loops = Front(@)]

\* compile_for_loop and compile_range_for_loop from begin_loop on.  Fetch emits
\* the code for the loop's variable.
CompileCountedLoop(s, e, Fetch(_), Control(_)) ==
  LET begun == BeginScope(EnterLoop(Emit(s, Jump(Hole)), Locals(s)))
      body == CompileBlock(AddLocal(Fetch(begun), e.name), e.block)
      round == EndScope(body, TRUE)
      control == Here(round)
      looped == Patch(Emit(round, Control(Here(begun))), Here(s), control)
  IN  EndScope(LeaveLoop(looped, control), TRUE)

CompileForLoop(s, e) ==
  LET coll == Locals(s)
      len == coll + 1
      index == coll + 2
      collection == AddLocal(CompileExpression(BeginScope(s), e.collection), "_for_collection")
      measured == Emit(Emit(EmitGet(collection, "len"), GetLocal(coll)), CallWith(1, TRUE))
      ready == AddLocal(EmitConstant(AddLocal(measured, "_for_len"), Num(-1)), "_for_index")
      Fetch(t) ==
        Emit(Emit(Emit(t, GetLocal(coll)), GetLocal(index)), Plain("GET_INDEX"))
      Control(body) == ForLoop(index, len, body, FALSE, -1)
  IN  CompileCountedLoop(ready, e, Fetch, Control)

CompileRangeForLoop(s, e) ==
  LET current == Locals(s)
      end == current + 1
      step == current + 2
      start == AddLocal(CompileExpression(BeginScope(s), e.start), "_range_current")
      limited == AddLocal(CompileExpression(start, e.end), "_range_end")
      stepped == AddLocal(IF e.step = <<>> THEN EmitConstant(limited, Num(1))
                          ELSE CompileExpression(limited, e.step[1]), "_range_step")
      ready == FoldLeft(Emit, stepped, <<GetLocal(current), GetLocal(step),
                                         Plain("SUBTRACT"), SetLocal(current)>>)
      Fetch(t) == Emit(t, GetLocal(current))
      Control(body) == ForLoop(current, end, body, e.inclusive, step)
  IN  CompileCountedLoop(ready, e, Fetch, Control)

CompileWhile(s, e) ==
  LET start == Here(s)
      condition == CompileExpression(EnterLoop(s, 0), e.condition)
      tested == Emit(condition, JumpIf(Hole, FALSE, FALSE))
      entered == [tested EXCEPT !.loops[Len(tested.loops)].locals = Locals(tested)]
      looped == Emit(CompileBlock(entered, e.block), Jump(start))
  IN  LeaveLoop(PatchHere(looped, Here(condition)), start)

----------------------------------------------------------------------------
(* Statements *)

\* The elements of the value on top, one after the other, from its slot.
EmitElement(s, slot, i) ==
  Emit(EmitConstant(Emit(s, GetLocal(slot)), Num(i)), Plain("GET_INDEX"))

CompileDeclaration(s, e) ==
  LET value == FoldLeft(CompileExpression, s, e.init)
      slot == Locals(s)
      Bind(t, i) == AddLocal(EmitElement(t, slot, i - 1), e.names[i])
      indices == [i \in DOMAIN e.names |-> i]
  IN  IF e.init = <<>>
      THEN FoldLeft(LAMBDA t, name : AddLocal(EmitNil(t), name), s, e.names)
      ELSE IF Len(e.names) = 1 THEN AddLocal(value, e.names[1])
      ELSE FoldLeft(Bind, AddLocal(value, "_destruct"), indices)

\* Of several names, each is resolved and no instruction to set it is emitted.
CompileNameAssignment(s, e) ==
  LET value == AddLocal(CompileExpression(s, e.value), "_destruct_assign")
      Bind(t, i) == Resolve(EmitElement(t, Locals(s), i - 1), e.names[i]).s
  IN  IF Len(e.names) = 1 THEN EmitSet(CompileExpression(s, e.value), e.names[1])
      ELSE FoldLeft(Bind, value, [i \in DOMAIN e.names |-> i])

\* x op= e; ^= emits no operation.
Computes(e) == e.op \notin {"ASSIGN", "POWER"}
EmitOperation(s, e) == IF Computes(e) THEN Emit(s, Plain(e.op)) ELSE s

CompileNameUpdate(s, e) ==
  LET old == IF e.op = "ASSIGN" THEN s ELSE EmitGet(s, e.target.name)
  IN  EmitSet(EmitOperation(CompileExpression(old, e.value), e), e.target.name)

CompileElementUpdate(s, e) ==
  LET place == CompileAll(s, <<e.target.base, e.target.index>>)
      old == IF e.op = "ASSIGN" THEN place
             ELSE FoldLeft(Emit, place, <<Duplicate(1), Duplicate(1), Plain("GET_INDEX")>>)
  IN  Emit(EmitOperation(CompileExpression(old, e.value), e), Plain("SET_INDEX"))

CompileNamedFunction(s, e) ==
  IF Named(Current(s), e.name) = {} THEN CompileError(s)
  ELSE Emit(CompileFunction(s, e, e.name), SetLocal(Slot(Current(s), e.name)))

CompileStatement(s, e) ==
  LET marked == [s EXCEPT !.marks = @ \cup {<<Current(s).chunk, Here(s), Locals(s)>>}]
      compiled ==
        CASE e.node = "declaration" -> CompileDeclaration(marked, e)
          [] e.node = "for" -> CompileForLoop(marked, e)
          [] e.node = "call" -> CompileCall(marked, e, FALSE)
          [] e.node = "if" -> CompileIf(marked, e)
          [] e.node = "assignment" -> CompileNameAssignment(marked, e)
          [] e.node = "named" -> CompileNamedFunction(marked, e)
          [] e.node = "update" /\ e.target.node = "variable" -> CompileNameUpdate(marked, e)
          [] e.node = "update" /\ e.target.node = "index" -> CompileElementUpdate(marked, e)
          [] e.node = "range_for" -> CompileRangeForLoop(marked, e)
          [] e.node = "while" -> CompileWhile(marked, e)
  IN  IF s.error THEN s ELSE compiled

----------------------------------------------------------------------------
(* Blocks *)

\* The names of functions are declared before the statements.
CompileStatements(s, statements) ==
  LET functions == SelectSeq(statements, LAMBDA e : e.node = "named")
      hoisted == FoldLeft(LAMBDA t, e : AddLocal(EmitNil(t), e.name), s, functions)
  IN  FoldLeft(CompileStatement, hoisted, statements)

\* A return inside an expression leaves its value to the expression.
CompileReturn(s, e) ==
  LET value == IF e.value = <<>> THEN EmitNil(s) ELSE CompileExpression(s, e.value[1])
  IN  IF Current(s).in_expression THEN value ELSE Emit(value, Return)

\* The values of the body's locals stay on the stack.
CompileBreak(s) ==
  IF s.loops = <<>> THEN CompileError(s)
  ELSE [Emit(s, Jump(Hole)) EXCEPT !.loops[Len(s.loops)].breaks = Append(@, Here(s))]

\* Mutant: continue leaves the values of the body's locals, too.
CompileContinueKeeps(s) ==
  IF s.loops = <<>> THEN CompileError(s)
  ELSE [Emit(s, Jump(Hole)) EXCEPT !.loops[Len(s.loops)].continues = Append(@, Here(s))]
CompileContinue(s) ==
  LET popped == Emit(s, Pop(Locals(s) - Last(s.loops).locals))
  IN  IF s.loops = <<>> THEN CompileError(s)
      ELSE [Emit(popped, Jump(Hole)) EXCEPT
              !.loops[Len(s.loops)].continues = Append(@, Here(popped))]

CompileLastStatement(s, e) ==
  CASE e.node = "return" -> CompileReturn(s, e)
    [] e.node = "break" -> CompileBreak(s)
    [] e.node = "continue" -> CompileContinue(s)

CompileBlock(s, block) ==
  LET statements == CompileStatements(BeginScope(s), block.statements)
  IN  EndScope(FoldLeft(CompileLastStatement, statements, block.last), block.last = <<>>)

----------------------------------------------------------------------------
(* Programs *)

\* compile() in front of optimize().
CompileProgram(block) ==
  LET start == [chunks |-> << <<>> >>, constants |-> <<>>, contexts |-> <<NewContext(0)>>,
                loops |-> <<>>, error |-> FALSE, marks |-> {}]
      statements == CompileStatements(start, block.statements)
  IN  IF block.last # <<>> THEN CompileError(statements)
      ELSE Emit(EmitNil(statements), Return)
=============================================================================
