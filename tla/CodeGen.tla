------------------------------- MODULE CodeGen -------------------------------
(***************************************************************************)
(* The code generator (compiler/codegen_vm.py): typed trees lowered to     *)
(* instructions, jumps emitted before their targets and patched, scopes'   *)
(* references released where control leaves them, and the source map built *)
(* as it goes.  g is the generator's state: the code, the string table,    *)
(* the enclosing loops and open scopes, the source map's marks and the     *)
(* position in force.  Code is indexed from 1.                             *)
(*                                                                         *)
(* Two fields of an instruction are not in the code: by, the line of the   *)
(* innermost node being lowered when it was emitted; and live, on the      *)
(* first instruction of a statement, the reference slots whose scopes are  *)
(* open there.                                                             *)
(***************************************************************************)
EXTENDS Sema

NotAStart == {-1}

Emit(g, op, arg) ==
    [g EXCEPT !.code = Append(@, [op |-> op, arg |-> arg, by |-> g.at, live |-> g.live]),
              !.live = NotAStart]
Here(g) == Len(g.code) + 1               \* the address of the next instruction
Patch(g, site) == [g EXCEPT !.code[site].arg = Here(g)]
PatchTo(g, sites, target) ==
    [g EXCEPT !.code = [i \in DOMAIN @ |-> IF i \in sites THEN [@[i] EXCEPT !.arg = target]
                                                          ELSE @[i]]]

(***************************************************************************)
(* Source positions.  A mark says "from here on, this line"; one that      *)
(* described no instruction is replaced, and one that repeats the position *)
(* in force is not added.                                                  *)
(***************************************************************************)
MarkFirstWins(g, line) ==                           \* a mistake: see the README
    LET n == Len(g.marks)
    IN  IF n > 0 /\ (g.marks[n].pc = Here(g) \/ g.marks[n].line = line) THEN g
        ELSE [g EXCEPT !.marks = Append(@, [pc |-> Here(g), line |-> line])]
Mark(g, line) ==
    LET n == Len(g.marks)
    IN  IF n > 0 /\ g.marks[n].pc = Here(g)
        THEN [g EXCEPT !.marks[n].line = line]
        ELSE IF n > 0 /\ g.marks[n].line = line THEN g
        ELSE [g EXCEPT !.marks = Append(@, [pc |-> Here(g), line |-> line])]
Lookup(marks, pc) ==
    LET before == {i \in DOMAIN marks : marks[i].pc <= pc}
    IN  IF before = {} THEN 0 ELSE marks[CHOOSE i \in before : \A j \in before : j <= i].line

\* A node without a position leaves the enclosing one in force.
Enter(g, line) == IF line = 0 THEN g ELSE Mark([g EXCEPT !.at = line], line)
Leave(g, outer) == LET h == [g EXCEPT !.at = outer]
                   IN  IF outer = 0 THEN h ELSE Mark(h, outer)
LineOf(node) == IF "at" \in DOMAIN node THEN node.at ELSE 0

(***************************************************************************)
(* Frames: every symbol its own slots, in the order of the frame; the      *)
(* stack map lists the slots that hold references.                         *)
(***************************************************************************)
SlotIn(frame, id) ==
    FoldLeft(LAMBDA n, sym : n + Width(sym.type), 0, SubSeq(frame, 1, id - 1))
RefSlotsByCount(frame) ==                           \* a mistake: see the README
    {i - 1 : i \in {j \in DOMAIN frame : IsReference(frame[j].type)}}
RefSlots(frame) == {SlotIn(frame, i) : i \in {j \in DOMAIN frame : IsReference(frame[j].type)}}
FrameSize(frame) == SlotIn(frame, Len(frame) + 1)
BuildLayout(f) ==
    [name |-> f.name, ret |-> f.ret, size |-> FrameSize(f.frame), arity |-> f.arity,
     widths |-> [i \in 1..f.arity |-> Width(f.frame[i].type)],
     refs |-> RefSlots(f.frame), entry |-> 0]

Slot(g, sym) == SlotIn(g.frame, sym.id)
LoadOp(t) == IF t = FloatT THEN "LOAD_LOCAL_F" ELSE "LOAD_LOCAL"
StoreOp(t) == IF t = FloatT THEN "STORE_LOCAL_F" ELSE "STORE_LOCAL"
LoadFieldOp(t) == IF t = FloatT THEN "HEAP_LOAD_FIELD_F" ELSE "HEAP_LOAD_FIELD"
StoreFieldOp(t) == IF t = FloatT THEN "HEAP_STORE_FIELD_F" ELSE "HEAP_STORE_FIELD"

\* A literal is interned: the table holds each text once.  A text is a sequence
\* of character codes.
TrueText == <<116>>
FalseText == <<102>>
LoadStr(g, text) ==
    LET known == \E i \in DOMAIN g.strings : g.strings[i] = text
        h == IF known THEN g ELSE [g EXCEPT !.strings = Append(@, text)]
    IN  Emit(h, "LOAD_STR", CHOOSE i \in DOMAIN h.strings : h.strings[i] = text)

(***************************************************************************)
(* Expressions: each leaves exactly one value.                             *)
(***************************************************************************)
RECURSIVE EmitExpr(_, _), EmitAll(_, _)
EmitAll(es, g) == FoldLeft(LAMBDA acc, e : EmitExpr(e, acc), g, es)

IntOps ==
    [x \in Arith \cup IntOnly \cup Relations \cup {"==", "!="} |->
       CASE x = "+" -> "ADD" [] x = "-" -> "SUB" [] x = "*" -> "MUL" [] x = "/" -> "DIV"
         [] x = "%" -> "MOD" [] x = "^" -> "XOR" [] x = "&" -> "AND" [] x = "|" -> "OR"
         [] x = "<<" -> "SHL" [] x = ">>" -> "SHR" [] x = "==" -> "CMP_EQ"
         [] x = "!=" -> "CMP_NE" [] x = "<" -> "CMP_LT" [] x = "<=" -> "CMP_LE"
         [] x = ">" -> "CMP_GT" [] x = ">=" -> "CMP_GE"]
FloatOps == [x \in Arith |-> CASE x = "+" -> "FADD" [] x = "-" -> "FSUB"
                               [] x = "*" -> "FMUL" [] x = "/" -> "FDIV"]
Comparisons == Relations \cup {"==", "!="}

\* && and || as branches: the second operand runs only if it decides.
ShortJump(e) == IF e.op = "&&" THEN "JZ" ELSE "JNZ"
Decided(e, l, r, through) ==
    LET skip == Emit(through, "JMP", 0)
        end == Emit(skip, "PUSH_INT", IF e.op = "&&" THEN 0 ELSE 1)
    IN  Patch(PatchTo(end, {Here(l), Here(r)}, Here(skip)), Here(through))
SecondOperand(e, l, r) ==
    Decided(e, l, r, Emit(Emit(r, ShortJump(e), 0), "PUSH_INT", IF e.op = "&&" THEN 1 ELSE 0))
FirstOperand(e, l) == SecondOperand(e, l, EmitExpr(e.r, Emit(l, ShortJump(e), 0)))
EmitShortCircuit(e, g) == FirstOperand(e, EmitExpr(e.l, g))

EmitOperator(e, both) ==
    LET against0(op) == Emit(Emit(Emit(both, op, 0), "PUSH_INT", 0), IntOps[e.op], 0)
    IN  CASE e.op = "+" /\ e.l.t = StrT -> Emit(both, "STR_CONCAT", 0)
          [] e.op \in Arith /\ e.l.t = FloatT -> Emit(both, FloatOps[e.op], 0)
          [] e.op \in Comparisons /\ e.l.t = FloatT -> against0("FCMP")
          [] e.op \in Comparisons /\ e.l.t = StrT -> against0("STR_CMP")
          [] OTHER -> Emit(both, IntOps[e.op], 0)
EmitBinary(e, g) ==
    IF e.op \in {"&&", "||"} THEN EmitShortCircuit(e, g)
    ELSE EmitOperator(e, EmitExpr(e.r, EmitExpr(e.l, g)))

EmitUnary(e, g) ==
    LET op == CASE e.op = "-" -> IF e.t = FloatT THEN "FNEG" ELSE "NEG"
                [] e.op = "!" -> "NOT" [] e.op = "~" -> "BITNOT"
    IN  Emit(EmitExpr(e.e, g), op, 0)

Checked(arr, i, g) == Emit(EmitExpr(i, g), "BOUNDS_CHECK", arr.t[2])
EmitIndex(e, g) == Emit(Checked(e.a, e.i, g), "LOAD_LOCAL_IDX", Slot(g, e.a.sym))

\* A pointer is a slot number of the current frame.
EmitAddress(e, g) ==
    IF e.e.k = "id" THEN Emit(g, "PUSH_INT", Slot(g, e.e.sym))
    ELSE Emit(Emit(Checked(e.e.a, e.e.i, g), "PUSH_INT", Slot(g, e.e.a.sym)), "ADD", 0)

\* One field of an object whose address is on the stack and stays there.
EmitField(id, f, val, g) ==
    Emit(EmitExpr(val, Emit(g, "DUP", 0)), StoreFieldOp(FieldType(id, f)), OffsetOf(id, f))
EmitStruct(e, g) ==
    FoldLeft(LAMBDA acc, fi : EmitField(e.id, fi[1], fi[2], acc),
             Emit(g, "ALLOC_TYPED", e.id), e.fs)
\* A variant carrying nothing is a constant, loaded rather than allocated.
EmitVariant(e, g) ==
    IF Layouts[e.id].fields = <<>> THEN Emit(g, "LOAD_VARIANT", e.id)
    ELSE FoldLeft(LAMBDA acc, i : EmitField(e.id, Layouts[e.id].fields[i][1], e.typed[i], acc),
                  Emit(g, "ALLOC_TYPED", e.id), [i \in DOMAIN e.typed |-> i])

\* Builtins lowered to their arguments and one opcode; those returning void
\* push a 0 in place of a result.
BuiltinOps ==
    [ load16 |-> "LOAD_INDIRECT",  store16 |-> "STORE_INDIRECT", memcpy |-> "MEMCPY_LOCALS",
      memset |-> "MEMSET_LOCALS",  ct_eq |-> "CMP_EQ",           panic |-> "PANIC",
      str_len |-> "STR_LEN",       int_to_float |-> "F_FROM_INT", float_to_int |-> "F_TO_INT",
      file_exists |-> "FILE_EXISTS", file_delete |-> "FILE_DELETE", file_error |-> "FILE_ERROR" ]

EmitArrayPush(as, g) ==
    LET len == Emit(EmitExpr(as[2], g), "DUP", 0)
        val == Emit(EmitExpr(as[3], len), "SWAP", 0)
        set == Emit(Emit(val, "BOUNDS_CHECK", as[1].t[2]), "STORE_LOCAL_IDX", Slot(g, as[1].sym))
    IN  Emit(Emit(set, "PUSH_INT", 1), "ADD", 0)
EmitArrayPop(as, g) ==
    LET last == Emit(Emit(EmitExpr(as[2], g), "PUSH_INT", 1), "SUB", 0)
    IN  Emit(Emit(last, "BOUNDS_CHECK", as[1].t[2]), "LOAD_LOCAL_IDX", Slot(g, as[1].sym))
EmitCtSelect(as, g) ==
    LET diff == Emit(EmitExpr(as[3], EmitExpr(as[2], g)), "SUB", 0)
        scaled == Emit(EmitExpr(as[1], diff), "MUL", 0)
    IN  Emit(EmitExpr(as[3], scaled), "ADD", 0)

EmitBuiltin(e, g) ==
    CASE e.f = "array_push" -> EmitArrayPush(e.typed, g)
      [] e.f = "array_pop" -> EmitArrayPop(e.typed, g)
      [] e.f = "ct_select" -> EmitCtSelect(e.typed, g)
      [] OTHER -> LET op == Emit(EmitAll(e.typed, g), BuiltinOps[e.f], 0)
                  IN  IF e.t = VoidT THEN Emit(op, "PUSH_INT", 0) ELSE op

EmitCall(e, g) ==
    CASE e.b = "indirect" -> Emit(Emit(EmitAll(e.typed, g), "LOAD_LOCAL", Slot(g, e.sym)),
                                  "CALL_INDIRECT", 0)
      [] e.b = "variant" -> EmitVariant(e, g)
      [] e.b = "builtin" -> EmitBuiltin(e, g)
      [] e.b = "function" -> Emit(EmitAll(e.typed, g), "CALL", g.index[e.f])

EmitIdentifier(e, g) ==
    CASE e.b = "local" -> Emit(g, LoadOp(e.t), Slot(g, e.sym))
      [] e.b = "function" -> Emit(g, "PUSH_INT", g.index[e.x])
      [] e.b = "variant" -> EmitVariant(e, g)

EmitBody(e, g) ==
    CASE e.k = "int" -> Emit(g, "PUSH_INT", e.v % 65536)
      [] e.k = "bool" -> Emit(g, "PUSH_INT", IF e.v THEN 1 ELSE 0)
      [] e.k = "null" -> Emit(g, "PUSH_INT", 0)
      [] e.k = "float" -> Emit(g, "PUSH_FLOAT", e.v)
      [] e.k = "str" -> LoadStr(g, e.v)
      [] e.k = "id" -> EmitIdentifier(e, g)
      [] e.k = "un" -> EmitUnary(e, g)
      [] e.k = "bin" -> EmitBinary(e, g)
      [] e.k = "index" -> EmitIndex(e, g)
      [] e.k = "addr" -> EmitAddress(e, g)
      [] e.k = "field" -> Emit(EmitExpr(e.e, g), LoadFieldOp(e.t),
                               OffsetOf(LayoutNamed(e.e.t[2]), e.f))
      [] e.k = "struct" -> EmitStruct(e, g)
      [] e.k = "call" -> EmitCall(e, g)
      [] e.k = "rcall" -> Emit(EmitExpr(e.e, EmitAll(e.typed, g)), "CALL_INDIRECT", 0)

EmitExpr(e, g) == Leave(EmitBody(e, Enter(g, LineOf(e))), g.at)

(***************************************************************************)
(* Statements.                                                             *)
(***************************************************************************)
RECURSIVE EmitStmt(_, _)

\* Null into every reference slot a scope declared.
ReleaseScope(g, refs) ==
    FoldLeft(LAMBDA acc, sym : Emit(Emit(acc, "PUSH_INT", 0), "STORE_LOCAL", Slot(g, sym)),
             g, refs)
ReleaseInnermost(g, depth) == ReleaseScope(g, Last(g.scopes))   \* a mistake: see the README
ReleaseScopesTo(g, depth) ==              \* innermost first
    FoldLeft(ReleaseScope, g, Reverse(SubSeq(g.scopes, depth + 1, Len(g.scopes))))
OpenScope(g, refs) == [g EXCEPT !.scopes = Append(@, refs)]
CloseScope(g) == [g EXCEPT !.scopes = Front(@)]
EmitScoped(block, g) ==
    LET in == FoldLeft(LAMBDA acc, s : EmitStmt(s, acc), OpenScope(g, block.refs), block.body)
    IN  ReleaseScope(CloseScope(in), block.refs)

\* Loops remember the scopes open around them, and the jumps to patch.
BeginLoop(g) == [g EXCEPT !.loops = Append(@, [depth |-> Len(g.scopes),
                                               breaks |-> {}, continues |-> {}])]
EndLoop(g, break, continue) ==
    LET loop == Last(g.loops)
        h == [g EXCEPT !.loops = Front(@)]
    IN  PatchTo(PatchTo(h, loop.breaks, break), loop.continues, continue)
EmitLoopJump(s, g) ==
    LET n == Len(g.loops)
        out == ReleaseScopesTo(g, g.loops[n].depth)
        noted == IF s.k = "break" THEN [out EXCEPT !.loops[n].breaks = @ \cup {Here(out)}]
                 ELSE [out EXCEPT !.loops[n].continues = @ \cup {Here(out)}]
    IN  Emit(noted, "JMP", 0)

EmitVarDecl(s, g) ==
    LET t == s.sym.type
        slot == Slot(g, s.sym)
        zero(acc, i) == Emit(Emit(acc, "PUSH_INT", 0), "STORE_LOCAL", slot + i - 1)
        init == CASE s.e # None -> EmitExpr(s.e, g)
                  [] s.e = None /\ t = StrT -> LoadStr(g, <<>>)
                  [] s.e = None /\ t = FloatT -> Emit(g, "PUSH_FLOAT", 0)
                  [] OTHER -> Emit(g, "PUSH_INT", 0)
    IN  IF IsArray(t) THEN FoldLeft(zero, g, [i \in 1..t[2] |-> i])
        ELSE Emit(init, StoreOp(t), slot)

EmitAssign(s, g) ==
    LET to == s.target
        id == LayoutNamed(to.e.t[2])
        indexed == Checked(to.a, to.i, Enter(EmitExpr(s.e, g), LineOf(to)))
    IN  CASE to.k = "id" -> Emit(EmitExpr(s.e, g), StoreOp(s.e.t), Slot(g, to.sym))
          [] to.k = "index" -> Leave(Emit(indexed, "STORE_LOCAL_IDX", Slot(g, to.a.sym)), g.at)
          [] to.k = "field" -> Emit(EmitExpr(s.e, EmitExpr(to.e, g)),
                                    StoreFieldOp(FieldType(id, to.f)), OffsetOf(id, to.f))

\* A bool is printed as a word chosen by a branch (_emit_bool_to_str).
WordFor(v, yes) ==
    Patch(LoadStr(Patch(Emit(yes, "JMP", 0), Here(v)), FalseText), Here(yes))
EmitShown(t, v) ==
    CASE t = StrT -> Emit(v, "PRINT_STR", 0)
      [] t = FloatT -> Emit(v, "PRINT_FLOAT", 0)
      [] t = BoolT -> Emit(WordFor(v, LoadStr(Emit(v, "JZ", 0), TrueText)), "PRINT_STR", 0)
      [] OTHER -> Emit(v, "PRINT_INT", 0)
EmitPrint(s, g) == EmitShown(s.e.t, EmitExpr(s.e, g))

EmitElse(s, cond, then) ==
    LET else == Patch(Emit(then, "JMP", 0), Here(cond))
    IN  Patch(IF s.else.body = <<>> THEN else ELSE EmitScoped(s.else, else), Here(then))
EmitThen(s, cond) == EmitElse(s, cond, EmitScoped(s.then, Emit(cond, "JZ", 0)))
EmitIf(s, g) == EmitThen(s, EmitExpr(s.e, g))

WhileEnd(g, cond, end) == Patch(EndLoop(end, Here(end), Here(g)), Here(cond))
WhileBody(s, g, cond) ==
    WhileEnd(g, cond, Emit(EmitScoped(s.body, BeginLoop(Emit(cond, "JZ", 0))), "JMP", Here(g)))
EmitWhile(s, g) == WhileBody(s, g, EmitExpr(s.e, g))

EmitClause(st, g) == IF st = None THEN g ELSE EmitStmt(st, g)

\* A continue lands on the step.  The init clause's scope is open around the
\* loop and released once, where the loop ends.
ForEnd(s, cond, body, end) ==
    LET tested == IF s.e = None THEN end ELSE Patch(end, Here(cond) - 1)
    IN  ReleaseScope(CloseScope(EndLoop(tested, Here(end), Here(body))), s.refs)
ForStep(s, init, cond, body) ==
    ForEnd(s, cond, body, Emit(EmitClause(s.step, body), "JMP", Here(init)))
ForBody(s, init, cond) == ForStep(s, init, cond, EmitScoped(s.body, BeginLoop(cond)))
ForCondition(s, init) ==
    ForBody(s, init, IF s.e = None THEN init ELSE Emit(EmitExpr(s.e, init), "JZ", 0))
EmitFor(s, g) == ForCondition(s, EmitClause(s.init, OpenScope(g, s.refs)))

\* The subject and its tag stay on the stack until an arm takes them off.
BindPayload(arm, g) ==
    FoldLeft(LAMBDA acc, i :
                 LET fld == Layouts[arm.id].fields[i]
                     read == Emit(Emit(acc, "DUP", 0), LoadFieldOp(fld[2]),
                                  OffsetOf(arm.id, fld[1]))
                 IN  Emit(read, StoreOp(fld[2]), Slot(acc, arm.bind[i])),
             g, [i \in DOMAIN arm.bind |-> i])
ArmEnd(ends, test, body) ==
    [g |-> Patch(Emit(body, "JMP", 0), Here(test)), ends |-> ends \cup {Here(body)}]
ArmKeepsSubject(arm, ends, test) ==                 \* a mistake: see the README
    ArmEnd(ends, test, EmitScoped(arm.block, BindPayload(arm, Emit(Emit(test, "JZ", 0), "POP", 0))))
ArmBody(arm, ends, test) ==
    LET bound == BindPayload(arm, Emit(Emit(test, "JZ", 0), "POP", 0))
    IN  ArmEnd(ends, test, EmitScoped(arm.block, Emit(bound, "POP", 0)))
EmitArm(arm, acc) ==
    ArmBody(arm, acc.ends,
            Emit(Emit(Emit(acc.g, "DUP", 0), "PUSH_INT", arm.id), "CMP_EQ", 0))
MatchEnd(ends, end) == PatchTo(end, ends, Here(end))
MatchRest(s, chain) ==
    LET rest == SelectSeq(s.arms, LAMBDA arm : arm.v = "_")
        missed == Emit(Emit(chain.g, "POP", 0), "POP", 0)
    IN  MatchEnd(chain.ends, IF rest = <<>> THEN missed ELSE EmitScoped(rest[1].block, missed))
EmitMatch(s, g) ==
    LET subject == Emit(Emit(EmitExpr(s.e, g), "DUP", 0), "TAG_OF", 0)
        named == SelectSeq(s.arms, LAMBDA arm : arm.v # "_")
    IN  MatchRest(s, FoldLeft(LAMBDA acc, arm : EmitArm(arm, acc),
                              [g |-> subject, ends |-> {}], named))

(***************************************************************************)
(* A vm_asm block is straight-line: underflow and residue are decided      *)
(* here, from each instruction's effect on the stack.                      *)
(***************************************************************************)
AsmOps == [ add |-> "ADD", sub |-> "SUB", mul |-> "MUL", div |-> "DIV", neg |-> "NEG",
            not |-> "NOT", cmp_eq |-> "CMP_EQ", cmp_lt |-> "CMP_LT" ]
AsmPops(op) == CASE op \in {"push_int", "load_local"} -> 0
                 [] op \in {"neg", "not", "store_local"} -> 1 [] OTHER -> 2
AsmPushes(op) == IF op = "store_local" THEN 0 ELSE 1
EmitAsm(s, g) ==
    LET local(x) == Resolve(s.visible, x)
        movable(x) == local(x) # NoSymbol /\ ~IsArray(local(x).type) /\ local(x).type # FloatT
        one(acc, i) ==
            LET ok == /\ i[1] \in {"load_local", "store_local"} => movable(i[2])
                      /\ AsmPops(i[1]) <= acc.depth
                g2 == CASE i[1] = "push_int" -> Emit(acc.g, "PUSH_INT", i[2] % 65536)
                        [] i[1] = "load_local" -> Emit(acc.g, "LOAD_LOCAL", Slot(g, local(i[2])))
                        [] i[1] = "store_local" -> Emit(acc.g, "STORE_LOCAL", Slot(g, local(i[2])))
                        [] OTHER -> Emit(acc.g, AsmOps[i[1]], 0)
            IN  [g |-> g2, depth |-> acc.depth + AsmPushes(i[1]) - AsmPops(i[1]),
                 ok |-> acc.ok /\ ok]
        end == FoldLeft(one, [g |-> g, depth |-> 0, ok |-> TRUE], s.code)
    IN  [end.g EXCEPT !.bad = @ \/ ~end.ok \/ end.depth # 0]

EmitStmtBody(s, g) ==
    CASE s.k = "let" -> EmitVarDecl(s, g)
      [] s.k = "set" -> EmitAssign(s, g)
      [] s.k = "print" -> EmitPrint(s, g)
      [] s.k = "return" -> Emit(IF s.e = None THEN Emit(g, "PUSH_INT", 0) ELSE EmitExpr(s.e, g),
                                "RET", 0)
      [] s.k = "expr" -> Emit(EmitExpr(s.e, g), "POP", 0)
      [] s.k = "if" -> EmitIf(s, g)
      [] s.k = "while" -> EmitWhile(s, g)
      [] s.k = "for" -> EmitFor(s, g)
      [] s.k = "match" -> EmitMatch(s, g)
      [] s.k = "block" -> EmitScoped(s.body, g)
      [] s.k \in {"break", "continue"} -> EmitLoopJump(s, g)
      [] s.k = "asm" -> EmitAsm(s, g)

LiveSlots(g) == {Slot(g, sym) : sym \in UNION {ToSet(g.scopes[i]) : i \in DOMAIN g.scopes}}
                  \cup g.whole
EmitStmt(s, g) ==
    LET start == [Enter(g, LineOf(s)) EXCEPT !.live = LiveSlots(g)]
    IN  Leave(EmitStmtBody(s, start), g.at)

(***************************************************************************)
(* Functions are registered before any is emitted.  Falling off the end of *)
(* one returns 0.  whole: the reference slots of the function's own scope, *)
(* which no release ever clears.                                           *)
(***************************************************************************)
FunctionEnd(body) ==
    [Emit(Emit([body EXCEPT !.live = NotAStart], "PUSH_INT", 0), "RET", 0)
        EXCEPT !.ends = Append(@, Here(body))]
EmitFunction(g, f) ==
    LET start == [g EXCEPT !.frame = f.frame, !.entries = Append(@, Here(g)),
                           !.whole = {SlotIn(f.frame, sym.id) : sym \in ToSet(f.own)}]
    IN  FunctionEnd(FoldLeft(LAMBDA acc, s : EmitStmt(s, acc), start, f.body))

Generated(fns, g) ==
    [ok |-> ~g.bad, code |-> g.code, strings |-> g.strings, marks |-> g.marks,
     fns |-> [i \in DOMAIN fns |-> [BuildLayout(fns[i]) EXCEPT !.entry = g.entries[i]]],
     ends |-> g.ends]
Generate(fns) ==
    LET index == [x \in {fns[i].name : i \in DOMAIN fns} |-> FunctionNamed(fns, x)]
        start == [code |-> <<>>, strings |-> <<>>, loops |-> <<>>, scopes |-> <<>>,
                  marks |-> <<>>, at |-> 0, live |-> NotAStart, whole |-> {}, frame |-> <<>>,
                  index |-> index, entries |-> <<>>, ends |-> <<>>, bad |-> FALSE]
    IN  Generated(fns, FoldLeft(EmitFunction, start, fns))
=============================================================================
