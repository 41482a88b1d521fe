------------------------------- MODULE Meaning -------------------------------
(***************************************************************************)
(* What a QuinLang program means, by structural recursion on its typed     *)
(* tree: nested scopes of named variables, values of the language's types, *)
(* no slots, no words, no stack and no jumps.  It is the abstract          *)
(* specification of compiler and interpreter together.                     *)
(*                                                                         *)
(* A configuration r holds the scopes of the current function (sc), the    *)
(* objects, what was written, the answers the file system has left to      *)
(* give, the last failure's reason, how control goes on (mode: "ok",       *)
(* "break", "continue", "return", "fault", "starved" when the answers have *)
(* run out, "stuck" when the program has no meaning), and the last value   *)
(* (v).                                                                    *)
(***************************************************************************)
EXTENDS Sema

Going(r) == r.mode = "ok"
Val(r, v) == [r EXCEPT !.v = v]
Halt(r, mode, why) == [r EXCEPT !.mode = mode, !.v = why]
Then(r, F(_)) == IF Going(r) THEN F(r) ELSE r
Fails(r, why) == Halt(r, "fault", why)

(***************************************************************************)
(* Variables: the innermost scope that declares a name.                    *)
(***************************************************************************)
Depth(r, x) == LET in == {d \in DOMAIN r.sc : x \in DOMAIN r.sc[d]}
               IN  CHOOSE d \in in : \A e \in in : e <= d
Read(r, x) == r.sc[Depth(r, x)][x]
Write(r, x, v) == [r EXCEPT !.sc[Depth(r, x)][x] = v]
Bind(r, x, v) == [r EXCEPT !.sc[Len(r.sc)] = (x :> v) @@ @]
Push(r) == [r EXCEPT !.sc = Append(@, <<>>)]
Ended(r) == r.mode \in {"fault", "starved", "stuck"}
Pop(r) == IF Ended(r) THEN r ELSE [r EXCEPT !.sc = Front(@)]

(***************************************************************************)
(* Integers are 16-bit two's complement.                                   *)
(***************************************************************************)
Size(a) == IF a < 0 THEN -a ELSE a
Remainder(a, b) == IF a < 0 THEN -(Size(a) % Size(b)) ELSE a % Size(b)
Bit(a, i) == (a \div 2^i) % 2
Bitwise2(F(_, _), a, b) ==
    Wrap16(FoldLeft(LAMBDA n, i : n + 2^(i - 1) * F(Bit(a, i - 1), Bit(b, i - 1)),
                    0, [i \in 1..16 |-> i]))
IntResult(op, a, b) ==
    CASE op = "+" -> Wrap16(a + b)
      [] op = "-" -> Wrap16(a - b)
      [] op = "*" -> Wrap16(a * b)
      [] op = "/" -> Wrap16((a - Remainder(a, b)) \div b)
      [] op = "%" -> Remainder(a, b)
      [] op = "^" -> Bitwise2(LAMBDA x, y : (x + y) % 2, a, b)
      [] op = "&" -> Bitwise2(LAMBDA x, y : x * y, a, b)
      [] op = "|" -> Bitwise2(LAMBDA x, y : IF x + y = 0 THEN 0 ELSE 1, a, b)
      [] op = "<<" -> Wrap16(a * 2^b)
      [] op = ">>" -> a \div 2^b
FloatResult(op, a, b) == CASE op = "+" -> a + b [] op = "-" -> a - b [] op = "*" -> a * b
                           [] op = "/" -> (a - Remainder(a, b)) \div b
TextBefore(a, b) == \/ IsStrictPrefix(a, b)
                    \/ \E i \in DOMAIN a \cap DOMAIN b :
                          a[i] < b[i] /\ \A j \in 1..(i - 1) : a[j] = b[j]
Before(t, a, b) == CASE t = StrT -> TextBefore(a, b) [] OTHER -> a < b
Compared(op, t, a, b) ==
    CASE op = "==" -> a = b [] op = "!=" -> a # b
      [] op = "<" -> Before(t, a, b) [] op = ">=" -> ~Before(t, a, b)
      [] op = ">" -> Before(t, b, a) [] op = "<=" -> ~Before(t, b, a)

Binary(op, t, a, b, r) ==
    CASE op \in Relations \cup {"==", "!="} -> Val(r, Compared(op, t, a, b))
      [] t = StrT -> Val(r, a \o b)
      [] op \in {"/", "%"} /\ b = 0 -> Fails(r, "division by zero")
      [] op \in {"<<", ">>"} /\ b \notin 0..15 -> Fails(r, "shift count")
      [] OTHER -> Val(r, IF t = FloatT THEN FloatResult(op, a, b) ELSE IntResult(op, a, b))

(***************************************************************************)
(* Objects.  A reference is 0, an object's number, or minus the type id of *)
(* a variant carrying nothing, of which there is one.                      *)
(***************************************************************************)
Fresh(r, id, fs) == [r EXCEPT !.heap = Append(@, [id |-> id, fs |-> fs]),
                              !.v = Len(r.heap) + 1]
TypeOf(r, ref) == IF ref < 0 THEN -ref ELSE r.heap[ref].id
Default(t) == CASE t[1] = "array" -> [i \in 0..(t[2] - 1) |-> 0]
                [] t = BoolT -> FALSE [] t = StrT -> <<>> [] OTHER -> 0

(***************************************************************************)
(* A pointer names a variable of the frame, or one element of an array.    *)
(***************************************************************************)
Target(r, p) == r.sc[p.d][p.x]
LoadAt(r, p) == IF p.i < 0 THEN Target(r, p) ELSE Target(r, p)[p.i]
StoreAt(r, p, v) == IF p.i < 0 THEN [r EXCEPT !.sc[p.d][p.x] = v]
                    ELSE [r EXCEPT !.sc[p.d][p.x][p.i] = v]
\* All n words are read before any is written.
CopyAt(r, dst, src, n) ==
    LET from == Target(r, src)
    IN  FoldLeft(LAMBDA acc, i : StoreAt(acc, [dst EXCEPT !.i = @ + i - 1], from[src.i + i - 1]),
                 r, [i \in 1..n |-> i])
FillAt(r, dst, v, n) == FoldLeft(LAMBDA acc, i : StoreAt(acc, [dst EXCEPT !.i = @ + i - 1], v),
                                 r, [i \in 1..n |-> i])

(***************************************************************************)
(* Expressions.                                                            *)
(***************************************************************************)
RECURSIVE Eval(_, _), EvalAll(_, _), EvalCall(_, _), EvalBinary(_, _), EvalAddress(_, _),
          MakeVariant(_, _), ArrayCall(_, _), Invoke(_, _, _), Builtin(_, _, _, _),
          Run(_, _), RunAll(_, _), RunAssign(_, _), RunMatch(_, _), Scoped(_, _), Loop(_, _)
RunAll(stmts, r) == FoldLeft(LAMBDA acc, s : Run(s, acc), r, stmts)
\* The values of es, left to right, as a sequence.
EvalAll(es, r) ==
    LET with(acc, x) == [r |-> x, vs |-> Append(acc.vs, x.v)]
        step(acc, e) == with(acc, Eval(e, acc.r))
        all(end) == IF Going(end.r) THEN Val(end.r, end.vs) ELSE end.r
    IN  all(FoldLeft(step, [r |-> r, vs |-> <<>>], es))

\* A function runs in scopes of its own.  One that should return a value and
\* runs off its end has no meaning.
Returned(f, r, end) ==
    CASE end.mode = "return" -> [end EXCEPT !.mode = "ok", !.sc = r.sc]
      [] end.mode = "ok" /\ f.ret = VoidT -> [end EXCEPT !.sc = r.sc, !.v = 0]
      [] end.mode \in {"ok", "break", "continue"} -> Halt(end, "stuck", "no value")
      [] OTHER -> end
Invoke(name, args, r) ==
    LET f == r.fns[FunctionNamed(r.fns, name)]
        scope == [x \in {f.frame[i].name : i \in 1..f.arity} |->
                    args[CHOOSE i \in 1..f.arity : f.frame[i].name = x]]
    IN  Returned(f, r, RunAll(f.body, [r EXCEPT !.sc = <<scope>>]))

Ask(r, kind) ==
    IF r.ins = <<>> THEN Halt(r, "starved", kind)
    ELSE [r EXCEPT !.ins = Tail(@), !.v = Head(r.ins) = "yes",
                   !.err = IF Head(r.ins) = "fails" THEN <<33>> ELSE <<>>]

ElementAt(r, x, i, F(_)) ==
    IF i \in DOMAIN Read(r, x) THEN F(r) ELSE Fails(r, "array index")

Builtin(f, es, as, r) ==
    CASE f = "load16" -> Val(r, LoadAt(r, as[1]))
      [] f = "store16" -> StoreAt(r, as[1], as[2])
      [] f = "memcpy" -> IF as[3] < 0 THEN Fails(r, "negative count")
                         ELSE CopyAt(r, as[1], as[2], as[3])
      [] f = "memset" -> IF as[3] < 0 THEN Fails(r, "negative count")
                         ELSE FillAt(r, as[1], as[2], as[3])
      [] f = "ct_eq" -> Val(r, as[1] = as[2])
      [] f = "ct_select" -> Val(r, IF as[1] = 1 THEN as[2] ELSE as[3])
      [] f = "panic" -> Fails(r, "panic")
      [] f = "str_len" -> Val(r, Len(as[1]))
      [] f \in {"int_to_float", "float_to_int"} -> Val(r, as[1])
      [] f \in {"file_exists", "file_delete"} -> Ask(r, f)
      [] f = "file_error" -> Val(r, r.err)

ArrayCall(e, r) ==
    LET x == e.typed[1].x
        push(q) == ElementAt(q, x, q.v[1],
                      LAMBDA p : Val([p EXCEPT !.sc[Depth(p, x)][x][q.v[1]] = q.v[2]],
                                     Wrap16(q.v[1] + 1)))
        pop(q) == ElementAt(q, x, Wrap16(q.v[1] - 1),
                            LAMBDA p : Val(p, Read(p, x)[Wrap16(q.v[1] - 1)]))
    IN  Then(EvalAll(Tail(e.typed), r),
             LAMBDA q : IF e.f = "array_push" THEN push(q) ELSE pop(q))

MakeVariant(e, r) ==
    IF Layouts[e.id].fields = <<>> THEN Val(r, -e.id)
    ELSE Then(EvalAll(e.typed, r),
              LAMBDA q : Fresh(q, e.id, [f \in FieldNames(e.id) |-> q.v[FieldNamed(e.id, f)]]))

EvalCall(e, r) ==
    CASE e.b = "variant" -> MakeVariant(e, r)
      [] e.b = "builtin" /\ e.f \in ArrayBuiltins -> ArrayCall(e, r)
      [] e.b = "builtin" -> Then(EvalAll(e.typed, r), LAMBDA q : Builtin(e.f, e.typed, q.v, q))
      [] e.b = "indirect" -> Then(EvalAll(e.typed, r), LAMBDA q : Invoke(Read(q, e.f), q.v, q))
      [] e.b = "function" -> Then(EvalAll(e.typed, r), LAMBDA q : Invoke(e.f, q.v, q))

EvalBinary(e, r) ==
    Then(Eval(e.l, r),
         LAMBDA q : CASE e.op = "&&" -> IF q.v THEN Eval(e.r, q) ELSE q
                      [] e.op = "||" -> IF q.v THEN q ELSE Eval(e.r, q)
                      [] OTHER -> Then(Eval(e.r, q), LAMBDA p : Binary(e.op, e.l.t, q.v, p.v, p)))

EvalAddress(e, r) ==
    IF e.e.k = "id" THEN Val(r, [d |-> Depth(r, e.e.x), x |-> e.e.x, i |-> -1])
    ELSE Then(Eval(e.e.i, r),
              LAMBDA q : ElementAt(q, e.e.a.x, q.v,
                 LAMBDA p : Val(p, [d |-> Depth(p, e.e.a.x), x |-> e.e.a.x, i |-> q.v])))

Field(r, f) == IF r.v = 0 THEN Fails(r, "null dereference") ELSE Val(r, r.heap[r.v].fs[f])

Eval(e, r) ==
    IF ~Going(r) THEN r ELSE
    CASE e.k = "int" -> Val(r, Wrap16(e.v))
      [] e.k \in {"bool", "str", "float"} -> Val(r, e.v)
      [] e.k = "null" -> Val(r, 0)
      [] e.k = "id" /\ e.b = "local" -> Val(r, Read(r, e.x))
      [] e.k = "id" /\ e.b = "function" -> Val(r, e.x)
      [] e.k = "id" /\ e.b = "variant" -> MakeVariant(e, r)
      [] e.k = "un" -> Then(Eval(e.e, r),
                            LAMBDA q : Val(q, CASE e.op = "!" -> ~q.v
                                                [] e.op = "-" /\ e.t = FloatT -> -q.v
                                                [] e.op = "-" -> Wrap16(-q.v)
                                                [] e.op = "~" -> -q.v - 1))
      [] e.k = "bin" -> EvalBinary(e, r)
      [] e.k = "index" -> Then(Eval(e.i, r),
                               LAMBDA q : ElementAt(q, e.a.x, q.v,
                                             LAMBDA p : Val(p, Read(p, e.a.x)[q.v])))
      [] e.k = "addr" -> EvalAddress(e, r)
      [] e.k = "field" -> Then(Eval(e.e, r), LAMBDA q : Field(q, e.f))
      [] e.k = "struct" ->
           Then(EvalAll([i \in DOMAIN e.fs |-> e.fs[i][2]], r),
                LAMBDA q : Fresh(q, e.id, [f \in FieldNames(e.id) |->
                                             q.v[CHOOSE i \in DOMAIN e.fs : e.fs[i][1] = f]]))
      [] e.k = "call" -> EvalCall(e, r)
      [] e.k = "rcall" -> Then(EvalAll(e.typed, r),
                               LAMBDA q : Then(Eval(e.e, q), LAMBDA p : Invoke(p.v, q.v, p)))

(***************************************************************************)
(* Statements.                                                             *)
(***************************************************************************)
Scoped(block, r) == Pop(RunAll(block.body, Push(r)))

Printed(s, r) == [r EXCEPT !.out = Append(@,
    CASE s.e.t = BoolT -> <<"str", IF r.v THEN <<116>> ELSE <<102>> >>
      [] OTHER -> <<s.e.t[1], r.v>>)]

RunAssign(s, r) ==
    CASE s.target.k = "id" -> Then(Eval(s.e, r), LAMBDA q : Write(q, s.target.x, q.v))
      [] s.target.k = "index" ->
           LET x == s.target.a.x
           IN  Then(Eval(s.e, r),
                    LAMBDA q : Then(Eval(s.target.i, q),
                      LAMBDA p : ElementAt(p, x, p.v,
                        LAMBDA o : [o EXCEPT !.sc[Depth(o, x)][x][p.v] = q.v])))
      [] s.target.k = "field" ->
           Then(Eval(s.target.e, r),
                LAMBDA q : Then(Eval(s.e, q),
                  LAMBDA p : IF q.v = 0 THEN Fails(p, "null dereference")
                             ELSE [p EXCEPT !.heap[q.v].fs[s.target.f] = p.v]))

\* One more turn of a loop.  A continue goes on with the step.
Resumed(r, mode) == IF r.mode = mode THEN [r EXCEPT !.mode = "ok"] ELSE r
Turned(s, turn) == IF Going(turn) THEN Loop(s, turn) ELSE Resumed(turn, "break")
Turn(s, r) == Turned(s, Then(Resumed(Scoped(s.body, r), "continue"),
                             LAMBDA q : IF s.step = None THEN q ELSE Run(s.step, q)))
Loop(s, r) == Then(IF s.e = None THEN Val(r, TRUE) ELSE Eval(s.e, r),
                   LAMBDA q : IF q.v THEN Turn(s, q) ELSE q)

RunArm(s, subject) ==
    LET id == TypeOf(subject, subject.v)
        hit == {i \in DOMAIN s.arms : s.arms[i].v = Layouts[id].name}
        arm == s.arms[IF hit # {} THEN CHOOSE i \in hit : TRUE ELSE Len(s.arms)]
        payload == FoldLeft(LAMBDA q, i : Bind(q, arm.bind[i].name,
                                               subject.heap[subject.v].fs[Layouts[id].fields[i][1]]),
                            Push(subject), [i \in DOMAIN arm.bind |-> i])
    IN  IF subject.v = 0 THEN Fails(subject, "null dereference")
        ELSE Pop(RunAll(arm.block.body, payload))
RunMatch(s, r) == Then(Eval(s.e, r), LAMBDA subject : RunArm(s, subject))

RunAsm(s, r) ==
    LET one(acc, i) ==
          LET n == Len(acc.stack)
              a == acc.stack[n - 1]
              b == acc.stack[n]
              replace(m, v) == [acc EXCEPT !.stack = Append(SubSeq(@, 1, n - m), v)]
          IN  IF ~Going(acc.r) THEN acc ELSE
              CASE i[1] = "push_int" -> replace(0, Wrap16(i[2]))
                [] i[1] = "load_local" -> replace(0, Read(acc.r, i[2]))
                [] i[1] = "store_local" -> [acc EXCEPT !.r = Write(@, i[2], b),
                                                       !.stack = SubSeq(@, 1, n - 1)]
                [] i[1] = "neg" -> replace(1, Wrap16(-b))
                [] i[1] = "not" -> replace(1, IF b = 0 THEN 1 ELSE 0)
                [] i[1] \in {"cmp_eq", "cmp_lt"} ->
                     replace(2, IF (i[1] = "cmp_eq" /\ a = b) \/ (i[1] = "cmp_lt" /\ a < b)
                                THEN 1 ELSE 0)
                [] i[1] = "div" /\ b = 0 -> [acc EXCEPT !.r = Fails(@, "division by zero")]
                [] OTHER -> replace(2, IntResult([add |-> "+", sub |-> "-", mul |-> "*",
                                                  div |-> "/"][i[1]], a, b))
    IN  FoldLeft(one, [r |-> r, stack |-> <<>>], s.code).r

Run(s, r) ==
    IF ~Going(r) THEN r ELSE
    CASE s.k = "let" -> LET v == IF s.e = None THEN Val(r, Default(s.sym.type)) ELSE Eval(s.e, r)
                        IN  Then(v, LAMBDA q : Bind(q, s.x, q.v))
      [] s.k = "set" -> RunAssign(s, r)
      [] s.k = "print" -> Then(Eval(s.e, r), LAMBDA q : Printed(s, q))
      [] s.k = "return" -> IF s.e = None THEN Halt(r, "return", 0)
                           ELSE Then(Eval(s.e, r), LAMBDA q : Halt(q, "return", q.v))
      [] s.k = "expr" -> Eval(s.e, r)
      [] s.k = "if" -> Then(Eval(s.e, r),
                            LAMBDA q : Scoped(IF q.v THEN s.then ELSE s.else, q))
      [] s.k = "while" -> Loop(s, r)
      [] s.k = "for" -> LET init == IF s.init = None THEN Push(r) ELSE Run(s.init, Push(r))
                        IN  Pop(Then(init, LAMBDA q : Loop(s, q)))
      [] s.k = "match" -> RunMatch(s, r)
      [] s.k = "block" -> Scoped(s.body, r)
      [] s.k \in {"break", "continue"} -> Halt(r, s.k, 0)
      [] s.k = "asm" -> RunAsm(s, r)

(***************************************************************************)
(* What a run of the program writes and how it ends, given the answers;    *)
(* and, question by question, every run of at most n of them.              *)
(***************************************************************************)
AnswersTo(kind) == IF kind = "file_exists" THEN {"yes", "no", "fails"} ELSE {"yes", "fails"}
Outcome(end) ==
    [out |-> end.out, asked |-> end.v,
     status |-> CASE end.mode = "ok" -> <<"returned", end.v>>
                  [] end.mode = "fault" -> <<"fault", end.v>>
                  [] OTHER -> <<end.mode>>]
MeaningOf(fns, answers) ==
    Outcome(Invoke("main", <<>>,
                   [sc |-> <<>>, heap |-> <<>>, out |-> <<>>, ins |-> answers, err |-> <<>>,
                    mode |-> "ok", v |-> 0, fns |-> fns]))
RECURSIVE From(_, _, _)
Continued(fns, answers, n, m) ==
    IF m.status = <<"starved">> /\ Len(answers) < n
    THEN UNION {From(fns, Append(answers, a), n) : a \in AnswersTo(m.asked)}
    ELSE {[inputs |-> answers, out |-> m.out, status |-> m.status]}
From(fns, answers, n) == Continued(fns, answers, n, MeaningOf(fns, answers))
Behaviours(fns, n) == From(fns, <<>>, n)
=============================================================================
