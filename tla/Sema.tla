-------------------------------- MODULE Sema --------------------------------
(***************************************************************************)
(* Semantic analysis (compiler/sema.py, compiler/compiler_types.py) of     *)
(* programs without generics: name resolution over nested scopes, typing,  *)
(* the checks that reject a program, and the tables handed to the code     *)
(* generator.  A syntax tree is a record with its kind in field k; a       *)
(* statement carries its source line in field at.  Where the code keys     *)
(* tables by id(node), the analysis here returns the tree with the entries *)
(* written into the nodes: t (node_type), sym (binding), b (what a name    *)
(* is), refs (scope_refs).  An operator that is RECURSIVE here is a method *)
(* that recurses over the tree.                                            *)
(***************************************************************************)
EXTENDS Integers, Sequences, FiniteSets, SequencesExt

CONSTANT Layouts      \* the struct table: a type id is an index into it

(***************************************************************************)
(* Types.                                                                  *)
(***************************************************************************)
IntT == <<"int">>
BoolT == <<"bool">>
StrT == <<"str">>
FloatT == <<"float">>
VoidT == <<"void">>
NullT == <<"null">>
PtrT == <<"ptr">>
Wrong == <<"wrong">>                       \* a SemanticError was raised
Untyped == <<"untyped">>                   \* a declaration without annotation
IntArray(n) == <<"array", n>>
Struct(s) == <<"struct", s>>
Enum(s) == <<"enum", s>>
Fn(ps, ret) == <<"fn", ps, ret>>
None == [k |-> "none"]                     \* an absent expression or clause

IsReference(t) == t[1] \in {"struct", "enum", "str"}
IsNullable(t) == t[1] \in {"struct", "enum"}
IsArray(t) == t[1] = "array"
WordCount(t) == IF t = FloatT THEN 2 ELSE 1
Width(t) == IF IsArray(t) THEN t[2] ELSE WordCount(t)
Assignable(target, t) == target = t \/ (t = NullT /\ IsNullable(target))
Comparable(l, r) == /\ Wrong \notin {l, r}
                    /\ l = r \/ (l = NullT /\ IsNullable(r)) \/ (r = NullT /\ IsNullable(l))

(***************************************************************************)
(* Structs and variants share one table; a variant names its enum.         *)
(***************************************************************************)
LayoutNamed(s) == CHOOSE id \in DOMAIN Layouts : Layouts[id].name = s
VariantNames == {Layouts[id].name : id \in {i \in DOMAIN Layouts : Layouts[i].enum # ""}}
VariantsOf(e) == {i \in DOMAIN Layouts : Layouts[i].enum = e}
FieldNames(id) == {Layouts[id].fields[i][1] : i \in DOMAIN Layouts[id].fields}
FieldNamed(id, f) == CHOOSE i \in DOMAIN Layouts[id].fields : Layouts[id].fields[i][1] = f
FieldType(id, f) == Layouts[id].fields[FieldNamed(id, f)][2]
OffsetOf(id, f) ==                          \* in words from the payload's start
    FoldLeft(LAMBDA n, fld : n + WordCount(fld[2]), 0,
             SubSeq(Layouts[id].fields, 1, FieldNamed(id, f) - 1))
WordSize(id) == FoldLeft(LAMBDA n, fld : n + WordCount(fld[2]), 0, Layouts[id].fields)

(***************************************************************************)
(* Signatures of the builtins the programs use.  array_push and array_pop  *)
(* are typed by name, before any variable of that name is looked up.       *)
(***************************************************************************)
Builtins ==
    [ load16 |-> Fn(<<PtrT>>, IntT),
      store16 |-> Fn(<<PtrT, IntT>>, VoidT),
      memcpy |-> Fn(<<PtrT, PtrT, IntT>>, VoidT),
      memset |-> Fn(<<PtrT, IntT, IntT>>, VoidT),
      ct_eq |-> Fn(<<IntT, IntT>>, BoolT),
      ct_select |-> Fn(<<IntT, IntT, IntT>>, IntT),
      panic |-> Fn(<<StrT>>, VoidT),
      str_len |-> Fn(<<StrT>>, IntT),
      int_to_float |-> Fn(<<IntT>>, FloatT),
      float_to_int |-> Fn(<<FloatT>>, IntT),
      file_exists |-> Fn(<<StrT>>, BoolT),
      file_delete |-> Fn(<<StrT>>, BoolT),
      file_error |-> Fn(<<>>, StrT) ]
ArrayBuiltins == {"array_push", "array_pop"}

(***************************************************************************)
(* Scopes: a chain of sequences of symbols, innermost last.  A symbol is   *)
(* its name, its type and its place in the frame's list of symbols, which  *)
(* makes two declarations of one name distinct.                            *)
(***************************************************************************)
NoSymbol == [name |-> "", type |-> Wrong, id |-> 0]
Declares(scope, x) == \E i \in DOMAIN scope : scope[i].name = x
Resolve(scopes, x) ==
    LET holding == {i \in DOMAIN scopes : Declares(scopes[i], x)}
    IN  IF holding = {} THEN NoSymbol
        ELSE LET scope == scopes[CHOOSE i \in holding : \A j \in holding : j <= i]
             IN  scope[CHOOSE i \in DOMAIN scope : scope[i].name = x]

Wrap16(v) == IF v % 65536 >= 32768 THEN (v % 65536) - 65536 ELSE v % 65536

(***************************************************************************)
(* The value of an expression built from int literals, or <<>>.            *)
(***************************************************************************)
RECURSIVE ConstInt(_)
ConstUnwrapped(e) ==                                \* a mistake: see the README
    CASE e.k = "int" -> <<e.v>>
      [] e.k = "un" /\ e.op = "-" /\ ConstInt(e.e) # <<>> -> <<-ConstInt(e.e)[1]>>
      [] e.k = "bin" /\ e.op = "+" /\ ConstInt(e.l) # <<>> /\ ConstInt(e.r) # <<>> ->
           <<ConstInt(e.l)[1] + ConstInt(e.r)[1]>>
      [] OTHER -> <<>>
ConstInt(e) ==
    CASE e.k = "int" -> <<Wrap16(e.v)>>
      [] e.k = "un" ->
           LET v == ConstInt(e.e)
           IN  IF v = <<>> \/ e.op \notin {"-", "~"} THEN <<>>
               ELSE <<Wrap16(IF e.op = "-" THEN -v[1] ELSE -v[1] - 1)>>
      [] e.k = "bin" ->
           LET a == ConstInt(e.l)
               b == ConstInt(e.r)
           IN  IF a = <<>> \/ b = <<>> \/ e.op \notin {"+", "-", "*"} THEN <<>>
               ELSE <<Wrap16(CASE e.op = "+" -> a[1] + b[1]
                               [] e.op = "-" -> a[1] - b[1]
                               [] e.op = "*" -> a[1] * b[1])>>
      [] OTHER -> <<>>

(***************************************************************************)
(* Expressions.  env holds the scopes and the function signatures.  A      *)
(* SemanticError is the type Wrong.                                        *)
(***************************************************************************)
RECURSIVE Typed(_, _), TypedAll(_, _), TypedUnary(_, _), TypedBinary(_, _), TypedIndex(_, _),
          TypedAddress(_, _), TypedField(_, _), TypedStruct(_, _), TypedCall(_, _),
          TypedReceiverCall(_, _)
TypedAll(es, env) == [i \in DOMAIN es |-> Typed(es[i], env)]
Accepts(ps, as) == /\ Len(ps) = Len(as)
                   /\ \A i \in DOMAIN ps : Assignable(ps[i], as[i].t)

TypedLiteral(e) ==
    e @@ [t |-> CASE e.k = "int" -> IntT [] e.k = "bool" -> BoolT [] e.k = "str" -> StrT
                  [] e.k = "float" -> FloatT [] e.k = "null" -> NullT]

TypedVariant(e, name, as) ==
    LET id == LayoutNamed(name)
        payload == [i \in DOMAIN Layouts[id].fields |-> Layouts[id].fields[i][2]]
    IN  e @@ [b |-> "variant", id |-> id, typed |-> as,
              t |-> IF Accepts(payload, as) /\ (e.k = "call" => payload # <<>>)
                    THEN Enum(Layouts[id].enum) ELSE Wrong]

\* A builtin is a value unless its signature mentions ptr, or its arguments
\* are settled at each call site, as those of ArrayBuiltins are.
MentionsPtr(sig) == PtrT \in ToSet(sig[2]) \cup {sig[3]}
TypedIdentifier(e, env) ==
    LET sym == Resolve(env.scopes, e.x)
    IN  IF sym # NoSymbol THEN e @@ [b |-> "local", sym |-> sym, t |-> sym.type]
        ELSE IF e.x \in VariantNames THEN TypedVariant(e, e.x, <<>>)
        ELSE IF e.x \in DOMAIN env.sigs
             THEN e @@ [b |-> "function", t |-> env.sigs[e.x]]
        ELSE IF e.x \in DOMAIN Builtins
             THEN e @@ [b |-> "function",
                        t |-> IF MentionsPtr(Builtins[e.x]) THEN Wrong ELSE Builtins[e.x]]
        ELSE e @@ [b |-> "unknown", t |-> Wrong]

TypedUnary(e, env) ==
    LET r == Typed(e.e, env)
    IN  [e EXCEPT !.e = r] @@
        [t |-> CASE e.op = "-" /\ r.t \in {IntT, FloatT} -> r.t
                 [] e.op = "!" /\ r.t = BoolT -> BoolT
                 [] e.op = "~" /\ r.t = IntT -> IntT
                 [] OTHER -> Wrong]

Arith == {"+", "-", "*", "/"}
IntOnly == {"%", "^", "&", "|", "<<", ">>"}
Relations == {"<", "<=", ">", ">="}

TypedBinary(e, env) ==
    LET l == Typed(e.l, env)
        r == Typed(e.r, env)
        both(t) == l.t = t /\ r.t = t
    IN  [e EXCEPT !.l = l, !.r = r] @@
        [t |-> CASE e.op = "+" /\ both(StrT) -> StrT
                 [] e.op \in Arith \cup IntOnly /\ both(IntT) -> IntT
                 [] e.op \in Arith /\ both(FloatT) -> FloatT
                 [] e.op \in {"==", "!="} /\ Comparable(l.t, r.t) -> BoolT
                 [] /\ e.op \in Relations
                    /\ l.t = r.t
                    /\ l.t # NullT /\ l.t # Wrong /\ l.t[1] # "struct" -> BoolT
                 [] e.op \in {"&&", "||"} /\ both(BoolT) -> BoolT
                 [] OTHER -> Wrong]

(***************************************************************************)
(* A literal index is checked here; any other at run time.  Shared by      *)
(* reads, assignments and address-of (_validate_index), and with an offset *)
(* by array_push and array_pop (_check_const_length).                      *)
(***************************************************************************)
ConstInRange(arr, i, offset) ==
    (IsArray(arr) /\ i.k = "int") => i.v + offset \in 0..(arr[2] - 1)
ValidIndex(arr, i) == IsArray(arr) /\ i.t = IntT /\ ConstInRange(arr, i, 0)

TypedIndex(e, env) ==
    LET a == Typed(e.a, env)
        i == Typed(e.i, env)
    IN  [e EXCEPT !.a = a, !.i = i] @@ [t |-> IF ValidIndex(a.t, i) THEN IntT ELSE Wrong]

\* The address of a variable is refused for a reference and for a float.
TypedAddress(e, env) ==
    LET target == Typed(e.e, env)
        ok == IF e.e.k = "id"
              THEN target.b = "local" /\ ~IsReference(target.t) /\ target.t # FloatT
              ELSE e.e.k = "index" /\ target.t = IntT
    IN  [e EXCEPT !.e = target] @@ [t |-> IF ok THEN PtrT ELSE Wrong]

TypedField(e, env) ==
    LET o == Typed(e.e, env)
        ok == o.t[1] = "struct" /\ e.f \in FieldNames(LayoutNamed(o.t[2]))
    IN  [e EXCEPT !.e = o] @@ [t |-> IF ok THEN FieldType(LayoutNamed(o.t[2]), e.f) ELSE Wrong]

\* Every field exactly once, in any order.
TypedStruct(e, env) ==
    LET id == LayoutNamed(e.s)
        fs == [i \in DOMAIN e.fs |-> <<e.fs[i][1], Typed(e.fs[i][2], env)>>]
        ok == /\ {fs[i][1] : i \in DOMAIN fs} = FieldNames(id)
              /\ Len(fs) = Len(Layouts[id].fields)
              /\ \A i \in DOMAIN fs : Assignable(FieldType(id, fs[i][1]), fs[i][2].t)
    IN  [e EXCEPT !.fs = fs] @@ [id |-> id, t |-> IF ok THEN Struct(e.s) ELSE Wrong]

\* A call through a function type: a variable's, or a field's.
TypedThrough(e, as, ft) ==
    e @@ [typed |-> as,
          t |-> IF ft[1] = "fn" THEN IF Accepts(ft[2], as) THEN ft[3] ELSE Wrong ELSE Wrong]

TypedArrayBuiltin(e, as) ==
    LET ints == \A i \in 2..Len(as) : as[i].t = IntT
        ok == /\ Len(as) = (IF e.f = "array_push" THEN 3 ELSE 2)
              /\ IsArray(as[1].t) /\ ints
              /\ ConstInRange(as[1].t, as[2], IF e.f = "array_push" THEN 0 ELSE -1)
    IN  e @@ [b |-> "builtin", typed |-> as, t |-> IF ok THEN IntT ELSE Wrong]

\* The order of these alternatives is the order in which a callee's name is
\* looked up.
TypedCall(e, env) ==
    LET as == TypedAll(e.as, env)
        local == Resolve(env.scopes, e.f)
    IN  IF e.f \in ArrayBuiltins THEN TypedArrayBuiltin(e, as)
        ELSE IF local # NoSymbol
             THEN TypedThrough(e @@ [b |-> "indirect", sym |-> local], as, local.type)
        ELSE IF e.f \in VariantNames THEN TypedVariant(e, e.f, as)
        ELSE IF e.f \in DOMAIN env.sigs
             THEN TypedThrough(e @@ [b |-> "function"], as, env.sigs[e.f])
        ELSE IF e.f \in DOMAIN Builtins
             THEN TypedThrough(e @@ [b |-> "builtin"], as, Builtins[e.f])
        ELSE e @@ [b |-> "unknown", t |-> Wrong]

\* m.f(x): a call through a function held in a field.
TypedReceiverCall(e, env) ==
    LET o == Typed(e.e, env)
    IN  TypedThrough([e EXCEPT !.e = o], TypedAll(e.as, env), o.t)

Typed(e, env) ==
    CASE e.k \in {"int", "bool", "str", "float", "null"} -> TypedLiteral(e)
      [] e.k = "id" -> TypedIdentifier(e, env)
      [] e.k = "un" -> TypedUnary(e, env)
      [] e.k = "bin" -> TypedBinary(e, env)
      [] e.k = "index" -> TypedIndex(e, env)
      [] e.k = "addr" -> TypedAddress(e, env)
      [] e.k = "field" -> TypedField(e, env)
      [] e.k = "struct" -> TypedStruct(e, env)
      [] e.k = "call" -> TypedCall(e, env)
      [] e.k = "rcall" -> TypedReceiverCall(e, env)

(***************************************************************************)
(* Statements.  The analysis threads c: the scopes, the symbols of the     *)
(* frame so far (frame_symbols), how many loops enclose the statement      *)
(* (_loop_depth), the typed statements produced, and whether an error was  *)
(* raised.                                                                 *)
(***************************************************************************)
RECURSIVE Analyze(_, _), AnalyzeAll(_, _), AnalyzeIf(_, _), AnalyzeWhile(_, _),
          AnalyzeFor(_, _), AnalyzeArm(_, _, _), AnalyzeMatch(_, _)
AnalyzeAll(stmts, c) == FoldLeft(LAMBDA acc, s : Analyze(s, acc), c, stmts)
Done(c, ok, s) == [c EXCEPT !.out = Append(@, s), !.bad = @ \/ ~ok]

Define(c, x, type) ==
    LET n == Len(c.scopes)
        sym == [name |-> x, type |-> type, id |-> Len(c.frame) + 1]
    IN  [c EXCEPT !.scopes[n] = Append(@, sym),
                  !.frame = Append(@, sym),
                  !.bad = @ \/ Declares(c.scopes[n], x)]
NewSymbol(c) == Last(c.frame)
Open(c) == [c EXCEPT !.scopes = Append(@, <<>>), !.out = <<>>]
\* c, having analyzed an inner scope and reached d.
Close(c, d) == [d EXCEPT !.scopes = c.scopes, !.out = c.out]
\* _record_scope_refs: the references the innermost scope declares directly.
ScopeRefs(d) == SelectSeq(Last(d.scopes), LAMBDA sym : IsReference(sym.type))
Body(d) == [body |-> d.out, refs |-> ScopeRefs(d)]
InLoop(c) == [c EXCEPT !.loop = @ + 1]

AnalyzeVarDecl(s, c) ==
    LET init == IF s.e = None THEN None ELSE Typed(s.e, c)
        type == IF s.type # Untyped THEN s.type ELSE IF s.e = None THEN Wrong ELSE init.t
        ok == /\ type \notin {Wrong, NullT}
              /\ s.e # None => Assignable(type, init.t) /\ ~IsArray(type)
        d == Define(c, s.x, type)
    IN  Done(d, ok, [s EXCEPT !.e = init] @@ [sym |-> NewSymbol(d)])

AnalyzeAssign(s, c) ==
    LET target == Typed(s.target, c)
        val == Typed(s.e, c)
        ok == CASE s.target.k = "id" -> target.b = "local" /\ ~IsArray(target.t)
                [] s.target.k \in {"index", "field"} -> target.t # Wrong
                [] OTHER -> FALSE
    IN  Done(c, ok /\ Assignable(target.t, val.t), [s EXCEPT !.target = target, !.e = val])

AnalyzePrint(s, c) ==
    LET v == Typed(s.e, c)
    IN  Done(c, v.t \in {IntT, StrT, BoolT, FloatT}, [s EXCEPT !.e = v])

\* A constant that main returns and an exit code cannot carry is warned of
\* (_check_exit_code).
AnalyzeReturn(s, c) ==
    LET v == IF s.e = None THEN None ELSE Typed(s.e, c)
        ok == IF c.ret = VoidT THEN s.e = None
              ELSE s.e # None /\ Assignable(c.ret, v.t)
        code == IF s.e = None THEN <<>> ELSE ConstInt(s.e)
        lost == c.main /\ c.ret = IntT /\ code # <<>> /\ code[1] \notin 0..255
    IN  Done([c EXCEPT !.warnings = IF lost THEN Append(@, <<s.at, code[1]>>) ELSE @],
             ok, [s EXCEPT !.e = v])

AnalyzedIf(s, c, cond, then, else) ==
    Done(Close(c, else), cond.t = BoolT,
         [s EXCEPT !.e = cond, !.then = Body(then), !.else = Body(else)])
AnalyzeElse(s, c, cond, then) ==
    AnalyzedIf(s, c, cond, then, AnalyzeAll(s.else, Open(Close(c, then))))
AnalyzeIf(s, c) == AnalyzeElse(s, c, Typed(s.e, c), AnalyzeAll(s.then, Open(c)))

AnalyzeWhile(s, c) ==
    LET cond == Typed(s.e, c)
        in == AnalyzeAll(s.body, InLoop(Open(c)))
    IN  Done([Close(c, in) EXCEPT !.loop = c.loop], cond.t = BoolT,
             [s EXCEPT !.e = cond, !.body = Body(in)])

\* A for's init, condition and step are analyzed before its body, in a scope
\* around it.
AnalyzeClause(st, d) == IF st = None THEN d ELSE Analyze(st, d)
Clause(st, d) == IF st = None THEN None ELSE Last(d.out)
AnalyzedFor(s, c, init, cond, step, in) ==
    Done([Close(c, in) EXCEPT !.loop = c.loop], s.e # None => cond.t = BoolT,
         [s EXCEPT !.init = Clause(@, init), !.e = cond, !.step = Clause(@, step),
                   !.body = Body(in)] @@ [refs |-> ScopeRefs(init)])
AnalyzeForBody(s, c, init, cond, step) ==
    AnalyzedFor(s, c, init, cond, step, AnalyzeAll(s.body, InLoop(Open(step))))
AnalyzeForHead(s, c, init) ==
    AnalyzeForBody(s, c, init, IF s.e = None THEN None ELSE Typed(s.e, init),
                   AnalyzeClause(s.step, [init EXCEPT !.out = <<>>]))
AnalyzeFor(s, c) == AnalyzeForHead(s, c, AnalyzeClause(s.init, Open(c)))

\* An arm: its bindings are symbols of the arm's scope, in payload order.
AnalyzeArm(arm, c, enum) ==
    LET id == LayoutNamed(arm.v)
        named == arm.v # "_"
        known == named => /\ arm.v \in VariantNames /\ id \in VariantsOf(enum)
                          /\ Len(arm.xs) = Len(Layouts[id].fields)
        bound == IF named /\ known
                 THEN FoldLeft(LAMBDA d, i : Define(d, arm.xs[i], Layouts[id].fields[i][2]),
                               Open(c), [i \in DOMAIN arm.xs |-> i])
                 ELSE Open(c)
        done(start, in) ==
            Done(Close(c, in), known,
                 [v |-> arm.v, id |-> IF named THEN id ELSE 0,
                  bind |-> Last(start.scopes), block |-> Body(in)])
        run(start) == done(start, AnalyzeAll(arm.body, start))
    IN  run(bound)

\* A match is total: every variant named once, or a last arm '_'.
AnalyzeArms(s, c, subject) ==
    LET n == Len(s.arms)
        ok == /\ subject.t[1] = "enum"
              /\ \A i \in 1..(n - 1) : s.arms[i].v # "_"
              /\ \A i, j \in 1..n : i # j => s.arms[i].v # s.arms[j].v
              /\ \/ \E i \in 1..n : s.arms[i].v = "_"
                 \/ {s.arms[i].v : i \in 1..n}
                      = {Layouts[id].name : id \in VariantsOf(subject.t[2])}
        done(in) == Done([in EXCEPT !.out = c.out], ok,
                         [s EXCEPT !.e = subject, !.arms = in.out])
    IN  IF subject.t[1] # "enum" THEN Done(c, FALSE, s)
        ELSE done(FoldLeft(LAMBDA d, arm : AnalyzeArm(arm, d, subject.t[2]),
                           [c EXCEPT !.out = <<>>], s.arms))
AnalyzeMatch(s, c) == AnalyzeArms(s, c, Typed(s.e, c))

Analyze(s, c) ==
    CASE s.k = "let" -> AnalyzeVarDecl(s, c)
      [] s.k = "set" -> AnalyzeAssign(s, c)
      [] s.k = "print" -> AnalyzePrint(s, c)
      [] s.k = "return" -> AnalyzeReturn(s, c)
      [] s.k = "expr" -> LET e == Typed(s.e, c) IN Done(c, e.t # Wrong, [s EXCEPT !.e = e])
      [] s.k = "if" -> AnalyzeIf(s, c)
      [] s.k = "while" -> AnalyzeWhile(s, c)
      [] s.k = "for" -> AnalyzeFor(s, c)
      [] s.k = "match" -> AnalyzeMatch(s, c)
      [] s.k = "block" -> LET in == AnalyzeAll(s.body, Open(c))
                          IN  Done(Close(c, in), TRUE, [s EXCEPT !.body = Body(in)])
      [] s.k \in {"break", "continue"} -> Done(c, c.loop > 0, s)
      [] s.k = "asm" -> Done(c, TRUE, s @@ [visible |-> c.scopes])

(***************************************************************************)
(* Whether execution cannot continue past a statement.  A call of a name   *)
(* panic counts, whatever the name is bound to.                            *)
(***************************************************************************)
RECURSIVE AlwaysReturns(_)
SomeReturns(stmts) == \E i \in DOMAIN stmts : AlwaysReturns(stmts[i])
EitherReturns(s) ==                                 \* a mistake: see the README
    CASE s.k = "return" -> TRUE
      [] s.k = "if" -> SomeReturns(s.then) \/ SomeReturns(s.else)
      [] OTHER -> FALSE
AlwaysReturns(s) ==
    CASE s.k = "return" -> TRUE
      [] s.k = "expr" -> s.e.k \in {"call", "rcall"} /\ s.e.f = "panic"
      [] s.k = "block" -> SomeReturns(s.body)
      [] s.k = "if" -> SomeReturns(s.then) /\ SomeReturns(s.else)
      [] s.k = "match" -> \A i \in DOMAIN s.arms : SomeReturns(s.arms[i].body)
      [] OTHER -> FALSE

(***************************************************************************)
(* A function, and a program: the entry point, then every function.        *)
(***************************************************************************)
Analyzed(f, end) ==
    [name |-> f.name, ret |-> f.ret, arity |-> Len(f.ps), at |-> f.at,
     frame |-> end.frame, own |-> ScopeRefs(end), body |-> end.out, warnings |-> end.warnings,
     bad |-> end.bad \/ (f.ret # VoidT /\ ~SomeReturns(f.body))]
AnalyzeFunction(f, sigs) ==
    LET start == [scopes |-> <<<<>>>>, frame |-> <<>>, loop |-> 0, out |-> <<>>,
                  bad |-> FALSE, sigs |-> sigs, ret |-> f.ret, warnings |-> <<>>,
                  main |-> f.name = "main"]
        entry == FoldLeft(LAMBDA c, p : Define(c, p[1], p[2]), start, f.ps)
    IN  Analyzed(f, AnalyzeAll(f.body, entry))

Signature(f) == Fn([i \in DOMAIN f.ps |-> f.ps[i][2]], f.ret)
FunctionNamed(fns, x) == CHOOSE i \in DOMAIN fns : fns[i].name = x
EntryPoint(fns) == \E i \in DOMAIN fns : /\ fns[i].name = "main" /\ fns[i].ps = <<>>
                                         /\ fns[i].ret \in {IntT, VoidT}
NoPtr(f) == f.ret # PtrT /\ \A i \in DOMAIN f.ps : f.ps[i][2] # PtrT /\ ~IsArray(f.ps[i][2])

(***************************************************************************)
(* A builtin named as a value is held by a function of its own name that   *)
(* calls it, generated once, at the line of its first use, and analyzed    *)
(* after every function of the program.  The call inside is an ordinary    *)
(* builtin call: no wrapper is among the signatures.                       *)
(***************************************************************************)
\* The typed nodes under a node, in the order they are analyzed in; a node
\* without a line has that of the node around it.
Children(n) ==
    CASE n.k \in {"un", "addr", "field", "expr", "print", "let", "return"} -> <<n.e>>
      [] n.k = "bin" -> <<n.l, n.r>>
      [] n.k = "index" -> <<n.a, n.i>>
      [] n.k = "struct" -> [i \in DOMAIN n.fs |-> n.fs[i][2]]
      [] n.k = "call" -> n.typed
      [] n.k = "rcall" -> <<n.e>> \o n.typed
      [] n.k = "set" -> <<n.target, n.e>>
      [] n.k = "if" -> <<n.e>> \o n.then.body \o n.else.body
      [] n.k = "while" -> <<n.e>> \o n.body.body
      [] n.k = "for" -> <<n.init, n.e, n.step>> \o n.body.body
      [] n.k = "block" -> n.body.body
      [] n.k = "match" -> FoldLeft(LAMBDA all, arm : all \o arm.block.body, <<n.e>>, n.arms)
      [] OTHER -> <<>>
RECURSIVE Nodes(_, _)
Nodes(n, line) ==
    LET placed == n @@ [at |-> line]
    IN  FoldLeft(LAMBDA all, child : all \o Nodes(child, placed.at), <<placed>>, Children(n))
FunctionNodes(f) == FoldLeft(LAMBDA all, s : all \o Nodes(s, f.at), <<>>, f.body)
ProgramNodes(fns) == FoldLeft(LAMBDA all, f : all \o FunctionNodes(f), <<>>, fns)

IsBuiltinValue(n) == n.k = "id" /\ n.b = "function" /\ n.x \in DOMAIN Builtins
FirstUses(nodes) ==
    FoldLeft(LAMBDA first, n : IF \E i \in DOMAIN first : first[i].x = n.x THEN first
                               ELSE Append(first, n),
             <<>>, SelectSeq(nodes, IsBuiltinValue))
BuiltinWrapper(use) ==
    LET sig == Builtins[use.x]
        ps == [i \in DOMAIN sig[2] |-> <<<<"a0", "a1", "a2">>[i], sig[2][i]>>]
        call == [k |-> "call", f |-> use.x,
                 as |-> [i \in DOMAIN ps |-> [k |-> "id", x |-> ps[i][1]]]]
    IN  [name |-> use.x, ps |-> ps, ret |-> sig[3], at |-> use.at,
         body |-> << [k |-> IF sig[3] = VoidT THEN "expr" ELSE "return",
                      e |-> call, at |-> use.at] >>]
WithWrappers(typed, sigs) ==
    typed \o [i \in DOMAIN FirstUses(ProgramNodes(typed)) |->
                 AnalyzeFunction(BuiltinWrapper(FirstUses(ProgramNodes(typed))[i]), sigs)]

AnalyzeProgram(fns) ==
    LET names == {fns[i].name : i \in DOMAIN fns}
        sigs == [x \in names |-> Signature(fns[FunctionNamed(fns, x)])]
        all(typed) ==
            LET bad == \/ ~EntryPoint(fns)
                       \/ Cardinality(names) # Len(fns) \/ names \cap DOMAIN Builtins # {}
                       \/ \E i \in DOMAIN fns : ~NoPtr(fns[i]) \/ typed[i].bad
            IN  [bad |-> bad, fns |-> IF bad THEN typed ELSE WithWrappers(typed, sigs)]
    IN  all([i \in DOMAIN fns |-> AnalyzeFunction(fns[i], sigs)])
=============================================================================
