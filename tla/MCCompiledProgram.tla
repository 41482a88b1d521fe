-------------------------- MODULE MCCompiledProgram --------------------------
(***************************************************************************)
(* The programs CompiledProgram is checked on: every nest of control flow  *)
(* of a given shape, every operator at the boundaries of its operands, and *)
(* one program for each other construct.                                   *)
(***************************************************************************)
EXTENDS CompiledProgram

\* struct Cell { v: int, w: float, next: Cell }   struct Op { f: fn(int): int }
\* enum Opt { None, Some(Cell), Pair(float, int) }
CellT == Struct("Cell")
OptT == Enum("Opt")
IntToInt == Fn(<<IntT>>, IntT)
Table ==
    << [name |-> "Cell", enum |-> "", fields |-> << <<"v", IntT>>, <<"w", FloatT>>,
                                                    <<"next", CellT>> >>],
       [name |-> "Op", enum |-> "", fields |-> << <<"f", IntToInt>> >>],
       [name |-> "Opt::None", enum |-> "Opt", fields |-> <<>>],
       [name |-> "Opt::Some", enum |-> "Opt", fields |-> << <<"0", CellT>> >>],
       [name |-> "Opt::Pair", enum |-> "Opt", fields |-> << <<"0", FloatT>>, <<"1", IntT>> >>] >>

(***************************************************************************)
(* Building syntax trees.                                                  *)
(***************************************************************************)
N(v) == [k |-> "int", v |-> v]
B(v) == [k |-> "bool", v |-> v]
S(v) == [k |-> "str", v |-> v]
F(v) == [k |-> "float", v |-> v]
Nil == [k |-> "null"]
V(x) == [k |-> "id", x |-> x]
Un(op, e) == [k |-> "un", op |-> op, e |-> e]
Bin(l, op, r) == [k |-> "bin", op |-> op, l |-> l, r |-> r]
Ix(x, i) == [k |-> "index", a |-> V(x), i |-> i]
Addr(e) == [k |-> "addr", e |-> e]
Dot(e, f) == [k |-> "field", e |-> e, f |-> f]
CallF(f, as) == [k |-> "call", f |-> f, as |-> as]
Method(e, f, as) == [k |-> "rcall", e |-> Dot(e, f), f |-> f, as |-> as]
Lit(s, fs) == [k |-> "struct", s |-> s, fs |-> fs]
On(line, e) == e @@ [at |-> line]
New(n) == Lit("Cell", << <<"next", Nil>>, <<"v", N(n)>>, <<"w", F(n)>> >>)
Ask0 == CallF("file_exists", <<S(<<1>>)>>)

LetT(at, x, type, e) == [k |-> "let", x |-> x, type |-> type, e |-> e, at |-> at]
Let(at, x, e) == LetT(at, x, Untyped, e)
Set(at, target, e) == [k |-> "set", target |-> target, e |-> e, at |-> at]
Show(at, e) == [k |-> "print", e |-> e, at |-> at]
Ret(at, e) == [k |-> "return", e |-> e, at |-> at]
Do(at, e) == [k |-> "expr", e |-> e, at |-> at]
If(at, c, then, else) == [k |-> "if", e |-> c, then |-> then, else |-> else, at |-> at]
While(at, c, body) == [k |-> "while", e |-> c, step |-> None, body |-> body, at |-> at]
For(at, init, c, step, body) ==
    [k |-> "for", init |-> init, e |-> c, step |-> step, body |-> body, at |-> at]
Block(at, body) == [k |-> "block", body |-> body, at |-> at]
Break(at) == [k |-> "break", at |-> at]
Continue(at) == [k |-> "continue", at |-> at]
Arm(v, xs, body) == [v |-> v, xs |-> xs, body |-> body]
Match(at, e, arms) == [k |-> "match", e |-> e, arms |-> arms, at |-> at]
Asm(at, code) == [k |-> "asm", code |-> code, at |-> at]
Def(name, ps, ret, body) == [name |-> name, ps |-> ps, ret |-> ret, body |-> body, at |-> 1]
Main(body) == Def("main", <<>>, VoidT, body)
MainInt(body) == Def("main", <<>>, IntT, body)

(***************************************************************************)
(* Nests of control flow: a loop around a compound around a compound, each *)
(* declaring references, with every way of leaving at the bottom.          *)
(***************************************************************************)
Leaves == [leave |-> <<Break(90)>>, again |-> <<Continue(90)>>,
           return |-> <<Ret(90, None)>>, fall |-> <<Show(90, N(90))>>]
Kinds == {"while", "for", "if", "block", "match"}
Around(kind, at, x, body) ==
    LET inside == <<Let(at + 1, x, New(at)), Show(at + 2, Dot(V(x), "v"))>> \o body
    IN  CASE kind = "while" -> While(at, Ask0, inside)
          [] kind = "for" -> For(at, Let(at, "i" \o x, New(at)), Ask0,
                                 Set(at, V("i" \o x), New(at)), inside)
          [] kind = "if" -> If(at, Ask0, inside, <<Let(at + 3, x, New(at + 3))>>)
          [] kind = "block" -> Block(at, inside)
          [] kind = "match" -> Match(at, CallF("Opt::Some", <<New(at)>>),
                                     <<Arm("Opt::None", <<>>, <<>>),
                                       Arm("Opt::Some", <<"p" \o x>>, inside),
                                       Arm("_", <<>>, <<>>)>>)
After(at, x) == <<Let(at + 5, x, New(at + 5))>>
Nest(outer, mid, inner, leaf) ==
    << Main(<<Let(1, "top", New(0)),
              Around(outer, 10, "a",
                 <<Around(mid, 20, "b", <<Around(inner, 30, "c", Leaves[leaf])>> \o After(20, "d"))>>
                   \o After(10, "e")),
              Show(60, N(60))>>) >>

(***************************************************************************)
(* Every operator at the edges.  A negative number is a unary minus.       *)
(***************************************************************************)
Edges == {-32768, -2, -1, 0, 1, 3, 15, 16, 300, 32767}
Int16(v) == IF v < 0 THEN Un("-", N(-v)) ELSE N(v)
Operation(op, a, b) ==
    << MainInt(IF op \in Comparisons
               THEN <<Show(2, Bin(Int16(a), op, Int16(b))), Ret(3, N(0))>>
               ELSE <<Show(2, Bin(Int16(a), op, Int16(b))),
                      Ret(3, Bin(Int16(a), op, Int16(b)))>>) >>

(***************************************************************************)
(* One program for each other construct.                                   *)
(***************************************************************************)
Logic(op1, op2) ==     \* both operands ask, so what is skipped shows
    << Main(<<If(2, Bin(Bin(Ask0, op1, Ask0), op2, Un("!", Ask0)),
                 <<Show(3, B(TRUE))>>, <<Show(4, B(FALSE))>>),
              Show(5, CallF("file_error", <<>>))>>) >>

Files == << Main(<<While(2, Un("!", CallF("file_delete", <<S(<<1>>)>>)),
                         <<Show(3, CallF("file_error", <<>>)), If(4, Ask0, <<Continue(5)>>, <<>>),
                           Show(6, CallF("file_error", <<>>))>>),
                   Show(7, CallF("file_error", <<>>))>>) >>

Floats ==      \* wide values between narrow ones, through a call and a field
    << Def("mix", << <<"a", IntT>>, <<"x", FloatT>>, <<"c", CellT>>, <<"b", IntT>> >>, FloatT,
           <<Let(2, "y", Bin(V("x"), "+", Dot(V("c"), "w"))), Show(3, Bin(V("a"), "-", V("b"))),
             Set(4, Dot(V("c"), "w"), Un("-", V("y"))), Ret(5, Bin(V("y"), "*", F(3)))>>),
       Main(<<LetT(6, "z", FloatT, None), Let(7, "c", New(5)),
              Show(8, CallF("mix", <<N(7), Un("-", Bin(F(4), "/", F(2))), V("c"), N(9)>>)),
              Show(9, Dot(V("c"), "w")), Show(10, Bin(V("z"), "<", Dot(V("c"), "w"))),
              Show(11, CallF("float_to_int", <<CallF("int_to_float", <<N(6)>>)>>)),
              Set(12, V("z"), Bin(V("z"), "/", Bin(V("z"), "-", F(0)))), Show(13, V("z"))>>) >>

Texts == << Main(<<LetT(2, "s", StrT, None), Let(3, "t", Bin(S(<<1>>), "+", S(<<2>>))),
                   Show(4, Bin(V("s"), "+", V("t"))), Show(5, CallF("str_len", <<V("t")>>)),
                   Show(6, Bin(V("t"), "<", S(<<1>>))), Show(7, Bin(V("t"), "<", S(<<1, 3>>))),
                   Show(8, Bin(V("t"), "==", S(<<1, 2>>))), Show(9, Bin(V("s"), ">=", V("t")))>>) >>

Arrays(i, n) ==      \* reads, writes, pushes and pops around both ends
    << Main(<<LetT(2, "before", IntT, N(77)), LetT(3, "a", IntArray(3), None),
              LetT(4, "n", IntT, Int16(n)), LetT(5, "i", IntT, Int16(i)),
              Set(6, V("n"), CallF("array_push", <<V("a"), V("n"), N(5)>>)), Show(7, V("n")),
              Set(8, On(9, Ix("a", V("i"))), Bin(Ix("a", N(0)), "+", N(40))),
              Show(10, CallF("array_pop", <<V("a"), V("n")>>)),
              Show(11, CallF("load16", <<Addr(Ix("a", V("i")))>>)),
              Do(12, CallF("store16", <<Addr(V("before")), Ix("a", N(2))>>)),
              Show(13, V("before"))>>) >>

Overlap(dst, src, n) ==
    << Main(<<LetT(2, "a", IntArray(4), None), LetT(3, "k", IntT, N(0)),
              For(4, None, Bin(V("k"), "<", N(4)), Set(5, V("k"), Bin(V("k"), "+", N(1))),
                  <<Set(6, Ix("a", V("k")), Bin(V("k"), "+", N(10)))>>),
              Do(7, CallF("memcpy", <<Addr(Ix("a", N(dst))), Addr(Ix("a", N(src))), Int16(n)>>)),
              Do(8, CallF("memset", <<Addr(Ix("a", N(3))), N(8), N(1)>>)),
              Show(9, Ix("a", N(0))), Show(10, Ix("a", N(1))), Show(11, Ix("a", N(2)))>>) >>

Values ==      \* functions as values, in variables, parameters and fields
    << Def("twice", << <<"f", IntToInt>>, <<"x", IntT>> >>, IntT,
           <<Ret(2, CallF("f", <<CallF("f", <<V("x")>>)>>))>>),
       Def("inc", << <<"x", IntT>> >>, IntT, <<Ret(3, Bin(V("x"), "+", N(1)))>>),
       Def("fact", << <<"n", IntT>> >>, IntT,
           <<If(4, Bin(V("n"), "<", N(2)), <<Ret(5, N(1))>>,
                <<Ret(6, Bin(V("n"), "*", CallF("fact", <<Bin(V("n"), "-", N(1))>>)))>>)>>),
       Main(<<Let(7, "g", V("fact")), Show(8, CallF("twice", <<V("inc"), N(5)>>)),
              Show(9, CallF("g", <<N(8)>>)),
              Let(10, "o", Lit("Op", << <<"f", V("g")>> >>)),
              Show(11, Method(V("o"), "f", <<N(4)>>)),
              LetT(12, "file_exists", IntToInt, V("inc")),
              Show(13, CallF("file_exists", <<N(1)>>))>>) >>

Wrapped ==      \* builtins as values: in a variable, as arguments, one of them twice
    << Def("choose", << <<"f", Fn(<<IntT, IntT, IntT>>, IntT)>>, <<"x", IntT>> >>, IntT,
           <<Ret(2, CallF("f", <<V("x"), N(5), N(6)>>))>>),
       Def("ask", << <<"f", Fn(<<StrT>>, BoolT)>> >>, BoolT,
           <<Ret(3, CallF("f", <<S(<<1>>)>>))>>),
       Main(<<Let(4, "stop", V("panic")), Let(5, "size", V("str_len")),
              Show(6, CallF("choose", <<On(7, V("ct_select")), CallF("size", <<S(<<1>>)>>)>>)),
              If(8, CallF("ask", <<V("file_delete")>>),
                 <<Show(9, CallF("ask", <<V("file_exists")>>))>>,
                 <<Let(10, "why", V("file_error")), Show(11, CallF("why", <<>>)),
                   Show(12, CallF("choose", <<V("ct_select"), N(0)>>))>>),
              Do(13, CallF("stop", <<S(<<2>>)>>)), Show(14, CallF("str_len", <<S(<<>>)>>))>>) >>

Matches(e) ==      \* a subject that is each variant, or null
    << Main(<<LetT(2, "o", OptT, e),
              While(3, Ask0,
                <<Match(4, V("o"), <<Arm("Opt::Pair", <<"x", "n">>,
                                         <<Show(5, V("x")), Set(6, V("o"), V("Opt::None"))>>),
                                     Arm("Opt::Some", <<"c">>,
                                         <<Show(7, Dot(V("c"), "v")), Break(8)>>),
                                     Arm("Opt::None", <<>>, <<Show(9, N(0)), Continue(10)>>)>>),
                  Show(11, Bin(V("o"), "==", V("Opt::None")))>>)>>) >>

Nulls == << Main(<<LetT(2, "c", CellT, Nil), Show(3, Bin(V("c"), "==", Nil)),
                   Set(4, V("c"), New(1)), Set(5, Dot(V("c"), "next"), V("c")),
                   Set(6, Dot(Dot(V("c"), "next"), "v"), N(4)), Show(7, Dot(V("c"), "v")),
                   Set(8, Dot(V("c"), "next"), Nil), Show(9, Dot(Dot(V("c"), "next"), "v"))>>) >>

Shadows == << MainInt(<<Let(2, "x", N(1)),
                        Block(3, <<Let(4, "x", Bin(V("x"), "+", N(10))), Show(5, V("x"))>>),
                        Block(6, <<Let(7, "x", S(<<7>>)), Show(8, V("x"))>>),
                        Show(9, V("x")),
                        If(10, Ask0, <<Ret(11, Un("-", N(300)))>>,
                           <<Do(12, CallF("panic", <<S(<<1>>)>>))>>)>>) >>

Constants3(m, x, y) ==
    << Main(<<Show(2, CallF("ct_select", <<N(m), N(x), N(y)>>)),
              Show(3, CallF("ct_eq", <<N(x), N(y)>>)), Show(4, Un("~", N(x))),
              Show(5, Un("!", B(TRUE)))>>) >>

Inline(code) == << Main(<<Let(2, "x", N(9)), Asm(3, code), Show(4, V("x"))>>) >>
Inlines == << Inline(<< <<"load_local", "x">>, <<"push_int", -4>>, <<"mul", "">>,
                       <<"store_local", "x">> >>),
             Inline(<< <<"load_local", "x">>, <<"add", "">>, <<"store_local", "x">> >>),
             Inline(<< <<"push_int", 3>> >>),
             Inline(<< <<"load_local", "x">>, <<"push_int", 0>>, <<"div", "">>,
                       <<"store_local", "x">> >>),
             Inline(<< <<"load_local", "x">>, <<"neg", "">>, <<"load_local", "x">>,
                       <<"cmp_lt", "">>, <<"not", "">>, <<"store_local", "x">> >>),
             \* a reference, moved where the stack map knows of none
             << Main(<<Let(2, "c", New(4)), Let(3, "x", N(9)),
                       Asm(4, << <<"load_local", "c">>, <<"store_local", "x">> >>),
                       Show(5, Dot(V("c"), "v"))>>) >> >>

\* Programs the analysis must judge: one that it accepted wrongly would have
\* no meaning.
Suspects ==
    << << Main(<<Break(2)>>) >>, << Main(<<If(2, Ask0, <<Continue(3)>>, <<>>)>>) >>,
      << Main(<<Show(2, V("nobody"))>>) >>, << Main(<<Set(2, V("main"), N(1))>>) >>,
      << Main(<<Let(2, "x", N(1)), Let(3, "x", N(2))>>) >>,
      << Main(<<Block(2, <<Let(3, "x", N(1))>>), Show(4, V("x"))>>) >>,
      << MainInt(<<If(2, Ask0, <<Ret(3, N(1))>>, <<>>)>>) >>,
      << MainInt(<<While(2, Ask0, <<Ret(3, N(1))>>)>>) >>,
      << MainInt(<<If(2, Ask0, <<Ret(3, N(1))>>, <<Block(4, <<Ret(5, N(2))>>)>>)>>) >>,
      << MainInt(<<Match(2, V("Opt::None"), <<Arm("Opt::None", <<>>, <<Ret(3, N(1))>>)>>)>>) >>,
      << MainInt(<<Match(2, V("Opt::None"), <<Arm("Opt::Some", <<"c">>, <<Ret(3, N(1))>>),
                                              Arm("_", <<>>, <<Ret(4, N(2))>>)>>)>>) >>,
      << Main(<<LetT(2, "a", IntArray(2), None), Show(3, Ix("a", N(2)))>>) >>,
      << Main(<<Let(2, "c", New(1)), Let(3, "p", Addr(V("c")))>>) >>,
      << Main(<<Let(2, "x", F(1)), Let(3, "p", Addr(V("x")))>>) >>,
      << Main(<<Let(2, "x", Bin(N(1), "+", F(1)))>>) >>,
      << Main(<<Let(2, "f", V("load16"))>>) >>, << Main(<<Let(2, "f", V("array_push"))>>) >>,
      << Main(<<Let(2, "x", Nil)>>) >>, << Main(<<Ret(2, N(1))>>) >>,
      << Def("other", <<>>, VoidT, <<>>) >> >>

(***************************************************************************)
(* A variable named panic: a call through it comes back.                   *)
(***************************************************************************)
Shadowed ==
    << Def("quiet", << <<"s", StrT>> >>, VoidT, <<>>),
       Def("pick", << <<"panic", Fn(<<StrT>>, VoidT)>> >>, IntT,
           <<If(2, Ask0, <<Ret(3, N(7))>>, <<Do(4, CallF("panic", <<S(<<1>>)>>))>>)>>),
       Main(<<Show(5, CallF("pick", <<V("quiet")>>))>>) >>

Singles == [files |-> Files, floats |-> Floats, texts |-> Texts, values |-> Values,
            nulls |-> Nulls, shadows |-> Shadows, wrapped |-> Wrapped]
Subjects == << V("Opt::None"), CallF("Opt::Some", <<New(3)>>),
               CallF("Opt::Pair", <<F(2), N(6)>>), Nil >>

(***************************************************************************)
(* The table of programs, by what each is built from.                      *)
(***************************************************************************)
Keys ==
    ({"nest"} \X {"while", "for"} \X Kinds \X Kinds \X DOMAIN Leaves)
      \cup ({"operation"} \X (Arith \cup IntOnly \cup Comparisons) \X Edges \X Edges)
      \cup ({"logic"} \X {"&&", "||"} \X {"&&", "||"})
      \cup ({"arrays"} \X {-1, 0, 2, 3} \X {-1, 0, 2, 3})
      \cup ({"overlap"} \X (0..2) \X (0..2) \X {-1, 2})
      \cup ({"constants"} \X (0..1) \X {3, 8})
      \cup ({"match"} \X DOMAIN Subjects)
      \cup ({"inline"} \X DOMAIN Inlines) \cup ({"suspect"} \X DOMAIN Suspects)
      \cup ({"single"} \X DOMAIN Singles)
ProgramFor(k) ==
    CASE k[1] = "nest" -> Nest(k[2], k[3], k[4], k[5])
      [] k[1] = "operation" -> Operation(k[2], k[3], k[4])
      [] k[1] = "logic" -> Logic(k[2], k[3])
      [] k[1] = "arrays" -> Arrays(k[2], k[3])
      [] k[1] = "overlap" -> Overlap(k[2], k[3], k[4])
      [] k[1] = "constants" -> Constants3(k[2], 3, k[3])
      [] k[1] = "match" -> Matches(Subjects[k[2]])
      [] k[1] = "inline" -> Inlines[k[2]]
      [] k[1] = "suspect" -> Suspects[k[2]]
      [] k[1] = "single" -> Singles[k[2]]
AllPrograms == [k \in Keys |-> ProgramFor(k)]
ShadowedPrograms == [shadowed |-> Shadowed, plain |-> Shadows]
=============================================================================
