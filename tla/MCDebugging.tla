---------------------------- MODULE MCDebugging ----------------------------
(***************************************************************************)
(* Two compiled programs for the debugger, and what its clients ask of it. *)
(* Calls is the listing of m.ql                                            *)
(*     1  include "lib/m.ql";                                              *)
(*     2  struct Node { v: int }                                           *)
(*     3  fn down(n: Node): int {                                          *)
(*     4      if (same(n) == null) { return 0; }                           *)
(*     5      n.v = down(n);                                               *)
(*     6      return 1;                                                    *)
(*     7  }                                                                *)
(*     8  fn main(): int {                                                 *)
(*     9      while (same(true)) { down(null); }                           *)
(*    10      return 2;                                                    *)
(*    11  }                                                                *)
(* where line 3 of lib/m.ql is the `return x;` of a generic same<T>, and   *)
(* Edited that of an m.ql that reads                                       *)
(*     1  struct Node { v: int }   enum Mode { Off, On(str) }              *)
(*     2  fn main(): int {                                                 *)
(*     3                                                                   *)
(*     4      let n: Node = null;                                          *)
(*     5      n.v = 1;                                                     *)
(*     6      return str_len("e acute");                                   *)
(*     7  }                                                                *)
(***************************************************************************)
EXTENDS Toolchain

I(op)      == [op |-> op, arg |-> NoOperand]
IA(op, n)  == [op |-> op, arg |-> n]
Push(n)     == IA("PUSH_INT", n)
Local(n)   == IA("LOAD_LOCAL", n)
Call(f)    == IA("CALL", f)

MCOpNumber ==
    ("PUSH_INT" :> 1) @@ ("LOAD_LOCAL" :> 2) @@ ("STORE_LOCAL" :> 3) @@ ("CMP_EQ" :> 15)
    @@ ("LOAD_STR" :> 21) @@ ("STR_LEN" :> 23) @@ ("JMP" :> 45) @@ ("JZ" :> 46)
    @@ ("CALL" :> 48) @@ ("RET" :> 49) @@ ("POP" :> 57) @@ ("HEAP_STORE_FIELD" :> 69)

\* Each text by a byte of its own, to keep the files short; but one is empty,
\* and the literal is one character in two bytes.
MCUtf8 ==
    ("" :> <<>>) @@ ("e acute" :> <<195, 169>>) @@ ("Node" :> <<65>>)
    @@ ("Mode::Off" :> <<66>>) @@ ("Mode::On" :> <<67>>) @@ ("v" :> <<68>>)
    @@ ("_0" :> <<69>>) @@ ("int" :> <<70>>) @@ ("str" :> <<71>>) @@ ("bool" :> <<72>>)
    @@ ("n" :> <<73>>) @@ ("x" :> <<74>>) @@ ("down" :> <<75>>) @@ ("main" :> <<76>>)
    @@ ("same<Node>" :> <<77>>) @@ ("same<bool>" :> <<78>>) @@ ("m.ql" :> <<79>>)
    @@ ("lib/m.ql" :> <<80>>)

Field(name, type_name, offset) ==
    [name |-> name, type_name |-> type_name, offset |-> offset]
Layout(name, word_size, is_variant, ref_offsets, fields) ==
    [name |-> name, word_size |-> word_size, is_variant |-> is_variant,
     ref_offsets |-> ref_offsets, fields |-> fields]
Variable(name, slot, type_name, is_param) ==
    [name |-> name, slot |-> slot, type_name |-> type_name, words |-> 1, is_param |-> is_param]
Function(name, entry_pc, num_params, ref_slots, locals_, source_file) ==
    [name |-> name, entry_pc |-> entry_pc, num_locals |-> Len(locals_),
     num_params |-> num_params, ref_slots |-> ref_slots,
     param_words |-> [i \in 1 .. num_params |-> 1], locals_ |-> locals_,
     source_file |-> source_file]
NodeLayout == Layout("Node", 1, FALSE, <<>>, << Field("v", "int", 0) >>)

\* A source map from the position of each instruction, <<0, 0>> for no marker.
SourceMap(positions) ==
    SelectSeq([i \in DOMAIN positions |->
                  [pc |-> i - 1, line |-> positions[i][1], col |-> positions[i][2]]],
              LAMBDA m : m.line # 0)
NoMark == <<0, 0>>

Calls ==
    [code |-> << Local(0), Call(2), Push(0), I("CMP_EQ"), IA("JZ", 8), Push(0), I("RET"),
                 IA("JMP", 8), Local(0), Local(0), Call(0), IA("HEAP_STORE_FIELD", 0), Push(1),
                 I("RET"), Push(0), I("RET"),
                 Push(1), Call(3), IA("JZ", 23), Push(0), Call(0), I("POP"), IA("JMP", 16),
                 Push(2), I("RET"), Push(0), I("RET"),
                 Local(0), I("RET"), Push(0), I("RET"), Local(0), I("RET"), Push(0), I("RET") >>,
     functions |->
        << Function("down", 0, 1, <<0>>, << Variable("n", 0, "Node", TRUE) >>, "m.ql"),
           Function("main", 16, 0, <<>>, <<>>, "m.ql"),
           Function("same<Node>", 27, 1, <<0>>, << Variable("x", 0, "Node", TRUE) >>,
                    "lib/m.ql"),
           Function("same<bool>", 31, 1, <<>>, << Variable("x", 0, "bool", TRUE) >>,
                    "lib/m.ql") >>,
     strings |-> <<>>,
     structs |-> << NodeLayout >>,
     source_map |-> SourceMap(
        << <<4, 14>>, <<4, 13>>, <<4, 20>>, <<4, 17>>, <<4, 5>>, <<4, 35>>, <<4, 28>>, <<4, 5>>,
           <<5, 5>>, <<5, 16>>, <<5, 15>>, <<5, 9>>, <<6, 12>>, <<6, 5>>, NoMark, NoMark,
           <<9, 17>>, <<9, 16>>, <<9, 5>>, <<9, 31>>, <<9, 30>>, NoMark, <<9, 5>>,
           <<10, 12>>, <<10, 5>>, NoMark, NoMark,
           <<3, 12>>, <<3, 5>>, NoMark, NoMark, <<3, 12>>, <<3, 5>>, NoMark, NoMark >>)]
Edited ==
    [code |-> << Push(0), IA("STORE_LOCAL", 0), Local(0), Push(1), IA("HEAP_STORE_FIELD", 0),
                 IA("LOAD_STR", 0), I("STR_LEN"), I("RET"), Push(0), I("RET") >>,
     functions |-> << Function("main", 0, 0, <<0>>, << Variable("n", 0, "Node", FALSE) >>,
                               "m.ql") >>,
     strings |-> (0 :> "e acute"),
     structs |-> << NodeLayout, Layout("Mode::Off", 0, TRUE, <<>>, <<>>),
                    Layout("Mode::On", 1, TRUE, <<0>>, << Field("_0", "str", 0) >>) >>,
     source_map |-> SourceMap(<< <<4, 19>>, <<4, 9>>, <<5, 5>>, <<5, 11>>, <<5, 9>>, <<6, 20>>,
                                 <<6, 19>>, <<6, 5>>, NoMark, NoMark >>)]

MCPrograms == {Calls, Edited}

\* "m.ql" also ends the path of lib/m.ql; line 4 and the entry of down are one
\* place; line 8 moves to 9 and line 40 nowhere.
MCWants ==
    {[kind |-> "function", name |-> "down"]}
    \cup {[kind |-> "line", line |-> l, files |-> {}] : l \in {4, 8, 40}}
    \cup {[kind |-> "line", line |-> 3, files |-> {"m.ql", "lib/m.ql"}]}

MCRequests ==
    {[source |-> "", wants |-> <<"down">>],
     [source |-> "m.ql", wants |-> <<4, 8>>], [source |-> "m.ql", wants |-> <<6>>],
     [source |-> "lib/m.ql", wants |-> <<2, 3>>]}
-----------------------------------------------------------------------------
(* Disks.                                                                  *)

Main == <<"m.ql">>          Lib == <<"lib", "m.ql">>
Left == <<"lib", "a.ql">>   Right == <<"lib", "b.ql">>
Math == <<"std", "m.ql">>   Qlc == <<"m.qlc">>
MCStdPath == <<"std">>

Defs(includes, functions) == Source(includes, <<>>, <<>>, functions)
ToLib   == << <<"lib", "m.ql">> >>
LibFile == Defs(<<>>, <<"same">>)

TwoFiles == (Main :> Source(ToLib, <<"Node">>, <<>>, <<"down", "main">>)) @@ (Lib :> LibFile)
OneFile  == Main :> Source(<<>>, <<"Node">>, <<"Mode">>, <<"main">>)

\* main includes a, which includes b, which includes main again, by way of "..";
\* a and b share a file of the library, which is included twice by one of them.
ToBoth == << <<"lib", "a.ql">>, <<"lib", "b.ql">> >>
Tangle ==
    (Main :> Source(ToBoth, <<"Node">>, <<"Mode">>, <<"start">>))
    @@ (Left :> Defs(<< <<"b.ql">>, <<"std", "m.ql">> >>, <<"left">>))
    @@ (Right :> Source(<< <<"..", "m.ql">>, <<"std", "m.ql">>, <<"..", "std", "m.ql">> >>,
                        <<"Pair">>, <<>>, <<"right">>))
    @@ (Math :> Defs(<< <<"m.ql">> >>, <<"abs", "max">>))
Spoilt(lib) == (Lib :> lib) @@ TwoFiles

Fresh(files) == [files |-> files, emitted |-> <<>>]
Built(program, debug) ==
    [files |-> (Qlc :> Bytes(Dumps(program, debug))) @@ TwoFiles,
     emitted |-> (Qlc :> IF debug THEN program ELSE Stripped(program))]

\* Files this build did not write: another version's, one of a build with an
\* opcode more, and one with something after the program.
Foreign(bytes) == Fresh((Qlc :> Bytes(bytes)) @@ (Main :> LibFile))
Another == [Dumps(Edited, FALSE) EXCEPT ![5] = 2]
Newer   == [Dumps(Edited, FALSE) EXCEPT ![Len(Dumps(Edited, FALSE)) - 1] = 120]

MCDisks ==
    {Fresh(OneFile), Fresh(Tangle), Fresh(Main :> LibFile),
     Fresh(Main :> Source(ToLib, <<>>, <<>>, <<"main">>)),
     Fresh(Spoilt(Unreadable("syntax error"))),
     Fresh(Spoilt(Defs(<<>>, <<"down">>))),
     Fresh(Spoilt(Source(<<>>, <<"Node">>, <<>>, <<"same">>))),
     Fresh(Spoilt(Source(<<>>, <<>>, <<"Node">>, <<"same">>))),
     Fresh(Spoilt(Source(<<>>, <<>>, <<"Mode", "Mode">>, <<"same">>))),
     Built(Calls, TRUE), Built(Calls, FALSE),
     Foreign(Another), Foreign(Newer), Foreign(Dumps(Edited, FALSE) \o <<0>>)}

\* A program needs a main; the other definitions tell the two programs apart.
MCCompiled(merged) ==
    IF "main" \notin NamesOf(merged.functions) THEN [why |-> "no main"]
    ELSE [why |-> "", program |-> IF "down" \in NamesOf(merged.functions) THEN Calls
                                  ELSE Edited]

MCNamed   == {Main, Qlc}
MCOutputs == {Main, Qlc}
\* Nothing, more than a byte, and a byte that is also the status of a fault.
MCResults == {0, 259, 65535}
=============================================================================
