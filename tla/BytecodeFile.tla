---------------------------- MODULE BytecodeFile ----------------------------
(***************************************************************************)
(* The .qlc file (compiler/serialize.py): a compiled program as bytes.     *)
(*                                                                         *)
(* A format says how a value lies in the file.  What is written and what   *)
(* is read are two descriptions, as they are two sets of functions in the  *)
(* code; nothing but the code's care makes them agree.                     *)
(***************************************************************************)
EXTENDS Integers, Sequences, SequencesExt, FiniteSetsExt, TLC

CONSTANTS
    OpNumber,       \* the number of each opcode of this build
    Utf8            \* the bytes of each text there is

MAGIC          == <<81, 76, 67, 26>>
FORMAT_VERSION == 1
HAS_DEBUG_INFO == 1
HAS_OPERAND    == 2 ^ 15
NoOperand      == -1

U8          == [kind |-> "uint", bytes |-> 1]
U16         == [kind |-> "uint", bytes |-> 2]
U32         == [kind |-> "uint", bytes |-> 4]
Text        == [kind |-> "text"]
Flag        == [kind |-> "flag"]
Instruction == [kind |-> "instruction"]
ListOf(f)   == [kind |-> "list", of |-> f]
Rec(fields) == [kind |-> "record", fields |-> fields]
F(name, f)  == [name |-> name, format |-> f]

-----------------------------------------------------------------------------
(* Writing.                                                                *)

StringsWritten == ListOf(Rec(<< F("id", U32), F("text", Text) >>))
StructsWritten ==
    ListOf(Rec(<< F("name", Text), F("word_size", U32), F("is_variant", Flag),
                  F("ref_offsets", ListOf(U32)),
                  F("fields", ListOf(Rec(<< F("name", Text), F("type_name", Text),
                                            F("offset", U32) >>))) >>))
LocalsWritten ==
    ListOf(Rec(<< F("name", Text), F("slot", U32), F("type_name", Text), F("words", U32),
                  F("is_param", Flag) >>))
FunctionsWritten(debug) ==
    ListOf(Rec(<< F("name", Text), F("entry_pc", U32), F("num_locals", U32),
                  F("num_params", U32), F("ref_slots", ListOf(U32)),
                  F("param_words", ListOf(U32)) >>
               \o IF debug THEN << F("source_file", Text), F("locals_", LocalsWritten) >>
                  ELSE <<>>))
SourceMapWritten == ListOf(Rec(<< F("pc", U32), F("line", U32), F("col", U32) >>))

LittleEndian(n, bytes) == [i \in 1 .. bytes |-> (n \div 256 ^ (i - 1)) % 256]

RECURSIVE Written(_, _)
Written(f, v) ==
    CASE f.kind = "uint"   -> LittleEndian(v, f.bytes)
      [] f.kind = "text"   -> LittleEndian(Len(Utf8[v]), 4) \o Utf8[v]
      [] f.kind = "flag"   -> IF v THEN <<1>> ELSE <<0>>
      [] f.kind = "list"   -> LittleEndian(Len(v), 4)
                              \o FlattenSeq([i \in DOMAIN v |-> Written(f.of, v[i])])
      [] f.kind = "record" -> FlattenSeq([i \in DOMAIN f.fields |->
                                  Written(f.fields[i].format, v[f.fields[i].name])])
      [] f.kind = "instruction" ->
            IF v.arg = NoOperand THEN LittleEndian(OpNumber[v.op], 2)
            ELSE LittleEndian(OpNumber[v.op] + HAS_OPERAND, 2) \o LittleEndian(v.arg, 4)

\* The table of strings, lowest id first.
Items(strings) ==
    LET ids == SetToSortSeq(DOMAIN strings, <)
    IN  [i \in DOMAIN ids |-> [id |-> ids[i], text |-> strings[ids[i]]]]

Dumps(program, debug) ==
    MAGIC \o LittleEndian(FORMAT_VERSION, 2)
    \o LittleEndian(IF debug THEN HAS_DEBUG_INFO ELSE 0, 2)
    \o Written(StringsWritten, Items(program.strings))
    \o Written(StructsWritten, program.structs)
    \o Written(FunctionsWritten(debug), program.functions)
    \o Written(ListOf(Instruction), program.code)
    \o IF debug THEN Written(SourceMapWritten, program.source_map) ELSE <<>>

-----------------------------------------------------------------------------
(* Reading: a value, and how far the file has been read; or why it failed. *)

StringsRead == ListOf(Rec(<< F("id", U32), F("text", Text) >>))
StructsRead ==
    ListOf(Rec(<< F("name", Text), F("word_size", U32), F("is_variant", Flag),
                  F("ref_offsets", ListOf(U32)),
                  F("fields", ListOf(Rec(<< F("name", Text), F("type_name", Text),
                                            F("offset", U32) >>))) >>))
LocalsRead ==
    ListOf(Rec(<< F("name", Text), F("slot", U32), F("type_name", Text), F("words", U32),
                  F("is_param", Flag) >>))

\* a mistake: see the README
FunctionsReadSwapped(debug) ==
    ListOf(Rec(<< F("name", Text), F("entry_pc", U32), F("num_params", U32),
                  F("num_locals", U32), F("ref_slots", ListOf(U32)),
                  F("param_words", ListOf(U32)) >>
               \o IF debug THEN << F("source_file", Text), F("locals_", LocalsRead) >>
                  ELSE <<>>))

FunctionsRead(debug) ==
    ListOf(Rec(<< F("name", Text), F("entry_pc", U32), F("num_locals", U32),
                  F("num_params", U32), F("ref_slots", ListOf(U32)),
                  F("param_words", ListOf(U32)) >>
               \o IF debug THEN << F("source_file", Text), F("locals_", LocalsRead) >>
                  ELSE <<>>))
SourceMapRead == ListOf(Rec(<< F("pc", U32), F("line", U32), F("col", U32) >>))

At(pos, v)  == [pos |-> pos, v |-> v, why |-> ""]
Stuck(why)  == [pos |-> 0, v |-> 0, why |-> why]
IsStuck(r)  == r.why # ""
CutOff      == Stuck("the file ends in the middle of a record")

RECURSIVE Number(_)
Number(bytes) == IF bytes = <<>> THEN 0 ELSE Head(bytes) + 256 * Number(Tail(bytes))

\* _Reader.take, and the number those bytes are.
TakeUint(data, pos, bytes) ==
    IF pos + bytes > Len(data) THEN CutOff
    ELSE At(pos + bytes, Number(SubSeq(data, pos + 1, pos + bytes)))

TakeText(data, pos) ==
    LET n == TakeUint(data, pos, 4)
    IN  IF IsStuck(n) THEN n
        ELSE IF n.pos + n.v > Len(data) THEN CutOff
        ELSE LET bytes == SubSeq(data, n.pos + 1, n.pos + n.v)
                 table == Utf8
                 texts == {t \in DOMAIN table : table[t] = bytes}
             IN  IF texts = {} THEN Stuck("not UTF-8")
                 ELSE At(n.pos + n.v, CHOOSE t \in texts : TRUE)

TakeInstruction(data, pos) ==
    LET field == TakeUint(data, pos, 2)
    IN  IF IsStuck(field) THEN field
        ELSE LET table == OpNumber
                 ops == {op \in DOMAIN table : table[op] = field.v % HAS_OPERAND}
                 arg == TakeUint(data, field.pos, 4)
             IN  IF ops = {} THEN Stuck("no such opcode")
                 ELSE LET op == CHOOSE op \in ops : TRUE
                      IN  IF field.v < HAS_OPERAND
                          THEN At(field.pos, [op |-> op, arg |-> NoOperand])
                          ELSE IF IsStuck(arg) THEN arg
                          ELSE At(arg.pos, [op |-> op, arg |-> arg.v])

RECURSIVE Taken(_, _, _), TakenItems(_, _, _, _), TakenFields(_, _, _, _)
Taken(f, data, pos) ==
    CASE f.kind = "uint" -> TakeUint(data, pos, f.bytes)
      [] f.kind = "text" -> TakeText(data, pos)
      [] f.kind = "flag" -> LET r == TakeUint(data, pos, 1) IN [r EXCEPT !.v = @ # 0]
      [] f.kind = "list" -> LET n == TakeUint(data, pos, 4)
                            IN  IF IsStuck(n) THEN n
                                ELSE TakenItems(f.of, n.v, data, At(n.pos, <<>>))
      [] f.kind = "record" -> TakenFields(f.fields, data, pos, <<>>)
      [] f.kind = "instruction" -> TakeInstruction(data, pos)

TakenItems(f, n, data, r) ==
    IF IsStuck(r) \/ n = 0 THEN r
    ELSE LET item == Taken(f, data, r.pos)
         IN  IF IsStuck(item) THEN item
             ELSE TakenItems(f, n - 1, data, At(item.pos, Append(r.v, item.v)))

TakenFields(fields, data, pos, record) ==
    IF fields = <<>> THEN At(pos, record)
    ELSE LET r == Taken(Head(fields).format, data, pos)
         IN  IF IsStuck(r) THEN r
             ELSE TakenFields(Tail(fields), data, r.pos, record @@ (Head(fields).name :> r.v))

Sections(debug) ==
    << F("strings", StringsRead), F("structs", StructsRead),
       F("functions", FunctionsRead(debug)), F("code", ListOf(Instruction)) >>
    \o IF debug THEN << F("source_map", SourceMapRead) >> ELSE <<>>

\* A FunctionInfo and a program have defaults for what a stripped file leaves out.
Rebuilt(read) ==
    [code       |-> read.code,
     functions  |-> [i \in DOMAIN read.functions |->
                        read.functions[i] @@ [source_file |-> "", locals_ |-> <<>>]],
     strings    |-> FoldLeft(LAMBDA table, item : (item.id :> item.text) @@ table,
                             <<>>, read.strings),
     structs    |-> read.structs,
     source_map |-> (read @@ [source_map |-> <<>>]).source_map]

Loads(data) ==
    LET version == TakeUint(data, 4, 2)
        flags   == TakeUint(data, 6, 2)
    IN  IF Len(data) < 4 THEN CutOff
        ELSE IF SubSeq(data, 1, 4) # MAGIC THEN Stuck("not bytecode")
        ELSE IF IsStuck(version) THEN version
        ELSE IF version.v # FORMAT_VERSION THEN Stuck("another format")
        ELSE IF IsStuck(flags) THEN flags
        ELSE LET read == TakenFields(Sections(flags.v % 2 = HAS_DEBUG_INFO), data, flags.pos,
                                     <<>>)
             IN  IF IsStuck(read) THEN read
                 ELSE IF read.pos # Len(data) THEN Stuck("trailing bytes")
                 ELSE At(read.pos, Rebuilt(read.v))

IsBytecode(data) == Len(data) >= 4 /\ SubSeq(data, 1, 4) = MAGIC

\* What a stripped file is to load as.
Stripped(program) ==
    [program EXCEPT
        !.source_map = <<>>,
        !.functions = [i \in DOMAIN @ |-> [@[i] EXCEPT !.source_file = "", !.locals_ = <<>>]]]
=============================================================================
