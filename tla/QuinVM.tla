------------------------------- MODULE QuinVM -------------------------------
(***************************************************************************)
(* The interpreter (runtime/vm.py) running what the compiler produced: one *)
(* action per group of instructions, one step per instruction.  A word is  *)
(* a number below 2^16 and a frame slot holds one; an operand-stack entry  *)
(* is a word, or a float's whole pattern, with its reference tag.  Objects *)
(* live in a table and never move: the heap's layout and its collector are *)
(* the modules ManagedHeap and QuinHeap.  What the program asks of the     *)
(* host's files is answered nondeterministically, MaxInputs times.         *)
(***************************************************************************)
EXTENDS Sema, Bitwise

CONSTANT MaxInputs     \* bound: how often a run may consult the file system

VARIABLES program,     \* the compiled program that was loaded
          pc, stack, locals, frameBase, frames, currentFn,
          heap, fileError,
          output,      \* what was written: <<kind, value>> in order
          inputs,      \* what the file system answered so far
          status

machine == <<program, pc, stack, locals, frameBase, frames, currentFn, heap>>
vars == <<machine, fileError, output, inputs, status>>

Code == program.code
Functions == program.fns

Running == <<"running">>
Instr == Code[pc]
At(ops) == status = Running /\ Instr.op \in ops

(***************************************************************************)
(* Words.                                                                  *)
(***************************************************************************)
Word(v) == v % 65536
ToSigned(w) == IF w >= 32768 THEN w - 65536 ELSE w
\* The low word of a * b, by halves.
Product(a, b) == Word(Word((a \div 256) * b) * 256 + (a % 256) * b)
Magnitude(x) == IF x < 0 THEN -x ELSE x
TruncDiv(a, b) == LET q == Magnitude(a) \div Magnitude(b) IN IF (a < 0) # (b < 0) THEN -q ELSE q
BoolWord(p) == IF p THEN 1 ELSE 0

\* A float's 32-bit pattern, abstracted to an injection with two halves that
\* both depend on the value.  Zero is all-zero bits.
FloatBitsUnmasked(x) == <<2 * x, x>>                \* a mistake: see the README
FloatBits(x) == <<Word(2 * x), Word(x)>>
BitsFloat(b) == IF b[1] = Word(2 * ToSigned(b[2])) THEN ToSigned(b[2]) ELSE 32767

(***************************************************************************)
(* The object table.  Addresses are words no test program computes.        *)
(***************************************************************************)
HeapBase == 40000
Address(i) == HeapBase + 8 * i
IsAddress(w) == w \in {Address(i) : i \in DOMAIN heap}
Obj(w) == heap[(w - HeapBase) \div 8]
NewStr(text) == [kind |-> "str", text |-> text]
NewStruct(id) == [kind |-> "struct", id |-> id, words |-> [i \in 0..(WordSize(id) - 1) |-> 0]]
Constants == SelectSeq([i \in DOMAIN Layouts |-> i],
                       LAMBDA id : Layouts[id].enum # "" /\ Layouts[id].fields = <<>>)
\* Literals first, then the one instance of each payload-free variant.
InitialHeap(image) == [i \in DOMAIN image.strings |-> NewStr(image.strings[i])]
                    \o [i \in DOMAIN Constants |-> NewStruct(Constants[i])]
VariantAddress(id) == Address(Len(program.strings)
                                + CHOOSE i \in DOMAIN Constants : Constants[i] = id)
IsText(w) == IsAddress(w) /\ Obj(w).kind = "str"
IsObject(w) == IsAddress(w) /\ Obj(w).kind = "struct"

\* -1, 0 or 1 as a comes before, equals or comes after b, by bytes.
CompareTexts(a, b) ==
    LET n == IF Len(a) < Len(b) THEN Len(a) ELSE Len(b)
        differ == {i \in 1..n : a[i] # b[i]}
        first == CHOOSE i \in differ : \A j \in differ : i <= j
    IN  IF differ = {} THEN IF Len(a) = Len(b) THEN 0 ELSE IF Len(a) < Len(b) THEN -1 ELSE 1
        ELSE IF a[first] < b[first] THEN -1 ELSE 1

(***************************************************************************)
(* The operand stack.  Nothing may be popped from below the frame's base.  *)
(***************************************************************************)
Top(n) == stack[Len(stack) - n + 1]
Rest(n) == SubSeq(stack, 1, Len(stack) - n)
Entry(v, r) == [w |-> Word(v), r |-> r, wide |-> FALSE]
Raw(b) == [w |-> b, r |-> FALSE, wide |-> TRUE]
Fault(why) == status' = <<"fault", why>> /\ UNCHANGED <<machine, fileError, output, inputs>>
Needs(n, A) == IF Len(stack) - frameBase < n THEN Fault("underflow") ELSE A
Quiet == UNCHANGED <<program, fileError, output, inputs, status>>
InFrame == UNCHANGED <<frameBase, frames, currentFn>>
Next1 == pc' = pc + 1
\* Take n entries and leave those of s in their place.
Replace(n, s) == /\ stack' = Rest(n) \o s /\ Next1
                 /\ InFrame /\ UNCHANGED <<locals, heap>> /\ Quiet
Unless(bad, why, A) == IF bad THEN Fault(why) ELSE A

\* Reading and writing a frame slot.
NoSlot(i) == i \notin DOMAIN locals
SetLocals(f, n) == /\ locals' = f /\ stack' = Rest(n) /\ Next1
                   /\ InFrame /\ UNCHANGED heap /\ Quiet

(***************************************************************************)
(* Instructions.                                                           *)
(***************************************************************************)
PushConstant ==
    /\ At({"PUSH_INT", "PUSH_FLOAT", "LOAD_STR", "LOAD_VARIANT"})
    /\ Replace(0, << CASE Instr.op = "PUSH_INT" -> Entry(Instr.arg, FALSE)
                       [] Instr.op = "PUSH_FLOAT" -> Raw(FloatBits(Instr.arg))
                       [] Instr.op = "LOAD_STR" -> Entry(Address(Instr.arg), TRUE)
                       [] OTHER -> Entry(VariantAddress(Instr.arg), TRUE) >>)

Arithmetic ==
    /\ At({"ADD", "SUB", "MUL", "DIV", "MOD", "XOR", "AND", "OR", "SHL", "SHR"})
    /\ Needs(2, LET b == Top(1).w
                    a == Top(2).w
                    sa == ToSigned(a)
                    sb == ToSigned(b)
                    tag == Instr.op \in {"ADD", "SUB"} /\ (Top(1).r \/ Top(2).r)
                    result == CASE Instr.op = "ADD" -> a + b
                                [] Instr.op = "SUB" -> a - b
                                [] Instr.op = "MUL" -> Product(a, b)
                                [] Instr.op = "DIV" -> TruncDiv(sa, sb)
                                [] Instr.op = "MOD" -> sa - TruncDiv(sa, sb) * sb
                                [] Instr.op = "XOR" -> a ^^ b
                                [] Instr.op = "AND" -> a & b
                                [] Instr.op = "OR" -> a | b
                                [] Instr.op = "SHL" -> (a % 2^(16 - b)) * 2^b
                                [] Instr.op = "SHR" -> sa \div 2^b
                IN  Unless(Instr.op \in {"DIV", "MOD"} /\ b = 0, "division by zero",
                    Unless(Instr.op \in {"SHL", "SHR"} /\ sb \notin 0..15, "shift count",
                    Replace(2, <<Entry(result, tag)>>))))

Compare ==
    /\ At({"CMP_EQ", "CMP_NE", "CMP_LT", "CMP_LE", "CMP_GT", "CMP_GE"})
    /\ Needs(2, LET b == ToSigned(Top(1).w)
                    a == ToSigned(Top(2).w)
                    holds == CASE Instr.op = "CMP_EQ" -> a = b  [] Instr.op = "CMP_NE" -> a # b
                               [] Instr.op = "CMP_LT" -> a < b  [] Instr.op = "CMP_LE" -> a <= b
                               [] Instr.op = "CMP_GT" -> a > b  [] Instr.op = "CMP_GE" -> a >= b
                IN  Replace(2, <<Entry(BoolWord(holds), FALSE)>>))

Unary ==
    /\ At({"NEG", "NOT", "BITNOT"})
    /\ Needs(1, LET w == Top(1).w
                IN  Replace(1, << Entry(CASE Instr.op = "NEG" -> -w
                                          [] Instr.op = "NOT" -> BoolWord(w = 0)
                                          [] Instr.op = "BITNOT" -> -w - 1, FALSE) >>))

Floating ==
    /\ At({"FADD", "FSUB", "FMUL", "FDIV", "FCMP"})
    /\ Needs(2, LET b == BitsFloat(Top(1).w)
                    a == BitsFloat(Top(2).w)
                    result == CASE Instr.op = "FADD" -> a + b [] Instr.op = "FSUB" -> a - b
                                [] Instr.op = "FMUL" -> a * b [] Instr.op = "FDIV" -> TruncDiv(a, b)
                    sign == IF a > b THEN 1 ELSE IF a < b THEN -1 ELSE 0
                IN  Unless(Instr.op = "FDIV" /\ b = 0, "division by zero",
                    Replace(2, << IF Instr.op = "FCMP" THEN Entry(sign, FALSE)
                                  ELSE Raw(FloatBits(result)) >>)))

Convert ==
    /\ At({"FNEG", "F_FROM_INT", "F_TO_INT"})
    /\ Needs(1, Replace(1, << CASE Instr.op = "FNEG" -> Raw(FloatBits(-BitsFloat(Top(1).w)))
                                [] Instr.op = "F_FROM_INT" -> Raw(FloatBits(ToSigned(Top(1).w)))
                                [] OTHER -> Entry(BitsFloat(Top(1).w), FALSE) >>))

LoadLocal ==
    /\ At({"LOAD_LOCAL", "LOAD_LOCAL_F"})
    /\ LET i == Instr.arg
           wide == Instr.op = "LOAD_LOCAL_F"
       IN  Unless(NoSlot(i) \/ (wide /\ NoSlot(i + 1)), "local index",
           Replace(0, << IF wide THEN Raw(<<locals[i], locals[i + 1]>>)
                         ELSE Entry(locals[i], i \in Functions[currentFn].refs) >>))

StoreLocal ==
    /\ At({"STORE_LOCAL", "STORE_LOCAL_F"})
    /\ LET i == Instr.arg
           wide == Instr.op = "STORE_LOCAL_F"
           b == Top(1).w
       IN  Needs(1, Unless(NoSlot(i) \/ (wide /\ NoSlot(i + 1)), "local index",
                    SetLocals(IF wide THEN [locals EXCEPT ![i] = b[1], ![i + 1] = b[2]]
                              ELSE [locals EXCEPT ![i] = b], 1)))

\* An index is checked and left on the stack.
BoundsCheck ==
    /\ At({"BOUNDS_CHECK"})
    /\ Needs(1, Unless(ToSigned(Top(1).w) \notin 0..(Instr.arg - 1), "array index",
                Replace(0, <<>>)))

LoadIndexed ==
    /\ At({"LOAD_LOCAL_IDX", "LOAD_INDIRECT"})
    /\ Needs(1, LET i == (IF Instr.op = "LOAD_INDIRECT" THEN 0 ELSE Instr.arg) + ToSigned(Top(1).w)
                IN  Unless(NoSlot(i), "local index", Replace(1, <<Entry(locals[i], FALSE)>>)))

\* STORE_LOCAL_IDX pops the index, then the value; STORE_INDIRECT the value,
\* then the pointer.
StoreIndexed ==
    /\ At({"STORE_LOCAL_IDX", "STORE_INDIRECT"})
    /\ Needs(2, LET direct == Instr.op = "STORE_INDIRECT"
                    i == IF direct THEN ToSigned(Top(2).w) ELSE Instr.arg + ToSigned(Top(1).w)
                    v == IF direct THEN Top(1).w ELSE Top(2).w
                IN  Unless(NoSlot(i), "local index", SetLocals([locals EXCEPT ![i] = v], 2)))

\* Slots are copied one at a time, back to front when the destination is above
\* the source.
CopyForward(dst, src, n) == [i \in 1..n |-> i - 1]   \* a mistake: see the README
CopyOrder(dst, src, n) == [i \in 1..n |-> IF dst > src THEN n - i ELSE i - 1]
CopySlots(f, dst, src, n) ==
    FoldLeft(LAMBDA g, i : [g EXCEPT ![dst + i] = g[src + i]], f, CopyOrder(dst, src, n))
BlockOfSlots ==
    /\ At({"MEMCPY_LOCALS", "MEMSET_LOCALS"})
    /\ Needs(3, LET n == ToSigned(Top(1).w)
                    src == ToSigned(Top(2).w)
                    dst == ToSigned(Top(3).w)
                    copy == Instr.op = "MEMCPY_LOCALS"
                    off == \E i \in 0..(n - 1) : NoSlot(dst + i) \/ (copy /\ NoSlot(src + i))
                IN  Unless(n < 0, "negative count", Unless(off, "local index",
                    SetLocals(IF copy THEN CopySlots(locals, dst, src, n)
                              ELSE [i \in DOMAIN locals |->
                                      IF i \in dst..(dst + n - 1) THEN Top(2).w ELSE locals[i]],
                              3))))

Shuffle ==
    /\ At({"POP", "DUP", "SWAP"})
    /\ Needs(IF Instr.op = "SWAP" THEN 2 ELSE 1,
             CASE Instr.op = "POP" -> Replace(1, <<>>)
               [] Instr.op = "DUP" -> Replace(0, <<Top(1)>>)
               [] Instr.op = "SWAP" -> Replace(2, <<Top(1), Top(2)>>))

Jump ==
    /\ At({"JMP", "JZ", "JNZ"})
    /\ LET n == IF Instr.op = "JMP" THEN 0 ELSE 1
           taken == CASE Instr.op = "JMP" -> TRUE
                      [] Instr.op = "JZ" -> Top(1).w = 0 [] OTHER -> Top(1).w # 0
       IN  Needs(n, /\ stack' = Rest(n)
                    /\ pc' = IF taken THEN Instr.arg ELSE pc + 1
                    /\ InFrame /\ UNCHANGED <<locals, heap>> /\ Quiet)

\* One stack entry per argument, scattered into slots of each one's width.
Scatter(f, args) ==
    FoldLeft(LAMBDA acc, i :
                 [at |-> acc.at + f.widths[i],
                  l |-> IF f.widths[i] = 2
                        THEN [acc.l EXCEPT ![acc.at] = args[i].w[1], ![acc.at + 1] = args[i].w[2]]
                        ELSE [acc.l EXCEPT ![acc.at] = args[i].w]],
             [at |-> 0, l |-> [i \in 0..(f.size - 1) |-> 0]], [i \in 1..f.arity |-> i]).l
EnterFunction(id, popped) ==
    LET f == Functions[id]
        n == popped + f.arity
        args == SubSeq(stack, Len(stack) - n + 1, Len(stack) - popped)
    IN  Unless(id \notin DOMAIN Functions, "function index", Needs(n,
           /\ frames' = Append(frames, [pc |-> pc + 1, locals |-> locals,
                                       base |-> frameBase, fn |-> currentFn])
           /\ currentFn' = id
           /\ locals' = Scatter(f, args)
           /\ stack' = Rest(n)
           /\ frameBase' = Len(stack) - n
           /\ pc' = f.entry
           /\ UNCHANGED heap /\ Quiet))
Call == At({"CALL"}) /\ EnterFunction(Instr.arg, 0)
CallIndirect == At({"CALL_INDIRECT"}) /\ Needs(1, EnterFunction(Top(1).w, 1))

\* RET from main ends the program; its value is the exit code.
Return ==
    /\ At({"RET"})
    /\ Unless(Len(stack) # frameBase + 1, "unbalanced",
       IF frames = <<>>
       THEN /\ status' = <<"returned", ToSigned(Top(1).w)>>
            /\ UNCHANGED <<machine, fileError, output, inputs>>
       ELSE LET f == Last(frames)
            IN  /\ frames' = Front(frames)
                /\ locals' = f.locals /\ frameBase' = f.base
                /\ currentFn' = f.fn /\ pc' = f.pc
                /\ UNCHANGED <<stack, heap>> /\ Quiet)

PrintValue ==
    /\ At({"PRINT_INT", "PRINT_STR", "PRINT_FLOAT"})
    /\ Needs(1, Unless(Instr.op = "PRINT_STR" /\ ~IsText(Top(1).w), "not a string",
           /\ output' = Append(output, CASE Instr.op = "PRINT_INT" -> <<"int", ToSigned(Top(1).w)>>
                                   [] Instr.op = "PRINT_STR" -> <<"str", Obj(Top(1).w).text>>
                                   [] OTHER -> <<"float", BitsFloat(Top(1).w)>>)
           /\ stack' = Rest(1) /\ Next1
           /\ InFrame /\ UNCHANGED <<program, locals, heap, fileError, inputs, status>>))

Panic ==
    /\ At({"PANIC"})
    /\ Needs(1, Fault(IF IsText(Top(1).w) THEN "panic" ELSE "not a string"))

\* Allocation, with n entries taken and the new object's address left.
Allocate(n, obj) ==
    /\ heap' = Append(heap, obj)
    /\ stack' = Append(Rest(n), Entry(Address(Len(heap) + 1), TRUE))
    /\ Next1 /\ InFrame /\ UNCHANGED locals /\ Quiet
AllocTyped == At({"ALLOC_TYPED"}) /\ Allocate(0, NewStruct(Instr.arg))

Strings ==
    /\ At({"STR_CONCAT", "STR_CMP", "STR_LEN"})
    /\ LET n == IF Instr.op = "STR_LEN" THEN 1 ELSE 2
           text(i) == Obj(Top(i).w).text
       IN  Needs(n, Unless(\E i \in 1..n : ~IsText(Top(i).w), "not a string",
               CASE Instr.op = "STR_CONCAT" -> Allocate(2, NewStr(text(2) \o text(1)))
                 [] Instr.op = "STR_LEN" -> Replace(1, <<Entry(Len(text(1)), FALSE)>>)
                 [] Instr.op = "STR_CMP" ->
                      Replace(2, <<Entry(CompareTexts(text(2), text(1)), FALSE)>>)))

TagOf ==
    /\ At({"TAG_OF"})
    /\ Needs(1, Unless(~IsObject(Top(1).w), "null dereference",
                Replace(1, <<Entry(Obj(Top(1).w).id, FALSE)>>)))

\* The object's type says whether the field is a reference.
FieldIsRef(obj, offset) ==
    \E f \in FieldNames(obj.id) : /\ OffsetOf(obj.id, f) = offset
                                  /\ IsReference(FieldType(obj.id, f))
LoadField ==
    /\ At({"HEAP_LOAD_FIELD", "HEAP_LOAD_FIELD_F"})
    /\ LET o == Obj(Top(1).w)
           i == Instr.arg
       IN  Needs(1, Unless(~IsObject(Top(1).w), "null dereference",
           Replace(1, << IF Instr.op = "HEAP_LOAD_FIELD"
                         THEN Entry(o.words[i], FieldIsRef(o, i))
                         ELSE Raw(<<o.words[i], o.words[i + 1]>>) >>)))

StoreField ==
    /\ At({"HEAP_STORE_FIELD", "HEAP_STORE_FIELD_F"})
    /\ LET b == Top(1).w
           at == (Top(2).w - HeapBase) \div 8
           i == Instr.arg
       IN  Needs(2, Unless(~IsObject(Top(2).w), "null dereference",
               /\ heap' = IF Instr.op = "HEAP_STORE_FIELD"
                          THEN [heap EXCEPT ![at].words[i] = b]
                          ELSE [heap EXCEPT ![at].words[i] = b[1], ![at].words[i + 1] = b[2]]
               /\ stack' = Rest(2) /\ Next1
               /\ InFrame /\ UNCHANGED locals /\ Quiet))

(***************************************************************************)
(* Files.  A failure is a reason left for FILE_ERROR, cleared before each  *)
(* attempt; it is never a fault.  A file to delete that is absent is a     *)
(* failure, one asked about is an answer.                                  *)
(***************************************************************************)
Reason == <<33>>
FileOp ==
    /\ At({"FILE_EXISTS", "FILE_DELETE"})
    /\ Needs(1, Unless(~IsText(Top(1).w), "not a string",
       IF Len(inputs) = MaxInputs
       THEN /\ status' = <<"starved">> /\ UNCHANGED <<machine, fileError, output, inputs>>
       ELSE \E answer \in IF Instr.op = "FILE_EXISTS" THEN {"yes", "no", "fails"}
                          ELSE {"yes", "fails"} :
              /\ inputs' = Append(inputs, answer)
              /\ fileError' = IF answer = "fails" THEN Reason ELSE <<>>
              /\ stack' = Append(Rest(1), Entry(BoolWord(answer = "yes"), FALSE))
              /\ Next1 /\ InFrame /\ UNCHANGED <<program, locals, heap, output, status>>))
FileErrorOp == At({"FILE_ERROR"}) /\ Allocate(0, NewStr(fileError))

Next == \/ PushConstant \/ Arithmetic \/ Compare \/ Unary \/ Floating \/ Convert
        \/ LoadLocal \/ StoreLocal \/ BoundsCheck \/ LoadIndexed \/ StoreIndexed
        \/ BlockOfSlots \/ Shuffle \/ Jump \/ Call \/ CallIndirect \/ Return
        \/ PrintValue \/ Panic \/ AllocTyped \/ Strings \/ TagOf \/ LoadField
        \/ StoreField \/ FileOp \/ FileErrorOp

\* main is entered with no arguments, by the host.
Load(image) ==
    /\ program = image
    /\ output = <<>> /\ inputs = <<>> /\ fileError = <<>>
    /\ stack = <<>> /\ frameBase = 0 /\ frames = <<>>
    /\ IF image.ok
       THEN LET main == FunctionNamed(Functions, "main")
            IN  /\ status = Running
                /\ currentFn = main /\ pc = Functions[main].entry
                /\ locals = [i \in 0..(Functions[main].size - 1) |-> 0]
                /\ heap = InitialHeap(image)
       ELSE /\ status = <<"rejected">>
            /\ currentFn = 0 /\ pc = 0 /\ locals = <<>> /\ heap = <<>>
=============================================================================
