------------------------------ MODULE QuinHeap ------------------------------
(***************************************************************************)
(* QuinVM's heap, its roots and its collector (runtime/vm.py), under the   *)
(* instructions that touch references.                                     *)
(*                                                                         *)
(* The heap is an array of words: two header words (kind, detail) and a    *)
(* payload per block, one block after another from HeapStart to heap_ptr.  *)
(* Addresses count words where the code counts bytes, so a header is 2 and *)
(* null is still 0.  The program is any sequence of instructions a typed   *)
(* program can contain, and a collection is one step, in which mark, plan, *)
(* update and slide show only by what they leave together.  A float is two *)
(* untagged words of a frame and adds nothing to what the collector sees,  *)
(* so floats are left out.                                                 *)
(*                                                                         *)
(* A definition nothing uses (CurrentFrame, VariantsOnly, NotCleared, ...)  *)
(* is a mistake the one after it could have been; the README names the     *)
(* property that breaks when it takes its place.                           *)
(***************************************************************************)
EXTENDS Integers, Sequences, FiniteSets

CONSTANTS
    Programs,       \* the loaded programs, with the machine each runs on
    MaxWords,       \* bound on HEAP_SIZE, in words
    MaxString       \* bound on the length of a string

\* HEAP_SIZE is 64 * 1024 bytes.
ASSUME SizeAssumption == MaxWords \in 1 .. 32768 /\ MaxString \in Nat

WORD_MASK == 65535
Word      == 0 .. WORD_MASK

\* What the code generator sees to: reference fields are fields, parameters are
\* locals, and so are the slots a function's frame map names.
WellMade(prog) ==
    /\ prog.words \in 1 .. MaxWords
    /\ DOMAIN prog.structs \subseteq Word
    /\ \A t \in DOMAIN prog.structs :
          /\ prog.structs[t].size \in Nat
          /\ prog.structs[t].refs \subseteq 0 .. prog.structs[t].size - 1
    /\ prog.main \in DOMAIN prog.funs
    /\ \A f \in DOMAIN prog.funs :
          /\ prog.funs[f].locals \in Nat /\ prog.funs[f].params \in 0 .. prog.funs[f].locals
          /\ prog.funs[f].refs \subseteq 1 .. prog.funs[f].locals
    /\ prog.strings \in Seq(Nat) /\ prog.ints \subseteq Word
    /\ prog.sizes \subseteq Nat /\ prog.counts \subseteq Nat

ASSUME ProgramsAssumption == \A prog \in Programs : WellMade(prog)

VARIABLES
    program,        \* what QuinVM was built with: one of Programs, throughout
    heap,           \* QuinVM.heap
    heap_ptr,       \* QuinVM.heap_ptr
    stack,          \* stack and stack_is_ref together: [w, ref]
    frames,         \* call_stack and, last, the running frame: [fn, locals, base]
    literals,       \* QuinVM.literals
    variants,       \* QuinVM.variants
    status,         \* starting, running, or faulted (a VMError was raised)
    ids             \* ghost: payload address -> the identity of the object there

vars  == <<program, heap, heap_ptr, stack, frames, literals, variants, status, ids>>

HeapWords  == program.words          \* HEAP_SIZE, in words
Structs    == program.structs        \* type id -> [size, refs, variant]
Funs       == program.funs           \* function -> [locals, refs, params]
Main       == program.main           \* the function run_main enters
Literals   == program.strings        \* the lengths of the string literals

\* What its instructions mention, and how deep its stacks grow.
Ints       == program.ints
RawSizes   == program.sizes          \* byte sizes passed to alloc
Counts     == program.counts         \* element counts passed to array_new
MaxStack   == program.depth
MaxFrames  == program.calls
PastTheEnd == program.pastEnd        \* a heapptr is moved to its block's end

HeapStart == 1
Header    == 2                       \* HEADER_BYTES
Null      == 0
MinWords  == 1                       \* MIN_PAYLOAD

Struct   == 0                        \* KIND_STRUCT: detail is a type id
Raw      == 1                        \* KIND_RAW: detail is a size in bytes
String   == 2                        \* KIND_STRING: detail is a length in bytes
RefArray == 3                        \* KIND_REFARRAY: detail is a count
ValArray == 4                        \* KIND_VALARRAY: detail is a count

\* The type ids of payload-free variants: one shared object each.
Interned == {t \in DOMAIN Structs : Structs[t].variant /\ Structs[t].size = 0}

Larger(a, b) == IF a > b THEN a ELSE b
HalfUp(n)    == (n + 1) \div 2       \* bytes to words

Last(s)    == s[Len(s)]
Drop(s, k) == SubSeq(s, 1, Len(s) - k)
Frame      == Last(frames)
Refs(fn)   == Funs[fn].refs

-----------------------------------------------------------------------------
(* Headers and blocks.  p is always a payload address.                     *)

Kind(p)   == heap[p - 2]
Detail(p) == heap[p - 1]

Words(kind, detail) ==
    Larger(MinWords,
           CASE kind = Struct -> Structs[detail].size
             [] kind \in {RefArray, ValArray} -> detail
             [] OTHER -> HalfUp(detail))

\* A header that says how large its block is.
IsHeader(kind, detail) ==
    kind \in {Struct, Raw, String, RefArray, ValArray} /\ (kind = Struct => detail \in DOMAIN Structs)

Size(p) == Words(Kind(p), Detail(p))
End(p)  == p + Size(p)

\* Everything `next` leads to from the set S.
Reached(next, S) ==
    LET from[T \in SUBSET DOMAIN next] ==
          LET more == T \cup UNION {next[x] : x \in T}
          IN  IF more = T THEN T ELSE from[more]
    IN  from[S]

Addresses == 0 .. HeapWords

\* _blocks, as the payload addresses _object_starts lists: from the first block,
\* each begins where the one before it ends.
BlockAt(hdr) == IF hdr < heap_ptr THEN {hdr + Header} \cap Addresses ELSE {}
Starts == Reached([p \in Addresses |-> BlockAt(End(p))], BlockAt(HeapStart))

\* _containing_object: the block a reference points into, if any.
Containing(w) == {p \in Starts : p <= w /\ w < End(p)}

\* The words of the block at p that hold references, as offsets.
RefOffsets(p) ==
    CASE Kind(p) = Struct   -> Structs[Detail(p)].refs
      [] Kind(p) = RefArray -> 0 .. Detail(p) - 1
      [] OTHER                -> {}

-----------------------------------------------------------------------------
(* Collection, with the operand stack st: collect().                       *)

\* The running frame and the suspended ones.
CurrentFrame == {Len(frames)}
Activations  == DOMAIN frames

FrameRoots == UNION {{frames[i].locals[s] : s \in Refs(frames[i].fn)} :
                         i \in Activations}

\* The operands that are tagged as references.
Operands(st) == {st[i].w : i \in {j \in DOMAIN st : st[j].ref}}

VariantsOnly == {variants[i] : i \in DOMAIN variants}
Permanents   == {literals[i] : i \in DOMAIN literals}
                  \cup {variants[i] : i \in DOMAIN variants}

\* _roots.
RootWords(st) == Operands(st) \cup FrameRoots \cup Permanents

\* What the references of the block at p point into.
Targets(p) == UNION {Containing(heap[p + o]) : o \in RefOffsets(p)}

\* Whatever something refers to, reachable or not.
ReferredTo(st) ==
    UNION {Containing(w) : w \in RootWords(st)} \cup UNION {Targets(p) : p \in Starts}

\* _mark_from, from every root.
Marked(st) == Reached([p \in Starts |-> Targets(p)],
                      UNION {Containing(w) : w \in RootWords(st)})

\* _plan_compaction: where the block at p goes when the set S survives.
WordsOf(S)    == UNION {(p - Header) .. (End(p) - 1) : p \in S}
Forward(S, p) == HeapStart + Header + Cardinality(WordsOf({q \in S : q < p}))

\* Only a reference to a block's start.
MovedStarts(S, w) == IF w \in S THEN Forward(S, w) ELSE w

\* `moved`, in _update_references: a reference follows its block and keeps
\* its offset; anything else is left alone.
Moved(S, w) ==
    IF Containing(w) \cap S = {} THEN w
    ELSE LET p == CHOOSE q \in Containing(w) : TRUE IN Forward(S, p) + (w - p)

CollectedTop(S) == HeapStart + Cardinality(WordsOf(S))

\* _slide zeroes what the survivors vacated.
NotCleared(a) == heap[a]
Vacated(a)    == IF HeapStart <= a /\ a < heap_ptr THEN 0 ELSE heap[a]

\* The survivor that covers the address a when it has slid, and what it has there.
Landing(S, a) == {p \in S : Forward(S, p) - Header <= a /\ a < Forward(S, p) + Size(p)}
SlidWord(S, p, a) ==
    LET src == p + a - Forward(S, p)
    IN  IF src >= p /\ src - p \in RefOffsets(p) THEN Moved(S, heap[src]) ELSE heap[src]

\* Every survivor's header and updated payload where it slides to, zeros in
\* what that vacates, and nothing above heap_ptr disturbed.
CollectedHeap(S) ==
    [a \in DOMAIN heap |->
        IF Landing(S, a) = {} THEN Vacated(a)
        ELSE SlidWord(S, CHOOSE p \in Landing(S, a) : TRUE, a)]

CollectedStack(S, st) ==
    [i \in DOMAIN st |-> IF st[i].ref THEN [st[i] EXCEPT !.w = Moved(S, @)]
                                      ELSE st[i]]

CollectedFrames(S) ==
    [i \in DOMAIN frames |->
        [frames[i] EXCEPT !.locals =
            [s \in DOMAIN @ |-> IF s \in Refs(frames[i].fn) THEN Moved(S, @[s])
                                                            ELSE @[s]]]]

CollectedIds(S) ==
    [q \in {Forward(S, p) : p \in S} |->
        ids[CHOOSE p \in S : Forward(S, p) = q]]

CollectRoots(S) ==
    /\ frames' = CollectedFrames(S)
    /\ literals' = [i \in DOMAIN literals |-> Moved(S, literals[i])]
    /\ variants' = [i \in DOMAIN variants |-> Moved(S, variants[i])]

-----------------------------------------------------------------------------
(* Allocation.                                                             *)

\* The smallest identity not in use; forgotten ones may be used again.
Unused(used) == CHOOSE i \in 1 .. HeapWords :
                    i \notin used /\ \A j \in 1 .. (i - 1) : j \in used

\* A header and its payload written at the bump pointer: `fill` in every word.
Placed(h, top, kind, detail, fill) ==
    [a \in DOMAIN h |->
        CASE a = top     -> kind
          [] a = top + 1 -> detail
          [] a \in (top + Header) .. (top + Header + Words(kind, detail) - 1) -> fill
          [] OTHER       -> h[a]]

\* The bump check.
FitsHeader(top, n) == top <= HeapWords
Fits(top, n)       == top + Header + n <= HeapWords

New(p) == [w |-> p, ref |-> TRUE]

Named(known, p) == [q \in DOMAIN known \cup {p} |->
                      IF q \in DOMAIN known THEN known[q]
                      ELSE Unused({known[r] : r \in DOMAIN known})]

\* _bump succeeds at once.
ReserveNow(st, kind, detail, fill) ==
    LET p == heap_ptr + Header
    IN  /\ Fits(heap_ptr, Words(kind, detail))
        /\ heap' = Placed(heap, heap_ptr, kind, detail, fill)
        /\ heap_ptr' = p + Words(kind, detail)
        /\ stack' = Append(st, New(p))
        /\ ids' = Named(ids, p)
        /\ UNCHANGED <<program, frames, literals, variants, status>>

\* It fails, and succeeds after a collection.
ReserveLater(st, kind, detail, fill) ==
    LET S == Marked(st)
        p == CollectedTop(S) + Header
    IN  /\ ~Fits(heap_ptr, Words(kind, detail))
        /\ Fits(CollectedTop(S), Words(kind, detail))
        /\ heap_ptr' = p + Words(kind, detail)
        /\ stack' = Append(CollectedStack(S, st), New(p))
        /\ CollectRoots(S)
        /\ heap' = Placed(CollectedHeap(S), CollectedTop(S), kind, detail, fill)
        /\ ids' = Named(CollectedIds(S), p)
        /\ UNCHANGED <<program, status>>

\* What a collection leaves when it is all that happens.
Collected(S, st) ==
    /\ heap_ptr' = CollectedTop(S)
    /\ stack' = CollectedStack(S, st)
    /\ CollectRoots(S)
    /\ heap' = CollectedHeap(S)
    /\ ids' = CollectedIds(S)

\* It fails twice: "Heap out of memory".
ReserveNever(st, kind, detail) ==
    LET S == Marked(st)
    IN  /\ ~Fits(heap_ptr, Words(kind, detail))
        /\ status' = "faulted"
        /\ ~Fits(CollectedTop(S), Words(kind, detail))
        /\ Collected(S, st)
        /\ UNCHANGED program

\* _reserve, and the clearing or filling its callers do.  The operands the
\* instruction popped are already gone from st.
Reserve(st, kind, detail, fill) ==
    \/ ReserveNow(st, kind, detail, fill)
    \/ ReserveLater(st, kind, detail, fill)
    \/ ReserveNever(st, kind, detail)

-----------------------------------------------------------------------------
(* The operand stack.  A value is taken only if the running frame owns it. *)

Starting == status = "starting"
Running  == status = "running"

Has(k)   == Len(stack) >= Frame.base + k
Arg(k)   == stack[Len(stack) - k + 1]       \* the k-th value from the top
Room     == Len(stack) < MaxStack
Push(k, w, ref) == stack' = Append(Drop(stack, k), [w |-> w, ref |-> ref])

Memory   == <<program, heap, heap_ptr, literals, variants, status, ids>>

\* A typed program stores references, or null, where references belong, and
\* anything else nowhere near them.
Storable(v, ref) == IF ref THEN v.ref \/ v.w = Null ELSE ~v.ref

\* What a typed program dereferences: a block of this kind, from its start.
Is(v, kind) == v.ref /\ v.w \in Starts /\ Kind(v.w) = kind

PushInt(n) ==
    /\ Running
    /\ Room /\ Push(0, n, FALSE)
    /\ UNCHANGED <<Memory, frames>>

LoadStr(i) ==
    /\ Running
    /\ Room /\ Push(0, literals[i], TRUE)
    /\ UNCHANGED <<Memory, frames>>

LoadVariant(t) ==
    /\ Running
    /\ t \in Interned
    /\ Room /\ Push(0, variants[t], TRUE)
    /\ UNCHANGED <<Memory, frames>>

LoadLocal(s) ==
    /\ Running
    /\ Room /\ Push(0, Frame.locals[s], s \in Refs(Frame.fn))
    /\ UNCHANGED <<Memory, frames>>

StoreLocal(s) ==
    /\ Running
    /\ Has(1)
    /\ Storable(Arg(1), s \in Refs(Frame.fn))
    /\ frames' = [frames EXCEPT ![Len(frames)].locals[s] = Arg(1).w]
    /\ stack' = Drop(stack, 1)
    /\ UNCHANGED Memory

PopValue ==
    /\ Running
    /\ Has(1)
    /\ stack' = Drop(stack, 1)
    /\ UNCHANGED <<Memory, frames>>

Dup ==
    /\ Running
    /\ Has(1) /\ Room
    /\ stack' = Append(stack, Arg(1))
    /\ UNCHANGED <<Memory, frames>>

Swap ==
    /\ Running
    /\ Has(2)
    /\ stack' = Drop(stack, 2) \o <<Arg(1), Arg(2)>>
    /\ UNCHANGED <<Memory, frames>>

\* ADD of a heapptr and an int: still a reference, possibly into the middle.
AddPointer ==
    /\ Running
    /\ Has(2)
    /\ Is(Arg(2), Raw) /\ ~Arg(1).ref
    /\ LET w == Arg(2).w + Arg(1).w
       IN  /\ w < End(Arg(2).w) \/ (PastTheEnd /\ w = End(Arg(2).w))
           /\ Push(2, w, Arg(2).ref \/ Arg(1).ref)
    /\ UNCHANGED <<Memory, frames>>

\* CMP_EQ, on integers or on references: an untagged 0 or 1.
Compare ==
    /\ Running
    /\ Has(2)
    /\ Push(2, IF Arg(2).w = Arg(1).w THEN 1 ELSE 0, FALSE)
    /\ UNCHANGED <<Memory, frames>>

-----------------------------------------------------------------------------
(* Objects.                                                                *)

AllocTyped(t) ==
    /\ Running
    /\ Room
    /\ Reserve(stack, Struct, t, 0)

NewArray(n, kind) ==
    /\ Running
    /\ Room
    /\ Reserve(stack, kind, n, 0)

\* _alloc_raw records the rounded size, at least MIN_PAYLOAD.
AllocRaw(n) ==
    /\ Running
    /\ Room
    /\ Reserve(stack, Raw, 2 * Larger(MinWords, HalfUp(n)), 0)

\* STR_CONCAT reads both strings before it allocates, and holds neither.
StrConcat ==
    /\ Running
    /\ Has(2)
    /\ Is(Arg(1), String) /\ Is(Arg(2), String)
    /\ LET n == Detail(Arg(2).w) + Detail(Arg(1).w)
       IN  n <= MaxString /\ Reserve(Drop(stack, 2), String, n, 1)

\* HEAP_LOAD_FIELD: the header says whether the field holds a reference.
HeapLoadField(off) ==
    /\ Running
    /\ Has(1)
    /\ Is(Arg(1), Struct) /\ off < Structs[Detail(Arg(1).w)].size
    /\ Push(1, heap[Arg(1).w + off],
               off \in Structs[Detail(Arg(1).w)].refs)
    /\ UNCHANGED <<Memory, frames>>

HeapStoreField(off) ==
    /\ Running
    /\ Has(2)
    /\ Is(Arg(2), Struct) /\ off < Structs[Detail(Arg(2).w)].size
    /\ Storable(Arg(1), off \in Structs[Detail(Arg(2).w)].refs)
    /\ heap' = [heap EXCEPT ![Arg(2).w + off] = Arg(1).w]
    /\ stack' = Drop(stack, 2)
    /\ UNCHANGED <<program, frames, heap_ptr, literals, variants, status, ids>>

ArrayGet(kind) ==
    /\ Running
    /\ Has(2)
    /\ Is(Arg(2), kind) /\ ~Arg(1).ref /\ Arg(1).w < Detail(Arg(2).w)
    /\ Push(2, heap[Arg(2).w + Arg(1).w], Kind(Arg(2).w) = RefArray)
    /\ UNCHANGED <<Memory, frames>>

ArraySet(kind) ==
    /\ Running
    /\ Has(3)
    /\ Is(Arg(3), kind) /\ ~Arg(2).ref /\ Arg(2).w < Detail(Arg(3).w)
    /\ Storable(Arg(1), kind = RefArray)
    /\ heap' = [heap EXCEPT ![Arg(3).w + Arg(2).w] = Arg(1).w]
    /\ stack' = Drop(stack, 3)
    /\ UNCHANGED <<program, frames, heap_ptr, literals, variants, status, ids>>

\* HEAP_LOAD and HEAP_STORE: a word of a raw block, through any pointer into
\* it; what is read is never a reference.
InRaw(v) == v.ref /\ \E p \in Containing(v.w) : Kind(p) = Raw

HeapLoad ==
    /\ Running
    /\ Has(1)
    /\ InRaw(Arg(1))
    /\ Push(1, heap[Arg(1).w], FALSE)
    /\ UNCHANGED <<Memory, frames>>

HeapStore ==
    /\ Running
    /\ Has(2)
    /\ InRaw(Arg(2)) /\ ~Arg(1).ref
    /\ heap' = [heap EXCEPT ![Arg(2).w] = Arg(1).w]
    /\ stack' = Drop(stack, 2)
    /\ UNCHANGED <<program, frames, heap_ptr, literals, variants, status, ids>>

\* TAG_OF, ARRAY_LEN and STR_LEN: the detail word of the header.
ReadDetail ==
    /\ Running
    /\ Has(1)
    /\ \E kind \in {Struct, RefArray, ValArray, String} : Is(Arg(1), kind)
    /\ Push(1, Detail(Arg(1).w), FALSE)
    /\ UNCHANGED <<Memory, frames>>

\* A VMError raised by an instruction that has popped its operands, one of
\* them null or 0: a null reference, a division by zero.  The run is over.
Fault ==
    /\ Running
    /\ Has(1)
    /\ \E k \in {1, 2} : Has(k) /\ Arg(k).w = Null /\ stack' = Drop(stack, k)
    /\ status' = "faulted"
    /\ UNCHANGED <<program, heap, heap_ptr, frames, literals, variants, ids>>

Gc ==
    /\ Running
    /\ Collected(Marked(stack), stack)
    /\ UNCHANGED <<program, status>>

-----------------------------------------------------------------------------
(* Calls.                                                                  *)

\* _enter_function: arguments leave the caller's part of the stack for the
\* callee's leading slots, and every other slot starts at 0.
Call(f) ==
    LET n    == Funs[f].params
        args == SubSeq(stack, Len(stack) - n + 1, Len(stack))
    IN  /\ Running
        /\ Len(frames) < MaxFrames
        /\ Has(n)
        /\ \A i \in 1 .. n : Storable(args[i], i \in Refs(f))
        /\ stack' = Drop(stack, n)
        /\ frames' = Append(frames,
                [fn |-> f, base |-> Len(stack) - n,
                 locals |-> [s \in 1 .. Funs[f].locals |->
                               IF s <= n THEN args[s].w ELSE 0]])
        /\ UNCHANGED Memory

\* RET: exactly the returned value above the frame's base, tag and all.
Ret ==
    /\ Running
    /\ Len(frames) > 1
    /\ Len(stack) = Frame.base + 1
    /\ frames' = Drop(frames, 1)
    /\ UNCHANGED <<Memory, stack>>

-----------------------------------------------------------------------------
(* run_main: literals, then payload-free variants, then the program.       *)

Init ==
    /\ program \in Programs
    /\ heap = [a \in 0 .. HeapWords - 1 |-> 0]
    /\ heap_ptr = HeapStart
    /\ stack = <<>>
    /\ frames = <<[fn |-> Main, base |-> 0,
                   locals |-> [s \in 1 .. Funs[Main].locals |-> 0]]>>
    /\ literals = <<>>
    /\ variants = [t \in DOMAIN Structs |-> Null]
    /\ status = "starting"
    /\ ids = <<>>

\* The permanent objects are allocated one after another from an empty heap;
\* a program whose constants do not fit never starts.
Constant(kind, detail, fill) ==
    /\ Fits(heap_ptr, Words(kind, detail))
    /\ heap' = Placed(heap, heap_ptr, kind, detail, fill)
    /\ heap_ptr' = heap_ptr + Header + Words(kind, detail)
    /\ ids' = Named(ids, heap_ptr + Header)

MaterialiseLiteral ==
    /\ Starting
    /\ Len(literals) < Len(Literals)
    /\ Constant(String, Literals[Len(literals) + 1], 1)
    /\ literals' = Append(literals, heap_ptr + Header)
    /\ UNCHANGED <<program, stack, frames, variants, status>>

MaterialiseVariant(t) ==
    /\ Starting
    /\ Len(literals) = Len(Literals)
    /\ t \in Interned /\ variants[t] = Null
    /\ \A u \in Interned : u < t => variants[u] # Null
    /\ Constant(Struct, t, 0)
    /\ variants' = [variants EXCEPT ![t] = heap_ptr + Header]
    /\ UNCHANGED <<program, stack, frames, literals, status>>

Start ==
    /\ Starting
    /\ Len(literals) = Len(Literals)
    /\ \A t \in Interned : variants[t] # Null
    /\ status' = "running"
    /\ UNCHANGED <<program, heap, heap_ptr, stack, frames, literals, variants, ids>>

Materialise ==
    \/ MaterialiseLiteral
    \/ \E t \in DOMAIN Structs : MaterialiseVariant(t)
    \/ Start

Instruction ==
    \/ \E n \in Ints : PushInt(n)
    \/ \E i \in DOMAIN literals : LoadStr(i)
    \/ \E t \in DOMAIN Structs : LoadVariant(t) \/ AllocTyped(t)
    \/ \E s \in DOMAIN Frame.locals : LoadLocal(s) \/ StoreLocal(s)
    \/ PopValue \/ Dup \/ Swap \/ AddPointer \/ Compare
    \/ \E kind \in {RefArray, ValArray} :
          \/ ArrayGet(kind) \/ ArraySet(kind)
          \/ \E n \in Counts : NewArray(n, kind)
    \/ \E n \in RawSizes : AllocRaw(n)
    \/ StrConcat
    \/ \E off \in 0 .. HeapWords : HeapLoadField(off) \/ HeapStoreField(off)
    \/ HeapLoad \/ HeapStore \/ ReadDetail
    \/ \E f \in DOMAIN Funs : Call(f)
    \/ Ret \/ Gc \/ Fault

\* A fault is the end of the run.
Over == status = "faulted" /\ UNCHANGED vars

Next == Materialise \/ Instruction \/ Over

Spec == Init /\ [][Next]_vars

-----------------------------------------------------------------------------
(* Properties.                                                             *)

TaggedWords == [w : Word, ref : BOOLEAN]

\* The heap is words, the bump pointer lies in it, every frame has its
\* function's slots, and every live block has an identity.
TypeOK ==
    /\ heap \in [0 .. HeapWords - 1 -> Word]
    /\ heap_ptr \in HeapStart .. HeapWords
    /\ \A i \in DOMAIN stack : stack[i] \in TaggedWords
    /\ \A i \in DOMAIN frames :
          /\ frames[i].fn \in DOMAIN Funs
          /\ DOMAIN frames[i].locals = 1 .. Funs[frames[i].fn].locals
          /\ frames[i].base \in 0 .. Len(stack)
    /\ status \in {"starting", "running", "faulted"}
    /\ DOMAIN ids = Starts

\* "The heap is parseable by design", and "the free memory is always one
\* contiguous run above the allocation pointer": the walk over the headers
\* lands exactly on heap_ptr and makes sense of every header, and everything
\* above it is zero.
HeapParseable ==
    /\ heap_ptr \in {HeapStart} \cup {End(p) : p \in Starts}
    /\ \A p \in Starts : IsHeader(Kind(p), Detail(p))
    /\ \A a \in heap_ptr .. HeapWords - 1 : heap[a] = 0

\* "A heapptr is rewritten to follow its object, so it stays valid": no reference
\* dangles.  Whatever a root or a reference field of a block holds is null or a
\* place in a block, also of references the program can no longer reach.
Held(w) == w = Null \/ Containing(w) # {}
ReferencesHeld ==
    /\ \A w \in RootWords(stack) : Held(w)
    /\ \A p \in Starts : \A o \in RefOffsets(p) : Held(heap[p + o])

\* The blocks the roots lead to, said without a walk: in the graph of what
\* points into what, those in every set that has the roots' blocks and is closed.
Reachable(st) ==
    LET block  == Starts
        into(w, p) == p <= w /\ w < End(p)
        root   == {p \in block : \E w \in RootWords(st) : into(w, p)}
        edge   == {e \in block \X block : \E o \in RefOffsets(e[1]) : into(heap[e[1] + o], e[2])}
        closed == {S \in SUBSET block :
                      root \subseteq S /\ \A e \in edge : e[1] \in S => e[2] \in S}
    IN  {p \in block : \A S \in closed : p \in S}

\* What the next instruction may allocate: the operands it leaves, and the
\* kind, detail and filling of the block.
Requests ==
    {<<stack, Struct, t, 0>> : t \in DOMAIN Structs}
      \cup {<<stack, kind, n, 0>> : kind \in {RefArray, ValArray}, n \in Counts}
      \cup {<<stack, Raw, 2 * Larger(MinWords, HalfUp(n)), 0>> : n \in RawSizes}
      \cup IF Has(2) /\ Is(Arg(1), String) /\ Is(Arg(2), String)
           THEN {<<Drop(stack, 2), String, Detail(Arg(2).w) + Detail(Arg(1).w), 1>>}
           ELSE {}

\* The steps in which the collector has run, and the refusals it should have
\* made unnecessary.
Collects ==
    \/ Len(stack') = Len(stack) /\ vars' # vars /\ Gc
    \/ \E r \in Requests :
          \/ /\ stack' # <<>> /\ Last(stack)' = New(heap_ptr' - Words(r[2], r[3]))
             /\ ReserveLater(r[1], r[2], r[3], r[4])
          \/ ReserveNever(r[1], r[2], r[3])

RefusesTooSoon ==
    \E r \in Requests : /\ ReserveNever(r[1], r[2], r[3])
                        /\ Fits(CollectedTop(Reachable(r[1])), Words(r[2], r[3]))

\* "Cycles are collected, since reachability is what matters", and "Heap out of
\* memory" is for a heap that is full of them: after every collection, be it
\* gc()'s, one that made room for the block now on top of it, or one that could
\* not, the blocks are exactly those the program can reach; an allocation that
\* fits beside the reachable blocks is not refused; and a gc() that would free
\* nothing, which changes nothing and so is no step, has nothing to free.
CollectionIsExact ==
    /\ [][(Collects => Starts' = Reachable(stack)') /\ ~RefusesTooSoon]_vars
    /\ []((Running /\ CollectedTop(Marked(stack)) = heap_ptr) => Starts = Reachable(stack))

\* "Literals do not move today": nothing after start-up moves or drops the
\* permanent objects, although the collector treats them as any other.
PermanentsStay ==
    [][status = "running" => UNCHANGED <<literals, variants>>]_vars

\* What a word means: an integer, or a place in an object.  The end of a block
\* still belongs to it, since the next block's header comes in between; a
\* reference to nothing has an identity no object has.
Value(w, ref) ==
    IF ~ref \/ w = Null THEN [obj |-> 0, n |-> w]
    ELSE LET of == IF w \in DOMAIN ids THEN {w}
                   ELSE {p \in DOMAIN ids : p <= w /\ w <= End(p)}
         IN  IF of = {} THEN [obj |-> MaxWords + 1, n |-> w]
             ELSE LET p == CHOOSE q \in of : TRUE IN [obj |-> ids[p], n |-> w - p]

Objects ==
    [i \in {ids[p] : p \in DOMAIN ids} |->
        LET p == CHOOSE q \in DOMAIN ids : ids[q] = i
            refs == RefOffsets(p)
        IN  [kind |-> Kind(p), detail |-> Detail(p),
             words |-> [o \in 0 .. Size(p) - 1 |-> Value(heap[p + o], o \in refs)]]]

Consts ==
    [c \in ({"literal"} \X DOMAIN literals)
             \cup ({"variant"} \X {t \in Interned : variants[t] # Null}) |->
        Value(IF c[1] = "literal" THEN literals[c[2]] ELSE variants[c[2]], TRUE)]

\* The operands and the activations, as the program understands them.
StackValues == [i \in DOMAIN stack |-> Value(stack[i].w, stack[i].ref)]
FrameValues ==
    [i \in DOMAIN frames |->
        [base   |-> frames[i].base,
         locals |-> [s \in DOMAIN frames[i].locals |->
                       Value(frames[i].locals[s], s \in Refs(frames[i].fn))]]]

\* "Objects move, but a heapptr is rewritten to follow its object, so it stays
\* valid": with identities for addresses, every instruction and every
\* collection is a step of the memory the program believes it has.
Managed == INSTANCE ManagedHeap WITH
    Ids        <- 1 .. MaxWords,
    Offsets    <- 0 .. MaxWords,
    StringKind <- String,
    objects    <- Objects,
    consts     <- Consts,
    stack      <- StackValues,
    frames     <- FrameValues
ManagedSpec == Managed!Spec
=============================================================================
