----------------------------- MODULE ManagedHeap -----------------------------
(***************************************************************************)
(* The memory a QuinLang program believes it has.                          *)
(*                                                                         *)
(* Objects have an identity and never move.  A value is an integer, or a   *)
(* reference: an object and a word offset into it.  Nothing here has an    *)
(* address, and there is no collector, only the licence to forget objects  *)
(* the program can no longer reach.  An allocation either gives a fresh,   *)
(* cleared object or fails.                                                *)
(***************************************************************************)
EXTENDS Naturals, Sequences, FiniteSets

CONSTANTS
    Ids,        \* identities
    Offsets,    \* word offsets within an object
    StringKind  \* the kind of object that is born with contents

VARIABLES
    objects,    \* identity -> [kind, detail, words]
    stack,      \* the operand stack: a sequence of values
    frames,     \* the activations, innermost last: [locals, base]
    consts,     \* the values of the program's string literals and variants
    status

vars == <<objects, stack, frames, consts, status>>

\* A value: obj = 0 is the integer n (null is the integer 0); otherwise the
\* reference to word n of object obj.
Int(n) == [obj |-> 0, n |-> n]
IsRef(v) == v.obj # 0

Top(s)    == s[Len(s)]
Drop(s,k) == SubSeq(s, 1, Len(s) - k)
Locals    == Top(frames).locals

-----------------------------------------------------------------------------
(* What may be forgotten.                                                  *)

Holds(seq) == {seq[i].obj : i \in DOMAIN seq} \ {0}
RootIds(st) == Holds(st) \cup Holds(consts)
               \cup UNION {Holds(frames[i].locals) : i \in DOMAIN frames}

\* `after` keeps some of the objects as they were.  It keeps what the program
\* holds when the operand stack is st, and whatever an object it keeps refers to,
\* so it keeps all that can be reached.
Keeps(after, st) ==
    LET all == objects
    IN  /\ DOMAIN after \subseteq DOMAIN all
        /\ \A i \in DOMAIN after : after[i] = all[i]
        /\ RootIds(st) \subseteq DOMAIN after
        /\ \A i \in DOMAIN after : Holds(after[i].words) \subseteq DOMAIN after

-----------------------------------------------------------------------------
(* What an instruction may do.                                             *)

Compute(k, v) ==          \* replace the top k values by v
    /\ Len(stack) >= k
    /\ stack' = Append(Drop(stack, k), v)
    /\ UNCHANGED <<frames, consts, status, objects>>

\* A constant, a literal or a variable is pushed.
Push ==
    /\ Len(stack') = Len(stack) + 1
    /\ stack' = Append(stack, Top(stack'))
    /\ \/ ~IsRef(Top(stack'))
       \/ \E i \in DOMAIN consts : Top(stack') = consts[i]
       \/ \E s \in DOMAIN Locals : Top(stack') = Locals[s]
    /\ UNCHANGED <<frames, consts, status, objects>>

Dup == Len(stack) > 0 /\ Compute(0, Top(stack))

Pop ==
    /\ Len(stack) > 0
    /\ stack' = Drop(stack, 1)
    /\ UNCHANGED <<frames, consts, status, objects>>

Swap ==
    /\ Len(stack) > 1
    /\ stack' = Drop(stack, 2) \o <<Top(stack), stack[Len(stack) - 1]>>
    /\ UNCHANGED <<frames, consts, status, objects>>

\* heapptr + int moves within the object it already names.
Add ==
    /\ Len(stack) > 1
    /\ LET b == Top(stack)
           a == stack[Len(stack) - 1]
       IN  /\ ~(IsRef(a) /\ IsRef(b))
           /\ Compute(2, [obj |-> a.obj + b.obj, n |-> a.n + b.n])

\* The k-th value from the top is a reference, and `off` words past the place
\* it names is still its object: a field, a word of a raw block (k is 1), the
\* element an index above the reference selects (k is 2).
Nth(k) == stack[Len(stack) - k + 1]
Selects(k, off, words) == IsRef(Nth(k)) /\ Nth(k).n + off \in DOMAIN words

\* One of these words is read.
Read(k, offs) ==
    /\ Len(stack) >= k
    /\ Len(stack') = Len(stack) - k + 1
    /\ Drop(stack', 1) = Drop(stack, k)
    /\ IsRef(Nth(k))
    /\ LET words == objects[Nth(k).obj].words
       IN  \E off \in offs : /\ Selects(k, off, words)
                             /\ Top(stack') = words[Nth(k).n + off]
    /\ UNCHANGED <<frames, consts, status, objects>>

\* The same word, written with the value on top.
Write(k, offs) ==
    /\ Len(stack) >= k
    /\ stack' = Drop(stack, k)
    /\ IsRef(Nth(k))
    /\ UNCHANGED <<frames, consts, status>>
    /\ LET all == objects
           after == objects'
       IN  \E off \in offs :
              /\ Selects(k, off, all[Nth(k).obj].words)
              /\ after = [all EXCEPT ![Nth(k).obj].words[Nth(k).n + off] = Top(stack)]

\* The length of an array, the tag of a variant.
Inspect ==
    /\ Len(stack) > 0 /\ IsRef(Top(stack))
    /\ Compute(1, Int(objects[Top(stack).obj].detail))

StoreLocal(s) ==
    /\ Len(stack) > 0
    /\ frames' = [frames EXCEPT ![Len(frames)].locals[s] = Top(stack)]
    /\ stack' = Drop(stack, 1)
    /\ UNCHANGED <<consts, status, objects>>

\* Consume k values and give a fresh object, whatever was forgotten first.
\* Only a string starts with contents, and they are never references.
Fresh(object) ==
    \A w \in DOMAIN object.words :
        /\ ~IsRef(object.words[w])
        /\ object.kind # StringKind => object.words[w] = Int(0)

Extends(after, i, st) ==
    /\ i \in DOMAIN after
    /\ Fresh(after[i])
    /\ Keeps([j \in DOMAIN after \ {i} |-> after[j]], st)

\* The new object's identity is one that nothing kept has.
New(k) ==
    /\ Len(stack) >= k
    /\ Len(stack') = Len(stack) - k + 1
    /\ Drop(stack', 1) = Drop(stack, k)
    /\ UNCHANGED <<frames, consts, status>>
    /\ \E i \in Ids :
          /\ Top(stack') = [obj |-> i, n |-> 0]
          /\ LET after == objects' IN Extends(after, i, Drop(stack, k))

\* Arguments leave the operand stack for the first slots of a new activation,
\* whose other slots are 0.
Call ==
    /\ Len(frames') = Len(frames) + 1
    /\ LET callee == Top(frames')
           args   == SubSeq(stack, callee.base + 1, Len(stack))
       IN  /\ callee.base \in Top(frames).base .. Len(stack)
           /\ frames' = Append(frames, callee)
           /\ stack' = SubSeq(stack, 1, callee.base)
           /\ Len(args) <= Len(callee.locals)
           /\ callee.locals = [s \in DOMAIN callee.locals |->
                                 IF s <= Len(args) THEN args[s] ELSE Int(0)]
    /\ UNCHANGED <<consts, status, objects>>

\* The caller finds its own variables and operands as it left them, and one
\* value more.
Return ==
    /\ Len(frames) > 1
    /\ Len(stack) = Top(frames).base + 1
    /\ frames' = Drop(frames, 1)
    /\ UNCHANGED <<stack, consts, status, objects>>

\* Forgetting what cannot be reached is the only thing that may happen
\* between two instructions, or before a failure.
Forget ==
    /\ UNCHANGED <<stack, frames, consts, status>>
    /\ LET after == objects' IN Keeps(after, stack)

Fail(k) ==
    /\ status' = "faulted"
    /\ Len(stack) >= k
    /\ stack' = Drop(stack, k)
    /\ UNCHANGED <<frames, consts>>
    /\ LET after == objects' IN Keeps(after, Drop(stack, k))

\* Before main: each literal and payload-free variant is given its object.
Materialise ==
    /\ status = "starting"
    /\ \E i \in Ids, c \in DOMAIN consts' :
          /\ LET after == objects' IN Extends(after, i, stack)
          /\ DOMAIN consts' = DOMAIN consts \cup {c}
          /\ \A d \in DOMAIN consts : consts'[d] = consts[d]
          /\ consts'[c] = [obj |-> i, n |-> 0]
    /\ UNCHANGED <<stack, frames, status>>

Start ==
    /\ status = "starting"
    /\ status' = "running"
    /\ UNCHANGED <<objects, stack, frames, consts>>

Init ==
    /\ objects = <<>>
    /\ stack = <<>>
    /\ consts = <<>>
    /\ Len(frames) = 1 /\ Top(frames).base = 0
    /\ \A s \in DOMAIN Locals : Locals[s] = Int(0)
    /\ status = "starting"

Instruction ==
    \/ Push \/ Dup \/ Pop \/ Swap \/ Add \/ Inspect
    \/ Len(stack) > 1 /\ \E n \in {0, 1} : Compute(2, Int(n))
    \/ Read(1, Offsets) \/ Write(2, Offsets)
    \/ Len(stack) > 1 /\ (Read(2, {Top(stack).n}) \/ Write(3, {Nth(2).n}))
    \/ \E s \in DOMAIN Locals : StoreLocal(s)
    \/ \E k \in 0 .. 2 : New(k)
    \/ Call \/ Return
    \/ Forget
    \/ \E k \in 0 .. 2 : Fail(k)

Next == Materialise \/ Start \/ (status = "running" /\ Instruction)

Spec == Init /\ [][Next]_vars
=============================================================================
