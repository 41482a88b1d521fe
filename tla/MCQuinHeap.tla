----------------------------- MODULE MCQuinHeap -----------------------------
(***************************************************************************)
(* Small programs for TLC, each on a heap of a few words.                  *)
(***************************************************************************)
EXTENDS QuinHeap, TLC

\* One reference variable in main, and no data of any kind.
Bare ==
    [words |-> 10, structs |-> <<>>, strings |-> <<>>, main |-> "main",
     funs |-> "main" :> [locals |-> 1, refs |-> {1}, params |-> 0],
     ints |-> {0}, sizes |-> {}, counts |-> {}, depth |-> 2, calls |-> 1, pastEnd |-> FALSE]

\* Link { next: Link }: three blocks fill the heap exactly.
Links == [Bare EXCEPT !.structs = 0 :> [size |-> 1, refs |-> {0}, variant |-> FALSE]]

\* Node { next: Node, value: int }, and a function that takes one.
Calls ==
    [Bare EXCEPT !.words = 9, !.calls = 2,
                 !.structs = 0 :> [size |-> 2, refs |-> {0}, variant |-> FALSE],
                 !.funs = @ @@ "link" :> [locals |-> 1, refs |-> {1}, params |-> 1]]

\* alloc(3), pointers into it, and integers that look like addresses.
RawBlocks == [Bare EXCEPT !.words = 12, !.ints = {0, 1}, !.sizes = {3}]

\* Arrays of references and of integers.
Arrays == [Bare EXCEPT !.words = 8, !.ints = {0, 1}, !.counts = {1}, !.depth = 3]

\* A string literal, a payload-free variant, and blocks to collect.
Constants ==
    [Bare EXCEPT !.words = 13, !.strings = <<1>>, !.sizes = {1},
                 !.structs = 0 :> [size |-> 0, refs |-> {}, variant |-> TRUE]]

Small == {Links, Calls, RawBlocks, Arrays, Constants}

\* A pointer is moved to the end of its block, as C allows.
PastEnd == {[RawBlocks EXCEPT !.ints = {2}, !.pastEnd = TRUE]}

\* Identities are names: two states that differ in them alone have the same
\* addresses and words, and ManagedHeap allows any unused identity, so TLC need
\* explore only one of the two (it still checks every step it generates).
WithoutIds == <<program, heap, heap_ptr, stack, frames, literals, variants, status>>
=============================================================================
