--------------------------- MODULE QuinHeapProofs ---------------------------
(***************************************************************************)
(* Whatever the program and however large its heap: the heap can always be *)
(* walked, a collection keeps it so and drops just what cannot be reached, *)
(* what was made before main stays where it is, and no reference dangles.  *)
(***************************************************************************)
EXTENDS QuinHeap, FiniteSetTheorems, WellFoundedInduction, TLAPS

-----------------------------------------------------------------------------
(* Least numbers, and what is reached along a function.                    *)

LEMMA LeastNat ==
    ASSUME NEW S, S \subseteq Nat, S # {}
    PROVE  \E x \in S : \A y \in S : x <= y
<1> DEFINE R == {ss \in Nat \X Nat : ss[1] < ss[2]}
<1>1. IsWellFoundedOn(R, Nat)
  BY NatLessThanWellFounded DEF OpToRel
<1> HIDE DEF R
<1>2. \E x \in S : \A y \in S : ~ (<<y, x>> \in R)
  BY <1>1, WFMin
<1>3. \A x, y \in S : x <= y \/ <<y, x>> \in R
  BY DEF R
<1> QED
  BY <1>2, <1>3

LEMMA GreatestNat ==
    ASSUME NEW S, S # {}, NEW n \in Nat, S \subseteq 0 .. n
    PROVE  \E x \in S : \A y \in S : y <= x
<1> DEFINE rest == {n - x : x \in S}
<1>1. rest \subseteq Nat /\ rest # {}
  <2>1. \A x \in S : x \in Nat /\ n - x \in Nat
    OBVIOUS
  <2> QED
    BY <2>1
<1>2. PICK r \in rest : \A y \in rest : r <= y
  <2> HIDE DEF rest
  <2> QED  BY <1>1, LeastNat
<1>3. PICK x \in S : r = n - x
  OBVIOUS
<1>4. \A y \in S : n - x <= n - y
  BY <1>2, <1>3
<1> QED
  BY <1>4

More(next, T)   == T \cup UNION {next[x] : x \in T}
IsFrom(next, f) ==
    f = [T \in SUBSET DOMAIN next |-> IF More(next, T) = T THEN T ELSE f[More(next, T)]]
From(next)      == CHOOSE f : IsFrom(next, f)
Closed(next, T) == \A x \in T : next[x] \subseteq T

LEMMA ReachedFrom == \A next, S : Reached(next, S) = From(next)[S]
BY DEF Reached, From, IsFrom, More

\* The recursion has a solution: the least closed set around each set.
LEMMA FromExists ==
    ASSUME NEW next, \A x \in DOMAIN next : next[x] \subseteq DOMAIN next
    PROVE  IsFrom(next, From(next))
<1> DEFINE U == DOMAIN next
           around(T) == {x \in U : \A Z \in SUBSET U : (T \subseteq Z /\ Closed(next, Z)) => x \in Z}
           C == [T \in SUBSET U |-> around(T)]
<1>1. ASSUME NEW T \in SUBSET U
      PROVE  around(T) = IF More(next, T) = T THEN T ELSE C[More(next, T)]
  <2>1. T \subseteq More(next, T) /\ More(next, T) \in SUBSET U
    BY DEF More
  <2>2. CASE More(next, T) = T
    <3>1. Closed(next, T)
      BY <2>2 DEF More, Closed
    <3> QED
      BY <2>2, <3>1
  <2>3. CASE More(next, T) # T
    <3>1. \A Z \in SUBSET U : Closed(next, Z) => (T \subseteq Z <=> More(next, T) \subseteq Z)
      BY DEF More, Closed
    <3>2. around(T) = around(More(next, T))
      BY <3>1
    <3> QED
      BY <2>1, <2>3, <3>2
  <2> QED
    BY <2>2, <2>3
<1>2. IsFrom(next, C)
  <2>1. C = [T \in SUBSET U |-> IF More(next, T) = T THEN T ELSE C[More(next, T)]]
    BY <1>1
  <2> HIDE DEF C
  <2> QED  BY <2>1 DEF IsFrom
<1> QED
  BY <1>2 DEF From

LEMMA ReachedIs ==
    ASSUME NEW next, IsFiniteSet(DOMAIN next), \A x \in DOMAIN next : next[x] \subseteq DOMAIN next,
           NEW S \in SUBSET DOMAIN next
    PROVE  /\ S \subseteq Reached(next, S) /\ Reached(next, S) \subseteq DOMAIN next
           /\ Closed(next, Reached(next, S))
           /\ \A Z \in SUBSET DOMAIN next : (S \subseteq Z /\ Closed(next, Z)) => Reached(next, S) \subseteq Z
<1> DEFINE U    == DOMAIN next
           from == From(next)
           Good(T) == /\ T \subseteq from[T] /\ from[T] \subseteq U /\ Closed(next, from[T])
                      /\ \A Z \in SUBSET U : (T \subseteq Z /\ Closed(next, Z)) => from[T] \subseteq Z
           left(T) == Cardinality(U \ T)
           bad  == {left(T) : T \in {Z \in SUBSET U : ~Good(Z)}}
<1>1. \A T \in SUBSET U : from[T] = IF More(next, T) = T THEN T ELSE from[More(next, T)]
  <2>1. IsFrom(next, from)
    BY FromExists
  <2> HIDE DEF from
  <2> QED  BY <2>1 DEF IsFrom
<1> HIDE DEF from
<1>2. \A T \in SUBSET U : left(T) \in Nat
  BY FS_Difference, FS_CardinalityType
<1>3. ASSUME NEW T \in SUBSET U, \A Z \in SUBSET U : left(Z) < left(T) => Good(Z)
      PROVE  Good(T)
  <2>1. T \subseteq More(next, T) /\ More(next, T) \in SUBSET U
    BY DEF More
  <2>2. CASE More(next, T) = T
    <3>1. Closed(next, T) /\ from[T] = T
      BY <1>1, <2>2 DEF More, Closed
    <3> QED
      BY <3>1
  <2>3. CASE More(next, T) # T
    <3> DEFINE more == More(next, T)
    <3>1. from[T] = from[more]
      BY <1>1, <2>3
    <3>2. IsFiniteSet(U \ T) /\ U \ more \in SUBSET (U \ T) /\ U \ more # U \ T
      BY <2>1, <2>3, FS_Difference
    <3>3. left(more) < left(T)
      <4>1. left(more) <= left(T) /\ left(T) # left(more)
        BY <3>2, FS_Subset
      <4> QED
        BY <1>2, <2>1, <4>1
    <3>4. Good(more)
      BY <1>3, <2>1, <3>3
    <3>5. \A Z \in SUBSET U : (T \subseteq Z /\ Closed(next, Z)) => more \subseteq Z
      BY DEF More, Closed
    <3> HIDE DEF more
    <3> QED
      BY <2>1, <3>1, <3>4, <3>5 DEF more
  <2> QED
    BY <2>2, <2>3
<1>4. bad = {}
  <2> SUFFICES ASSUME bad # {}
               PROVE  FALSE
    OBVIOUS
  <2>1. bad \subseteq Nat
    BY <1>2
  <2>2. PICK n \in bad : \A m \in bad : n <= m
    <3> HIDE DEF bad
    <3> QED  BY <2>1, LeastNat
  <2>3. PICK T \in SUBSET U : ~Good(T) /\ n = left(T)
    OBVIOUS
  <2> HIDE DEF Good, left
  <2>4. \A Z \in SUBSET U : left(Z) < left(T) => Good(Z)
    BY <1>2, <2>2, <2>3
  <2> QED
    BY <1>3, <2>3, <2>4
<1>5. Good(S)
  <2> HIDE DEF Good, left
  <2> QED  BY <1>4
<1> QED
  BY <1>5, ReachedFrom DEF from

-----------------------------------------------------------------------------
(* Blocks that lie back to back, and what is left of them when some slide  *)
(* down over the others.                                                   *)

Tiles(B, size, top) ==
    /\ B \subseteq Nat /\ size \in [B -> Nat \ {0}] /\ top \in Nat /\ HeapStart <= top
    /\ top = HeapStart \/ HeapStart + Header \in B
    /\ \A p \in B :
          /\ HeapStart + Header <= p /\ p + size[p] <= top
          /\ p = HeapStart + Header \/ \E q \in B : q + size[q] + Header = p
          /\ p + size[p] = top \/ p + size[p] + Header \in B
          /\ \A q \in B : p < q => p + size[p] + Header <= q

Span(size, p)    == (p - Header) .. (p + size[p] - 1)
Spans(size, T)   == UNION {Span(size, p) : p \in T}
Below(S, p)      == {q \in S : q < p}
Count(size, T)   == Cardinality(Spans(size, T))
Slid(size, S, p) == HeapStart + Header + Count(size, Below(S, p))
SlidTop(size, S) == HeapStart + Count(size, S)

LEMMA IntervalSize ==
    ASSUME NEW a \in Int, NEW n \in Nat
    PROVE  IsFiniteSet(a .. (a + n - 1)) /\ Cardinality(a .. (a + n - 1)) = n
<1>1. a + n - 1 \in Int
  OBVIOUS
<1>2. IsFiniteSet(a .. (a + n - 1))
  BY <1>1, FS_Interval
<1>3. Cardinality(a .. (a + n - 1)) = IF a > a + n - 1 THEN 0 ELSE (a + n - 1) - a + 1
  BY <1>1, FS_Interval
<1>4. n = IF a > a + n - 1 THEN 0 ELSE (a + n - 1) - a + 1
  OBVIOUS
<1> QED
  BY <1>2, <1>3, <1>4

\* Two disjoint finite sets.
LEMMA Together ==
    ASSUME NEW S, NEW T, IsFiniteSet(S), IsFiniteSet(T), S \cap T = {}
    PROVE  Cardinality(S \cup T) = Cardinality(S) + Cardinality(T)
<1>1. Cardinality(S \cup T) = Cardinality(S) + Cardinality(T) - Cardinality({})
  BY FS_Union
<1>2. Cardinality(S) \in Nat /\ Cardinality(T) \in Nat /\ Cardinality({}) = 0
  BY FS_CardinalityType, FS_EmptySet
<1> QED
  BY <1>1, <1>2

LEMMA CountType ==
    ASSUME NEW B, NEW size, NEW top, Tiles(B, size, top), NEW T, T \subseteq B
    PROVE  /\ IsFiniteSet(Spans(size, T)) /\ Count(size, T) \in Nat
           /\ Count(size, T) <= top - HeapStart
           /\ \A U : U \subseteq T => Count(size, U) <= Count(size, T)
<1>1. Spans(size, T) \subseteq HeapStart .. (top - 1)
  BY DEF Tiles, Spans, Span, HeapStart, Header
<1>2. /\ IsFiniteSet(HeapStart .. (top - 1))
      /\ Cardinality(HeapStart .. (top - 1)) = top - HeapStart
  BY FS_Interval DEF Tiles, HeapStart
<1>3. IsFiniteSet(Spans(size, T)) /\ Cardinality(Spans(size, T)) <= top - HeapStart
  BY <1>1, <1>2, FS_Subset
<1>4. ASSUME NEW U, U \subseteq T
      PROVE  Count(size, U) <= Count(size, T)
  <2>1. Spans(size, U) \in SUBSET Spans(size, T)
    BY <1>4 DEF Spans
  <2> QED
    BY <1>3, <2>1, FS_Subset DEF Count
<1> QED
  BY <1>3, <1>4, FS_CardinalityType DEF Count

\* One block more, above the others.
LEMMA CountOneMore ==
    ASSUME NEW B, NEW size, NEW top, Tiles(B, size, top), NEW T, T \subseteq B,
           NEW p \in B, \A q \in T : q < p
    PROVE  Count(size, T \cup {p}) = Count(size, T) + size[p] + Header
<1>1. p \in Nat /\ size[p] \in Nat
  BY DEF Tiles
<1>2. Spans(size, T \cup {p}) = Spans(size, T) \cup Span(size, p)
  BY DEF Spans
<1>3. IsFiniteSet(Span(size, p)) /\ Cardinality(Span(size, p)) = size[p] + Header
  <2>1. Span(size, p) = (p - 2) .. ((p - 2) + (size[p] + 2) - 1)
    BY <1>1 DEF Span, Header
  <2>2. p - 2 \in Int /\ size[p] + 2 \in Nat
    BY <1>1
  <2> QED
    BY <2>1, <2>2, IntervalSize DEF Header
<1>4. Spans(size, T) \cap Span(size, p) = {}
  <2>1. ASSUME NEW q \in T
        PROVE  Span(size, q) \cap Span(size, p) = {}
    <3>1. q \in Nat /\ size[q] \in Nat /\ q + size[q] + Header <= p
      BY DEF Tiles
    <3> QED
      BY <1>1, <3>1 DEF Span, Header
  <2> QED
    BY <2>1 DEF Spans
<1>5. IsFiniteSet(Spans(size, T)) /\ Cardinality(Spans(size, T)) \in Nat
  BY CountType DEF Count
<1>6. Cardinality(Spans(size, T) \cup Span(size, p)) =
         Cardinality(Spans(size, T)) + Cardinality(Span(size, p))
  BY <1>3, <1>4, <1>5, Together
<1>7. Count(size, T \cup {p}) = Cardinality(Spans(size, T)) + (size[p] + Header)
  BY <1>2, <1>3, <1>6 DEF Count
<1> QED
  BY <1>1, <1>5, <1>7 DEF Count, Header

LEMMA CountBelow ==
    ASSUME NEW B, NEW size, NEW top, Tiles(B, size, top), NEW S, S \subseteq B, NEW p \in B
    PROVE  Count(size, Below(S, p)) \in Nat /\ Count(size, Below(S, p)) <= p - Header - HeapStart
<1>1. Below(S, p) \subseteq B
  BY DEF Below
<1>2. p \in Nat /\ HeapStart + Header <= p
  BY DEF Tiles
<1>3. Spans(size, Below(S, p)) \subseteq HeapStart .. (p - Header - 1)
  <2>1. ASSUME NEW q \in Below(S, p)
        PROVE  Span(size, q) \subseteq HeapStart .. (p - Header - 1)
    <3>1. q \in Nat /\ size[q] \in Nat /\ q + size[q] + Header <= p /\ HeapStart + Header <= q
      BY DEF Tiles, Below
    <3> QED
      BY <1>2, <3>1 DEF Span, Header, HeapStart
  <2> QED
    BY <2>1 DEF Spans
<1>4. /\ IsFiniteSet(HeapStart .. (p - Header - 1))
      /\ Cardinality(HeapStart .. (p - Header - 1)) = p - Header - HeapStart
  <2>1. HeapStart .. (p - Header - 1) = 1 .. (1 + (p - 3) - 1) /\ p - 3 \in Nat
    BY <1>2 DEF Header, HeapStart
  <2>2. p - Header - HeapStart = p - 3
    BY <1>2 DEF Header, HeapStart
  <2> QED
    BY <2>1, <2>2, IntervalSize
<1>5. Cardinality(Spans(size, Below(S, p))) <= Cardinality(HeapStart .. (p - Header - 1))
  BY <1>3, <1>4, FS_Subset
<1>6. Count(size, Below(S, p)) \in Nat
  BY <1>1, CountType
<1> QED
  BY <1>4, <1>5, <1>6 DEF Count

\* One block more, on top of the survivors below it.
LEMMA CountUpTo ==
    ASSUME NEW B, NEW size, NEW top, Tiles(B, size, top), NEW S, S \subseteq B,
           NEW p \in S
    PROVE  Count(size, Below(S, p) \cup {p}) = Count(size, Below(S, p)) + size[p] + Header
<1> DEFINE T == Below(S, p)
<1>1. T \subseteq B
  BY DEF Below
<1>2. \A q \in T : q < p
  BY DEF Below
<1>3. p \in B
  OBVIOUS
<1> HIDE DEF T
<1>4. Count(size, T \cup {p}) = Count(size, T) + size[p] + Header
  BY <1>1, <1>2, <1>3, CountOneMore
<1> QED
  BY <1>4 DEF T

\* Slid down, the survivors stay below where they were, apart and in order.
LEMMA Slides ==
    ASSUME NEW B, NEW size, NEW top, Tiles(B, size, top), NEW S, S \subseteq B
    PROVE  /\ SlidTop(size, S) \in Nat /\ HeapStart <= SlidTop(size, S) /\ SlidTop(size, S) <= top
           /\ \A p \in S : /\ Slid(size, S, p) \in Nat /\ HeapStart + Header <= Slid(size, S, p)
                           /\ Slid(size, S, p) <= p
                           /\ Slid(size, S, p) + size[p] <= SlidTop(size, S)
           /\ \A p, q \in S : p < q => Slid(size, S, p) + size[p] + Header <= Slid(size, S, q)
<1>1. Count(size, S) \in Nat /\ Count(size, S) <= top - HeapStart /\ top \in Nat
  BY CountType DEF Tiles
<1>2. SlidTop(size, S) \in Nat /\ HeapStart <= SlidTop(size, S) /\ SlidTop(size, S) <= top
  BY <1>1 DEF SlidTop, HeapStart
<1>3. ASSUME NEW p \in S
      PROVE  /\ p \in Nat /\ size[p] \in Nat /\ Count(size, Below(S, p)) \in Nat
             /\ Slid(size, S, p) \in Nat /\ HeapStart + Header <= Slid(size, S, p)
             /\ Slid(size, S, p) <= p
             /\ Count(size, Below(S, p) \cup {p}) = Count(size, Below(S, p)) + size[p] + Header
  <2>1. p \in Nat /\ size[p] \in Nat
    BY DEF Tiles
  <2>2. Count(size, Below(S, p)) \in Nat /\ Count(size, Below(S, p)) <= p - Header - HeapStart
    BY CountBelow
  <2>3. Count(size, Below(S, p) \cup {p}) = Count(size, Below(S, p)) + size[p] + Header
    BY CountUpTo
  <2> QED
    BY <2>1, <2>2, <2>3 DEF Slid, Header, HeapStart
<1>4. ASSUME NEW p \in S
      PROVE  Slid(size, S, p) + size[p] <= SlidTop(size, S)
  <2>1. Below(S, p) \cup {p} \subseteq S
    BY DEF Below
  <2>2. Count(size, Below(S, p) \cup {p}) <= Count(size, S)
    BY <2>1, CountType
  <2> QED
    BY <1>1, <1>3, <2>2 DEF Slid, SlidTop, Header, HeapStart
<1>5. ASSUME NEW p \in S, NEW q \in S, p < q
      PROVE  Slid(size, S, p) + size[p] + Header <= Slid(size, S, q)
  <2>1. p \in Nat /\ q \in Nat
    BY <1>3
  <2>2. Below(S, p) \cup {p} \subseteq Below(S, q) /\ Below(S, q) \subseteq B
    <3>1. \A x \in S : x \in Nat /\ (x < p => x < q)
      <4>1. S \subseteq Nat
        BY DEF Tiles
      <4> QED
        BY <1>5, <2>1, <4>1
    <3> QED
      BY <1>5, <3>1 DEF Below
  <2>3. Count(size, Below(S, p) \cup {p}) <= Count(size, Below(S, q))
    <3> DEFINE T == Below(S, q)
               U == Below(S, p) \cup {p}
    <3>1. T \subseteq B /\ U \subseteq T
      BY <2>2
    <3> HIDE DEF T, U
    <3>2. Count(size, U) <= Count(size, T)
      BY <3>1, CountType
    <3> QED
      BY <3>2 DEF T, U
  <2>4. Count(size, Below(S, p)) + size[p] + Header <= Count(size, Below(S, q))
    BY <1>3, <2>3
  <2>5. Count(size, Below(S, p)) \in Nat /\ Count(size, Below(S, q)) \in Nat /\ size[p] \in Nat
    BY <1>3
  <2> QED
    BY <2>4, <2>5 DEF Slid, Header, HeapStart
<1> QED
  BY <1>2, <1>3, <1>4, <1>5

\* Nothing lies between a survivor and the next.
LEMMA SlidNext ==
    ASSUME NEW B, NEW size, NEW top, Tiles(B, size, top), NEW S, S \subseteq B,
           NEW p \in S
    PROVE  /\ \A q \in S : (p < q /\ \A x \in S : x < q => x <= p)
                             => Slid(size, S, q) = Slid(size, S, p) + size[p] + Header
           /\ (\A x \in S : x <= p) => SlidTop(size, S) = Slid(size, S, p) + size[p]
           /\ (\A x \in S : p <= x) => Slid(size, S, p) = HeapStart + Header
<1>1. S \subseteq Nat /\ p \in Nat /\ size[p] \in Nat /\ Count(size, Below(S, p)) \in Nat
  BY CountBelow DEF Tiles
<1>2. Count(size, Below(S, p) \cup {p}) = Count(size, Below(S, p)) + size[p] + Header
  BY CountUpTo
<1>3. ASSUME NEW q \in S, p < q, \A x \in S : x < q => x <= p
      PROVE  Slid(size, S, q) = Slid(size, S, p) + size[p] + Header
  <2>1. Below(S, q) = Below(S, p) \cup {p}
    <3>1. \A x \in S : x < q <=> x < p \/ x = p
      BY <1>1, <1>3
    <3>2. Below(S, q) \subseteq S /\ Below(S, p) \cup {p} \subseteq S
      BY DEF Below
    <3> QED
      BY <3>1, <3>2 DEF Below
  <2> QED
    BY <1>1, <1>2, <2>1 DEF Slid, HeapStart, Header
<1>4. ASSUME \A x \in S : x <= p
      PROVE  SlidTop(size, S) = Slid(size, S, p) + size[p]
  <2>1. S = Below(S, p) \cup {p}
    <3>1. \A x \in S : x < p \/ x = p
      BY <1>1, <1>4
    <3> QED
      BY <3>1 DEF Below
  <2>2. Count(size, S) = Count(size, Below(S, p)) + size[p] + Header
    <3> DEFINE T == Below(S, p) \cup {p}
    <3>1. Count(size, T) = Count(size, Below(S, p)) + size[p] + Header
      BY <1>2
    <3>2. S = T
      BY <2>1
    <3> HIDE DEF T
    <3>3. Count(size, S) = Count(size, T)
      BY <3>2
    <3> QED
      BY <3>1, <3>3
  <2> QED
    BY <1>1, <2>2 DEF Slid, SlidTop, HeapStart, Header
<1>5. ASSUME \A x \in S : p <= x
      PROVE  Slid(size, S, p) = HeapStart + Header
  <2>1. Below(S, p) = {}
    <3>1. \A x \in S : ~(x < p)
      BY <1>1, <1>5
    <3> QED
      BY <3>1 DEF Below
  <2>2. Count(size, {}) = 0
    BY FS_EmptySet DEF Count, Spans
  <2> QED
    BY <2>1, <2>2 DEF Slid, HeapStart, Header
<1> QED
  BY <1>3, <1>4, <1>5

LEMMA SlidFirst ==
    ASSUME NEW B, NEW size, NEW top, Tiles(B, size, top), NEW S, S \subseteq B,
           NEW p \in S, \A x \in S : p <= x
    PROVE  Slid(size, S, p) = HeapStart + Header
BY SlidNext

LEMMA Follower ==
    ASSUME NEW S, S \subseteq Nat, NEW p \in S
    PROVE  \/ \A x \in S : x <= p
           \/ \E q \in S : p < q /\ \A x \in S : x < q => x <= p
<1> DEFINE after == {x \in S : p < x}
<1>1. CASE after = {}
  <2>1. \A x \in S : ~(p < x)
    BY <1>1
  <2>2. \A x \in S : x <= p
    BY <2>1
  <2> QED
    BY <2>2
<1>2. CASE after # {}
  <2>1. after \subseteq Nat
    OBVIOUS
  <2>2. PICK q \in after : \A x \in after : q <= x
    <3> HIDE DEF after
    <3> QED  BY <1>2, <2>1, LeastNat
  <2>3. ASSUME NEW x \in S, x < q
        PROVE  x <= p
    <3>1. p < x => q <= x
      BY <2>2
    <3>2. x \in Nat /\ q \in Nat /\ p \in Nat
      BY <2>1
    <3> QED
      BY <2>3, <3>1, <3>2
  <2> QED
    BY <2>2, <2>3
<1> QED
  BY <1>1, <1>2

LEMMA Predecessor ==
    ASSUME NEW S, S \subseteq Nat, NEW p \in S
    PROVE  \/ \A x \in S : p <= x
           \/ \E q \in S : q < p /\ \A x \in S : x < p => x <= q
<1> DEFINE before == {x \in S : x < p}
<1>1. CASE before = {}
  <2>1. \A x \in S : ~(x < p)
    BY <1>1
  <2>2. \A x \in S : p <= x
    BY <2>1
  <2> QED
    BY <2>2
<1>2. CASE before # {}
  <2>1. before \subseteq 0 .. p /\ p \in Nat
    <3>1. \A x \in S : x \in Nat /\ (x < p => x \in 0 .. p)
      OBVIOUS
    <3> QED
      BY <3>1
  <2>2. PICK q \in before : \A x \in before : x <= q
    <3> HIDE DEF before
    <3> QED  BY <1>2, <2>1, GreatestNat
  <2> QED
    BY <2>2
<1> QED
  BY <1>1, <1>2

\* The survivors lie back to back where they slide to.
LEMMA SlideTiles ==
    ASSUME NEW B, NEW size, NEW top, Tiles(B, size, top), NEW S, S \subseteq B,
           NEW B2, B2 = {Slid(size, S, p) : p \in S}, NEW size2 \in [B2 -> Nat \ {0}],
           \A p \in S : size2[Slid(size, S, p)] = size[p]
    PROVE  Tiles(B2, size2, SlidTop(size, S))
<1> DEFINE to(p) == Slid(size, S, p)
           end   == SlidTop(size, S)
<1>a. \A p, q \in S : (p < q /\ \A x \in S : x < q => x <= p)
                           => Slid(size, S, q) = Slid(size, S, p) + size[p] + Header
  BY SlidNext
<1>b. \A p \in S : (\A x \in S : x <= p) => SlidTop(size, S) = Slid(size, S, p) + size[p]
  BY SlidNext
<1>c. ASSUME NEW p \in S, \A x \in S : p <= x
      PROVE  Slid(size, S, p) = HeapStart + Header
  <2> HIDE DEF HeapStart, Header
  <2> QED  BY <1>c, SlidFirst
<1>1. /\ end \in Nat /\ HeapStart <= end
      /\ \A p \in S : to(p) \in Nat /\ HeapStart + Header <= to(p) /\ to(p) + size[p] <= end
      /\ \A p, q \in S : p < q => to(p) + size[p] + Header <= to(q)
  BY Slides
<1>2. S \subseteq Nat /\ \A p \in S : size[p] \in Nat \ {0}
  BY DEF Tiles
<1>3. ASSUME NEW p \in S
      PROVE  to(p) = HeapStart + Header \/ \E q \in S : to(q) + size[q] + Header = to(p)
  <2>1. CASE \A x \in S : p <= x
    BY <2>1, <1>c
  <2>2. CASE \E q \in S : q < p /\ \A x \in S : x < p => x <= q
    <3>1. PICK q \in S : q < p /\ \A x \in S : x < p => x <= q
      BY <2>2
    <3>2. to(p) = to(q) + size[q] + Header
      BY <3>1, <1>a
    <3> QED
      BY <3>2
  <2> QED
    BY <1>2, <2>1, <2>2, Predecessor
<1>4. ASSUME NEW p \in S
      PROVE  to(p) + size[p] = end \/ \E q \in S : to(p) + size[p] + Header = to(q)
  <2>1. CASE \A x \in S : x <= p
    BY <2>1, <1>b
  <2>2. CASE \E q \in S : p < q /\ \A x \in S : x < q => x <= p
    <3>1. PICK q \in S : p < q /\ \A x \in S : x < q => x <= p
      BY <2>2
    <3>2. to(q) = to(p) + size[p] + Header
      BY <3>1, <1>a
    <3> QED
      BY <3>2
  <2> QED
    BY <1>2, <2>1, <2>2, Follower
<1>5. ASSUME NEW p \in S, NEW q \in S, to(p) < to(q)
      PROVE  to(p) + size[p] + Header <= to(q)
  <2>1. p \in Nat /\ q \in Nat /\ to(p) \in Nat /\ to(q) \in Nat /\ size[q] \in Nat
    BY <1>1, <1>2
  <2>2. q < p => to(q) + size[q] + Header <= to(p)
    BY <1>1
  <2>3. p # q
    BY <1>5, <2>1
  <2>4. ~(q < p)
    BY <1>5, <2>1, <2>2 DEF Header
  <2>5. p < q
    BY <2>1, <2>3, <2>4
  <2> QED
    BY <1>1, <2>5
<1>6. end = HeapStart \/ HeapStart + Header \in B2
  <2>1. CASE S = {}
    <3>1. Count(size, S) = 0
      BY <2>1, FS_EmptySet DEF Count, Spans
    <3> QED
      BY <3>1 DEF SlidTop, HeapStart
  <2>2. CASE S # {}
    <3>1. PICK p \in S : \A x \in S : p <= x
      BY <1>2, <2>2, LeastNat
    <3>2. to(p) = HeapStart + Header
      BY <3>1, <1>c
    <3> QED
      BY <3>2
  <2> QED
    BY <2>1, <2>2
<1> HIDE DEF end
<1>7. B2 = {to(p) : p \in S} /\ \A p \in S : size2[to(p)] = size[p]
  OBVIOUS
<1> HIDE DEF to
<1>8. ASSUME NEW b \in B2
      PROVE  /\ HeapStart + Header <= b /\ b + size2[b] <= end
             /\ b = HeapStart + Header \/ \E c \in B2 : c + size2[c] + Header = b
             /\ b + size2[b] = end \/ b + size2[b] + Header \in B2
             /\ \A c \in B2 : b < c => b + size2[b] + Header <= c
  <2>1. PICK p \in S : b = to(p) /\ size2[b] = size[p]
    BY <1>7
  <2>2. HeapStart + Header <= b /\ b + size2[b] <= end
    BY <1>1, <2>1
  <2>3. b = HeapStart + Header \/ \E c \in B2 : c + size2[c] + Header = b
    BY <1>3, <1>7, <2>1
  <2>4. b + size2[b] = end \/ b + size2[b] + Header \in B2
    BY <1>4, <1>7, <2>1
  <2>5. \A c \in B2 : b < c => b + size2[b] + Header <= c
    BY <1>5, <1>7, <2>1
  <2> QED
    BY <2>2, <2>3, <2>4, <2>5
<1>9. B2 \subseteq Nat
  BY <1>1, <1>7
<1> QED
  BY <1>1, <1>6, <1>8, <1>9 DEF Tiles, end

\* A block with nothing dropped below it stays where it is.
LEMMA Packed ==
    ASSUME NEW B, NEW size, NEW top, Tiles(B, size, top), NEW S, S \subseteq B,
           NEW p \in S, \A q \in B : q <= p => q \in S
    PROVE  Slid(size, S, p) = p
<1> DEFINE bad == {q \in B : q <= p /\ Slid(size, S, q) # q}
<1> SUFFICES ASSUME bad # {}
             PROVE  FALSE
  BY DEF Tiles
<1>a. \A u, q \in S : (u < q /\ \A x \in S : x < q => x <= u)
                           => Slid(size, S, q) = Slid(size, S, u) + size[u] + Header
  BY SlidNext
<1>b. \A u \in S : (\A x \in S : x <= u) => SlidTop(size, S) = Slid(size, S, u) + size[u]
  BY SlidNext
<1>c. \A u \in S : (\A x \in S : u <= x) => Slid(size, S, u) = HeapStart + Header
  BY SlidNext
<1>1. bad \subseteq Nat /\ B \subseteq Nat
  BY DEF Tiles
<1>2. PICK x \in bad : \A y \in bad : x <= y
  <2> HIDE DEF bad
  <2> QED  BY <1>1, LeastNat
<1>3. x \in S /\ x \in B /\ x \in Nat /\ p \in Nat /\ x <= p /\ Slid(size, S, x) # x
  BY <1>1
<1>4. CASE x = HeapStart + Header
  <2>1. \A y \in S : x <= y
    BY <1>4 DEF Tiles
  <2> QED
    BY <1>3, <1>4, <2>1, <1>c
<1>5. CASE \E y \in B : y + size[y] + Header = x
  <2>1. PICK y \in B : y + size[y] + Header = x
    BY <1>5
  <2>2. y \in Nat /\ size[y] \in Nat
    BY DEF Tiles
  <2>3. y < x /\ y <= p
    BY <1>3, <2>1, <2>2 DEF Header
  <2>4. y \in S /\ Slid(size, S, y) = y
    <3>1. ~(x <= y)
      BY <1>3, <2>2, <2>3
    <3> QED
      BY <1>2, <2>3, <3>1
  <2>5. ASSUME NEW z \in S, z < x
        PROVE  z <= y
    <3>1. z \in Nat /\ (y < z => y + size[y] + Header <= z)
      BY DEF Tiles
    <3> QED
      BY <1>3, <2>1, <2>2, <2>5, <3>1
  <2>6. Slid(size, S, x) = Slid(size, S, y) + size[y] + Header
    BY <1>3, <2>3, <2>4, <2>5, <1>a
  <2> QED
    BY <1>3, <2>1, <2>4, <2>6
<1> QED
  BY <1>3, <1>4, <1>5 DEF Tiles

LEMMA TilesEnd ==
    ASSUME NEW B, NEW size, NEW top, Tiles(B, size, top)
    PROVE  (top = HeapStart /\ B = {}) \/ \E p \in B : p + size[p] = top
<1>1. B \subseteq 0 .. top
  BY DEF Tiles
<1>2. CASE B = {}
  BY <1>2 DEF Tiles
<1>3. CASE B # {}
  <2>1. PICK p \in B : \A q \in B : q <= p
    <3>1. top \in Nat
      BY DEF Tiles
    <3> QED
      BY <1>1, <1>3, <3>1, GreatestNat
  <2>2. p \in Nat /\ size[p] \in Nat
    BY DEF Tiles
  <2>3. p + size[p] + Header \in B => p + size[p] + Header <= p
    BY <2>1
  <2>4. p + size[p] + Header \notin B
    BY <2>2, <2>3 DEF Header
  <2>5. p + size[p] = top
    BY <2>4 DEF Tiles
  <2> QED
    BY <2>5
<1> QED
  BY <1>2, <1>3

\* One block more, at the top.
LEMMA TilesOneMore ==
    ASSUME NEW B, NEW size, NEW top, Tiles(B, size, top),
           NEW new, new = top + Header, NEW B2, B2 = B \cup {new},
           NEW size2 \in [B2 -> Nat \ {0}], \A p \in B : size2[p] = size[p]
    PROVE  Tiles(B2, size2, new + size2[new])
<1>1. top \in Nat /\ new \in Nat /\ size2[new] \in Nat \ {0} /\ HeapStart <= top /\ B \subseteq Nat
  BY DEF Tiles, Header
<1>2. \A p \in B : /\ p \in Nat /\ size[p] \in Nat \ {0} /\ size2[p] = size[p] /\ p + size[p] <= top
                   /\ HeapStart + Header <= p
  BY DEF Tiles
<1>3. HeapStart + Header \in B2
  <2>1. CASE top = HeapStart
    BY <2>1
  <2>2. CASE HeapStart + Header \in B
    BY <2>2
  <2> QED
    BY <2>1, <2>2 DEF Tiles
<1>4. new = HeapStart + Header \/ \E p \in B : p + size2[p] + Header = new
  <2>1. CASE top = HeapStart
    BY <2>1
  <2>2. CASE \E p \in B : p + size[p] = top
    <3>1. PICK p \in B : p + size[p] = top
      BY <2>2
    <3>2. p + size2[p] + Header = new
      BY <1>2, <3>1
    <3> QED
      BY <3>2
  <2> QED
    BY <2>1, <2>2, TilesEnd
<1>5. ASSUME NEW p \in B
      PROVE  /\ HeapStart + Header <= p /\ p + size2[p] <= new + size2[new]
             /\ p = HeapStart + Header \/ \E q \in B2 : q + size2[q] + Header = p
             /\ p + size2[p] + Header \in B2
             /\ \A q \in B2 : p < q => p + size2[p] + Header <= q
  <2>1. p + size2[p] <= new + size2[new]
    BY <1>1, <1>2 DEF Header
  <2>2. p = HeapStart + Header \/ \E q \in B : q + size[q] + Header = p
    BY DEF Tiles
  <2>3. \A q \in B : q + size[q] + Header = q + size2[q] + Header
    BY <1>2
  <2>4. p + size2[p] + Header \in B2
    <3>1. p + size[p] = top \/ p + size[p] + Header \in B
      BY DEF Tiles
    <3> QED
      BY <1>2, <3>1
  <2>5. ASSUME NEW q \in B2, p < q
        PROVE  p + size2[p] + Header <= q
    <3>1. CASE q \in B
      BY <1>2, <2>5, <3>1 DEF Tiles
    <3>2. CASE q = new
      BY <1>1, <1>2, <3>2 DEF Header
    <3> QED
      BY <3>1, <3>2
  <2>6. p = HeapStart + Header \/ \E q \in B2 : q + size2[q] + Header = p
    BY <2>2, <2>3
  <2>7. HeapStart + Header <= p
    BY <1>2
  <2> QED
    BY <2>1, <2>4, <2>5, <2>6, <2>7
<1>6. /\ HeapStart + Header <= new
      /\ \A q \in B2 : new < q => new + size2[new] + Header <= q
  <2>1. \A q \in B2 : ~(new < q)
    BY <1>1, <1>2 DEF Header
  <2>2. HeapStart + Header <= new
    BY <1>1 DEF Header, HeapStart
  <2> QED
    BY <2>1, <2>2
<1>7. B2 \subseteq Nat /\ new + size2[new] \in Nat /\ HeapStart <= new + size2[new]
  BY <1>1 DEF Header, HeapStart
<1>8. ASSUME NEW p \in B2
      PROVE  /\ HeapStart + Header <= p /\ p + size2[p] <= new + size2[new]
             /\ p = HeapStart + Header \/ \E q \in B2 : q + size2[q] + Header = p
             /\ p + size2[p] = new + size2[new] \/ p + size2[p] + Header \in B2
             /\ \A q \in B2 : p < q => p + size2[p] + Header <= q
  <2>1. CASE p \in B
    BY <1>5, <2>1
  <2>2. CASE p = new
    BY <1>1, <1>4, <1>6, <2>2
  <2> QED
    BY <2>1, <2>2
<1> QED
  BY <1>3, <1>7, <1>8 DEF Tiles

-----------------------------------------------------------------------------
(* A heap of n words whose blocks B lie back to back up to top.             *)

LEMMA WordNat == \A w : w \in Word <=> w \in Nat /\ w <= 65535
<1>1. WORD_MASK \in Nat /\ WORD_MASK = 65535
  BY DEF WORD_MASK
<1>2. WORD_MASK \in Nat
  BY <1>1
<1>3. \A w : w \in Word <=> w \in Nat /\ w <= WORD_MASK
  BY <1>2 DEF Word
<1> QED
  BY <1>1, <1>3

GoodStructs(structs) == \A t \in DOMAIN structs : structs[t].size \in Nat

WordsFor(structs, kind, detail) ==
    Larger(MinWords,
           CASE kind = Struct -> structs[detail].size
             [] kind \in {RefArray, ValArray} -> detail
             [] OTHER -> HalfUp(detail))

HeaderFor(structs, kind, detail) ==
    kind \in {Struct, Raw, String, RefArray, ValArray} /\ (kind = Struct => detail \in DOMAIN structs)

SizesIn(structs, h, B) == [p \in B |-> WordsFor(structs, h[p - 2], h[p - 1])]

Laid(n, structs, h, B, top) ==
    /\ h \in [0 .. n - 1 -> Word] /\ top \in HeapStart .. n
    /\ Tiles(B, SizesIn(structs, h, B), top)
    /\ \A p \in B : HeaderFor(structs, h[p - 2], h[p - 1])
    /\ \A a \in top .. n - 1 : h[a] = 0

LEMMA WordsType ==
    ASSUME NEW structs, GoodStructs(structs), NEW kind, NEW detail \in Nat, HeaderFor(structs, kind, detail)
    PROVE  WordsFor(structs, kind, detail) \in Nat \ {0}
<1> DEFINE w == CASE kind = Struct -> structs[detail].size
                  [] kind \in {RefArray, ValArray} -> detail
                  [] OTHER -> HalfUp(detail)
<1>1. HalfUp(detail) \in Nat
  BY DEF HalfUp
<1>2. kind = Struct => structs[detail].size \in Nat
  BY DEF HeaderFor, GoodStructs
<1>3. w \in Nat
  BY <1>1, <1>2
<1> HIDE DEF w
<1>4. Larger(MinWords, w) \in Nat \ {0}
  BY <1>3 DEF Larger, MinWords
<1> QED
  BY <1>4 DEF WordsFor, w

\* Where a block and its header are.
LEMMA LaidAt ==
    ASSUME NEW n \in Nat, NEW structs, NEW h, NEW B, NEW top, Laid(n, structs, h, B, top), NEW p \in B
    PROVE  /\ p \in Nat /\ 3 <= p /\ top \in Nat /\ p + SizesIn(structs, h, B)[p] <= top /\ top <= n
           /\ p - 2 \in 0 .. n - 1 /\ p - 1 \in 0 .. n - 1 /\ h[p - 2] \in Word /\ h[p - 1] \in Word
           /\ SizesIn(structs, h, B)[p] \in Nat \ {0}
           /\ \A a \in p .. p + SizesIn(structs, h, B)[p] - 1 : a \in 0 .. n - 1 /\ h[a] \in Word
<1> DEFINE size == SizesIn(structs, h, B)
<1>1. Tiles(B, size, top) /\ h \in [0 .. n - 1 -> Word] /\ top \in HeapStart .. n
  BY DEF Laid
<1> HIDE DEF size
<1>2. p \in Nat /\ 3 <= p /\ size[p] \in Nat \ {0} /\ p + size[p] <= top /\ top \in Nat /\ top <= n
  BY <1>1 DEF Tiles, HeapStart, Header
<1>3. p - 2 \in 0 .. n - 1 /\ p - 1 \in 0 .. n - 1
  BY <1>2
<1>4. \A a \in p .. p + size[p] - 1 : a \in 0 .. n - 1
  BY <1>2
<1> QED
  BY <1>1, <1>2, <1>3, <1>4 DEF size

\* A block written at the top, into a heap that has room for it.
LEMMA LaidPlaced ==
    ASSUME NEW n \in Nat, NEW structs, GoodStructs(structs), NEW h, NEW B, NEW top,
           Laid(n, structs, h, B, top),
           NEW kind \in Word, NEW detail \in Word, HeaderFor(structs, kind, detail),
           NEW new, new = top + Header, NEW end, end = new + WordsFor(structs, kind, detail), end <= n,
           NEW h2 \in [0 .. n - 1 -> Word], h2[top] = kind, h2[top + 1] = detail,
           \A a \in 0 .. n - 1 : (a < top \/ end <= a) => h2[a] = h[a]
    PROVE  Laid(n, structs, h2, B \cup {new}, end)
<1> DEFINE size  == SizesIn(structs, h, B)
           B2    == B \cup {new}
           size2 == SizesIn(structs, h2, B2)
           w     == WordsFor(structs, kind, detail)
<1>1. Tiles(B, size, top) /\ top \in HeapStart .. n /\ \A a \in top .. n - 1 : h[a] = 0
  BY DEF Laid
<1>2. w \in Nat \ {0}
  <2>1. detail \in Nat
    BY WordNat
  <2>2. WordsFor(structs, kind, detail) \in Nat \ {0}
    <3> HIDE DEF size, B2, size2, w
    <3> QED  BY <2>1, WordsType
  <2> QED
    BY <2>2
<1> HIDE DEF w
<1>3. end = new + w /\ top \in Nat /\ new - 2 = top /\ new - 1 = top + 1 /\ end \in HeapStart .. n
  BY <1>1, <1>2 DEF HeapStart, Header, w
<1>4. ASSUME NEW p \in B
      PROVE  h2[p - 2] = h[p - 2] /\ h2[p - 1] = h[p - 1] /\ p # new
  <2>1. /\ p \in Nat /\ p + size[p] <= top /\ size[p] \in Nat
        /\ p - 2 \in 0 .. n - 1 /\ p - 1 \in 0 .. n - 1
    BY LaidAt
  <2>2. p - 2 < top /\ p - 1 < top /\ p < new
    BY <1>3, <2>1 DEF Header
  <2> QED
    BY <1>3, <2>1, <2>2
<1>5. \A p \in B2 : p \in B \/ p = new
  OBVIOUS
<1>6. /\ \A p \in B : size2[p] = size[p]
      /\ size2[new] = w
  <2>1. \A p \in B : size2[p] = WordsFor(structs, h2[p - 2], h2[p - 1]) /\ size[p] = WordsFor(structs, h[p - 2], h[p - 1])
    BY DEF SizesIn
  <2>2. size2[new] = WordsFor(structs, h2[new - 2], h2[new - 1])
    BY DEF SizesIn
  <2> QED
    BY <1>3, <1>4, <2>1, <2>2 DEF w
<1>7. \A p \in B2 : HeaderFor(structs, h2[p - 2], h2[p - 1])
  <2>1. \A p \in B : HeaderFor(structs, h2[p - 2], h2[p - 1])
    BY <1>4 DEF Laid
  <2>2. HeaderFor(structs, h2[new - 2], h2[new - 1])
    BY <1>3
  <2> QED
    BY <2>1, <2>2
<1>8. size2 \in [B2 -> Nat \ {0}]
  <2>1. \A p \in B : size[p] \in Nat \ {0}
    BY LaidAt
  <2>2. \A p \in B2 : size2[p] \in Nat \ {0}
    BY <1>2, <1>5, <1>6, <2>1
  <2> QED
    BY <2>2 DEF SizesIn
<1>9. Tiles(B2, size2, end)
  <2> HIDE DEF size, size2
  <2>1. \A p \in B : size2[p] = size[p]
    BY <1>6
  <2>2. Tiles(B2, size2, new + size2[new])
    BY <1>1, <1>8, <2>1, TilesOneMore
  <2> QED
    BY <1>3, <1>6, <2>2
<1>10. \A a \in end .. n - 1 : h2[a] = 0
  BY <1>1, <1>2, <1>3 DEF Header
<1> QED
  BY <1>3, <1>7, <1>9, <1>10 DEF Laid

\* The survivors of a collection, each at its place.
LEMMA LaidSlid ==
    ASSUME NEW n \in Nat, NEW structs, NEW h, NEW B, NEW top, Laid(n, structs, h, B, top),
           NEW size, size = SizesIn(structs, h, B), NEW S, S \subseteq B,
           NEW h2 \in [0 .. n - 1 -> Word],
           \A p \in S : /\ h2[Slid(size, S, p) - 2] = h[p - 2]
                        /\ h2[Slid(size, S, p) - 1] = h[p - 1],
           \A a \in SlidTop(size, S) .. n - 1 : h2[a] = 0
    PROVE  /\ Laid(n, structs, h2, {Slid(size, S, p) : p \in S}, SlidTop(size, S))
           /\ \A p \in S : SizesIn(structs, h2, {Slid(size, S, q) : q \in S})[Slid(size, S, p)] = size[p]
<1> DEFINE to(p) == Slid(size, S, p)
           B2    == {to(p) : p \in S}
           size2 == SizesIn(structs, h2, B2)
           end   == SlidTop(size, S)
<1>1. Tiles(B, size, top) /\ top \in HeapStart .. n
  BY DEF Laid
<1>2. end \in HeapStart .. n
  <2>1. end \in Nat /\ HeapStart <= end /\ end <= top
    BY <1>1, Slides
  <2> QED
    BY <1>1, <2>1 DEF HeapStart
<1>3. \A p \in S : size2[to(p)] = size[p]
  <2> HIDE DEF to
  <2> QED  BY DEF SizesIn, to
<1>4. \A b \in B2 : HeaderFor(structs, h2[b - 2], h2[b - 1])
  <2>1. \A p \in S : HeaderFor(structs, h2[to(p) - 2], h2[to(p) - 1])
    BY DEF Laid
  <2> HIDE DEF to
  <2> QED  BY <2>1
<1>5. size2 \in [B2 -> Nat \ {0}]
  <2>1. \A p \in S : size[p] \in Nat \ {0}
    BY LaidAt
  <2> HIDE DEF to
  <2>2. \A b \in B2 : size2[b] \in Nat \ {0}
    BY <1>3, <2>1
  <2> QED
    BY <2>2 DEF SizesIn
<1>6. Tiles(B2, size2, end)
  <2> HIDE DEF size2
  <2> QED  BY <1>1, <1>3, <1>5, SlideTiles
<1> HIDE DEF to, end
<1>7. Laid(n, structs, h2, B2, end)
  BY <1>2, <1>4, <1>6 DEF Laid, end
<1> QED
  BY <1>3, <1>7 DEF to, end

\* A word written inside a block.
LEMMA LaidWritten ==
    ASSUME NEW n \in Nat, NEW structs, NEW h, NEW B, NEW top, Laid(n, structs, h, B, top),
           NEW p \in B, NEW a \in p .. p + SizesIn(structs, h, B)[p] - 1, NEW w \in Word,
           NEW h2, h2 = [h EXCEPT ![a] = w]
    PROVE  Laid(n, structs, h2, B, top) /\ SizesIn(structs, h2, B) = SizesIn(structs, h, B)
<1> DEFINE size == SizesIn(structs, h, B)
<1>1. h \in [0 .. n - 1 -> Word] /\ Tiles(B, size, top) /\ top \in HeapStart .. n
  BY DEF Laid
<1>2. a \in 0 .. n - 1 /\ a < top /\ p <= a /\ a < p + size[p] /\ p \in Nat /\ a \in Nat
  BY LaidAt
<1>3. h2 \in [0 .. n - 1 -> Word] /\ \A b \in 0 .. n - 1 : b # a => h2[b] = h[b]
  BY <1>1, <1>2
<1>4. ASSUME NEW q \in B
      PROVE  h2[q - 2] = h[q - 2] /\ h2[q - 1] = h[q - 1]
  <2>1. /\ q \in Nat /\ q - 2 \in 0 .. n - 1 /\ q - 1 \in 0 .. n - 1 /\ size[q] \in Nat \ {0}
        /\ size[p] \in Nat
    BY LaidAt
  <2>2. (p < q => p + size[p] + Header <= q) /\ (q < p => q + size[q] + Header <= p)
    <3> HIDE DEF size
    <3> QED  BY <1>1 DEF Tiles
  <2> HIDE DEF size
  <2>3. q - 2 # a /\ q - 1 # a
    <3>1. CASE p < q
      BY <1>2, <2>1, <2>2, <3>1 DEF Header
    <3>2. CASE q <= p
      BY <1>2, <2>1, <3>2
    <3> QED
      BY <1>2, <2>1, <3>1, <3>2
  <2> QED
    BY <1>3, <2>1, <2>3
<1>5. SizesIn(structs, h2, B) = size
  BY <1>4 DEF SizesIn
<1>6. \A q \in B : HeaderFor(structs, h2[q - 2], h2[q - 1])
  BY <1>4 DEF Laid
<1>7. \A b \in top .. n - 1 : h2[b] = 0
  <2>1. \A b \in top .. n - 1 : h[b] = 0 /\ b # a /\ b \in 0 .. n - 1
    BY <1>1, <1>2 DEF Laid, HeapStart
  <2> QED
    BY <1>3, <2>1
<1> HIDE DEF size
<1> QED
  BY <1>1, <1>3, <1>5, <1>6, <1>7 DEF Laid, size

-----------------------------------------------------------------------------
(* The inductive invariant.                                                *)

Blocks == DOMAIN ids
Sizes  == SizesIn(Structs, heap, Blocks)

\* The blocks that have an identity lie back to back from HeapStart to heap_ptr.
HeapInv == Laid(HeapWords, Structs, heap, Blocks, heap_ptr)

StackInv == stack \in Seq(TaggedWords)

FramesOf(funs) ==
    UNION {[fn : {f}, locals : [1 .. funs[f].locals -> Word], base : Nat] : f \in DOMAIN funs}

\* A frame owns what is on the stack above its base, and its caller what is below.
FramesInv ==
    /\ frames \in Seq(FramesOf(Funs)) /\ frames # <<>>
    /\ \A i \in 1 .. Len(frames) : frames[i].base <= Len(stack)
    /\ \A i, j \in 1 .. Len(frames) : i <= j => frames[i].base <= frames[j].base

\* The permanent objects lie below every other.
PermanentInv ==
    /\ literals \in Seq(Blocks)
    /\ variants \in [DOMAIN Structs -> Blocks \cup {Null}]
    /\ \A p \in Blocks : (\E w \in Permanents : p <= w) => p \in Permanents
    /\ Starting => Blocks \subseteq Permanents

IInv ==
    /\ program \in Programs /\ status \in {"starting", "running", "faulted"}
    /\ HeapInv /\ StackInv /\ FramesInv /\ PermanentInv

LEMMA ProgramFacts ==
    ASSUME program \in Programs
    PROVE  /\ WellMade(program) /\ HeapWords \in Nat /\ 1 <= HeapWords /\ HeapWords <= 32768
           /\ GoodStructs(Structs) /\ DOMAIN Structs \subseteq Word
<1>1. WellMade(program)
  BY ProgramsAssumption
<1>2. HeapWords \in 1 .. MaxWords
  BY <1>1 DEF WellMade, HeapWords
<1>3. MaxWords \in Int /\ MaxWords <= 32768
  BY SizeAssumption
<1> HIDE DEF HeapWords
<1>4. HeapWords \in Nat /\ 1 <= HeapWords /\ HeapWords <= MaxWords
  BY <1>2, <1>3
<1>5. HeapWords <= 32768
  BY <1>3, <1>4
<1>6. GoodStructs(Structs) /\ DOMAIN Structs \subseteq Word
  BY <1>1 DEF WellMade, GoodStructs, Structs
<1> QED
  BY <1>1, <1>4, <1>5, <1>6

LEMMA WordsAre ==
    /\ \A kind, detail : Words(kind, detail) = WordsFor(Structs, kind, detail)
    /\ \A kind, detail : IsHeader(kind, detail) <=> HeaderFor(Structs, kind, detail)
BY DEF Words, WordsFor, IsHeader, HeaderFor

LEMMA SizeIs == \A p \in Blocks : Size(p) = Sizes[p] /\ End(p) = p + Sizes[p]
BY WordsAre DEF Size, End, Sizes, SizesIn, Kind, Detail

\* What is known of the blocks, in one place.
LEMMA BlockFacts ==
    ASSUME program \in Programs, HeapInv
    PROVE  /\ Tiles(Blocks, Sizes, heap_ptr) /\ heap_ptr \in Nat /\ heap_ptr <= HeapWords /\ 1 <= heap_ptr
           /\ \A p \in Blocks :
                 /\ p \in Nat /\ 3 <= p /\ Sizes[p] \in Nat \ {0} /\ p + Sizes[p] <= heap_ptr
                 /\ p \in Addresses /\ p - 2 \in DOMAIN heap /\ p - 1 \in DOMAIN heap
                 /\ \A q \in Blocks : p < q => p + Sizes[p] + Header <= q
           /\ DOMAIN heap = 0 .. HeapWords - 1 /\ \A a \in DOMAIN heap : heap[a] \in Word
<1>1. HeapWords \in Nat /\ Laid(HeapWords, Structs, heap, Blocks, heap_ptr)
  BY ProgramFacts DEF HeapInv
<1>2. Tiles(Blocks, Sizes, heap_ptr) /\ heap_ptr \in HeapStart .. HeapWords /\ heap \in [0 .. HeapWords - 1 -> Word]
  BY <1>1 DEF Laid, Sizes
<1>3. heap_ptr \in Nat /\ heap_ptr <= HeapWords /\ 1 <= heap_ptr
  BY <1>1, <1>2 DEF HeapStart
<1>4. DOMAIN heap = 0 .. HeapWords - 1 /\ \A a \in DOMAIN heap : heap[a] \in Word
  BY <1>2
<1>5. ASSUME NEW p \in Blocks
      PROVE  /\ p \in Nat /\ 3 <= p /\ Sizes[p] \in Nat \ {0} /\ p + Sizes[p] <= heap_ptr
             /\ p - 2 \in 0 .. HeapWords - 1 /\ p - 1 \in 0 .. HeapWords - 1
             /\ p \in Addresses
  <2>1. /\ p \in Nat /\ 3 <= p /\ Sizes[p] \in Nat \ {0} /\ p + Sizes[p] <= heap_ptr
        /\ p - 2 \in 0 .. HeapWords - 1 /\ p - 1 \in 0 .. HeapWords - 1
    BY <1>1, LaidAt DEF Sizes
  <2>2. p \in Addresses
    BY <1>1, <1>3, <2>1 DEF Addresses
  <2> QED
    BY <2>1, <2>2
<1>6. \A p, q \in Blocks : p < q => p + Sizes[p] + Header <= q
  BY <1>2 DEF Tiles
<1> QED
  BY <1>2, <1>3, <1>4, <1>5, <1>6

LEMMA AddressesFinite == program \in Programs => IsFiniteSet(Addresses)
BY ProgramFacts, FS_Interval DEF Addresses

\* The walk over the headers finds exactly the blocks.
LEMMA StartsAre ==
    ASSUME program \in Programs, HeapInv
    PROVE  Starts = Blocks
<1> DEFINE next == [p \in Addresses |-> BlockAt(End(p))]
           S    == BlockAt(HeapStart)
<1>1. DOMAIN next = Addresses /\ IsFiniteSet(DOMAIN next)
  BY AddressesFinite
<1>2. (\A x \in DOMAIN next : next[x] \subseteq DOMAIN next) /\ S \in SUBSET DOMAIN next
  BY DEF BlockAt
<1>3. Starts = Reached(next, S)
  BY DEF Starts
<1>4. \A p \in Blocks : p \in Addresses /\ next[p] = BlockAt(p + Sizes[p])
  BY BlockFacts, SizeIs
<1> HIDE DEF next, S
<1>5. /\ S \subseteq Starts /\ Closed(next, Starts)
      /\ \A Z \in SUBSET DOMAIN next : (S \subseteq Z /\ Closed(next, Z)) => Starts \subseteq Z
  BY <1>1, <1>2, <1>3, ReachedIs
<1>6. Starts \subseteq Blocks
  <2>1. S \subseteq Blocks
    <3>1. heap_ptr = HeapStart \/ HeapStart + Header \in Blocks
      BY BlockFacts DEF Tiles
    <3>2. heap_ptr = HeapStart => S = {}
      BY DEF S, BlockAt, HeapStart
    <3>3. S \subseteq {HeapStart + Header}
      BY DEF S, BlockAt
    <3> QED
      BY <3>1, <3>2, <3>3
  <2>2. ASSUME NEW p \in Blocks
        PROVE  next[p] \subseteq Blocks
    <3>1. p + Sizes[p] = heap_ptr \/ p + Sizes[p] + Header \in Blocks
      BY BlockFacts DEF Tiles
    <3>2. p + Sizes[p] = heap_ptr => BlockAt(p + Sizes[p]) = {}
      BY BlockFacts DEF BlockAt
    <3>3. BlockAt(p + Sizes[p]) \subseteq {p + Sizes[p] + Header}
      BY DEF BlockAt
    <3> QED
      BY <1>4, <3>1, <3>2, <3>3
  <2>3. Blocks \in SUBSET DOMAIN next
    BY <1>1, <1>4
  <2> QED
    BY <1>5, <2>1, <2>2, <2>3 DEF Closed
<1>7. Blocks \subseteq Starts
  <2> DEFINE lost == Blocks \ Starts
  <2> SUFFICES ASSUME lost # {}
               PROVE  FALSE
    OBVIOUS
  <2>1. lost \subseteq Nat
    BY BlockFacts
  <2>2. PICK p \in lost : \A q \in lost : p <= q
    <3> HIDE DEF lost
    <3> QED  BY <2>1, LeastNat
  <2>3. p \in Blocks /\ p \notin Starts
    OBVIOUS
  <2>4. CASE p = HeapStart + Header
    <3>1. HeapStart < heap_ptr /\ p \in Addresses
      BY BlockFacts, <2>3 DEF HeapStart
    <3>2. p \in S
      BY <2>4, <3>1 DEF S, BlockAt
    <3> QED
      BY <1>5, <2>3, <3>2
  <2>5. CASE \E q \in Blocks : q + Sizes[q] + Header = p
    <3>1. PICK q \in Blocks : q + Sizes[q] + Header = p
      BY <2>5
    <3>2. /\ q \in Nat /\ Sizes[q] \in Nat /\ p \in Addresses /\ p \in Nat
          /\ Sizes[p] \in Nat /\ p + Sizes[p] <= heap_ptr /\ heap_ptr \in Nat
      BY BlockFacts, <2>3
    <3>3. q < p /\ q + Sizes[q] < heap_ptr
      BY <3>1, <3>2 DEF Header
    <3>4. q \in Starts
      <4>1. q \in lost => p <= q
        BY <2>2
      <4> QED
        BY <3>2, <3>3, <4>1
    <3>5. p \in next[q]
      BY <1>4, <3>1, <3>2, <3>3 DEF BlockAt
    <3> QED
      BY <1>5, <2>3, <3>4, <3>5 DEF Closed
  <2>6. p = HeapStart + Header \/ \E q \in Blocks : q + Sizes[q] + Header = p
    BY BlockFacts, <2>3 DEF Tiles
  <2> QED
    BY <2>4, <2>5, <2>6
<1> QED
  BY <1>6, <1>7

\* A reference into a block is into that block alone.
LEMMA ContainingIs ==
    ASSUME program \in Programs, HeapInv
    PROVE  /\ \A w : \A p \in Containing(w) : p \in Blocks /\ p <= w /\ w < p + Sizes[p]
           /\ \A w \in Word : \A p \in Blocks : (p <= w /\ w < p + Sizes[p]) => Containing(w) = {p}
           /\ \A p \in Blocks : Containing(p) = {p} /\ p \in Word
           /\ Containing(Null) = {}
<1>1. Starts = Blocks
  BY StartsAre
<1>2. \A w : Containing(w) = {p \in Blocks : p <= w /\ w < p + Sizes[p]}
  BY <1>1, SizeIs DEF Containing
<1>3. ASSUME NEW w \in Word, NEW p \in Blocks, p <= w, w < p + Sizes[p]
      PROVE  Containing(w) = {p}
  <2>1. ASSUME NEW q \in Blocks, q <= w, w < q + Sizes[q]
        PROVE  q = p
    <3>0. w \in Nat
      BY WordNat
    <3>a. /\ p \in Nat /\ q \in Nat /\ Sizes[p] \in Nat /\ Sizes[q] \in Nat
          /\ p < q => p + Sizes[p] + Header <= q
          /\ q < p => q + Sizes[q] + Header <= p
      BY BlockFacts
    <3>1. /\ p \in Nat /\ q \in Nat /\ w \in Nat /\ Sizes[p] \in Nat /\ Sizes[q] \in Nat
          /\ p < q => p + Sizes[p] + Header <= q
          /\ q < p => q + Sizes[q] + Header <= p
      BY <3>0, <3>a
    <3>2. ~(p < q)
      BY <1>3, <2>1, <3>1 DEF Header
    <3>3. ~(q < p)
      BY <1>3, <2>1, <3>1 DEF Header
    <3>4. p \in Nat /\ q \in Nat
      BY <3>1
    <3> QED
      BY <3>2, <3>3, <3>4
  <2> QED
    BY <1>2, <1>3, <2>1
<1>4. ASSUME NEW p \in Blocks
      PROVE  Containing(p) = {p} /\ p \in Word
  <2>1. p \in Nat /\ Sizes[p] \in Nat \ {0} /\ p \in Addresses
    BY BlockFacts
  <2>2. p \in Word
    <3>1. HeapWords \in Nat /\ HeapWords <= 32768
      BY ProgramFacts
    <3>2. p \in Nat /\ p <= HeapWords
      BY <2>1, <3>1 DEF Addresses
    <3>3. p \in Nat /\ p <= 65535
      BY <3>1, <3>2
    <3> QED
      BY <3>3, WordNat
  <2>3. p <= p /\ p < p + Sizes[p]
    BY <2>1
  <2> QED
    BY <1>3, <2>2, <2>3
<1>5. Containing(Null) = {}
  <2>1. \A p \in Blocks : ~(p <= Null)
    BY BlockFacts DEF Null
  <2> QED
    BY <1>2, <2>1
<1> QED
  BY <1>2, <1>3, <1>4, <1>5

\* The model's addresses after a collection are where the blocks slide to.
LEMMA ForwardIs ==
    ASSUME program \in Programs, HeapInv, NEW S, S \subseteq Blocks
    PROVE  /\ \A p : Forward(S, p) = Slid(Sizes, S, p)
           /\ CollectedTop(S) = SlidTop(Sizes, S)
<1>1. ASSUME NEW T, T \subseteq Blocks
      PROVE  WordsOf(T) = Spans(Sizes, T)
  <2>1. \A p \in T : End(p) = p + Sizes[p]
    BY <1>1, SizeIs
  <2> DEFINE there(p) == (p - Header) .. (End(p) - 1)
             span(p)  == Span(Sizes, p)
  <2>2. ASSUME NEW p \in T
        PROVE  there(p) = span(p)
    <3>1. End(p) = p + Sizes[p]
      BY <2>1
    <3>2. p \in Nat /\ Sizes[p] \in Nat
      BY <1>1, BlockFacts
    <3> QED
      BY <3>1, <3>2 DEF Span, Header
  <2>3. \A x : x \in WordsOf(T) <=> \E p \in T : x \in there(p)
    BY DEF WordsOf
  <2>4. \A x : x \in Spans(Sizes, T) <=> \E p \in T : x \in span(p)
    BY DEF Spans
  <2> HIDE DEF there, span
  <2> QED
    BY <2>2, <2>3, <2>4
<1>2. CollectedTop(S) = SlidTop(Sizes, S)
  BY <1>1 DEF CollectedTop, SlidTop, Count
<1>3. ASSUME NEW p
      PROVE  Forward(S, p) = Slid(Sizes, S, p)
  <2>1. WordsOf(Below(S, p)) = Spans(Sizes, Below(S, p))
    BY <1>1 DEF Below
  <2> QED
    BY <2>1 DEF Forward, Slid, Count, Below
<1> QED
  BY <1>2, <1>3

\* Survivors keep their order, and go no higher than they were.
LEMMA Forwards ==
    ASSUME program \in Programs, HeapInv, NEW S, S \subseteq Blocks
    PROVE  /\ CollectedTop(S) \in Nat /\ 1 <= CollectedTop(S) /\ CollectedTop(S) <= heap_ptr
           /\ \A p \in S : /\ Forward(S, p) \in Nat /\ 3 <= Forward(S, p) /\ Forward(S, p) <= p
                           /\ Forward(S, p) + Sizes[p] <= CollectedTop(S)
           /\ \A p, q \in S : p < q => Forward(S, p) + Sizes[p] + Header <= Forward(S, q)
<1>1. Tiles(Blocks, Sizes, heap_ptr)
  BY BlockFacts
<1>2. /\ SlidTop(Sizes, S) \in Nat /\ HeapStart <= SlidTop(Sizes, S) /\ SlidTop(Sizes, S) <= heap_ptr
      /\ \A p \in S : /\ Slid(Sizes, S, p) \in Nat /\ HeapStart + Header <= Slid(Sizes, S, p)
                      /\ Slid(Sizes, S, p) <= p
                      /\ Slid(Sizes, S, p) + Sizes[p] <= SlidTop(Sizes, S)
      /\ \A p, q \in S : p < q => Slid(Sizes, S, p) + Sizes[p] + Header <= Slid(Sizes, S, q)
  BY <1>1, Slides
<1>3. HeapStart = 1 /\ HeapStart + Header = 3
  BY DEF HeapStart, Header
<1> QED
  BY <1>2, <1>3, ForwardIs

\* Where a word is found after a collection.
LEMMA MovedIs ==
    ASSUME program \in Programs, HeapInv, NEW S, S \subseteq Blocks, NEW w \in Word
    PROVE  /\ Moved(S, w) \in Word
           /\ \A p \in S : (p <= w /\ w < p + Sizes[p]) => Moved(S, w) = Forward(S, p) + (w - p)
           /\ (\A p \in S : ~(p <= w /\ w < p + Sizes[p])) => Moved(S, w) = w
<1>1. ASSUME NEW p \in S, p <= w, w < p + Sizes[p]
      PROVE  Moved(S, w) = Forward(S, p) + (w - p) /\ Moved(S, w) \in Word
  <2>1. Containing(w) = {p}
    BY <1>1, ContainingIs
  <2>2. Moved(S, w) = Forward(S, p) + (w - p)
    <3>1. Containing(w) \cap S # {} /\ (CHOOSE q \in Containing(w) : TRUE) = p
      BY <2>1
    <3> QED
      BY <3>1 DEF Moved
  <2>a. Forward(S, p) \in Nat /\ Forward(S, p) <= p
    BY Forwards
  <2>b. p \in Nat /\ w \in Nat /\ w <= 65535
    BY BlockFacts, WordNat
  <2>3. Forward(S, p) \in Nat /\ Forward(S, p) <= p /\ p \in Nat /\ w \in Nat /\ w <= 65535
    BY <2>a, <2>b
  <2>4. Forward(S, p) + (w - p) \in Word
    <3>1. Forward(S, p) + (w - p) \in Nat /\ Forward(S, p) + (w - p) <= w
      <4> DEFINE to == Forward(S, p)
      <4>1. to \in Nat /\ to <= p /\ p \in Nat /\ w \in Nat /\ p <= w
        BY <1>1, <2>3
      <4> HIDE DEF to
      <4>2. to + (w - p) \in Nat /\ to + (w - p) <= w
        BY <4>1
      <4> QED
        BY <4>2 DEF to
    <3>2. Forward(S, p) + (w - p) <= 65535
      BY <2>3, <3>1
    <3> QED
      BY <3>1, <3>2, WordNat
  <2> QED
    BY <2>2, <2>4
<1>2. ASSUME \A p \in S : ~(p <= w /\ w < p + Sizes[p])
      PROVE  Moved(S, w) = w
  <2>1. Containing(w) \cap S = {}
    BY <1>2, ContainingIs
  <2> QED
    BY <2>1 DEF Moved
<1> QED
  BY <1>1, <1>2

\* What the collector writes, word by word.
LEMMA CollectedHeapIs ==
    ASSUME program \in Programs, HeapInv, NEW S, S \subseteq Blocks
    PROVE  /\ CollectedHeap(S) \in [0 .. HeapWords - 1 -> Word]
           /\ \A p \in S : /\ CollectedHeap(S)[Forward(S, p) - 2] = heap[p - 2]
                           /\ CollectedHeap(S)[Forward(S, p) - 1] = heap[p - 1]
                           /\ \A o \in 0 .. Sizes[p] - 1 :
                                 CollectedHeap(S)[Forward(S, p) + o] =
                                    IF o \in RefOffsets(p) THEN Moved(S, heap[p + o]) ELSE heap[p + o]
           /\ \A a \in CollectedTop(S) .. HeapWords - 1 : CollectedHeap(S)[a] = 0
<1> DEFINE to(p)       == Forward(S, p)
           here(a)     == Landing(S, a)
           source(a)   == CHOOSE q \in here(a) : TRUE
           word(p, a)  == SlidWord(S, p, a)
           written(a)  == IF here(a) = {} THEN Vacated(a) ELSE word(source(a), a)
           h2          == CollectedHeap(S)
<1>1. h2 = [a \in DOMAIN heap |-> written(a)]
  BY DEF CollectedHeap
<1> HIDE DEF h2
<1>2. DOMAIN heap = 0 .. HeapWords - 1 /\ \A a \in DOMAIN heap : heap[a] \in Word
  BY BlockFacts
<1>a. HeapWords \in Nat /\ 1 <= HeapWords /\ HeapWords <= 32768
  BY ProgramFacts
<1>b. /\ heap_ptr \in Nat /\ heap_ptr <= HeapWords
      /\ \A p \in S : /\ p \in Nat /\ 3 <= p /\ Sizes[p] \in Nat \ {0} /\ p + Sizes[p] <= heap_ptr
  BY BlockFacts
<1>c. /\ CollectedTop(S) \in Nat /\ 1 <= CollectedTop(S) /\ CollectedTop(S) <= heap_ptr
      /\ \A p \in S : /\ to(p) \in Nat /\ 3 <= to(p) /\ to(p) <= p
                      /\ to(p) + Sizes[p] <= CollectedTop(S)
      /\ \A p, q \in S : p < q => to(p) + Sizes[p] + Header <= to(q)
  BY Forwards
<1>d. \A p \in S : Size(p) = Sizes[p]
  BY SizeIs
<1>e. \A a : here(a) = {p \in S : to(p) - 2 <= a /\ a < to(p) + Size(p)}
  BY DEF Landing, Header
<1>f. \A p, a : LET src == p + a - to(p)
                IN  word(p, a) = IF src >= p /\ src - p \in RefOffsets(p) THEN Moved(S, heap[src]) ELSE heap[src]
  BY DEF SlidWord
<1> HIDE DEF to, word
<1>3. \A a : \A p \in here(a) : p \in S /\ to(p) - 2 <= a /\ a < to(p) + Sizes[p]
  BY <1>d, <1>e
<1>4. ASSUME NEW a \in DOMAIN heap, NEW p \in S, to(p) - 2 <= a, a < to(p) + Sizes[p]
      PROVE  here(a) = {p}
  <2>1. p \in here(a)
    BY <1>4, <1>d, <1>e
  <2>2. ASSUME NEW q \in here(a)
        PROVE  q = p
    <3>1. q \in S /\ to(q) - 2 <= a /\ a < to(q) + Sizes[q]
      BY <1>3
    <3>2. /\ p \in Nat /\ q \in Nat /\ to(p) \in Nat /\ to(q) \in Nat
          /\ Sizes[p] \in Nat /\ Sizes[q] \in Nat /\ a \in Nat
      BY <1>2, <1>a, <1>b, <1>c, <3>1
    <3>3. /\ p < q => to(p) + Sizes[p] + Header <= to(q)
          /\ q < p => to(q) + Sizes[q] + Header <= to(p)
      BY <1>c, <3>1
    <3>4. ~(p < q)
      BY <1>4, <3>1, <3>2, <3>3 DEF Header
    <3>5. ~(q < p)
      BY <1>4, <3>1, <3>2, <3>3 DEF Header
    <3> QED
      BY <3>2, <3>4, <3>5
  <2> QED
    BY <2>1, <2>2
<1>5. ASSUME NEW a \in DOMAIN heap, NEW p \in S, to(p) - 2 <= a, a < to(p) + Sizes[p]
      PROVE  h2[a] = word(p, a)
  <2>1. here(a) = {p}
    BY <1>4, <1>5
  <2> HIDE DEF here
  <2>2. source(a) = p /\ here(a) # {}
    BY <2>1
  <2>3. written(a) = word(p, a)
    BY <2>2
  <2> HIDE DEF written
  <2> QED
    BY <1>1, <2>3
<1>6. ASSUME NEW a \in DOMAIN heap, here(a) = {}
      PROVE  h2[a] = Vacated(a)
  BY <1>1, <1>6
<1>7. ASSUME NEW a \in DOMAIN heap
      PROVE  h2[a] \in Word
  <2>1. CASE here(a) = {}
    <3>1. Vacated(a) = 0 \/ Vacated(a) = heap[a]
      BY DEF Vacated
    <3>2. 0 \in Word
      BY WordNat
    <3> QED
      BY <1>2, <1>6, <2>1, <3>1, <3>2
  <2>2. CASE here(a) # {}
    <3>1. PICK p \in here(a) : TRUE
      BY <2>2
    <3>2. p \in S /\ to(p) - 2 <= a /\ a < to(p) + Sizes[p]
      BY <1>3
    <3>3. h2[a] = word(p, a)
      BY <1>5, <3>2
    <3>4. p + a - to(p) \in DOMAIN heap
      <4>1. /\ p \in Nat /\ to(p) \in Nat /\ Sizes[p] \in Nat /\ a \in Nat /\ 3 <= p
            /\ p + Sizes[p] <= HeapWords
        BY <1>2, <1>a, <1>b, <1>c, <3>2
      <4> QED
        BY <1>2, <1>a, <3>2, <4>1
    <3>5. heap[p + a - to(p)] \in Word
      BY <1>2, <3>4
    <3>6. Moved(S, heap[p + a - to(p)]) \in Word
      BY <3>5, MovedIs
    <3> QED
      BY <1>f, <3>3, <3>5, <3>6
  <2> QED
    BY <2>1, <2>2
<1>8. ASSUME NEW p \in S
      PROVE  /\ h2[to(p) - 2] = heap[p - 2] /\ h2[to(p) - 1] = heap[p - 1]
             /\ \A o \in 0 .. Sizes[p] - 1 :
                   h2[to(p) + o] = IF o \in RefOffsets(p) THEN Moved(S, heap[p + o]) ELSE heap[p + o]
  <2>1. /\ p \in Nat /\ to(p) \in Nat /\ Sizes[p] \in Nat \ {0} /\ 3 <= p /\ 3 <= to(p)
        /\ to(p) + Sizes[p] <= HeapWords
    BY <1>a, <1>b, <1>c
  <2>2. ASSUME NEW o \in Int, -2 <= o, o < Sizes[p]
        PROVE  /\ h2[to(p) + o] = word(p, to(p) + o) /\ p + (to(p) + o) - to(p) = p + o
               /\ p + o >= p <=> o >= 0 
               /\ p + o - p = o
    <3>1. to(p) + o \in DOMAIN heap /\ to(p) - 2 <= to(p) + o /\ to(p) + o < to(p) + Sizes[p]
      BY <1>2, <1>a, <2>1, <2>2
    <3>2. h2[to(p) + o] = word(p, to(p) + o)
      BY <1>5, <3>1
    <3> QED
      BY <2>1, <3>2
  <2>3. ASSUME NEW o \in Int, -2 <= o, o < 0
        PROVE  h2[to(p) + o] = heap[p + o]
    <3>1. o < Sizes[p]
      BY <2>1, <2>3
    <3>2. /\ h2[to(p) + o] = word(p, to(p) + o) /\ p + (to(p) + o) - to(p) = p + o
          /\ ~(p + o >= p)
      BY <2>1, <2>2, <2>3, <3>1
    <3>3. word(p, to(p) + o) = heap[p + o]
      BY <1>f, <3>2
    <3> QED
      BY <3>2, <3>3
  <2>4. ASSUME NEW o \in 0 .. Sizes[p] - 1
        PROVE  h2[to(p) + o] = IF o \in RefOffsets(p) THEN Moved(S, heap[p + o]) ELSE heap[p + o]
    <3>1. o \in Int /\ -2 <= o /\ o < Sizes[p] /\ o >= 0
      BY <2>1
    <3>2. /\ h2[to(p) + o] = word(p, to(p) + o) /\ p + (to(p) + o) - to(p) = p + o
          /\ p + o >= p /\ p + o - p = o
      BY <2>1, <2>2, <3>1
    <3>3. word(p, to(p) + o) = IF o \in RefOffsets(p) THEN Moved(S, heap[p + o]) ELSE heap[p + o]
      <4>1. \A x : (x >= p /\ x - p = o /\ x = p + o)
                    => (IF x >= p /\ x - p \in RefOffsets(p) THEN Moved(S, heap[x]) ELSE heap[x])
                         = IF o \in RefOffsets(p) THEN Moved(S, heap[p + o]) ELSE heap[p + o]
        OBVIOUS
      <4> DEFINE x == p + (to(p) + o) - to(p)
      <4>2. word(p, to(p) + o) = IF x >= p /\ x - p \in RefOffsets(p) THEN Moved(S, heap[x]) ELSE heap[x]
        BY <1>f
      <4>3. x = p + o
        BY <3>2
      <4> HIDE DEF x
      <4>4. x >= p /\ x - p = o
        BY <2>1, <3>1, <4>3
      <4> QED
        BY <4>1, <4>2, <4>3, <4>4
    <3> QED
      BY <3>2, <3>3
  <2>5. to(p) - 2 = to(p) + (-2) /\ to(p) - 1 = to(p) + (-1) /\ p - 2 = p + (-2) /\ p - 1 = p + (-1)
    BY <2>1
  <2>6. h2[to(p) + (-2)] = heap[p + (-2)] /\ h2[to(p) + (-1)] = heap[p + (-1)]
    BY <2>3
  <2> QED
    BY <2>4, <2>5, <2>6
<1>9. ASSUME NEW a \in CollectedTop(S) .. HeapWords - 1
      PROVE  h2[a] = 0
  <2>1. a \in DOMAIN heap /\ a \in Nat /\ 1 <= a /\ CollectedTop(S) <= a
    BY <1>2, <1>a, <1>c
  <2>2. here(a) = {}
    <3>1. \A p \in S : to(p) \in Nat /\ Sizes[p] \in Nat /\ to(p) + Sizes[p] <= CollectedTop(S)
      BY <1>b, <1>c
    <3>2. \A p \in S : ~(a < to(p) + Sizes[p])
      BY <1>c, <2>1, <3>1
    <3> QED
      BY <1>d, <1>e, <3>2
  <2>3. h2[a] = Vacated(a)
    BY <1>6, <2>1, <2>2
  <2>4. CASE a < heap_ptr
    BY <2>1, <2>3, <2>4 DEF Vacated, HeapStart
  <2>5. CASE ~(a < heap_ptr)
    <3>1. a \in heap_ptr .. HeapWords - 1
      BY <1>a, <1>b, <2>1, <2>5
    <3>2. heap[a] = 0
      BY <3>1 DEF HeapInv, Laid
    <3> QED
      BY <2>3, <2>5, <3>2 DEF Vacated
  <2> QED
    BY <2>4, <2>5
<1>10. h2 \in [0 .. HeapWords - 1 -> Word]
  <2> HIDE DEF here, written
  <2>1. DOMAIN h2 = 0 .. HeapWords - 1 /\ h2 = [a \in DOMAIN h2 |-> h2[a]]
    BY <1>1, <1>2
  <2> QED
    BY <1>2, <1>7, <2>1
<1> QED
  BY <1>8, <1>9, <1>10 DEF to, h2

LEMMA CollectedLaid ==
    ASSUME program \in Programs, HeapInv, NEW S, S \subseteq Blocks
    PROVE  /\ Laid(HeapWords, Structs, CollectedHeap(S), {Forward(S, p) : p \in S}, CollectedTop(S))
           /\ DOMAIN CollectedIds(S) = {Forward(S, p) : p \in S}
<1> DEFINE h2 == CollectedHeap(S)
           B2 == {Slid(Sizes, S, p) : p \in S}
<1>1. HeapWords \in Nat /\ Laid(HeapWords, Structs, heap, Blocks, heap_ptr)
  BY ProgramFacts DEF HeapInv
<1>2. \A p : Forward(S, p) = Slid(Sizes, S, p)
  BY ForwardIs
<1>3. CollectedTop(S) = SlidTop(Sizes, S)
  BY ForwardIs
<1>4. h2 \in [0 .. HeapWords - 1 -> Word]
  BY CollectedHeapIs
<1>5. \A p \in S : h2[Slid(Sizes, S, p) - 2] = heap[p - 2] /\ h2[Slid(Sizes, S, p) - 1] = heap[p - 1]
  <2>1. \A p \in S : h2[Forward(S, p) - 2] = heap[p - 2] /\ h2[Forward(S, p) - 1] = heap[p - 1]
    BY CollectedHeapIs
  <2> HIDE DEF h2
  <2> QED
    BY <1>2, <2>1
<1>6. \A a \in SlidTop(Sizes, S) .. HeapWords - 1 : h2[a] = 0
  BY <1>3, CollectedHeapIs
<1>7. Laid(HeapWords, Structs, h2, B2, SlidTop(Sizes, S))
  <2> HIDE DEF h2
  <2> QED  BY <1>1, <1>4, <1>5, <1>6, LaidSlid DEF Sizes
<1>8. B2 = {Forward(S, p) : p \in S}
  BY <1>2
<1>9. DOMAIN CollectedIds(S) = {Forward(S, p) : p \in S}
  BY DEF CollectedIds
<1> HIDE DEF h2, B2
<1> QED
  BY <1>3, <1>7, <1>8, <1>9 DEF h2

\* What a collection keeps: blocks, and every block a root is the address of.
LEMMA MarkedIs ==
    ASSUME program \in Programs, HeapInv, NEW st
    PROVE  /\ Marked(st) \subseteq Blocks
           /\ \A w \in RootWords(st) : Containing(w) \subseteq Marked(st)
           /\ \A p \in Marked(st) : Targets(p) \subseteq Marked(st)
           /\ \A Z \in SUBSET Blocks :
                 ((\A w \in RootWords(st) : Containing(w) \subseteq Z) /\ \A p \in Z : Targets(p) \subseteq Z)
                    => Marked(st) \subseteq Z
<1> DEFINE next == [p \in Starts |-> Targets(p)]
           S    == UNION {Containing(w) : w \in RootWords(st)}
<1>1. Starts = Blocks /\ Blocks \subseteq Addresses
  BY BlockFacts, StartsAre
<1>2. \A w : Containing(w) \subseteq Blocks
  BY ContainingIs
<1>3. \A p : Targets(p) \subseteq Blocks
  BY <1>2 DEF Targets
<1>4. DOMAIN next = Blocks /\ IsFiniteSet(DOMAIN next)
  BY <1>1, AddressesFinite, FS_Subset
<1>5. \A p \in Blocks : next[p] = Targets(p)
  BY <1>1
<1>6. S \subseteq Blocks
  BY <1>2
<1>7. Marked(st) = Reached(next, S)
  BY DEF Marked
<1>s. \A Z : S \subseteq Z <=> \A w \in RootWords(st) : Containing(w) \subseteq Z
  OBVIOUS
<1> HIDE DEF next, S
<1>8. (\A x \in DOMAIN next : next[x] \subseteq DOMAIN next) /\ S \in SUBSET DOMAIN next
  BY <1>1, <1>3, <1>4, <1>5, <1>6
<1>9. /\ S \subseteq Marked(st) /\ Marked(st) \subseteq DOMAIN next /\ Closed(next, Marked(st))
      /\ \A Z \in SUBSET DOMAIN next : (S \subseteq Z /\ Closed(next, Z)) => Marked(st) \subseteq Z
  BY <1>4, <1>7, <1>8, ReachedIs
<1>10. ASSUME NEW Z \in SUBSET Blocks, S \subseteq Z, \A p \in Z : Targets(p) \subseteq Z
       PROVE  Marked(st) \subseteq Z
  <2>1. Z \in SUBSET DOMAIN next
    BY <1>1, <1>4
  <2>2. Closed(next, Z)
    BY <1>1, <1>5, <1>10 DEF Closed
  <2> QED
    BY <1>9, <1>10, <2>1, <2>2
<1>11. Marked(st) \subseteq Blocks
  BY <1>3, <1>6, <1>10
<1>12. \A p \in Marked(st) : Targets(p) \subseteq Marked(st)
  BY <1>1, <1>5, <1>9, <1>11 DEF Closed
<1> QED
  BY <1>9, <1>10, <1>11, <1>12, <1>s

\* The permanent objects, being below every other and roots, stay.
LEMMA PermanentsStill ==
    ASSUME program \in Programs, HeapInv, PermanentInv, NEW S, S \subseteq Blocks,
           Permanents \cap Blocks \subseteq S
    PROVE  /\ \A w \in Permanents : Moved(S, w) = w
           /\ \A p \in Permanents \cap Blocks : Forward(S, p) = p
<1>1. \A w \in Permanents : w \in Blocks \cup {Null}
  BY DEF PermanentInv, Permanents
<1>2. ASSUME NEW p \in Permanents \cap Blocks
      PROVE  Forward(S, p) = p
  <2>1. p \in S
    OBVIOUS
  <2>2. \A q \in Blocks : q <= p => q \in S
    <3>1. \A q \in Blocks : (\E w \in Permanents : q <= w) => q \in Permanents
      BY DEF PermanentInv
    <3> QED
      BY <3>1
  <2>3. Tiles(Blocks, Sizes, heap_ptr)
    BY BlockFacts
  <2>4. Slid(Sizes, S, p) = p
    BY <2>1, <2>2, <2>3, Packed
  <2> QED
    BY <2>4, ForwardIs
<1>3. ASSUME NEW p \in Permanents \cap Blocks
      PROVE  Moved(S, p) = p
  <2>1. p \in S /\ p \in Word /\ p \in Nat /\ Sizes[p] \in Nat \ {0}
    BY ContainingIs, BlockFacts
  <2>2. p <= p /\ p < p + Sizes[p] /\ p + (p - p) = p
    BY <2>1
  <2>3. Moved(S, p) = Forward(S, p) + (p - p)
    BY <2>1, <2>2, MovedIs
  <2> QED
    BY <1>2, <2>2, <2>3
<1>4. Moved(S, Null) = Null
  BY ContainingIs DEF Moved
<1> QED
  BY <1>1, <1>2, <1>3, <1>4

LEMMA PlacedLaid ==
    ASSUME program \in Programs, NEW h, NEW B, NEW top, Laid(HeapWords, Structs, h, B, top),
           NEW kind \in Word, NEW detail \in Word, NEW fill \in Word, IsHeader(kind, detail),
           Fits(top, Words(kind, detail))
    PROVE  Laid(HeapWords, Structs, Placed(h, top, kind, detail, fill),
                B \cup {top + Header}, top + Header + Words(kind, detail))
<1> DEFINE n   == HeapWords
           w   == WordsFor(Structs, kind, detail)
           new == top + Header
           end == new + w
           h2  == Placed(h, top, kind, detail, fill)
<1>1. n \in Nat /\ GoodStructs(Structs)
  BY ProgramFacts
<1>2. Words(kind, detail) = w /\ HeaderFor(Structs, kind, detail)
  BY WordsAre
<1>3. detail \in Nat
  BY WordNat
<1>4. w \in Nat \ {0}
  <2> HIDE DEF w
  <2>1. WordsFor(Structs, kind, detail) \in Nat \ {0}
    BY <1>1, <1>2, <1>3, WordsType
  <2> QED
    BY <2>1 DEF w
<1>5. h \in [0 .. n - 1 -> Word] /\ top \in HeapStart .. n
  BY DEF Laid
<1>6. h2 = [a \in DOMAIN h |->
              CASE a = top     -> kind
                [] a = top + 1 -> detail
                [] a \in (top + Header) .. (top + Header + w - 1) -> fill
                [] OTHER       -> h[a]]
  BY <1>2 DEF Placed
<1> HIDE DEF n, w, h2
<1>7. top \in Nat /\ n \in Nat /\ top <= n /\ 1 <= top
  BY <1>1, <1>5 DEF HeapStart
<1>8. top + 2 + w <= n /\ new = top + 2 /\ end = top + 2 + w
  BY <1>2 DEF Fits, Header, n
<1>9. h2 \in [0 .. n - 1 -> Word]
  <2>1. \A a \in 0 .. n - 1 : h[a] \in Word
    BY <1>5
  <2>2. DOMAIN h = 0 .. n - 1
    BY <1>5
  <2> DEFINE filled(a) == a \in (top + Header) .. (top + Header + w - 1)
  <2>3. ASSUME NEW a \in 0 .. n - 1
        PROVE  h2[a] \in Word
    <3>1. h2[a] = CASE a = top -> kind [] a = top + 1 -> detail [] filled(a) -> fill [] OTHER -> h[a]
      BY <1>6, <2>2
    <3> HIDE DEF filled
    <3>2. h2[a] \in {kind, detail, fill, h[a]}
      BY <3>1
    <3> QED
      BY <2>1, <3>2
  <2> DEFINE word(a) == CASE a = top -> kind [] a = top + 1 -> detail [] filled(a) -> fill [] OTHER -> h[a]
  <2>a. h2 = [a \in DOMAIN h |-> word(a)]
    BY <1>6
  <2> HIDE DEF word
  <2>4. DOMAIN h2 = 0 .. n - 1 /\ h2 = [a \in DOMAIN h2 |-> h2[a]]
    BY <2>2, <2>a
  <2> QED
    BY <2>3, <2>4
<1>10. h2[top] = kind /\ h2[top + 1] = detail
  <2>1. top \in DOMAIN h /\ top + 1 \in DOMAIN h /\ top + 1 # top
    BY <1>4, <1>5, <1>7, <1>8
  <2> DEFINE filled(a) == a \in (top + Header) .. (top + Header + w - 1)
  <2>2. \A a \in DOMAIN h :
           h2[a] = CASE a = top -> kind [] a = top + 1 -> detail [] filled(a) -> fill [] OTHER -> h[a]
    BY <1>6
  <2> DEFINE next == top + 1
  <2>3. next \in DOMAIN h /\ next # top /\ ~filled(top) /\ ~filled(next)
    BY <1>7, <2>1 DEF Header
  <2>4. \A a \in DOMAIN h :
           h2[a] = CASE a = top -> kind [] a = next -> detail [] filled(a) -> fill [] OTHER -> h[a]
    BY <2>2
  <2> HIDE DEF filled, next
  <2>5. h2[top] = kind
    BY <2>1, <2>3, <2>4
  <2>6. h2[next] = detail
    BY <2>3, <2>4
  <2> QED
    BY <2>5, <2>6 DEF next
<1>11. ASSUME NEW a \in 0 .. n - 1, a < top \/ end <= a
       PROVE  h2[a] = h[a]
  <2>1. a \in DOMAIN h /\ a # top /\ a # top + 1 /\ a \notin (top + Header) .. (top + Header + w - 1)
    BY <1>4, <1>5, <1>7, <1>8, <1>11 DEF Header
  <2> DEFINE filled(b) == b \in (top + Header) .. (top + Header + w - 1)
  <2>2. \A b \in DOMAIN h :
           h2[b] = CASE b = top -> kind [] b = top + 1 -> detail [] filled(b) -> fill [] OTHER -> h[b]
    BY <1>6
  <2>3. ~filled(a)
    BY <2>1
  <2> HIDE DEF filled
  <2> QED
    BY <2>1, <2>2, <2>3
<1>12. end <= n
  BY <1>8
<1> HIDE DEF new, end
<1>13. Laid(n, Structs, h2, B \cup {new}, end)
  <2>1. new = top + Header /\ end = new + WordsFor(Structs, kind, detail)
    BY DEF new, end, w
  <2>2. n \in Nat /\ Laid(n, Structs, h, B, top)
    BY <1>7 DEF n
  <2> QED
    BY <1>1, <1>2, <1>9, <1>10, <1>11, <1>12, <2>1, <2>2, LaidPlaced
<1> QED
  BY <1>2, <1>13 DEF n, new, end, h2

-----------------------------------------------------------------------------
(* What a collection and an allocation leave of the rest.                  *)

LEMMA StackMoved ==
    ASSUME program \in Programs, HeapInv, NEW S, S \subseteq Blocks, NEW st \in Seq(TaggedWords)
    PROVE  CollectedStack(S, st) \in Seq(TaggedWords) /\ Len(CollectedStack(S, st)) = Len(st)
<1> DEFINE st2 == CollectedStack(S, st)
<1>1. DOMAIN st = 1 .. Len(st) /\ Len(st) \in Nat
  OBVIOUS
<1>2. ASSUME NEW i \in 1 .. Len(st)
      PROVE  st2[i] \in TaggedWords
  <2>1. st[i] \in TaggedWords
    BY <1>1
  <2>2. st[i].w \in Word /\ Moved(S, st[i].w) \in Word
    <3>1. st[i].w \in Word
      BY <2>1 DEF TaggedWords
    <3> QED
      BY <3>1, MovedIs
  <2>3. [st[i] EXCEPT !.w = Moved(S, @)] \in TaggedWords
    BY <2>1, <2>2 DEF TaggedWords
  <2>4. st2[i] = IF st[i].ref THEN [st[i] EXCEPT !.w = Moved(S, @)] ELSE st[i]
    BY <1>1 DEF CollectedStack
  <2> QED
    BY <2>1, <2>3, <2>4
<1>3. DOMAIN st2 = 1 .. Len(st) /\ st2 = [i \in DOMAIN st2 |-> st2[i]]
  BY <1>1 DEF CollectedStack
<1> HIDE DEF st2
<1>4. st2 \in [1 .. Len(st) -> TaggedWords]
  BY <1>2, <1>3
<1>5. st2 \in Seq(TaggedWords) /\ Len(st2) = Len(st)
  BY <1>1, <1>3, <1>4
<1> QED
  BY <1>5 DEF st2

LEMMA FrameIs ==
    ASSUME NEW funs, NEW fr
    PROVE  fr \in FramesOf(funs)
             <=> /\ fr = [fn |-> fr.fn, locals |-> fr.locals, base |-> fr.base]
                 /\ fr.fn \in DOMAIN funs /\ fr.base \in Nat
                 /\ fr.locals \in [1 .. funs[fr.fn].locals -> Word]
BY DEF FramesOf

LEMMA FramesMoved ==
    ASSUME program \in Programs, HeapInv, NEW S, S \subseteq Blocks, frames \in Seq(FramesOf(Funs))
    PROVE  /\ CollectedFrames(S) \in Seq(FramesOf(Funs)) /\ Len(CollectedFrames(S)) = Len(frames)
           /\ \A i \in 1 .. Len(frames) : CollectedFrames(S)[i].base = frames[i].base
<1> DEFINE moved(i) == [s \in DOMAIN frames[i].locals |->
                           IF s \in Refs(frames[i].fn) THEN Moved(S, frames[i].locals[s])
                                                       ELSE frames[i].locals[s]]
           fr2      == CollectedFrames(S)
<1>1. DOMAIN frames = 1 .. Len(frames) /\ Len(frames) \in Nat
  OBVIOUS
<1>2. \A i \in 1 .. Len(frames) : fr2[i] = [frames[i] EXCEPT !.locals = moved(i)]
  BY <1>1 DEF CollectedFrames
<1>3. DOMAIN fr2 = 1 .. Len(frames) /\ fr2 = [i \in DOMAIN fr2 |-> fr2[i]]
  BY <1>1 DEF CollectedFrames
<1> HIDE DEF fr2
<1>4. ASSUME NEW i \in 1 .. Len(frames)
      PROVE  fr2[i] \in FramesOf(Funs) /\ fr2[i].base = frames[i].base
  <2> DEFINE fr == frames[i]
             n  == Funs[fr.fn].locals
  <2>1. fr \in FramesOf(Funs)
    BY <1>1
  <2>2. /\ fr = [fn |-> fr.fn, locals |-> fr.locals, base |-> fr.base]
        /\ fr.fn \in DOMAIN Funs /\ fr.base \in Nat /\ fr.locals \in [1 .. n -> Word]
    BY <2>1, FrameIs
  <2>3. moved(i) \in [1 .. n -> Word]
    <3>1. ASSUME NEW s \in 1 .. n
          PROVE  (IF s \in Refs(frames[i].fn) THEN Moved(S, frames[i].locals[s])
                                              ELSE frames[i].locals[s]) \in Word
      <4>1. frames[i].locals[s] \in Word
        BY <2>2
      <4> QED
        BY <4>1, MovedIs
    <3>2. DOMAIN frames[i].locals = 1 .. n
      BY <2>2
    <3> HIDE DEF n
    <3> QED
      BY <3>1, <3>2
  <2> HIDE DEF moved
  <2>4. fr2[i] = [fn |-> fr.fn, locals |-> moved(i), base |-> fr.base]
    BY <1>2, <2>2
  <2> HIDE DEF fr
  <2>5. fr2[i] \in FramesOf(Funs) /\ fr2[i].base = fr.base
    BY <2>2, <2>3, <2>4, FrameIs
  <2> QED
    BY <2>5 DEF fr
<1>5. fr2 \in [1 .. Len(frames) -> FramesOf(Funs)]
  BY <1>3, <1>4
<1>6. fr2 \in Seq(FramesOf(Funs)) /\ Len(fr2) = Len(frames)
  BY <1>1, <1>3, <1>5
<1> QED
  BY <1>4, <1>6 DEF fr2

\* PermanentInv in the terms of the next state, for blocks that slide.
LEMMA PermanentKept ==
    ASSUME program \in Programs, HeapInv, PermanentInv, UNCHANGED <<program, literals, variants>>,
           status' # "starting",
           NEW S, S \subseteq Blocks, Permanents \cap Blocks \subseteq S,
           NEW N, Blocks' = {Forward(S, p) : p \in S} \cup N,
           \A x \in N : \A w \in Permanents : ~(x <= w)
    PROVE  PermanentInv'
<1>1. Permanents' = Permanents
  BY DEF Permanents
<1>2. \A p \in Permanents \cap Blocks : p \in Blocks'
  <2>1. \A p \in Permanents \cap Blocks : Forward(S, p) = p /\ p \in S
    BY PermanentsStill
  <2> QED
    BY <2>1
<1>3. literals \in Seq(Blocks) /\ variants \in [DOMAIN Structs -> Blocks \cup {Null}]
  BY DEF PermanentInv
<1>4. literals' \in Seq(Blocks')
  <2>1. \A i \in 1 .. Len(literals) : literals[i] \in Permanents \cap Blocks
    BY <1>3 DEF Permanents
  <2>2. literals = [i \in 1 .. Len(literals) |-> literals[i]] /\ Len(literals) \in Nat
    BY <1>3
  <2>3. \A i \in 1 .. Len(literals) : literals[i] \in Blocks'
    BY <1>2, <2>1
  <2>4. literals \in [1 .. Len(literals) -> Blocks']
    BY <2>2, <2>3
  <2>5. literals \in Seq(Blocks')
    BY <2>2, <2>4
  <2> QED
    BY <2>5
<1>5. variants' \in [DOMAIN Structs' -> Blocks' \cup {Null}]
  <2>1. \A t \in DOMAIN Structs : variants[t] = Null \/ variants[t] \in Permanents \cap Blocks
    BY <1>3 DEF Permanents
  <2>2. \A t \in DOMAIN Structs : variants[t] \in Blocks' \cup {Null}
    BY <1>2, <2>1
  <2>3. variants \in [DOMAIN Structs -> Blocks' \cup {Null}]
    BY <1>3, <2>2
  <2>4. Structs' = Structs
    BY DEF Structs
  <2> QED
    BY <2>3, <2>4
<1>6. ASSUME NEW b \in Blocks', NEW w \in Permanents, b <= w
      PROVE  b \in Permanents
  <2>1. PICK p \in S : b = Forward(S, p)
    BY <1>6
  <2>2. w \in Permanents \cap Blocks
    <3>1. w = Null \/ w \in Blocks
      BY <1>3 DEF Permanents
    <3>2. 3 <= b /\ b \in Nat
      BY <2>1, Forwards
    <3> QED
      BY <1>6, <3>1, <3>2 DEF Null
  <2>3. w \in S /\ Forward(S, w) = w
    BY <2>2, PermanentsStill
  <2>4. p <= w
    <3>1. /\ p \in Nat /\ w \in Nat /\ Sizes[w] \in Nat /\ Forward(S, p) \in Nat
      BY <2>1, <2>2, BlockFacts, Forwards
    <3>2. w < p => Forward(S, w) + Sizes[w] + Header <= Forward(S, p)
      BY <2>1, <2>3, Forwards
    <3> QED
      BY <1>6, <2>1, <2>3, <3>1, <3>2 DEF Header
  <2>5. p \in Permanents \cap Blocks
    BY <2>4 DEF PermanentInv
  <2>6. Forward(S, p) = p
    BY <2>5, PermanentsStill
  <2> QED
    BY <2>1, <2>5, <2>6
<1> QED
  BY <1>1, <1>4, <1>5, <1>6 DEF PermanentInv, Starting

LEMMA KeptWhole ==
    ASSUME program \in Programs, HeapInv
    PROVE  {Forward(Blocks, p) : p \in Blocks} = Blocks /\ CollectedTop(Blocks) <= heap_ptr
<1>1. ASSUME NEW p \in Blocks
      PROVE  Forward(Blocks, p) = p
  <2>1. Tiles(Blocks, Sizes, heap_ptr)
    BY BlockFacts
  <2>2. Slid(Sizes, Blocks, p) = p
    BY <2>1, Packed
  <2> QED
    BY <2>2, ForwardIs
<1>2. CollectedTop(Blocks) <= heap_ptr
  BY Forwards
<1> QED
  BY <1>1, <1>2

LEMMA PermanentsMarked ==
    ASSUME program \in Programs, HeapInv, NEW st
    PROVE  Permanents \cap Blocks \subseteq Marked(st)
<1>1. \A w \in Permanents \cap Blocks : w \in RootWords(st) /\ Containing(w) = {w}
  BY ContainingIs DEF RootWords
<1> QED
  BY <1>1, MarkedIs

\* Whatever survives, the permanent objects lie below a block put on top.
LEMMA PermanentsBelow ==
    ASSUME program \in Programs, HeapInv, PermanentInv, NEW S, S \subseteq Blocks,
           Permanents \cap Blocks \subseteq S
    PROVE  \A w \in Permanents : w < CollectedTop(S) + Header
<1> SUFFICES ASSUME NEW w \in Permanents
             PROVE  w < CollectedTop(S) + Header
  OBVIOUS
<1>1. CollectedTop(S) \in Nat
  BY Forwards
<1>2. CASE w = Null
  BY <1>1, <1>2 DEF Null, Header
<1>3. CASE w \in Blocks
  <2>1. w \in S /\ Forward(S, w) = w
    BY <1>3, PermanentsStill
  <2>2. w \in Nat /\ Sizes[w] \in Nat /\ Forward(S, w) + Sizes[w] <= CollectedTop(S)
    BY <2>1, BlockFacts, Forwards
  <2> QED
    BY <1>1, <2>1, <2>2 DEF Header
<1>4. w = Null \/ w \in Blocks
  BY DEF PermanentInv, Permanents
<1> QED
  BY <1>2, <1>3, <1>4

LEMMA RootsKept ==
    ASSUME program \in Programs, HeapInv, PermanentInv, NEW S, S \subseteq Blocks,
           Permanents \cap Blocks \subseteq S, CollectRoots(S)
    PROVE  literals' = literals /\ variants' = variants
<1>1. literals \in Seq(Blocks) /\ variants \in [DOMAIN Structs -> Blocks \cup {Null}]
  BY DEF PermanentInv
<1>2. \A w \in Permanents : Moved(S, w) = w
  BY PermanentsStill
<1>3. literals' = literals
  <2>1. literals' = [i \in DOMAIN literals |-> Moved(S, literals[i])]
    BY DEF CollectRoots
  <2>2. \A i \in DOMAIN literals : Moved(S, literals[i]) = literals[i]
    BY <1>2 DEF Permanents
  <2>3. literals = [i \in DOMAIN literals |-> literals[i]]
    BY <1>1
  <2> QED
    BY <2>1, <2>2, <2>3
<1>4. variants' = variants
  <2>1. variants' = [i \in DOMAIN variants |-> Moved(S, variants[i])]
    BY DEF CollectRoots
  <2>2. \A i \in DOMAIN variants : Moved(S, variants[i]) = variants[i]
    BY <1>2 DEF Permanents
  <2>3. variants = [i \in DOMAIN variants |-> variants[i]]
    BY <1>1
  <2> QED
    BY <2>1, <2>2, <2>3
<1> QED
  BY <1>3, <1>4

\* What an allocation finds on the operand stack: the frames keep theirs.
OperandsOf(st) ==
    /\ st \in Seq(TaggedWords)
    /\ \A i \in 1 .. Len(frames) : frames[i].base <= Len(st)

LEMMA FramesKept ==
    ASSUME program \in Programs, HeapInv, FramesInv, UNCHANGED program, NEW S, S \subseteq Blocks,
           frames' = CollectedFrames(S), NEW n \in Nat,
           \A i \in 1 .. Len(frames) : frames[i].base <= n, n <= Len(stack'), Len(stack') \in Nat
    PROVE  FramesInv'
<1>1. /\ frames \in Seq(FramesOf(Funs)) /\ frames # <<>>
      /\ \A i, j \in 1 .. Len(frames) : i <= j => frames[i].base <= frames[j].base
  BY DEF FramesInv
<1>2. /\ frames' \in Seq(FramesOf(Funs)) /\ Len(frames') = Len(frames)
      /\ \A i \in 1 .. Len(frames) : frames'[i].base = frames[i].base
  BY <1>1, FramesMoved
<1>3. Funs' = Funs
  BY DEF Funs
<1>4. frames' # <<>>
  <2>1. Len(frames) # 0
    BY <1>1
  <2> QED
    BY <1>2, <2>1
<1>5. \A i \in 1 .. Len(frames) : frames[i].base \in Nat
  BY <1>1, FrameIs
<1>6. \A i \in 1 .. Len(frames') : frames'[i].base <= Len(stack')
  BY <1>2, <1>5
<1>7. \A i, j \in 1 .. Len(frames') : i <= j => frames'[i].base <= frames'[j].base
  BY <1>1, <1>2
<1> QED
  BY <1>2, <1>3, <1>4, <1>6, <1>7 DEF FramesInv

LEMMA CollectionKeeps ==
    ASSUME IInv, NEW st, OperandsOf(st), Collected(Marked(st), st), program' = program,
           status' \in {"running", "faulted"}
    PROVE  IInv'
<1> DEFINE S == Marked(st)
<1>1. program \in Programs /\ HeapInv /\ FramesInv /\ PermanentInv
  BY DEF IInv
<1>2. S \subseteq Blocks /\ Permanents \cap Blocks \subseteq S
  BY <1>1, MarkedIs, PermanentsMarked
<1>3. /\ heap' = CollectedHeap(S) /\ heap_ptr' = CollectedTop(S)
      /\ stack' = CollectedStack(S, st) /\ ids' = CollectedIds(S) /\ CollectRoots(S)
  BY DEF Collected
<1> HIDE DEF S
<1>4. HeapInv'
  <2>1. /\ Laid(HeapWords, Structs, CollectedHeap(S), {Forward(S, p) : p \in S}, CollectedTop(S))
        /\ Blocks' = {Forward(S, p) : p \in S}
    BY <1>1, <1>2, <1>3, CollectedLaid DEF Blocks
  <2>2. HeapWords' = HeapWords /\ Structs' = Structs
    BY DEF HeapWords, Structs
  <2> QED
    BY <1>3, <2>1, <2>2 DEF HeapInv
<1>5. stack' \in Seq(TaggedWords) /\ Len(stack') = Len(st) /\ Len(st) \in Nat
  <2>1. st \in Seq(TaggedWords)
    BY DEF OperandsOf
  <2> QED
    BY <1>1, <1>2, <1>3, <2>1, StackMoved
<1>6. FramesInv'
  <2>1. \A i \in 1 .. Len(frames) : frames[i].base <= Len(st)
    BY DEF OperandsOf
  <2>2. frames' = CollectedFrames(S)
    BY <1>3 DEF CollectRoots
  <2> QED
    BY <1>1, <1>2, <1>5, <2>1, <2>2, FramesKept
<1>7. PermanentInv'
  <2>1. literals' = literals /\ variants' = variants
    BY <1>1, <1>2, <1>3, RootsKept
  <2> DEFINE N == {}
  <2>2. Blocks' = {Forward(S, p) : p \in S} \cup N
    BY <1>1, <1>2, <1>3, CollectedLaid DEF Blocks
  <2>3. status' # "starting"
    OBVIOUS
  <2>4. UNCHANGED <<program, literals, variants>>
    BY <2>1
  <2>5. \A x \in N : \A w \in Permanents : ~(x <= w)
    OBVIOUS
  <2> HIDE DEF N
  <2> QED
    BY <1>1, <1>2, <2>2, <2>3, <2>4, <2>5, PermanentKept
<1> QED
  BY <1>1, <1>4, <1>5, <1>6, <1>7 DEF IInv, StackInv

\* What a block at `top` needs: a header that is two words, and its room.
Allocates(kind, detail, fill) ==
    /\ kind \in {Struct, Raw, String, RefArray, ValArray}
    /\ IF kind = Struct THEN detail \in DOMAIN Structs ELSE detail \in Nat
    /\ fill \in {0, 1} /\ (kind \in {Struct, RefArray} => fill = 0)

LEMMA HeaderFits ==
    ASSUME program \in Programs, NEW kind, NEW detail, NEW fill, Allocates(kind, detail, fill),
           NEW top \in Nat, Fits(top, Words(kind, detail))
    PROVE  /\ kind \in Word /\ detail \in Word /\ fill \in Word /\ IsHeader(kind, detail)
           /\ top + Header \in Word /\ Words(kind, detail) \in Nat \ {0}
<1>1. HeapWords \in Nat /\ HeapWords <= 32768 /\ GoodStructs(Structs) /\ DOMAIN Structs \subseteq Word
  BY ProgramFacts
<1>2. kind \in Nat /\ kind <= 4
  BY DEF Allocates, Struct, Raw, String, RefArray, ValArray
<1>3. kind \in Word
  BY <1>2, WordNat
<1>4. fill \in Word
  BY WordNat DEF Allocates
<1>5. IsHeader(kind, detail)
  BY DEF Allocates, IsHeader
<1>6. detail \in Nat
  BY <1>1, WordNat DEF Allocates
<1>7. Words(kind, detail) \in Nat \ {0}
  <2>1. WordsFor(Structs, kind, detail) \in Nat \ {0}
    BY <1>1, <1>5, <1>6, WordsType, WordsAre
  <2> QED
    BY <2>1, WordsAre
<1>8. top + 2 + Words(kind, detail) <= HeapWords
  BY DEF Fits, Header
<1>9. top + Header \in Word
  <2> DEFINE w == Words(kind, detail)
  <2> HIDE DEF w
  <2>1. w \in Nat /\ top + 2 + w <= 32768
    BY <1>1, <1>7, <1>8 DEF w
  <2>2. top + 2 \in Nat /\ top + 2 <= 65535
    BY <2>1
  <2> QED
    BY <2>2, WordNat DEF Header
<1>10. detail \in Word
  <2>1. CASE kind = Struct
    BY <1>1, <2>1 DEF Allocates
  <2>2. CASE kind # Struct
    <3>1. Words(kind, detail) = Larger(MinWords, detail) \/ Words(kind, detail) = Larger(MinWords, HalfUp(detail))
      BY <2>2 DEF Words
    <3>2. detail <= 2 * HalfUp(detail) /\ HalfUp(detail) \in Nat
      BY <1>6 DEF HalfUp
    <3>3. \A n \in Nat : n <= Larger(MinWords, n)
      BY DEF Larger, MinWords
    <3>4. detail <= 2 * Words(kind, detail)
      <4> DEFINE w == Words(kind, detail)
                 h == HalfUp(detail)
      <4>1. detail <= w \/ h <= w
        BY <1>6, <3>1, <3>2, <3>3
      <4>2. w \in Nat /\ h \in Nat /\ detail <= 2 * h
        BY <1>7, <3>2
      <4> HIDE DEF w, h
      <4>3. detail <= 2 * w
        BY <1>6, <4>1, <4>2
      <4> QED
        BY <4>3 DEF w
    <3>5. detail <= 65535
      <4> DEFINE w == Words(kind, detail)
      <4>1. w \in Nat /\ detail <= 2 * w /\ top + 2 + w <= HeapWords
        BY <1>7, <1>8, <3>4
      <4> HIDE DEF w
      <4> QED
        BY <1>1, <1>6, <4>1
    <3> QED
      BY <1>6, <3>5, WordNat
  <2> QED
    BY <2>1, <2>2
<1> QED
  BY <1>3, <1>4, <1>5, <1>7, <1>9, <1>10

LEMMA ReserveKeeps ==
    ASSUME IInv, Running, NEW st, OperandsOf(st), NEW kind, NEW detail, NEW fill,
           Allocates(kind, detail, fill), Reserve(st, kind, detail, fill)
    PROVE  IInv'
<1>1. program \in Programs /\ HeapInv /\ FramesInv /\ PermanentInv /\ StackInv
  BY DEF IInv
<1>2. st \in Seq(TaggedWords) /\ \A i \in 1 .. Len(frames) : frames[i].base <= Len(st)
  BY DEF OperandsOf
<1>3. /\ \A p : New(p) = [w |-> p, ref |-> TRUE]
      /\ \A p \in Word : New(p) \in TaggedWords
  BY DEF New, TaggedWords
<1>4. CASE ReserveNow(st, kind, detail, fill)
  <2> DEFINE p == heap_ptr + Header
  <2>1. /\ Fits(heap_ptr, Words(kind, detail))
        /\ heap' = Placed(heap, heap_ptr, kind, detail, fill)
        /\ heap_ptr' = p + Words(kind, detail)
        /\ stack' = Append(st, New(p))
        /\ ids' = Named(ids, p)
        /\ UNCHANGED <<program, frames, literals, variants, status>>
    BY <1>4 DEF ReserveNow
  <2>2. heap_ptr \in Nat
    BY <1>1, BlockFacts
  <2>3. kind \in Word /\ detail \in Word /\ fill \in Word /\ IsHeader(kind, detail) /\ p \in Word
    BY <1>1, <2>1, <2>2, HeaderFits
  <2>4. Blocks' = Blocks \cup {p}
    BY <2>1 DEF Blocks, Named
  <2>5. HeapInv'
    <3>1. Laid(HeapWords, Structs, heap, Blocks, heap_ptr)
      BY <1>1 DEF HeapInv
    <3>2. Laid(HeapWords, Structs, Placed(heap, heap_ptr, kind, detail, fill),
               Blocks \cup {heap_ptr + Header}, heap_ptr + Header + Words(kind, detail))
      BY <1>1, <2>1, <2>3, <3>1, PlacedLaid
    <3>3. HeapWords' = HeapWords /\ Structs' = Structs
      BY <2>1 DEF HeapWords, Structs
    <3> QED
      BY <2>1, <2>4, <3>2, <3>3 DEF HeapInv
  <2> HIDE DEF p
  <2>6. stack' \in Seq(TaggedWords) /\ Len(stack') = Len(st) + 1 /\ Len(st) \in Nat
    BY <1>2, <1>3, <2>1, <2>3
  <2>7. FramesInv'
    <3>1. Funs' = Funs /\ frames' = frames
      BY <2>1 DEF Funs
    <3>2. \A i \in 1 .. Len(frames) : frames[i].base \in Nat
      BY <1>1, FrameIs DEF FramesInv
    <3>3. \A i \in 1 .. Len(frames) : frames[i].base <= Len(stack')
      BY <1>2, <2>6, <3>2
    <3> QED
      BY <1>1, <3>1, <3>3 DEF FramesInv
  <2>8. PermanentInv'
    <3>1. Blocks' = {Forward(Blocks, q) : q \in Blocks} \cup {p} /\ CollectedTop(Blocks) <= heap_ptr
      BY <1>1, <2>4, KeptWhole
    <3>2. \A w \in Permanents : ~(p <= w)
      <4>1. \A w \in Permanents : w < CollectedTop(Blocks) + Header
        BY <1>1, PermanentsBelow
      <4>2. CollectedTop(Blocks) \in Nat /\ \A w \in Permanents : w \in Nat
        <5>1. \A w \in Permanents : w \in Blocks \/ w = Null
          BY <1>1 DEF PermanentInv, Permanents
        <5> QED
          BY <1>1, <5>1, BlockFacts, Forwards DEF Null
      <4> QED
        BY <2>2, <3>1, <4>1, <4>2 DEF p, Header
    <3>3. status' # "starting" /\ UNCHANGED <<program, literals, variants>>
      BY <2>1 DEF Running
    <3>4. Permanents \cap Blocks \subseteq Blocks /\ \A x \in {p} : \A w \in Permanents : ~(x <= w)
      BY <3>2
    <3> QED
      BY <1>1, <3>1, <3>3, <3>4, PermanentKept
  <2>9. program' \in Programs /\ status' \in {"starting", "running", "faulted"}
    BY <1>1, <2>1 DEF IInv
  <2> QED
    BY <2>5, <2>6, <2>7, <2>8, <2>9 DEF IInv, StackInv
<1>5. CASE ReserveLater(st, kind, detail, fill)
  <2> DEFINE S == Marked(st)
             p == CollectedTop(S) + Header
  <2>1. /\ Fits(CollectedTop(S), Words(kind, detail))
        /\ heap' = Placed(CollectedHeap(S), CollectedTop(S), kind, detail, fill)
        /\ heap_ptr' = p + Words(kind, detail)
        /\ stack' = Append(CollectedStack(S, st), New(p))
        /\ ids' = Named(CollectedIds(S), p)
        /\ CollectRoots(S)
        /\ UNCHANGED <<program, status>>
    BY <1>5 DEF ReserveLater
  <2>2. S \subseteq Blocks /\ Permanents \cap Blocks \subseteq S
    BY <1>1, MarkedIs, PermanentsMarked
  <2> HIDE DEF S
  <2>3. CollectedTop(S) \in Nat
    BY <1>1, <2>2, Forwards
  <2>4. kind \in Word /\ detail \in Word /\ fill \in Word /\ IsHeader(kind, detail) /\ p \in Word
    BY <1>1, <2>1, <2>3, HeaderFits
  <2>5. /\ Laid(HeapWords, Structs, CollectedHeap(S), {Forward(S, q) : q \in S}, CollectedTop(S))
        /\ DOMAIN CollectedIds(S) = {Forward(S, q) : q \in S}
    BY <1>1, <2>2, CollectedLaid
  <2>6. Blocks' = {Forward(S, q) : q \in S} \cup {p}
    BY <2>1, <2>5 DEF Blocks, Named
  <2>7. HeapInv'
    <3>2. Laid(HeapWords, Structs, Placed(CollectedHeap(S), CollectedTop(S), kind, detail, fill),
               {Forward(S, q) : q \in S} \cup {CollectedTop(S) + Header},
               CollectedTop(S) + Header + Words(kind, detail))
      BY <1>1, <2>1, <2>4, <2>5, PlacedLaid
    <3>3. HeapWords' = HeapWords /\ Structs' = Structs
      BY <2>1 DEF HeapWords, Structs
    <3> QED
      BY <2>1, <2>6, <3>2, <3>3 DEF HeapInv
  <2>8. stack' \in Seq(TaggedWords) /\ Len(stack') = Len(st) + 1 /\ Len(st) \in Nat
    <3>1. CollectedStack(S, st) \in Seq(TaggedWords) /\ Len(CollectedStack(S, st)) = Len(st)
      BY <1>1, <1>2, <2>2, StackMoved
    <3> HIDE DEF p
    <3> QED
      BY <1>2, <1>3, <2>1, <2>4, <3>1
  <2>9. literals' = literals /\ variants' = variants
    BY <1>1, <2>1, <2>2, RootsKept
  <2>10. FramesInv'
    <3>1. frames' = CollectedFrames(S) /\ program' = program
      BY <2>1 DEF CollectRoots
    <3>2. Len(st) <= Len(stack') /\ Len(stack') \in Nat
      BY <2>8
    <3> QED
      BY <1>1, <1>2, <2>2, <2>8, <3>1, <3>2, FramesKept
  <2>11. PermanentInv'
    <3>1. \A w \in Permanents : ~(p <= w)
      <4>1. \A w \in Permanents : w < CollectedTop(S) + Header
        BY <1>1, <2>2, PermanentsBelow
      <4>2. \A w \in Permanents : w \in Nat
        <5>1. \A w \in Permanents : w \in Blocks \/ w = Null
          BY <1>1 DEF PermanentInv, Permanents
        <5> QED
          BY <1>1, <5>1, BlockFacts DEF Null
      <4> QED
        BY <2>3, <4>1, <4>2 DEF Header
    <3>2. status' # "starting" /\ UNCHANGED <<program, literals, variants>>
      BY <2>1, <2>9 DEF Running
    <3>3. \A x \in {p} : \A w \in Permanents : ~(x <= w)
      BY <3>1
    <3> HIDE DEF p
    <3> QED
      BY <1>1, <2>2, <2>6, <3>2, <3>3, PermanentKept
  <2>12. program' \in Programs /\ status' \in {"starting", "running", "faulted"}
    BY <1>1, <2>1 DEF IInv
  <2> QED
    BY <2>7, <2>8, <2>10, <2>11, <2>12 DEF IInv, StackInv
<1>6. CASE ReserveNever(st, kind, detail)
  <2>1. Collected(Marked(st), st) /\ program' = program /\ status' = "faulted"
    BY <1>6 DEF ReserveNever
  <2> QED
    BY <2>1, CollectionKeeps
<1> QED
  BY <1>4, <1>5, <1>6 DEF Reserve

-----------------------------------------------------------------------------
(* The instructions.                                                       *)

LEMMA TopFrame ==
    ASSUME IInv
    PROVE  /\ Len(frames) \in Nat /\ 1 <= Len(frames) /\ Frame = frames[Len(frames)]
           /\ Frame \in FramesOf(Funs) /\ Frame.base \in Nat
           /\ Frame.fn \in DOMAIN Funs /\ Frame.locals \in [1 .. Funs[Frame.fn].locals -> Word]
           /\ \A i \in 1 .. Len(frames) : frames[i].base \in Nat /\ frames[i].base <= Frame.base
<1>1. /\ frames \in Seq(FramesOf(Funs)) /\ frames # <<>>
      /\ \A i, j \in 1 .. Len(frames) : i <= j => frames[i].base <= frames[j].base
  BY DEF IInv, FramesInv
<1>2. Len(frames) \in Nat /\ 1 <= Len(frames)
  BY <1>1
<1>3. Frame = frames[Len(frames)]
  BY DEF Frame, Last
<1>4. \A i \in 1 .. Len(frames) : frames[i] \in FramesOf(Funs)
  BY <1>1
<1>5. Len(frames) \in 1 .. Len(frames)
  BY <1>2
<1>6. Frame \in FramesOf(Funs)
  BY <1>3, <1>4, <1>5
<1>7. /\ Frame.base \in Nat /\ Frame.fn \in DOMAIN Funs
      /\ Frame.locals \in [1 .. Funs[Frame.fn].locals -> Word]
  BY <1>6, FrameIs
<1>8. \A i \in 1 .. Len(frames) : frames[i].base \in Nat
  BY <1>4, FrameIs
<1>9. \A i \in 1 .. Len(frames) : frames[i].base <= Frame.base
  <2> HIDE DEF Frame
  <2>1. \A i \in 1 .. Len(frames) : i <= Len(frames)
    BY <1>2
  <2> QED
    BY <1>1, <1>3, <1>5, <2>1
<1> QED
  BY <1>2, <1>3, <1>6, <1>7, <1>8, <1>9

LEMMA Taken ==
    ASSUME IInv, NEW k \in Nat, Has(k)
    PROVE  /\ Drop(stack, k) \in Seq(TaggedWords) /\ Len(Drop(stack, k)) = Len(stack) - k
           /\ Len(stack) \in Nat /\ k <= Len(stack) /\ Frame.base <= Len(stack) - k
           /\ \A j \in 1 .. k : Arg(j) \in TaggedWords
           /\ OperandsOf(Drop(stack, k))
<1>1. stack \in Seq(TaggedWords)
  BY DEF IInv, StackInv
<1>2. /\ Len(stack) \in Nat /\ Frame.base \in Nat
      /\ \A i \in 1 .. Len(frames) : frames[i].base \in Nat /\ frames[i].base <= Frame.base
  BY <1>1, TopFrame
<1>3. Len(stack) >= Frame.base + k
  BY DEF Has
<1> HIDE DEF Frame
<1>4. k <= Len(stack) /\ Frame.base <= Len(stack) - k
  BY <1>2, <1>3
<1>5. Drop(stack, k) \in Seq(TaggedWords) /\ Len(Drop(stack, k)) = Len(stack) - k
  BY <1>1, <1>2, <1>4 DEF Drop
<1>6. ASSUME NEW j \in 1 .. k
      PROVE  Arg(j) \in TaggedWords
  <2>1. Len(stack) - j + 1 \in 1 .. Len(stack)
    BY <1>2, <1>4
  <2> QED
    BY <1>1, <2>1 DEF Arg
<1>7. \A i \in 1 .. Len(frames) : frames[i].base <= Len(Drop(stack, k))
  BY <1>2, <1>4, <1>5
<1> QED
  BY <1>2, <1>4, <1>5, <1>6, <1>7 DEF OperandsOf

LEMMA ArgIs == \A v : v \in TaggedWords => v.w \in Word /\ v.ref \in BOOLEAN
BY DEF TaggedWords

\* A step that changes the operands and perhaps a word of a block.
LEMMA OperandsKeep ==
    ASSUME IInv, HeapInv', UNCHANGED <<program, frames, literals, variants, status, ids>>,
           stack' \in Seq(TaggedWords), Frame.base <= Len(stack')
    PROVE  IInv'
<1>1. FramesInv'
  <2>1. \A i \in 1 .. Len(frames) : frames[i].base <= Len(stack')
    <3>1. Len(stack') \in Nat
      OBVIOUS
    <3>2. Frame.base \in Nat /\ \A i \in 1 .. Len(frames) : frames[i].base \in Nat /\ frames[i].base <= Frame.base
      BY TopFrame
    <3> HIDE DEF Frame
    <3> QED
      BY <3>1, <3>2
  <2>2. frames' = frames /\ Funs' = Funs
    BY DEF Funs
  <2> QED
    BY <2>1, <2>2 DEF IInv, FramesInv
<1>2. PermanentInv'
  BY DEF IInv, PermanentInv, Permanents, Blocks, Starting, Structs
<1>3. program' \in Programs /\ status' \in {"starting", "running", "faulted"}
  BY DEF IInv
<1> QED
  BY <1>1, <1>2, <1>3 DEF IInv, StackInv

LEMMA HeapKept ==
    ASSUME HeapInv, UNCHANGED <<program, heap, heap_ptr, ids>>
    PROVE  HeapInv'
BY DEF HeapInv, HeapWords, Structs, Blocks

LEMMA StackKeeps ==
    ASSUME IInv, UNCHANGED <<Memory, frames>>,
           stack' \in Seq(TaggedWords), Frame.base <= Len(stack')
    PROVE  IInv'
<1>1. UNCHANGED <<program, heap, heap_ptr, literals, variants, status, ids>> /\ UNCHANGED frames
  BY DEF Memory
<1>2. HeapInv'
  BY <1>1, HeapKept DEF IInv
<1> QED
  BY <1>1, <1>2, OperandsKeep

LEMMA PushKeeps ==
    ASSUME IInv, NEW k \in Nat, Has(k), NEW w \in Word, NEW ref \in BOOLEAN, Push(k, w, ref),
           UNCHANGED <<Memory, frames>>
    PROVE  IInv'
<1>1. /\ Drop(stack, k) \in Seq(TaggedWords) /\ Len(Drop(stack, k)) = Len(stack) - k
      /\ Len(stack) \in Nat /\ Frame.base <= Len(stack) - k
  BY Taken
<1>2. [w |-> w, ref |-> ref] \in TaggedWords
  BY DEF TaggedWords
<1>3. stack' = Append(Drop(stack, k), [w |-> w, ref |-> ref])
  BY DEF Push
<1>4. stack' \in Seq(TaggedWords) /\ Len(stack') = Len(stack) - k + 1
  <2> DEFINE rest == Drop(stack, k)
             v    == [w |-> w, ref |-> ref]
  <2>1. rest \in Seq(TaggedWords) /\ v \in TaggedWords /\ stack' = Append(rest, v)
    BY <1>1, <1>2, <1>3
  <2>2. Len(rest) = Len(stack) - k
    BY <1>1
  <2> HIDE DEF rest, v
  <2>3. stack' \in Seq(TaggedWords) /\ Len(stack') = Len(rest) + 1
    BY <2>1
  <2> QED
    BY <2>2, <2>3
<1>5. Frame.base <= Len(stack')
  <2>1. Frame.base \in Nat
    BY TopFrame
  <2> HIDE DEF Frame
  <2> QED
    BY <1>1, <1>4, <2>1
<1> QED
  BY <1>4, <1>5, StackKeeps

LEMMA WriteKeeps ==
    ASSUME IInv, NEW k \in Nat, Has(k), stack' = Drop(stack, k),
           NEW p \in Blocks, NEW a \in p .. p + Sizes[p] - 1, NEW w \in Word,
           heap' = [heap EXCEPT ![a] = w],
           UNCHANGED <<program, frames, heap_ptr, literals, variants, status, ids>>
    PROVE  IInv'
<1>1. program \in Programs /\ Laid(HeapWords, Structs, heap, Blocks, heap_ptr)
  BY DEF IInv, HeapInv
<1>2. HeapWords \in Nat
  BY <1>1, ProgramFacts
<1>3. Laid(HeapWords, Structs, heap', Blocks, heap_ptr)
  BY <1>1, <1>2, LaidWritten DEF Sizes
<1>4. HeapInv'
  <2>1. HeapWords' = HeapWords /\ Structs' = Structs /\ Blocks' = Blocks /\ heap_ptr' = heap_ptr
    BY DEF HeapWords, Structs, Blocks
  <2> QED
    BY <1>3, <2>1 DEF HeapInv
<1>5. stack' \in Seq(TaggedWords) /\ Frame.base <= Len(stack')
  BY Taken
<1> QED
  BY <1>4, <1>5, OperandsKeep

\* A word inside a block.
LEMMA InBlock ==
    ASSUME IInv, NEW p \in Blocks, NEW o \in Nat, o < Sizes[p]
    PROVE  /\ p + o \in p .. p + Sizes[p] - 1 /\ p + o \in DOMAIN heap /\ heap[p + o] \in Word
<1>1. program \in Programs /\ HeapInv
  BY DEF IInv
<1>2. /\ p \in Nat /\ Sizes[p] \in Nat /\ p + Sizes[p] <= HeapWords /\ HeapWords \in Nat
      /\ DOMAIN heap = 0 .. HeapWords - 1
  <2>1. /\ p \in Nat /\ Sizes[p] \in Nat /\ p + Sizes[p] <= heap_ptr /\ heap_ptr <= HeapWords
        /\ heap_ptr \in Nat /\ DOMAIN heap = 0 .. HeapWords - 1
    BY <1>1, BlockFacts
  <2>2. HeapWords \in Nat
    BY <1>1, ProgramFacts
  <2>3. p + Sizes[p] <= HeapWords
    BY <2>1, <2>2
  <2> QED
    BY <2>1, <2>2, <2>3
<1>3. p + o \in p .. p + Sizes[p] - 1 /\ p + o \in DOMAIN heap
  BY <1>2
<1>4. heap[p + o] \in Word
  BY <1>1, <1>3, BlockFacts
<1> QED
  BY <1>3, <1>4

LEMMA IsBlock ==
    ASSUME IInv, NEW v, NEW kind, Is(v, kind)
    PROVE  /\ v.w \in Blocks /\ Kind(v.w) = kind /\ Detail(v.w) \in Word /\ Detail(v.w) \in Nat
           /\ kind = Struct => Structs[Detail(v.w)].size \in Nat /\ Structs[Detail(v.w)].size <= Sizes[v.w]
           /\ kind \in {RefArray, ValArray} => Detail(v.w) <= Sizes[v.w]
<1>1. program \in Programs /\ HeapInv
  BY DEF IInv
<1>2. v.w \in Blocks /\ Kind(v.w) = kind
  BY <1>1, StartsAre DEF Is
<1> DEFINE p == v.w
           d == Detail(p)
<1>3. d \in Word
  <2>1. p - 1 \in DOMAIN heap /\ \A a \in DOMAIN heap : heap[a] \in Word
    BY <1>1, <1>2, BlockFacts
  <2> QED
    BY <2>1 DEF Detail
<1>4. d \in Nat
  BY <1>3, WordNat
<1>5. Sizes[p] = Words(kind, d)
  <2>1. Size(p) = Sizes[p]
    BY <1>2, SizeIs
  <2> QED
    BY <1>2, <2>1 DEF Size
<1>6. \A n \in Nat : n <= Larger(MinWords, n)
  BY DEF Larger, MinWords
<1>7. kind = Struct => Structs[d].size \in Nat /\ Structs[d].size <= Sizes[p]
  <2> SUFFICES ASSUME kind = Struct
               PROVE  Structs[d].size \in Nat /\ Structs[d].size <= Sizes[p]
    OBVIOUS
  <2>1. IsHeader(Kind(p), d)
    <3>1. HeaderFor(Structs, heap[p - 2], heap[p - 1])
      BY <1>1, <1>2 DEF HeapInv, Laid
    <3> QED
      BY <3>1, WordsAre DEF Kind, Detail
  <2>2. d \in DOMAIN Structs
    BY <1>2, <2>1 DEF IsHeader
  <2>3. Structs[d].size \in Nat
    BY <1>1, <2>2, ProgramFacts DEF GoodStructs
  <2>4. Sizes[p] = Larger(MinWords, Structs[d].size)
    <3>1. kind \notin {RefArray, ValArray}
      BY DEF Struct, RefArray, ValArray
    <3>2. Words(kind, d) = Larger(MinWords, CASE kind = Struct -> Structs[d].size
                                              [] kind \in {RefArray, ValArray} -> d
                                              [] OTHER -> HalfUp(d))
      BY DEF Words
    <3> QED
      BY <1>5, <3>1, <3>2
  <2> QED
    BY <1>6, <2>3, <2>4
<1>8. kind \in {RefArray, ValArray} => d <= Sizes[p]
  <2> SUFFICES ASSUME kind \in {RefArray, ValArray}
               PROVE  d <= Sizes[p]
    OBVIOUS
  <2>1. Sizes[p] = Larger(MinWords, d)
    <3>1. kind # Struct
      BY DEF Struct, RefArray, ValArray
    <3>2. Words(kind, d) = Larger(MinWords, CASE kind = Struct -> Structs[d].size
                                              [] kind \in {RefArray, ValArray} -> d
                                              [] OTHER -> HalfUp(d))
      BY DEF Words
    <3> QED
      BY <1>5, <3>1, <3>2
  <2> QED
    BY <1>4, <1>6, <2>1
<1> QED
  BY <1>2, <1>3, <1>4, <1>7, <1>8

LEMMA NumbersAre ==
    /\ 0 \in Word /\ 1 \in Word /\ 0 \in Nat /\ 1 \in Nat /\ 2 \in Nat /\ 3 \in Nat
BY WordNat

LEMMA EmptyHanded == IInv => Has(0)
<1> SUFFICES ASSUME IInv
             PROVE  Has(0)
  OBVIOUS
<1>1. \A i \in 1 .. Len(frames) : frames[i].base <= Len(stack)
  BY DEF IInv, FramesInv
<1>2. /\ Len(frames) \in Nat /\ 1 <= Len(frames) /\ Frame = frames[Len(frames)] /\ Frame.base \in Nat
  BY TopFrame
<1>3. Len(stack) \in Nat
  BY DEF IInv, StackInv
<1> HIDE DEF Frame
<1>4. Frame.base <= Len(stack)
  BY <1>1, <1>2
<1> QED
  BY <1>2, <1>3, <1>4 DEF Has

LEMMA Values ==
    ASSUME IInv
    PROVE  /\ \A i \in DOMAIN literals : literals[i] \in Word
           /\ \A t \in DOMAIN Structs : variants[t] \in Word
<1>1. Blocks \subseteq Word /\ Null \in Word
  <2>1. program \in Programs /\ HeapInv
    BY DEF IInv
  <2> QED
    BY <2>1, ContainingIs, NumbersAre DEF Null
<1>2. literals \in Seq(Blocks) /\ variants \in [DOMAIN Structs -> Blocks \cup {Null}]
  BY DEF IInv, PermanentInv
<1>3. \A i \in DOMAIN literals : literals[i] \in Blocks
  BY <1>2
<1> QED
  BY <1>1, <1>2, <1>3

LEMMA PushesKeep ==
    ASSUME IInv
    PROVE  /\ \A n \in Ints : PushInt(n) => IInv'
           /\ \A i \in DOMAIN literals : LoadStr(i) => IInv'
           /\ \A t \in DOMAIN Structs : LoadVariant(t) => IInv'
           /\ \A s \in DOMAIN Frame.locals : LoadLocal(s) => IInv'
           /\ (Compare => IInv') /\ (AddPointer => IInv')
<1>1. Has(0)
  BY EmptyHanded
<1>2. FALSE \in BOOLEAN /\ TRUE \in BOOLEAN
  OBVIOUS
<1>3. ASSUME NEW n \in Ints, PushInt(n)
      PROVE  IInv'
  <2>1. n \in Word
    <3>1. program.ints \subseteq Word
      BY ProgramsAssumption DEF IInv, WellMade
    <3> QED
      BY <3>1 DEF Ints
  <2>2. Push(0, n, FALSE) /\ UNCHANGED <<Memory, frames>>
    BY <1>3 DEF PushInt
  <2> QED
    BY <1>1, <1>2, <2>1, <2>2, NumbersAre, PushKeeps
<1>4. ASSUME NEW i \in DOMAIN literals, LoadStr(i)
      PROVE  IInv'
  <2>1. Push(0, literals[i], TRUE) /\ UNCHANGED <<Memory, frames>>
    BY <1>4 DEF LoadStr
  <2>2. literals[i] \in Word
    BY Values
  <2> QED
    BY <1>1, <1>2, <2>1, <2>2, NumbersAre, PushKeeps
<1>5. ASSUME NEW t \in DOMAIN Structs, LoadVariant(t)
      PROVE  IInv'
  <2>1. Push(0, variants[t], TRUE) /\ UNCHANGED <<Memory, frames>>
    BY <1>5 DEF LoadVariant
  <2>2. variants[t] \in Word
    BY Values
  <2> QED
    BY <1>1, <1>2, <2>1, <2>2, NumbersAre, PushKeeps
<1>6. ASSUME NEW s \in DOMAIN Frame.locals, LoadLocal(s)
      PROVE  IInv'
  <2>1. Push(0, Frame.locals[s], s \in Refs(Frame.fn)) /\ UNCHANGED <<Memory, frames>>
    BY <1>6 DEF LoadLocal
  <2>2. Frame.locals[s] \in Word
    BY TopFrame
  <2>3. (s \in Refs(Frame.fn)) \in BOOLEAN
    OBVIOUS
  <2> QED
    BY <1>1, <2>1, <2>2, <2>3, NumbersAre, PushKeeps
<1>7. ASSUME Compare
      PROVE  IInv'
  <2>1. Has(2) /\ Push(2, IF Arg(2).w = Arg(1).w THEN 1 ELSE 0, FALSE) /\ UNCHANGED <<Memory, frames>>
    BY <1>7 DEF Compare
  <2>2. (IF Arg(2).w = Arg(1).w THEN 1 ELSE 0) \in Word
    BY NumbersAre
  <2> QED
    BY <1>2, <2>1, <2>2, NumbersAre, PushKeeps
<1>8. ASSUME AddPointer
      PROVE  IInv'
  <2> DEFINE w == Arg(2).w + Arg(1).w
             p == Arg(2).w
  <2>1. /\ Has(2) /\ Is(Arg(2), Raw)
        /\ w < End(p) \/ w = End(p)
        /\ Push(2, w, Arg(2).ref \/ Arg(1).ref)
        /\ UNCHANGED <<Memory, frames>>
    BY <1>8 DEF AddPointer
  <2>2. Arg(1) \in TaggedWords /\ Arg(2) \in TaggedWords
    BY <2>1, NumbersAre, Taken
  <2>3. p \in Blocks
    BY <2>1, IsBlock
  <2>4. w \in Word
    <3>1. program \in Programs /\ HeapInv
      BY DEF IInv
    <3>2. /\ p \in Nat /\ Sizes[p] \in Nat /\ p + Sizes[p] <= heap_ptr /\ heap_ptr <= HeapWords
          /\ heap_ptr \in Nat
      BY <2>3, <3>1, BlockFacts
    <3>3. HeapWords \in Nat /\ HeapWords <= 32768
      BY <3>1, ProgramFacts
    <3>4. End(p) = p + Sizes[p]
      BY <2>3, SizeIs
    <3>5. Arg(1).w \in Nat
      BY <2>2, ArgIs, WordNat
    <3> DEFINE e == p + Sizes[p]
    <3>6. e \in Nat /\ e <= 32768
      BY <3>2, <3>3
    <3>7. w \in Nat /\ (w < e \/ w = e)
      BY <2>1, <3>2, <3>4, <3>5
    <3> HIDE DEF w, e
    <3>8. w <= 65535
      BY <3>6, <3>7
    <3> QED
      BY <3>7, <3>8, WordNat
  <2>5. (Arg(2).ref \/ Arg(1).ref) \in BOOLEAN
    OBVIOUS
  <2> HIDE DEF w
  <2> QED
    BY <2>1, <2>4, <2>5, NumbersAre, PushKeeps
<1> QED
  BY <1>3, <1>4, <1>5, <1>6, <1>7, <1>8

LEMMA LoadsKeep ==
    ASSUME IInv
    PROVE  /\ \A off \in 0 .. HeapWords : HeapLoadField(off) => IInv'
           /\ \A kind \in {RefArray, ValArray} : ArrayGet(kind) => IInv'
           /\ (HeapLoad => IInv') /\ (ReadDetail => IInv')
<1>1. ASSUME NEW off \in 0 .. HeapWords, HeapLoadField(off)
      PROVE  IInv'
  <2> DEFINE p == Arg(1).w
  <2>1. /\ Has(1) /\ Is(Arg(1), Struct) /\ off < Structs[Detail(p)].size
        /\ Push(1, heap[p + off], off \in Structs[Detail(p)].refs)
        /\ UNCHANGED <<Memory, frames>>
    BY <1>1 DEF HeapLoadField
  <2>2. p \in Blocks /\ Structs[Detail(p)].size \in Nat /\ Structs[Detail(p)].size <= Sizes[p]
    BY <2>1, IsBlock
  <2>3. off \in Nat
    BY ProgramFacts DEF IInv
  <2>4. off < Sizes[p]
    <3>1. Sizes[p] \in Nat
      BY <2>2, BlockFacts DEF IInv
    <3> QED
      BY <2>1, <2>2, <2>3, <3>1
  <2>5. heap[p + off] \in Word
    BY <2>2, <2>3, <2>4, InBlock
  <2>6. (off \in Structs[Detail(p)].refs) \in BOOLEAN
    OBVIOUS
  <2> QED
    BY <2>1, <2>5, <2>6, NumbersAre, PushKeeps
<1>2. ASSUME NEW kind \in {RefArray, ValArray}, ArrayGet(kind)
      PROVE  IInv'
  <2> DEFINE p == Arg(2).w
             o == Arg(1).w
  <2>1. /\ Has(2) /\ Is(Arg(2), kind) /\ o < Detail(p)
        /\ Push(2, heap[p + o], Kind(p) = RefArray)
        /\ UNCHANGED <<Memory, frames>>
    BY <1>2 DEF ArrayGet
  <2>2. p \in Blocks /\ Detail(p) \in Nat /\ Detail(p) <= Sizes[p]
    BY <2>1, IsBlock
  <2>3. o \in Nat
    BY <2>1, NumbersAre, Taken, ArgIs, WordNat
  <2>4. o < Sizes[p]
    <3>1. Sizes[p] \in Nat
      BY <2>2, BlockFacts DEF IInv
    <3> QED
      BY <2>1, <2>2, <2>3, <3>1
  <2>5. heap[p + o] \in Word
    BY <2>2, <2>3, <2>4, InBlock
  <2>6. (Kind(p) = RefArray) \in BOOLEAN
    OBVIOUS
  <2> QED
    BY <2>1, <2>5, <2>6, NumbersAre, PushKeeps
<1>3. ASSUME HeapLoad
      PROVE  IInv'
  <2>1. Has(1) /\ InRaw(Arg(1)) /\ Push(1, heap[Arg(1).w], FALSE) /\ UNCHANGED <<Memory, frames>>
    BY <1>3 DEF HeapLoad
  <2>2. PICK p \in Containing(Arg(1).w) : TRUE
    BY <2>1 DEF InRaw
  <2>3. p \in Blocks /\ p <= Arg(1).w /\ Arg(1).w < p + Sizes[p]
    BY <2>2, ContainingIs DEF IInv
  <2>4. heap[Arg(1).w] \in Word
    <3> DEFINE w == Arg(1).w
               o == w - p
    <3>1. w \in Nat
      BY <2>1, NumbersAre, Taken, ArgIs, WordNat
    <3>2. p \in Nat /\ Sizes[p] \in Nat
      BY <2>3, BlockFacts DEF IInv
    <3>3. p <= w /\ w < p + Sizes[p]
      BY <2>3
    <3> HIDE DEF w
    <3>4. o \in Nat /\ o < Sizes[p] /\ p + o = w
      BY <3>1, <3>2, <3>3
    <3> HIDE DEF o
    <3>5. heap[p + o] \in Word
      BY <2>3, <3>4, InBlock
    <3> QED
      BY <3>4, <3>5 DEF w
  <2>5. FALSE \in BOOLEAN
    OBVIOUS
  <2> QED
    BY <2>1, <2>4, <2>5, NumbersAre, PushKeeps
<1>4. ASSUME ReadDetail
      PROVE  IInv'
  <2>1. PICK kind \in {Struct, RefArray, ValArray, String} : Is(Arg(1), kind)
    BY <1>4 DEF ReadDetail
  <2>2. Has(1) /\ Push(1, Detail(Arg(1).w), FALSE) /\ UNCHANGED <<Memory, frames>>
    BY <1>4 DEF ReadDetail
  <2>3. Detail(Arg(1).w) \in Word
    BY <2>1, IsBlock
  <2>4. FALSE \in BOOLEAN
    OBVIOUS
  <2> QED
    BY <2>2, <2>3, <2>4, NumbersAre, PushKeeps
<1> QED
  BY <1>1, <1>2, <1>3, <1>4

LEMMA StoresKeep ==
    ASSUME IInv
    PROVE  /\ \A off \in 0 .. HeapWords : HeapStoreField(off) => IInv'
           /\ \A kind \in {RefArray, ValArray} : ArraySet(kind) => IInv'
           /\ (HeapStore => IInv')
<1>1. ASSUME NEW off \in 0 .. HeapWords, HeapStoreField(off)
      PROVE  IInv'
  <2> DEFINE p == Arg(2).w
             w == Arg(1).w
  <2>1. /\ Has(2) /\ Is(Arg(2), Struct) /\ off < Structs[Detail(p)].size
        /\ heap' = [heap EXCEPT ![p + off] = w] /\ stack' = Drop(stack, 2)
        /\ UNCHANGED <<program, frames, heap_ptr, literals, variants, status, ids>>
    BY <1>1 DEF HeapStoreField
  <2>2. p \in Blocks /\ Structs[Detail(p)].size \in Nat /\ Structs[Detail(p)].size <= Sizes[p]
    BY <2>1, IsBlock
  <2>3. off \in Nat
    BY ProgramFacts DEF IInv
  <2>4. off < Sizes[p]
    <3>1. Sizes[p] \in Nat
      BY <2>2, BlockFacts DEF IInv
    <3> QED
      BY <2>1, <2>2, <2>3, <3>1
  <2>5. p + off \in p .. p + Sizes[p] - 1
    BY <2>2, <2>3, <2>4, InBlock
  <2>6. w \in Word
    BY <2>1, NumbersAre, Taken, ArgIs
  <2> QED
    BY <2>1, <2>2, <2>5, <2>6, NumbersAre, WriteKeeps
<1>2. ASSUME NEW kind \in {RefArray, ValArray}, ArraySet(kind)
      PROVE  IInv'
  <2> DEFINE p == Arg(3).w
             o == Arg(2).w
             w == Arg(1).w
  <2>1. /\ Has(3) /\ Is(Arg(3), kind) /\ o < Detail(p)
        /\ heap' = [heap EXCEPT ![p + o] = w] /\ stack' = Drop(stack, 3)
        /\ UNCHANGED <<program, frames, heap_ptr, literals, variants, status, ids>>
    BY <1>2 DEF ArraySet
  <2>2. p \in Blocks /\ Detail(p) \in Nat /\ Detail(p) <= Sizes[p]
    BY <2>1, IsBlock
  <2>3. o \in Nat /\ w \in Word
    BY <2>1, NumbersAre, Taken, ArgIs, WordNat
  <2>4. o < Sizes[p]
    <3>1. Sizes[p] \in Nat
      BY <2>2, BlockFacts DEF IInv
    <3> QED
      BY <2>1, <2>2, <2>3, <3>1
  <2>5. p + o \in p .. p + Sizes[p] - 1
    BY <2>2, <2>3, <2>4, InBlock
  <2> QED
    BY <2>1, <2>2, <2>3, <2>5, NumbersAre, WriteKeeps
<1>3. ASSUME HeapStore
      PROVE  IInv'
  <2> DEFINE a == Arg(2).w
             w == Arg(1).w
  <2>1. /\ Has(2) /\ InRaw(Arg(2)) /\ heap' = [heap EXCEPT ![a] = w] /\ stack' = Drop(stack, 2)
        /\ UNCHANGED <<program, frames, heap_ptr, literals, variants, status, ids>>
    BY <1>3 DEF HeapStore
  <2>2. PICK p \in Containing(a) : TRUE
    BY <2>1 DEF InRaw
  <2>3. p \in Blocks /\ p <= a /\ a < p + Sizes[p]
    BY <2>2, ContainingIs DEF IInv
  <2>4. a \in Nat /\ w \in Word
    BY <2>1, NumbersAre, Taken, ArgIs, WordNat
  <2>5. a \in p .. p + Sizes[p] - 1
    <3>1. p \in Nat /\ Sizes[p] \in Nat
      BY <2>3, BlockFacts DEF IInv
    <3> HIDE DEF a
    <3> QED
      BY <2>3, <2>4, <3>1
  <2> QED
    BY <2>1, <2>3, <2>4, <2>5, NumbersAre, WriteKeeps
<1> QED
  BY <1>1, <1>2, <1>3

LEMMA Joined ==
    ASSUME NEW S, NEW s \in Seq(S), NEW t \in Seq(S)
    PROVE  s \o t \in Seq(S) /\ Len(s \o t) = Len(s) + Len(t)
OBVIOUS

LEMMA StackOpsKeep ==
    ASSUME IInv
    PROVE  (PopValue => IInv') /\ (Dup => IInv') /\ (Swap => IInv') /\ (Fault => IInv')
<1>1. ASSUME PopValue
      PROVE  IInv'
  <2>1. Has(1) /\ stack' = Drop(stack, 1) /\ UNCHANGED <<Memory, frames>>
    BY <1>1 DEF PopValue
  <2>2. stack' \in Seq(TaggedWords) /\ Frame.base <= Len(stack')
    BY <2>1, NumbersAre, Taken
  <2> QED
    BY <2>1, <2>2, StackKeeps
<1>2. ASSUME Dup
      PROVE  IInv'
  <2>1. Has(1) /\ stack' = Append(stack, Arg(1)) /\ UNCHANGED <<Memory, frames>>
    BY <1>2 DEF Dup
  <2>2. Arg(1) \in TaggedWords /\ Len(stack) \in Nat /\ Frame.base <= Len(stack) - 1
    BY <2>1, NumbersAre, Taken
  <2>3. stack \in Seq(TaggedWords) /\ Frame.base \in Nat
    BY TopFrame DEF IInv, StackInv
  <2> DEFINE v == Arg(1)
             b == Frame.base
  <2>4. v \in TaggedWords /\ stack' = Append(stack, v) /\ b \in Nat /\ b <= Len(stack) - 1
    BY <2>1, <2>2, <2>3
  <2> HIDE DEF v, b
  <2>5. stack' \in Seq(TaggedWords) /\ Len(stack') = Len(stack) + 1
    BY <2>3, <2>4
  <2>6. b <= Len(stack')
    BY <2>2, <2>4, <2>5
  <2> QED
    BY <2>1, <2>5, <2>6, StackKeeps DEF b
<1>3. ASSUME Swap
      PROVE  IInv'
  <2>1. Has(2) /\ stack' = Drop(stack, 2) \o <<Arg(1), Arg(2)>> /\ UNCHANGED <<Memory, frames>>
    BY <1>3 DEF Swap
  <2>2. /\ Drop(stack, 2) \in Seq(TaggedWords) /\ Len(Drop(stack, 2)) = Len(stack) - 2
        /\ Len(stack) \in Nat /\ Frame.base <= Len(stack) - 2
        /\ Arg(1) \in TaggedWords /\ Arg(2) \in TaggedWords
    BY <2>1, NumbersAre, Taken
  <2> DEFINE rest == Drop(stack, 2)
             two  == <<Arg(1), Arg(2)>>
             b    == Frame.base
  <2>3. two \in Seq(TaggedWords) /\ Len(two) = 2
    BY <2>2
  <2>a. stack' = rest \o two
    BY <2>1
  <2>b. rest \in Seq(TaggedWords) /\ Len(rest) = Len(stack) - 2 /\ b <= Len(stack) - 2
    BY <2>2
  <2>4. rest \in Seq(TaggedWords) /\ Len(rest) = Len(stack) - 2 /\ stack' = rest \o two /\ b <= Len(stack) - 2
    BY <2>a, <2>b
  <2>5. b \in Nat
    BY TopFrame
  <2> HIDE DEF rest, two, b
  <2>6. stack' \in Seq(TaggedWords) /\ Len(stack') = Len(rest) + Len(two)
    BY <2>3, <2>4, Joined
  <2>7. b <= Len(stack')
    <3>1. Len(stack) \in Nat
      BY <2>2
    <3>2. Len(stack') = Len(rest) + 2
      BY <2>3, <2>6
    <3>3. Len(rest) = Len(stack) - 2 /\ b <= Len(stack) - 2
      BY <2>4
    <3> QED
      BY <2>5, <3>1, <3>2, <3>3
  <2> QED
    BY <2>1, <2>6, <2>7, StackKeeps DEF b
<1>4. ASSUME Fault
      PROVE  IInv'
  <2>1. PICK k \in {1, 2} : Has(k) /\ stack' = Drop(stack, k)
    BY <1>4 DEF Fault
  <2>2. status' = "faulted" /\ UNCHANGED <<program, heap, heap_ptr, frames, literals, variants, ids>>
    BY <1>4 DEF Fault
  <2>3. k \in Nat
    BY NumbersAre
  <2>4. stack' \in Seq(TaggedWords) /\ OperandsOf(stack')
    BY <2>1, <2>3, Taken
  <2>5. HeapInv'
    BY <2>2, HeapKept DEF IInv
  <2>6. FramesInv'
    <3>1. frames' = frames /\ Funs' = Funs
      BY <2>2 DEF Funs
    <3> QED
      BY <2>4, <3>1 DEF IInv, FramesInv, OperandsOf
  <2>7. PermanentInv'
    <3>1. Permanents' = Permanents /\ Blocks' = Blocks /\ Structs' = Structs /\ ~Starting'
      BY <2>2 DEF Permanents, Blocks, Structs, Starting
    <3> QED
      BY <2>2, <3>1 DEF IInv, PermanentInv
  <2>8. program' \in Programs /\ status' \in {"starting", "running", "faulted"}
    BY <2>2 DEF IInv
  <2> QED
    BY <2>4, <2>5, <2>6, <2>7, <2>8 DEF IInv, StackInv
<1> QED
  BY <1>1, <1>2, <1>3, <1>4

\* A step that changes frames and operands and leaves memory alone.
LEMMA CallsKeep ==
    ASSUME IInv, UNCHANGED Memory, stack' \in Seq(TaggedWords), FramesInv'
    PROVE  IInv'
<1>1. UNCHANGED <<program, heap, heap_ptr, literals, variants, status, ids>>
  BY DEF Memory
<1>2. HeapInv'
  BY <1>1, HeapKept DEF IInv
<1>3. PermanentInv'
  <2>1. Permanents' = Permanents /\ Blocks' = Blocks /\ Structs' = Structs /\ Starting' = Starting
    BY <1>1 DEF Permanents, Blocks, Structs, Starting
  <2> QED
    BY <1>1, <2>1 DEF IInv, PermanentInv
<1>4. program' \in Programs /\ status' \in {"starting", "running", "faulted"}
  BY <1>1 DEF IInv
<1> QED
  BY <1>2, <1>3, <1>4 DEF IInv, StackInv

LEMMA StoreLocalKeeps ==
    ASSUME IInv, NEW s \in DOMAIN Frame.locals, StoreLocal(s)
    PROVE  IInv'
<1> DEFINE n == Len(frames)
           w == Arg(1).w
           fr == Frame
           new == [fr EXCEPT !.locals = [fr.locals EXCEPT ![s] = w]]
<1>1. /\ Has(1) /\ stack' = Drop(stack, 1) /\ UNCHANGED Memory
      /\ frames' = [frames EXCEPT ![n].locals[s] = w]
  BY DEF StoreLocal
<1>2. stack' \in Seq(TaggedWords) /\ OperandsOf(stack') /\ w \in Word
  BY <1>1, NumbersAre, Taken, ArgIs
<1>3. /\ frames \in Seq(FramesOf(Funs)) /\ frames # <<>>
      /\ \A i, j \in 1 .. n : i <= j => frames[i].base <= frames[j].base
  BY DEF IInv, FramesInv
<1>4. /\ n \in Nat /\ 1 <= n /\ fr = frames[n]
      /\ fr \in FramesOf(Funs) /\ fr.base \in Nat /\ fr.fn \in DOMAIN Funs
      /\ fr.locals \in [1 .. Funs[fr.fn].locals -> Word]
  BY TopFrame
<1>5. frames' = [frames EXCEPT ![n] = new]
  BY <1>1, <1>4
<1>6. new \in FramesOf(Funs) /\ new.base = fr.base
  <2>1. [fr.locals EXCEPT ![s] = w] \in [1 .. Funs[fr.fn].locals -> Word]
    BY <1>2, <1>4
  <2>2. fr = [fn |-> fr.fn, locals |-> fr.locals, base |-> fr.base]
    BY <1>4, FrameIs
  <2> DEFINE l == [fr.locals EXCEPT ![s] = w]
  <2> HIDE DEF l
  <2>3. [fr EXCEPT !.locals = l] = [fn |-> fr.fn, locals |-> l, base |-> fr.base]
    BY <2>2
  <2> DEFINE moved == [fr EXCEPT !.locals = l]
  <2>4. moved.fn = fr.fn /\ moved.base = fr.base /\ moved.locals = l
    BY <2>3
  <2>5. moved \in FramesOf(Funs)
    <3>1. l \in [1 .. Funs[fr.fn].locals -> Word]
      BY <2>1 DEF l
    <3>2. moved = [fn |-> moved.fn, locals |-> moved.locals, base |-> moved.base]
      BY <2>3, <2>4
    <3> HIDE DEF moved, fr
    <3> QED
      BY <1>4, <2>4, <3>1, <3>2, FrameIs
  <2> QED
    BY <2>4, <2>5 DEF l
<1> HIDE DEF new, fr, n, w
<1>7. /\ frames' \in Seq(FramesOf(Funs)) /\ Len(frames') = Len(frames) /\ frames' # <<>>
      /\ \A i \in 1 .. Len(frames) : frames'[i].base = frames[i].base
  <2>1. n \in 1 .. Len(frames) /\ n = Len(frames)
    BY <1>4 DEF n
  <2>2. frames' \in Seq(FramesOf(Funs)) /\ Len(frames') = Len(frames)
    BY <1>3, <1>5, <1>6, <2>1
  <2>3. \A i \in 1 .. Len(frames) : frames'[i] = IF i = n THEN new ELSE frames[i]
    BY <1>3, <1>5, <2>1
  <2>4. \A i \in 1 .. Len(frames) : frames'[i].base = frames[i].base
    BY <1>4, <1>6, <2>3
  <2>5. frames' # <<>>
    BY <2>1, <2>2
  <2> QED
    BY <2>2, <2>4, <2>5
<1>8. FramesInv'
  <2>1. Funs' = Funs
    BY <1>1 DEF Funs, Memory
  <2>2. \A i \in 1 .. Len(frames') : frames'[i].base <= Len(stack')
    BY <1>2, <1>7 DEF OperandsOf
  <2>3. \A i, j \in 1 .. Len(frames') : i <= j => frames'[i].base <= frames'[j].base
    BY <1>3, <1>7 DEF n
  <2> QED
    BY <1>7, <2>1, <2>2, <2>3 DEF FramesInv
<1> QED
  BY <1>1, <1>2, <1>8, CallsKeep

LEMMA CallKeeps ==
    ASSUME IInv, NEW f \in DOMAIN Funs, Call(f)
    PROVE  IInv'
<1> DEFINE n    == Funs[f].params
           args == SubSeq(stack, Len(stack) - n + 1, Len(stack))
           ls   == [s \in 1 .. Funs[f].locals |-> IF s <= n THEN args[s].w ELSE 0]
           new  == [fn |-> f, base |-> Len(stack) - n, locals |-> ls]
<1>1. /\ Has(n) /\ stack' = Drop(stack, n) /\ frames' = Append(frames, new) /\ UNCHANGED Memory
  BY DEF Call
<1>2. Funs[f].locals \in Nat /\ n \in Nat
  <2>1. WellMade(program)
    BY ProgramsAssumption DEF IInv
  <2>2. Funs[f].locals \in Nat /\ n \in 0 .. Funs[f].locals
    BY <2>1 DEF WellMade, Funs
  <2> QED
    BY <2>2
<1>3. /\ stack' \in Seq(TaggedWords) /\ Len(stack') = Len(stack) - n /\ Len(stack) \in Nat
      /\ n <= Len(stack) /\ Frame.base <= Len(stack) - n /\ OperandsOf(stack')
  BY <1>1, <1>2, Taken
<1>4. stack \in Seq(TaggedWords)
  BY DEF IInv, StackInv
<1>5. ls \in [1 .. Funs[f].locals -> Word]
  <2>1. ASSUME NEW s \in 1 .. Funs[f].locals
        PROVE  (IF s <= n THEN args[s].w ELSE 0) \in Word
    <3>1. CASE s <= n
      <4>1. s \in Nat /\ 1 <= s
        BY <1>2
      <4>2. Len(stack) - n + s \in 1 .. Len(stack)
        BY <1>2, <1>3, <3>1, <4>1
      <4>3. args[s] = stack[Len(stack) - n + s]
        <5> HIDE DEF n
        <5>1. Len(stack) - n + 1 \in 1 .. Len(stack) + 1 /\ s \in 1 .. n
          BY <1>2, <1>3, <3>1, <4>1
        <5>2. args = [i \in 1 .. n |-> stack[Len(stack) - n + i]]
          <6>1. SubSeq(stack, Len(stack) - n + 1, Len(stack)) =
                  [i \in 1 .. (Len(stack) - (Len(stack) - n + 1) + 1) |-> stack[i + (Len(stack) - n + 1) - 1]]
            BY <1>4, <5>1, SMT
          <6>2. Len(stack) - (Len(stack) - n + 1) + 1 = n
            BY <1>2, <1>3
          <6>3. \A i \in 1 .. n : i + (Len(stack) - n + 1) - 1 = Len(stack) - n + i
            BY <1>2, <1>3
          <6> QED
            BY <6>1, <6>2, <6>3
        <5> QED
          BY <5>1, <5>2
      <4>4. stack[Len(stack) - n + s] \in TaggedWords
        BY <1>4, <4>2
      <4> QED
        BY <3>1, <4>3, <4>4, ArgIs
    <3>2. CASE ~(s <= n)
      BY <3>2, NumbersAre
    <3> QED
      BY <3>1, <3>2
  <2> HIDE DEF n, args
  <2> QED
    BY <2>1
<1> HIDE DEF ls, n
<1>6. new \in FramesOf(Funs) /\ new.base = Len(stack') /\ Len(stack') \in Nat
  <2>1. /\ new = [fn |-> new.fn, locals |-> new.locals, base |-> new.base]
        /\ new.fn = f /\ new.locals = ls /\ new.base = Len(stack) - n
    OBVIOUS
  <2>2. Len(stack') \in Nat
    BY <1>3
  <2> HIDE DEF new
  <2> QED
    BY <1>3, <1>5, <2>1, <2>2, FrameIs
<1> HIDE DEF new
<1>7. /\ frames \in Seq(FramesOf(Funs)) /\ Len(frames) \in Nat /\ 1 <= Len(frames)
      /\ \A i, j \in 1 .. Len(frames) : i <= j => frames[i].base <= frames[j].base
  BY TopFrame DEF IInv, FramesInv
<1>8. /\ frames' \in Seq(FramesOf(Funs)) /\ Len(frames') = Len(frames) + 1 /\ frames' # <<>>
      /\ \A i \in 1 .. Len(frames) : frames'[i] = frames[i]
      /\ frames'[Len(frames) + 1] = new
  BY <1>1, <1>6, <1>7
<1>9. \A i \in 1 .. Len(frames') : i \in 1 .. Len(frames) \/ i = Len(frames) + 1
  BY <1>7, <1>8
<1>10. \A i \in 1 .. Len(frames) : frames[i].base <= Len(stack')
  BY <1>3 DEF OperandsOf
<1>11. \A i \in 1 .. Len(frames') : frames'[i].base <= Len(stack')
  <2>1. new.base <= Len(stack')
    BY <1>6
  <2> QED
    BY <1>8, <1>9, <1>10, <2>1
<1>12. ASSUME NEW i \in 1 .. Len(frames'), NEW j \in 1 .. Len(frames'), i <= j
       PROVE  frames'[i].base <= frames'[j].base
  <2>1. CASE j = Len(frames) + 1
    <3>1. frames'[j].base = Len(stack')
      BY <1>6, <1>8, <2>1
    <3> QED
      BY <1>11, <3>1
  <2>2. CASE j \in 1 .. Len(frames)
    <3>1. i \in 1 .. Len(frames)
      BY <1>7, <1>12, <2>2
    <3> QED
      BY <1>7, <1>8, <1>12, <2>2, <3>1
  <2> QED
    BY <1>9, <2>1, <2>2
<1>13. FramesInv'
  <2>1. Funs' = Funs
    BY <1>1 DEF Funs, Memory
  <2> QED
    BY <1>8, <1>11, <1>12, <2>1 DEF FramesInv
<1> QED
  BY <1>1, <1>3, <1>13, CallsKeep

LEMMA RetKeeps ==
    ASSUME IInv, Ret
    PROVE  IInv'
<1>1. Len(frames) > 1 /\ frames' = Drop(frames, 1) /\ UNCHANGED <<Memory, stack>>
  BY DEF Ret
<1>2. /\ frames \in Seq(FramesOf(Funs)) /\ Len(frames) \in Nat
      /\ \A i \in 1 .. Len(frames) : frames[i].base <= Len(stack)
      /\ \A i, j \in 1 .. Len(frames) : i <= j => frames[i].base <= frames[j].base
  BY TopFrame DEF IInv, FramesInv
<1>3. /\ frames' \in Seq(FramesOf(Funs)) /\ Len(frames') = Len(frames) - 1
      /\ \A i \in 1 .. Len(frames') : frames'[i] = frames[i] /\ i \in 1 .. Len(frames)
  BY <1>1, <1>2 DEF Drop
<1>4. frames' # <<>>
  BY <1>1, <1>2, <1>3
<1>5. stack' = stack /\ UNCHANGED Memory
  BY <1>1
<1>6. FramesInv'
  <2>1. Funs' = Funs
    BY <1>5 DEF Funs, Memory
  <2>2. \A i \in 1 .. Len(frames') : frames'[i].base <= Len(stack')
    BY <1>2, <1>3, <1>5
  <2>3. \A i, j \in 1 .. Len(frames') : i <= j => frames'[i].base <= frames'[j].base
    BY <1>2, <1>3
  <2> QED
    BY <1>3, <1>4, <2>1, <2>2, <2>3 DEF FramesInv
<1>7. stack' \in Seq(TaggedWords)
  BY <1>5 DEF IInv, StackInv
<1> QED
  BY <1>5, <1>6, <1>7, CallsKeep

-----------------------------------------------------------------------------
(* The instructions that allocate, and the collection itself.              *)

LEMMA Standing == IInv => OperandsOf(stack)
BY DEF IInv, StackInv, FramesInv, OperandsOf

Allocating ==
    \/ \E t \in DOMAIN Structs : AllocTyped(t)
    \/ \E n \in Counts : \E kind \in {RefArray, ValArray} : NewArray(n, kind)
    \/ \E n \in RawSizes : AllocRaw(n)
    \/ StrConcat

LEMMA AllocationIs ==
    ASSUME IInv, Allocating
    PROVE  /\ Running
           /\ \E st, kind, detail, fill : /\ OperandsOf(st) /\ Allocates(kind, detail, fill)
                                          /\ Reserve(st, kind, detail, fill)
                                          /\ fill = 0 \/ kind = String
                                          /\ st = stack \/ (Has(2) /\ st = Drop(stack, 2))
<1>1. OperandsOf(stack)
  BY Standing
<1>2. Counts \subseteq Nat /\ RawSizes \subseteq Nat
  BY ProgramsAssumption DEF IInv, WellMade, Counts, RawSizes
<1>3. ASSUME NEW t \in DOMAIN Structs, AllocTyped(t)
      PROVE  Running /\ Allocates(Struct, t, 0) /\ Reserve(stack, Struct, t, 0)
  BY <1>3 DEF AllocTyped, Allocates
<1>4. ASSUME NEW n \in Counts, NEW kind \in {RefArray, ValArray}, NewArray(n, kind)
      PROVE  Running /\ Allocates(kind, n, 0) /\ Reserve(stack, kind, n, 0)
  <2>1. Allocates(kind, n, 0)
    BY <1>2 DEF Allocates, Struct, RefArray, ValArray
  <2> QED
    BY <1>4, <2>1 DEF NewArray
<1>5. ASSUME NEW n \in RawSizes, AllocRaw(n)
      PROVE  Running /\ \E d : Allocates(Raw, d, 0) /\ Reserve(stack, Raw, d, 0)
  <2> DEFINE d == 2 * Larger(MinWords, HalfUp(n))
  <2>1. Running /\ Reserve(stack, Raw, d, 0)
    BY <1>5 DEF AllocRaw
  <2>2. d \in Nat
    <3>1. n \in Nat
      BY <1>2
    <3>2. HalfUp(n) \in Nat
      BY <3>1 DEF HalfUp
    <3>3. Larger(MinWords, HalfUp(n)) \in Nat
      BY <3>2 DEF Larger, MinWords
    <3> QED
      BY <3>3
  <2> HIDE DEF d
  <2>3. Allocates(Raw, d, 0)
    BY <2>2 DEF Allocates, Struct, Raw, RefArray
  <2> QED
    BY <2>1, <2>3
<1>6. ASSUME StrConcat
      PROVE  /\ Running /\ Has(2) /\ OperandsOf(Drop(stack, 2))
             /\ \E d : Allocates(String, d, 1) /\ Reserve(Drop(stack, 2), String, d, 1)
  <2> DEFINE d == Detail(Arg(2).w) + Detail(Arg(1).w)
  <2>1. /\ Running /\ Has(2) /\ Is(Arg(1), String) /\ Is(Arg(2), String)
        /\ Reserve(Drop(stack, 2), String, d, 1)
    BY <1>6 DEF StrConcat
  <2>2. d \in Nat
    <3>1. Detail(Arg(2).w) \in Nat /\ Detail(Arg(1).w) \in Nat
      BY <2>1, IsBlock
    <3> QED
      BY <3>1
  <2>3. OperandsOf(Drop(stack, 2))
    BY <2>1, Taken, NumbersAre
  <2> HIDE DEF d
  <2>4. Allocates(String, d, 1)
    BY <2>2 DEF Allocates, Struct, String, RefArray
  <2> QED
    BY <2>1, <2>3, <2>4
<1> QED
  BY <1>1, <1>3, <1>4, <1>5, <1>6 DEF Allocating

LEMMA AllocationsKeep == IInv /\ Allocating => IInv'
BY AllocationIs, ReserveKeeps

LEMMA GcKeeps == IInv /\ Gc => IInv'
<1> SUFFICES ASSUME IInv, Gc
             PROVE  IInv'
  OBVIOUS
<1>1. Collected(Marked(stack), stack) /\ program' = program /\ status' \in {"running", "faulted"}
  BY DEF Gc, Running
<1> QED
  BY <1>1, Standing, CollectionKeeps

LEMMA InstructionKeeps == IInv /\ Instruction => IInv'
<1> SUFFICES ASSUME IInv, Instruction
             PROVE  IInv'
  OBVIOUS
<1>1. ASSUME NEW n \in Ints, PushInt(n)
      PROVE  IInv'
  BY <1>1, PushesKeep
<1>2. ASSUME NEW i \in DOMAIN literals, LoadStr(i)
      PROVE  IInv'
  BY <1>2, PushesKeep
<1>3. ASSUME NEW t \in DOMAIN Structs, LoadVariant(t)
      PROVE  IInv'
  BY <1>3, PushesKeep
<1>4. ASSUME NEW s \in DOMAIN Frame.locals, LoadLocal(s) \/ StoreLocal(s)
      PROVE  IInv'
  BY <1>4, PushesKeep, StoreLocalKeeps
<1>5. ASSUME PopValue \/ Dup \/ Swap \/ AddPointer \/ Compare \/ Fault
      PROVE  IInv'
  BY <1>5, StackOpsKeep, PushesKeep
<1>6. ASSUME NEW kind \in {RefArray, ValArray}, ArrayGet(kind) \/ ArraySet(kind)
      PROVE  IInv'
  BY <1>6, LoadsKeep, StoresKeep
<1>7. ASSUME Allocating
      PROVE  IInv'
  BY <1>7, AllocationsKeep
<1>8. ASSUME NEW off \in 0 .. HeapWords, HeapLoadField(off) \/ HeapStoreField(off)
      PROVE  IInv'
  BY <1>8, LoadsKeep, StoresKeep
<1>9. ASSUME HeapLoad \/ HeapStore \/ ReadDetail \/ Gc
      PROVE  IInv'
  BY <1>9, LoadsKeep, StoresKeep, GcKeeps
<1>10. ASSUME NEW f \in DOMAIN Funs, Call(f)
       PROVE  IInv'
  BY <1>10, CallKeeps
<1>11. ASSUME Ret
       PROVE  IInv'
  BY <1>11, RetKeeps
<1> QED
  BY <1>1, <1>2, <1>3, <1>4, <1>5, <1>6, <1>7, <1>8, <1>9, <1>10, <1>11 DEF Instruction, Allocating

-----------------------------------------------------------------------------
(* The start of a run: the permanent objects, one after another.           *)

LEMMA EmptyLaid ==
    ASSUME NEW n \in Nat, 1 <= n, NEW structs
    PROVE  Laid(n, structs, [a \in 0 .. n - 1 |-> 0], {}, HeapStart)
<1> DEFINE h    == [a \in 0 .. n - 1 |-> 0]
           size == SizesIn(structs, h, {})
<1>1. h \in [0 .. n - 1 -> Word]
  BY NumbersAre
<1>2. size \in [{} -> Nat \ {0}]
  BY DEF SizesIn
<1>3. HeapStart \in Nat /\ HeapStart \in HeapStart .. n /\ \A a \in HeapStart .. n - 1 : a \in 0 .. n - 1
  BY DEF HeapStart
<1> HIDE DEF size
<1>4. Tiles({}, size, HeapStart)
  BY <1>2, <1>3 DEF Tiles
<1>5. \A a \in HeapStart .. n - 1 : h[a] = 0
  BY <1>3
<1> HIDE DEF h
<1>6. Laid(n, structs, h, {}, HeapStart)
  BY <1>1, <1>3, <1>4, <1>5 DEF Laid, size
<1> QED
  BY <1>6 DEF h

LEMMA Begins == Init => IInv
<1> SUFFICES ASSUME Init
             PROVE  IInv
  OBVIOUS
<1>1. program \in Programs /\ status = "starting" /\ ids = <<>> /\ stack = <<>> /\ literals = <<>>
  BY DEF Init
<1>2. HeapInv
  <2>1. HeapWords \in Nat /\ 1 <= HeapWords
    BY <1>1, ProgramFacts
  <2>2. Blocks = {}
    BY <1>1 DEF Blocks
  <2>3. heap = [a \in 0 .. HeapWords - 1 |-> 0] /\ heap_ptr = HeapStart
    BY DEF Init
  <2> QED
    BY <2>1, <2>2, <2>3, EmptyLaid DEF HeapInv
<1>3. FramesInv
  <2> DEFINE fr == [fn |-> Main, base |-> 0, locals |-> [s \in 1 .. Funs[Main].locals |-> 0]]
  <2>1. Main \in DOMAIN Funs
    BY <1>1, ProgramFacts DEF WellMade, Main, Funs
  <2>2. [s \in 1 .. Funs[Main].locals |-> 0] \in [1 .. Funs[Main].locals -> Word]
    BY NumbersAre
  <2>3. fr \in [fn : {Main}, locals : [1 .. Funs[Main].locals -> Word], base : Nat]
    BY <2>2
  <2>4. fr \in FramesOf(Funs)
    BY <2>1, <2>3 DEF FramesOf
  <2>5. frames = <<fr>> /\ fr.base = 0
    BY DEF Init
  <2> HIDE DEF fr
  <2>6. Len(frames) = 1 /\ frames[1] = fr /\ Len(stack) = 0 /\ frames \in Seq(FramesOf(Funs)) /\ frames # <<>>
    BY <1>1, <2>4, <2>5
  <2> QED
    BY <2>5, <2>6 DEF FramesInv
<1>4. PermanentInv
  <2>1. Blocks = {}
    BY <1>1 DEF Blocks
  <2>2. variants \in [DOMAIN Structs -> Blocks \cup {Null}]
    BY DEF Init
  <2> QED
    BY <1>1, <2>1, <2>2 DEF PermanentInv
<1>5. StackInv
  BY <1>1 DEF StackInv
<1> QED
  BY <1>1, <1>2, <1>3, <1>4, <1>5 DEF IInv

LEMMA ConstantKeeps ==
    ASSUME IInv, NEW kind, NEW detail, NEW fill, Allocates(kind, detail, fill),
           Constant(kind, detail, fill), UNCHANGED <<program, stack, frames, status>>
    PROVE  HeapInv' /\ StackInv' /\ FramesInv' /\ Blocks' = Blocks \cup {heap_ptr + Header}
<1>1. program \in Programs /\ HeapInv
  BY DEF IInv
<1>2. /\ Fits(heap_ptr, Words(kind, detail))
      /\ heap' = Placed(heap, heap_ptr, kind, detail, fill)
      /\ heap_ptr' = heap_ptr + Header + Words(kind, detail)
      /\ ids' = Named(ids, heap_ptr + Header)
  BY DEF Constant
<1>3. Blocks' = Blocks \cup {heap_ptr + Header}
  BY <1>2 DEF Blocks, Named
<1>4. HeapInv'
  <2>1. Laid(HeapWords, Structs, heap, Blocks, heap_ptr) /\ heap_ptr \in Nat
    BY <1>1, BlockFacts DEF HeapInv
  <2>2. kind \in Word /\ detail \in Word /\ fill \in Word /\ IsHeader(kind, detail)
    BY <1>1, <1>2, <2>1, HeaderFits
  <2>3. Laid(HeapWords, Structs, Placed(heap, heap_ptr, kind, detail, fill),
             Blocks \cup {heap_ptr + Header}, heap_ptr + Header + Words(kind, detail))
    BY <1>1, <1>2, <2>1, <2>2, PlacedLaid
  <2>4. HeapWords' = HeapWords /\ Structs' = Structs
    BY DEF HeapWords, Structs
  <2> QED
    BY <1>2, <1>3, <2>3, <2>4 DEF HeapInv
<1>5. StackInv' /\ FramesInv'
  <2>1. Funs' = Funs /\ stack' = stack /\ frames' = frames
    BY DEF Funs
  <2> QED
    BY <2>1 DEF IInv, StackInv, FramesInv
<1> QED
  BY <1>3, <1>4, <1>5

LEMMA LiteralAllocates ==
    ASSUME IInv, Len(literals) < Len(Literals)
    PROVE  Allocates(String, Literals[Len(literals) + 1], 1)
<1> DEFINE k == Len(literals) + 1
<1>1. program \in Programs /\ literals \in Seq(Blocks)
  BY DEF IInv, PermanentInv
<1>2. Literals \in Seq(Nat)
  BY <1>1, ProgramFacts DEF WellMade, Literals
<1>3. k \in 1 .. Len(Literals)
  BY <1>1, <1>2
<1>4. Literals[k] \in Nat
  BY <1>2, <1>3
<1> QED
  BY <1>4 DEF Allocates, Struct, String, RefArray

LEMMA LiteralKeeps == IInv /\ MaterialiseLiteral => IInv'
<1> SUFFICES ASSUME IInv, MaterialiseLiteral
             PROVE  IInv'
  OBVIOUS
<1> DEFINE p == heap_ptr + Header
           k == Len(literals) + 1
<1>1. /\ Starting /\ Len(literals) < Len(Literals) /\ Constant(String, Literals[k], 1)
      /\ literals' = Append(literals, p)
      /\ UNCHANGED <<program, stack, frames, variants, status>>
  BY DEF MaterialiseLiteral
<1>2. program \in Programs /\ PermanentInv /\ literals \in Seq(Blocks)
  BY DEF IInv, PermanentInv
<1>3. Allocates(String, Literals[k], 1)
  BY <1>1, LiteralAllocates
<1>4. HeapInv' /\ StackInv' /\ FramesInv' /\ Blocks' = Blocks \cup {p}
  BY <1>1, <1>3, ConstantKeeps
<1> HIDE DEF p, k
<1>5. PermanentInv'
  <2>1. literals' \in Seq(Blocks') /\ Len(literals') = Len(literals) + 1 /\ literals'[Len(literals')] = p
        /\ \A i \in DOMAIN literals : i \in DOMAIN literals' /\ literals'[i] = literals[i]
        /\ Len(literals') \in DOMAIN literals'
    BY <1>1, <1>2, <1>4
  <2>2. variants' \in [DOMAIN Structs' -> Blocks' \cup {Null}]
    BY <1>1, <1>2, <1>4 DEF PermanentInv, Structs
  <2>3. Permanents \subseteq Permanents' /\ p \in Permanents'
    BY <1>1, <2>1 DEF Permanents
  <2>4. Blocks' \subseteq Permanents'
    BY <1>1, <1>2, <1>4, <2>3 DEF PermanentInv
  <2> QED
    BY <2>1, <2>2, <2>4 DEF PermanentInv
<1>6. program' \in Programs /\ status' \in {"starting", "running", "faulted"}
  BY <1>1 DEF IInv
<1> QED
  BY <1>4, <1>5, <1>6 DEF IInv

LEMMA VariantKeeps == ASSUME IInv, NEW t \in DOMAIN Structs, MaterialiseVariant(t) PROVE IInv'
<1> DEFINE p == heap_ptr + Header
<1>1. /\ Starting /\ variants[t] = Null /\ Constant(Struct, t, 0)
      /\ variants' = [variants EXCEPT ![t] = p]
      /\ UNCHANGED <<program, stack, frames, literals, status>>
  BY DEF MaterialiseVariant
<1>2. program \in Programs /\ HeapInv /\ PermanentInv /\ variants \in [DOMAIN Structs -> Blocks \cup {Null}]
  BY DEF IInv, PermanentInv
<1>3. Allocates(Struct, t, 0)
  BY DEF Allocates
<1>4. HeapInv' /\ StackInv' /\ FramesInv' /\ Blocks' = Blocks \cup {p}
  BY <1>1, <1>3, ConstantKeeps
<1> HIDE DEF p
<1>5. PermanentInv'
  <2>1. literals' \in Seq(Blocks')
    BY <1>1, <1>2, <1>4 DEF PermanentInv
  <2>2. variants' \in [DOMAIN Structs -> Blocks' \cup {Null}] /\ variants'[t] = p
        /\ \A u \in DOMAIN Structs \ {t} : variants'[u] = variants[u]
    BY <1>1, <1>2, <1>4
  <2>3. Null \notin Blocks
    BY <1>2, BlockFacts DEF Null
  <2>4. Permanents \ {Null} \subseteq Permanents' /\ p \in Permanents'
    <3>1. p \in Permanents'
      BY <2>2 DEF Permanents
    <3>2. \A i \in DOMAIN literals : literals[i] \in Permanents'
      BY <1>1 DEF Permanents
    <3>3. \A u \in DOMAIN variants : variants[u] # Null => variants[u] \in Permanents'
      <4>1. \A u \in DOMAIN variants : variants[u] # Null => u \in DOMAIN variants' /\ variants'[u] = variants[u]
        BY <1>1, <1>2, <2>2
      <4> QED
        BY <4>1 DEF Permanents
    <3> QED
      BY <3>1, <3>2, <3>3 DEF Permanents
  <2>5. Blocks' \subseteq Permanents'
    BY <1>1, <1>2, <1>4, <2>3, <2>4 DEF PermanentInv
  <2>6. Structs' = Structs
    BY <1>1 DEF Structs
  <2> QED
    BY <2>1, <2>2, <2>5, <2>6 DEF PermanentInv
<1>6. program' \in Programs /\ status' \in {"starting", "running", "faulted"}
  BY <1>1 DEF IInv
<1> QED
  BY <1>4, <1>5, <1>6 DEF IInv

\* The parts of the invariant depend on nothing but these.
LEMMA Unmoved ==
    ASSUME IInv, UNCHANGED <<program, heap, heap_ptr, stack, frames, literals, variants, ids>>,
           status' \in {"starting", "running", "faulted"}, status' = "starting" => Starting
    PROVE  IInv'
<1>1. HeapInv'
  BY HeapKept DEF IInv
<1>2. /\ Funs' = Funs /\ Structs' = Structs /\ Blocks' = Blocks /\ Permanents' = Permanents
      /\ Starting' => Starting
  BY DEF Funs, Structs, Blocks, Permanents, Starting
<1>3. StackInv' /\ FramesInv'
  BY <1>2 DEF IInv, StackInv, FramesInv
<1>4. PermanentInv'
  BY <1>2 DEF IInv, PermanentInv
<1> QED
  BY <1>1, <1>3, <1>4 DEF IInv

LEMMA NextKeeps == IInv /\ [Next]_vars => IInv'
<1> SUFFICES ASSUME IInv, [Next]_vars
             PROVE  IInv'
  OBVIOUS
<1>1. CASE Instruction
  BY <1>1, InstructionKeeps
<1>2. CASE MaterialiseLiteral
  BY <1>2, LiteralKeeps
<1>3. ASSUME NEW t \in DOMAIN Structs, MaterialiseVariant(t)
      PROVE  IInv'
  BY <1>3, VariantKeeps
<1>4. CASE Start
  BY <1>4, Unmoved DEF Start
<1>5. CASE UNCHANGED vars
  BY <1>5, Unmoved DEF vars, IInv, Starting
<1> QED
  BY <1>1, <1>2, <1>3, <1>4, <1>5 DEF Next, Materialise, Over

LEMMA Always == Spec => []IInv
BY Begins, NextKeeps, PTL DEF Spec

-----------------------------------------------------------------------------
(* Theorems.                                                               *)

LEMMA IInvTypes == IInv => TypeOK
<1> SUFFICES ASSUME IInv
             PROVE  TypeOK
  OBVIOUS
<1>1. program \in Programs /\ HeapInv
  BY DEF IInv
<1>2. heap \in [0 .. HeapWords - 1 -> Word] /\ heap_ptr \in HeapStart .. HeapWords
  BY <1>1 DEF HeapInv, Laid
<1>3. \A i \in DOMAIN stack : stack[i] \in TaggedWords
  BY DEF IInv, StackInv
<1>4. ASSUME NEW i \in DOMAIN frames
      PROVE  /\ frames[i].fn \in DOMAIN Funs
             /\ DOMAIN frames[i].locals = 1 .. Funs[frames[i].fn].locals
             /\ frames[i].base \in 0 .. Len(stack)
  <2>1. frames \in Seq(FramesOf(Funs)) /\ \A j \in 1 .. Len(frames) : frames[j].base <= Len(stack)
    BY DEF IInv, FramesInv
  <2>2. frames[i] \in FramesOf(Funs) /\ frames[i].base <= Len(stack)
    BY <2>1
  <2>3. /\ frames[i].base \in Nat /\ frames[i].fn \in DOMAIN Funs
        /\ frames[i].locals \in [1 .. Funs[frames[i].fn].locals -> Word]
    BY <2>2, FrameIs
  <2>4. Len(stack) \in Nat
    BY DEF IInv, StackInv
  <2> QED
    BY <2>2, <2>3, <2>4
<1>5. DOMAIN ids = Starts
  BY <1>1, StartsAre DEF Blocks
<1> QED
  BY <1>2, <1>3, <1>4, <1>5 DEF TypeOK, IInv

\* The heap is words, the bump pointer lies in it, every frame of QuinVM has its
\* function's slots and a base inside the stack, and the blocks _blocks walks to
\* are exactly the objects allocated and not collected: an allocation or a
\* compaction that left the walk one block short would lose that.
THEOREM HeapTyped == Spec => []TypeOK
BY Always, IInvTypes, PTL

LEMMA IInvParses == IInv => HeapParseable
<1> SUFFICES ASSUME IInv
             PROVE  HeapParseable
  OBVIOUS
<1>1. program \in Programs /\ HeapInv
  BY DEF IInv
<1>2. Starts = Blocks
  BY <1>1, StartsAre
<1>3. heap_ptr \in {HeapStart} \cup {End(p) : p \in Starts}
  <2>1. Tiles(Blocks, Sizes, heap_ptr)
    BY <1>1, BlockFacts
  <2>2. heap_ptr = HeapStart \/ \E p \in Blocks : p + Sizes[p] = heap_ptr
    BY <2>1, TilesEnd
  <2> QED
    BY <1>2, <2>2, SizeIs
<1>4. ASSUME NEW p \in Starts
      PROVE  IsHeader(Kind(p), Detail(p))
  <2>1. HeaderFor(Structs, heap[p - 2], heap[p - 1])
    BY <1>1, <1>2 DEF HeapInv, Laid
  <2> QED
    BY <2>1, WordsAre DEF Kind, Detail
<1>5. \A a \in heap_ptr .. HeapWords - 1 : heap[a] = 0
  BY <1>1 DEF HeapInv, Laid
<1> QED
  BY <1>3, <1>4, <1>5 DEF HeapParseable

\* vm.py's "the heap is parseable by design", for every program and heap size:
\* whatever is allocated, overwritten and compacted, the walk over the headers
\* lands on heap_ptr, every header it meets says how large its block is, and the
\* words above are zero, which _bump relies on and does not clear itself.
THEOREM HeapAlwaysParses == Spec => []HeapParseable
BY Always, IInvParses, PTL

\* Every other instruction leaves the bump pointer and the permanent roots.
LEMMA OtherInstructions ==
    ASSUME Instruction, ~Allocating, ~Gc
    PROVE  UNCHANGED <<heap_ptr, literals, variants>>
<1>1. ASSUME \/ \E n \in Ints : PushInt(n)
             \/ \E i \in DOMAIN literals : LoadStr(i)
             \/ \E t \in DOMAIN Structs : LoadVariant(t)
             \/ \E s \in DOMAIN Frame.locals : LoadLocal(s) \/ StoreLocal(s)
             \/ PopValue \/ Dup \/ Swap \/ AddPointer \/ Compare
      PROVE  UNCHANGED <<heap_ptr, literals, variants>>
  BY <1>1 DEF PushInt, LoadStr, LoadVariant, LoadLocal, StoreLocal, PopValue, Dup, Swap,
              AddPointer, Compare, Memory
<1>2. ASSUME \/ \E kind \in {RefArray, ValArray} : ArrayGet(kind) \/ ArraySet(kind)
             \/ \E off \in 0 .. HeapWords : HeapLoadField(off) \/ HeapStoreField(off)
             \/ HeapLoad \/ HeapStore \/ ReadDetail \/ Fault
             \/ \E f \in DOMAIN Funs : Call(f)
             \/ Ret
      PROVE  UNCHANGED <<heap_ptr, literals, variants>>
  BY <1>2 DEF ArrayGet, ArraySet, HeapLoadField, HeapStoreField, HeapLoad, HeapStore, ReadDetail,
              Fault, Call, Ret, Memory
<1> QED
  BY <1>1, <1>2 DEF Instruction, Allocating

\* Only a collection assigns the permanent roots, and it keeps them in place.
LEMMA PermanentsHeld ==
    ASSUME IInv, [Next]_vars, status = "running"
    PROVE  UNCHANGED <<literals, variants>>
<1>1. ASSUME NEW st, CollectRoots(Marked(st))
      PROVE  UNCHANGED <<literals, variants>>
  <2>1. program \in Programs /\ HeapInv /\ PermanentInv
    BY DEF IInv
  <2>2. Marked(st) \subseteq Blocks /\ Permanents \cap Blocks \subseteq Marked(st)
    BY <2>1, MarkedIs, PermanentsMarked
  <2> QED
    BY <1>1, <2>1, <2>2, RootsKept
<1>2. ASSUME NEW st, NEW kind, NEW detail, NEW fill, Reserve(st, kind, detail, fill)
      PROVE  UNCHANGED <<literals, variants>>
  <2>1. CASE ReserveNow(st, kind, detail, fill)
    BY <2>1 DEF ReserveNow
  <2>2. CASE ReserveLater(st, kind, detail, fill)
    BY <1>1, <2>2 DEF ReserveLater
  <2>3. CASE ReserveNever(st, kind, detail)
    BY <1>1, <2>3 DEF ReserveNever, Collected
  <2> QED
    BY <1>2, <2>1, <2>2, <2>3 DEF Reserve
<1>3. CASE Allocating
  BY <1>2, <1>3, AllocationIs
<1>4. CASE Gc
  BY <1>1, <1>4 DEF Gc, Collected
<1>5. CASE Instruction /\ ~Allocating /\ ~Gc
  BY <1>5, OtherInstructions
<1>6. CASE Materialise
  BY <1>6 DEF Materialise, MaterialiseLiteral, MaterialiseVariant, Start, Starting
<1>7. CASE UNCHANGED vars
  BY <1>7 DEF vars
<1> QED
  BY <1>3, <1>4, <1>5, <1>6, <1>7 DEF Next, Over

\* vm.py's "literals do not move today", which its users may rely on although
\* the collector passes the literals and the payload-free variants to moved()
\* like any other root: they are marked from the roots and lie below every other
\* block, so each slides by nothing.
THEOREM PermanentsNeverMove == Spec => PermanentsStay
<1>1. IInv /\ [Next]_vars => [status = "running" => UNCHANGED <<literals, variants>>]_vars
  BY PermanentsHeld
<1> QED
  BY <1>1, Always, PTL DEF Spec, PermanentsStay

-----------------------------------------------------------------------------
(* What a collection leaves is what the program can still reach.           *)

ContainingIn(size, B, w) == {p \in B : p <= w /\ w < p + size[p]}
OffsetsIn(structs, h, p) ==
    CASE h[p - 2] = Struct   -> structs[h[p - 1]].refs
      [] h[p - 2] = RefArray -> 0 .. h[p - 1] - 1
      [] OTHER               -> {}

\* M holds the blocks that the words R point into, and all they refer to.
ClosedIn(M, structs, h, B, R) ==
    /\ \A w \in R : ContainingIn(SizesIn(structs, h, B), B, w) \subseteq M
    /\ \A p \in M : \A o \in OffsetsIn(structs, h, p) :
          ContainingIn(SizesIn(structs, h, B), B, h[p + o]) \subseteq M

MarkedNow == Marked(stack)
RootsNow  == RootWords(stack)
Exact     == /\ Starts = Blocks /\ MarkedNow \subseteq Blocks
             /\ ClosedIn(MarkedNow, Structs, heap, Blocks, RootsNow)

LEMMA InTermsOfBlocks ==
    ASSUME program \in Programs, HeapInv
    PROVE  /\ \A w : Containing(w) = ContainingIn(Sizes, Blocks, w)
           /\ \A p : RefOffsets(p) = OffsetsIn(Structs, heap, p)
<1>1. \A w : Containing(w) = ContainingIn(Sizes, Blocks, w)
  <2>1. Starts = Blocks
    BY StartsAre
  <2> QED
    BY <2>1, SizeIs DEF Containing, ContainingIn
<1>2. \A p : RefOffsets(p) = OffsetsIn(Structs, heap, p)
  BY DEF RefOffsets, OffsetsIn, Kind, Detail
<1> QED
  BY <1>1, <1>2

LEMMA ExactNow == IInv => Exact
<1> SUFFICES ASSUME IInv
             PROVE  Exact
  OBVIOUS
<1>1. program \in Programs /\ HeapInv
  BY DEF IInv
<1> DEFINE M == Marked(stack)
<1>2. M \subseteq Blocks /\ (\A w \in RootWords(stack) : Containing(w) \subseteq M)
  BY <1>1, MarkedIs
<1>3. \A p \in M : Targets(p) \subseteq M
  BY <1>1, MarkedIs
<1> HIDE DEF M
<1>4. \A p \in M : \A o \in RefOffsets(p) : Containing(heap[p + o]) \subseteq M
  BY <1>3 DEF Targets
<1>5. ClosedIn(M, Structs, heap, Blocks, RootWords(stack))
  BY <1>1, <1>2, <1>4, InTermsOfBlocks DEF ClosedIn, Sizes
<1>6. Starts = Blocks
  BY <1>1, StartsAre
<1> QED
  BY <1>2, <1>5, <1>6 DEF Exact, MarkedNow, RootsNow, M

\* The offsets of a block's references are inside it.
LEMMA OffsetsInside ==
    ASSUME IInv, NEW p \in Blocks, NEW o \in RefOffsets(p)
    PROVE  o \in 0 .. Sizes[p] - 1
<1> DEFINE d == Detail(p)
<1>1. program \in Programs /\ HeapInv
  BY DEF IInv
<1>2. Sizes[p] = Words(Kind(p), d) /\ IsHeader(Kind(p), d)
  <2>1. Size(p) = Sizes[p]
    BY SizeIs
  <2>2. HeaderFor(Structs, heap[p - 2], heap[p - 1])
    BY <1>1 DEF HeapInv, Laid
  <2> QED
    BY <2>1, <2>2, WordsAre DEF Size, Kind, Detail
<1>3. \A n \in Nat : n <= Larger(MinWords, n) /\ Larger(MinWords, n) \in Nat
  BY DEF Larger, MinWords
<1>4. CASE Kind(p) = Struct
  <2>1. d \in DOMAIN Structs
    BY <1>2, <1>4 DEF IsHeader
  <2>2. Structs[d].size \in Nat /\ Structs[d].refs \subseteq 0 .. Structs[d].size - 1
    BY <1>1, <2>1, ProgramFacts DEF WellMade, Structs
  <2>3. Sizes[p] = Larger(MinWords, Structs[d].size)
    <3>1. Struct \notin {RefArray, ValArray}
      BY DEF Struct, RefArray, ValArray
    <3>2. Words(Kind(p), d) = Larger(MinWords, CASE Kind(p) = Struct -> Structs[d].size
                                                 [] Kind(p) \in {RefArray, ValArray} -> d
                                                 [] OTHER -> HalfUp(d))
      BY DEF Words
    <3> QED
      BY <1>2, <1>4, <3>1, <3>2
  <2>4. RefOffsets(p) = Structs[d].refs
    <3>1. Struct # RefArray
      BY DEF Struct, RefArray
    <3> QED
      BY <1>4, <3>1 DEF RefOffsets
  <2>5. o \in 0 .. Structs[d].size - 1
    BY <2>2, <2>4
  <2> DEFINE n == Structs[d].size
  <2>6. n \in Nat /\ o \in 0 .. n - 1 /\ n <= Sizes[p] /\ Sizes[p] \in Nat
    BY <1>3, <2>2, <2>3, <2>5
  <2> HIDE DEF n
  <2> QED
    BY <2>6
<1>5. CASE Kind(p) = RefArray
  <2>1. d \in Nat
    <3>1. p - 1 \in DOMAIN heap /\ \A a \in DOMAIN heap : heap[a] \in Word
      BY <1>1, BlockFacts
    <3> QED
      BY <3>1, WordNat DEF Detail
  <2>2. Sizes[p] = Larger(MinWords, d)
    <3>1. RefArray # Struct
      BY DEF Struct, RefArray
    <3>2. Words(Kind(p), d) = Larger(MinWords, CASE Kind(p) = Struct -> Structs[d].size
                                                 [] Kind(p) \in {RefArray, ValArray} -> d
                                                 [] OTHER -> HalfUp(d))
      BY DEF Words
    <3> QED
      BY <1>2, <1>5, <3>1, <3>2
  <2>3. RefOffsets(p) = 0 .. d - 1
    <3>1. Struct # RefArray
      BY DEF Struct, RefArray
    <3> QED
      BY <1>5, <3>1 DEF RefOffsets
  <2>4. o \in 0 .. d - 1
    BY <2>3
  <2> HIDE DEF d
  <2> QED
    BY <1>3, <2>1, <2>2, <2>4
<1>6. CASE Kind(p) # Struct /\ Kind(p) # RefArray
  <2>1. RefOffsets(p) = {}
    BY <1>6 DEF RefOffsets
  <2> QED
    BY <2>1
<1> QED
  BY <1>4, <1>5, <1>6

LEMMA RootsAreWords ==
    ASSUME IInv, NEW st, OperandsOf(st), NEW w \in RootWords(st)
    PROVE  w \in Word
<1>1. CASE w \in Operands(st)
  <2>1. st \in Seq(TaggedWords)
    BY DEF OperandsOf
  <2>2. PICK i \in DOMAIN st : w = st[i].w
    BY <1>1 DEF Operands
  <2>3. st[i] \in TaggedWords
    BY <2>1, <2>2
  <2> QED
    BY <2>2, <2>3, ArgIs
<1>2. CASE w \in FrameRoots
  <2>1. PICK i \in DOMAIN frames : \E s \in Refs(frames[i].fn) : w = frames[i].locals[s]
    BY <1>2 DEF FrameRoots, Activations
  <2>2. PICK s \in Refs(frames[i].fn) : w = frames[i].locals[s]
    BY <2>1
  <2>3. frames[i] \in FramesOf(Funs)
    <3>1. frames \in Seq(FramesOf(Funs))
      BY DEF IInv, FramesInv
    <3> QED
      BY <2>1, <3>1
  <2>4. frames[i].fn \in DOMAIN Funs /\ frames[i].locals \in [1 .. Funs[frames[i].fn].locals -> Word]
    BY <2>3, FrameIs
  <2>5. Refs(frames[i].fn) \subseteq 1 .. Funs[frames[i].fn].locals
    BY <2>4, ProgramFacts DEF IInv, WellMade, Funs, Refs
  <2> QED
    BY <2>2, <2>4, <2>5
<1>3. CASE w \in Permanents
  <2>1. variants \in [DOMAIN Structs -> Blocks \cup {Null}]
    BY DEF IInv, PermanentInv
  <2> QED
    BY <1>3, <2>1, Values DEF Permanents
<1> QED
  BY <1>1, <1>2, <1>3 DEF RootWords

\* Where a collection has put a survivor, it finds it as it was, with its
\* references updated.
LEMMA SurvivorsKept ==
    ASSUME IInv, NEW S, S \subseteq Blocks, NEW h2,
           \A a \in 0 .. HeapWords - 1 : a < CollectedTop(S) => h2[a] = CollectedHeap(S)[a]
    PROVE  \A p \in S : /\ h2[Forward(S, p) - 2] = heap[p - 2] /\ h2[Forward(S, p) - 1] = heap[p - 1]
                        /\ \A o \in RefOffsets(p) : h2[Forward(S, p) + o] = Moved(S, heap[p + o])
<1>1. program \in Programs /\ HeapInv
  BY DEF IInv
<1> SUFFICES ASSUME NEW p \in S
             PROVE  /\ h2[Forward(S, p) - 2] = heap[p - 2] /\ h2[Forward(S, p) - 1] = heap[p - 1]
                    /\ \A o \in RefOffsets(p) : h2[Forward(S, p) + o] = Moved(S, heap[p + o])
  OBVIOUS
<1> DEFINE to   == Forward(S, p)
           size == Sizes[p]
           top  == CollectedTop(S)
           n    == HeapWords
<1>2. to \in Nat /\ 3 <= to /\ to + size <= top /\ top \in Nat /\ top <= heap_ptr
  BY <1>1, Forwards
<1>3. size \in Nat \ {0} /\ heap_ptr \in Nat /\ heap_ptr <= n /\ n \in Nat
  <2>1. size \in Nat \ {0} /\ heap_ptr \in Nat /\ heap_ptr <= n
    BY <1>1, BlockFacts
  <2>2. n \in Nat
    BY <1>1, ProgramFacts
  <2> QED
    BY <2>1, <2>2
<1>4. /\ CollectedHeap(S)[to - 2] = heap[p - 2] /\ CollectedHeap(S)[to - 1] = heap[p - 1]
      /\ \A o \in 0 .. size - 1 :
            CollectedHeap(S)[to + o] = IF o \in RefOffsets(p) THEN Moved(S, heap[p + o]) ELSE heap[p + o]
  BY <1>1, CollectedHeapIs
<1>5. \A o \in RefOffsets(p) : o \in 0 .. size - 1
  BY OffsetsInside
<1>6. \A a \in 0 .. n - 1 : a < top => h2[a] = CollectedHeap(S)[a]
  OBVIOUS
<1> HIDE DEF to, size, top, n
<1>7. /\ to - 2 \in 0 .. n - 1 /\ to - 1 \in 0 .. n - 1 /\ to - 2 < top /\ to - 1 < top
      /\ \A o \in 0 .. size - 1 : to + o \in 0 .. n - 1 /\ to + o < top
  BY <1>2, <1>3
<1>8. h2[to - 2] = heap[p - 2] /\ h2[to - 1] = heap[p - 1]
  BY <1>4, <1>6, <1>7
<1>9. \A o \in RefOffsets(p) : h2[to + o] = Moved(S, heap[p + o])
  BY <1>4, <1>5, <1>6, <1>7
<1> QED
  BY <1>8, <1>9 DEF to

\* A survivor that was reached is reached where it has slid to: what pointed
\* into it points to the same place in it.
LEMMA SurvivorsReached ==
    ASSUME IInv, NEW st, OperandsOf(st), NEW S, S = Marked(st), NEW h2, NEW B2, NEW R2, NEW M2,
           \A a \in 0 .. HeapWords - 1 : a < CollectedTop(S) => h2[a] = CollectedHeap(S)[a],
           \A p \in S : Forward(S, p) \in B2,
           \A w \in RootWords(st) : Moved(S, w) \in R2,
           ClosedIn(M2, Structs, h2, B2, R2)
    PROVE  \A p \in S : Forward(S, p) \in M2
<1> DEFINE size2 == SizesIn(Structs, h2, B2)
<1>1. program \in Programs /\ HeapInv
  BY DEF IInv
<1>2. /\ S \subseteq Blocks /\ (\A w \in RootWords(st) : Containing(w) \subseteq S)
      /\ \A p \in S : Targets(p) \subseteq S
  BY <1>1, MarkedIs
<1>3. \A Z \in SUBSET Blocks :
         ((\A w \in RootWords(st) : Containing(w) \subseteq Z) /\ \A p \in Z : Targets(p) \subseteq Z)
            => S \subseteq Z
  BY <1>1, MarkedIs
<1>4. \A p \in S : /\ h2[Forward(S, p) - 2] = heap[p - 2] /\ h2[Forward(S, p) - 1] = heap[p - 1]
                   /\ \A o \in RefOffsets(p) : h2[Forward(S, p) + o] = Moved(S, heap[p + o])
  BY <1>2, SurvivorsKept
<1>5. \A p \in S : size2[Forward(S, p)] = Sizes[p] /\ OffsetsIn(Structs, h2, Forward(S, p)) = RefOffsets(p)
  <2> SUFFICES ASSUME NEW p \in S
               PROVE  size2[Forward(S, p)] = Sizes[p] /\ OffsetsIn(Structs, h2, Forward(S, p)) = RefOffsets(p)
    OBVIOUS
  <2> DEFINE to == Forward(S, p)
  <2>1. h2[to - 2] = heap[p - 2] /\ h2[to - 1] = heap[p - 1] /\ to \in B2 /\ p \in Blocks
    BY <1>2, <1>4
  <2> HIDE DEF to
  <2>2. size2[to] = Sizes[p]
    BY <2>1 DEF SizesIn, Sizes
  <2>3. OffsetsIn(Structs, h2, to) = OffsetsIn(Structs, heap, p)
    BY <2>1 DEF OffsetsIn
  <2> QED
    BY <1>1, <2>2, <2>3, InTermsOfBlocks DEF to
<1> HIDE DEF size2
<1>6. ASSUME NEW w \in Word, NEW p \in S, p \in Containing(w)
      PROVE  Forward(S, p) \in ContainingIn(size2, B2, Moved(S, w))
  <2> DEFINE to == Forward(S, p)
             s  == Sizes[p]
  <2>1. p <= w /\ w < p + s
    BY <1>1, <1>6, ContainingIs
  <2>2. Moved(S, w) = to + (w - p)
    BY <1>1, <1>2, <2>1, MovedIs
  <2>3. to \in Nat /\ size2[to] = s
    BY <1>1, <1>2, <1>5, Forwards
  <2>4. p \in Nat /\ s \in Nat /\ w \in Nat
    <3>1. p \in Nat /\ s \in Nat
      BY <1>1, <1>2, BlockFacts
    <3> QED
      BY <3>1, WordNat
  <2>5. to \in B2
    OBVIOUS
  <2> HIDE DEF to, s
  <2>6. to <= to + (w - p) /\ to + (w - p) < to + s
    BY <2>1, <2>3, <2>4
  <2>7. to \in ContainingIn(size2, B2, to + (w - p))
    BY <2>3, <2>5, <2>6 DEF ContainingIn
  <2> QED
    BY <2>2, <2>7 DEF to
<1> DEFINE Z == {p \in S : Forward(S, p) \in M2}
<1>7. ASSUME NEW w \in RootWords(st)
      PROVE  Containing(w) \subseteq Z
  <2>1. w \in Word
    BY RootsAreWords
  <2>2. ContainingIn(size2, B2, Moved(S, w)) \subseteq M2
    BY DEF ClosedIn, size2
  <2> QED
    BY <1>2, <1>6, <2>1, <2>2
<1>8. ASSUME NEW p \in Z
      PROVE  Targets(p) \subseteq Z
  <2> SUFFICES ASSUME NEW q \in Targets(p)
               PROVE  q \in Z
    OBVIOUS
  <2>1. PICK o \in RefOffsets(p) : q \in Containing(heap[p + o])
    BY DEF Targets
  <2>2. q \in S /\ p \in Blocks
    BY <1>2
  <2>3. heap[p + o] \in Word
    <3>1. o \in 0 .. Sizes[p] - 1
      BY <2>2, OffsetsInside
    <3>2. Sizes[p] \in Nat
      BY <1>1, <2>2, BlockFacts
    <3>3. o \in Nat /\ o < Sizes[p]
      BY <3>1, <3>2
    <3> QED
      BY <2>2, <3>3, InBlock
  <2>4. Forward(S, q) \in ContainingIn(size2, B2, Moved(S, heap[p + o]))
    BY <1>6, <2>1, <2>2, <2>3
  <2>5. o \in OffsetsIn(Structs, h2, Forward(S, p)) /\ h2[Forward(S, p) + o] = Moved(S, heap[p + o])
    BY <1>4, <1>5
  <2>6. ContainingIn(size2, B2, h2[Forward(S, p) + o]) \subseteq M2
    BY <2>5 DEF ClosedIn, size2
  <2> QED
    BY <2>2, <2>4, <2>5, <2>6
<1>9. S \subseteq Z
  <2>1. Z \in SUBSET Blocks
    BY <1>2
  <2> HIDE DEF Z
  <2> QED
    BY <1>3, <1>7, <1>8, <2>1
<1> QED
  BY <1>9

\* What the roots are made of.
RootsHeld ==
    /\ \A i \in DOMAIN stack : stack[i].ref => stack[i].w \in RootsNow
    /\ \A i \in DOMAIN frames : \A s \in Funs[frames[i].fn].refs : frames[i].locals[s] \in RootsNow
    /\ \A i \in DOMAIN literals : literals[i] \in RootsNow
    /\ \A i \in DOMAIN variants : variants[i] \in RootsNow

LEMMA RootsAre == RootsHeld
<1>1. \A i \in DOMAIN stack : stack[i].ref => stack[i].w \in RootsNow
  BY DEF RootsNow, RootWords, Operands
<1>2. ASSUME NEW i \in DOMAIN frames, NEW s \in Funs[frames[i].fn].refs
      PROVE  frames[i].locals[s] \in RootsNow
  <2>1. frames[i].locals[s] \in FrameRoots
    BY DEF FrameRoots, Activations, Refs
  <2> QED
    BY <2>1 DEF RootsNow, RootWords
<1>3. \A i \in DOMAIN literals : literals[i] \in RootsNow
  BY DEF RootsNow, RootWords, Permanents
<1>4. \A i \in DOMAIN variants : variants[i] \in RootsNow
  BY DEF RootsNow, RootWords, Permanents
<1> QED
  BY <1>1, <1>2, <1>3, <1>4 DEF RootsHeld

\* The roots of the next state are the old ones, each pointing to where its
\* block has gone.
LEMMA RootsFollow ==
    ASSUME IInv, NEW st, OperandsOf(st), NEW S, CollectRoots(S), program' = program,
           \A i \in DOMAIN st : i \in DOMAIN stack' /\ stack'[i] = CollectedStack(S, st)[i]
    PROVE  \A w \in RootWords(st) : Moved(S, w) \in RootsNow'
<1>1. /\ frames' = CollectedFrames(S)
      /\ literals' = [i \in DOMAIN literals |-> Moved(S, literals[i])]
      /\ variants' = [i \in DOMAIN variants |-> Moved(S, variants[i])]
  BY DEF CollectRoots
<1>2. /\ \A i \in DOMAIN stack' : stack'[i].ref => stack'[i].w \in RootsNow'
      /\ \A i \in DOMAIN frames' : \A s \in Funs[frames'[i].fn].refs : frames'[i].locals[s] \in RootsNow'
      /\ \A i \in DOMAIN literals' : literals'[i] \in RootsNow'
      /\ \A i \in DOMAIN variants' : variants'[i] \in RootsNow'
  <2>1. RootsHeld'
    BY RootsAre, PTL
  <2>2. Funs' = Funs
    BY DEF Funs
  <2> QED
    BY <2>1, <2>2 DEF RootsHeld
<1>3. ASSUME NEW w \in Operands(st)
      PROVE  Moved(S, w) \in RootsNow'
  <2>1. PICK i \in DOMAIN st : w = st[i].w /\ st[i].ref
    BY DEF Operands
  <2>2. st[i] \in TaggedWords
    BY <2>1 DEF OperandsOf
  <2>3. stack'[i] = [st[i] EXCEPT !.w = Moved(S, @)]
    BY <2>1 DEF CollectedStack
  <2>4. stack'[i].w = Moved(S, w) /\ stack'[i].ref
    BY <2>1, <2>2, <2>3 DEF TaggedWords
  <2>5. i \in {j \in DOMAIN stack' : stack'[j].ref}
    BY <2>4
  <2> QED
    BY <1>2, <2>4, <2>5
<1>4. ASSUME NEW w \in FrameRoots
      PROVE  Moved(S, w) \in RootsNow'
  <2>1. PICK i \in DOMAIN frames : \E s \in Refs(frames[i].fn) : w = frames[i].locals[s]
    BY DEF FrameRoots, Activations
  <2>2. PICK s \in Refs(frames[i].fn) : w = frames[i].locals[s]
    BY <2>1
  <2>3. frames[i] \in FramesOf(Funs)
    <3>1. frames \in Seq(FramesOf(Funs))
      BY DEF IInv, FramesInv
    <3> QED
      BY <2>1, <3>1
  <2>4. /\ frames[i].fn \in DOMAIN Funs /\ frames[i].locals \in [1 .. Funs[frames[i].fn].locals -> Word]
        /\ frames[i] = [fn |-> frames[i].fn, locals |-> frames[i].locals, base |-> frames[i].base]
    BY <2>3, FrameIs
  <2>5. s \in DOMAIN frames[i].locals
    <3>1. Refs(frames[i].fn) \subseteq 1 .. Funs[frames[i].fn].locals
      BY <2>4, ProgramFacts DEF IInv, WellMade, Funs, Refs
    <3> QED
      BY <2>4, <3>1
  <2> DEFINE ls == [x \in DOMAIN frames[i].locals |->
                      IF x \in Refs(frames[i].fn) THEN Moved(S, frames[i].locals[x]) ELSE frames[i].locals[x]]
  <2>6. i \in DOMAIN frames' /\ frames'[i] = [frames[i] EXCEPT !.locals = ls]
    BY <1>1 DEF CollectedFrames
  <2>7. ls[s] = Moved(S, w)
    BY <2>2, <2>5
  <2> HIDE DEF ls
  <2>8. frames'[i].fn = frames[i].fn /\ frames'[i].locals = ls
    BY <2>4, <2>6
  <2>9. s \in Funs[frames'[i].fn].refs
    BY <2>8 DEF Refs
  <2>10. \A j \in DOMAIN frames' : \A x \in Funs[frames'[j].fn].refs : frames'[j].locals[x] \in RootsNow'
    BY <1>2, Zenon
  <2>11. i \in DOMAIN frames'
    BY <2>6, Zenon
  <2>12. frames'[i].locals[s] \in RootsNow'
    BY <2>9, <2>10, <2>11, Zenon
  <2>13. frames'[i].locals[s] = Moved(S, w)
    BY <2>7, <2>8, Zenon
  <2> QED
    BY <2>12, <2>13, Zenon
<1>5. ASSUME NEW w \in Permanents
      PROVE  Moved(S, w) \in RootsNow'
  <2>1. CASE \E i \in DOMAIN literals : w = literals[i]
    BY <1>1, <1>2, <2>1
  <2>2. CASE \E i \in DOMAIN variants : w = variants[i]
    BY <1>1, <1>2, <2>2
  <2> QED
    BY <2>1, <2>2 DEF Permanents
<1> QED
  BY <1>3, <1>4, <1>5 DEF RootWords

\* A collection, and the block N put on top of it if it was for one, leaves
\* nothing that the next mark would not keep.
LEMMA CollectedExactly ==
    ASSUME IInv, IInv', program' = program, NEW st, OperandsOf(st), NEW S, S = Marked(st),
           CollectRoots(S), NEW N, Blocks' = {Forward(S, p) : p \in S} \cup N, N \subseteq RootsNow',
           \A a \in 0 .. HeapWords - 1 : a < CollectedTop(S) => heap'[a] = CollectedHeap(S)[a],
           \A i \in DOMAIN st : i \in DOMAIN stack' /\ stack'[i] = CollectedStack(S, st)[i]
    PROVE  Starts' = Marked(stack)'
<1>1. Exact'
  BY ExactNow, PTL
<1>2. Structs' = Structs /\ HeapWords' = HeapWords
  BY DEF Structs, HeapWords
<1>3. /\ Starts' = Blocks' /\ MarkedNow' \subseteq Blocks'
      /\ ClosedIn(MarkedNow', Structs, heap', Blocks', RootsNow')
  BY <1>1, <1>2 DEF Exact
<1>4. \A w \in RootWords(st) : Moved(S, w) \in RootsNow'
  BY RootsFollow
<1>5. \A p \in S : Forward(S, p) \in MarkedNow'
  BY <1>3, <1>4, SurvivorsReached
<1>6. ASSUME NEW n \in N
      PROVE  n \in MarkedNow'
  <2> DEFINE size2 == SizesIn(Structs, heap', Blocks')
  <2>1. Laid(HeapWords, Structs, heap', Blocks', heap_ptr')
    BY <1>2 DEF IInv, HeapInv
  <2>2. HeapWords \in Nat
    BY ProgramFacts DEF IInv
  <2>3. n \in Nat /\ size2[n] \in Nat \ {0}
    BY <2>1, <2>2, LaidAt
  <2>4. n \in ContainingIn(size2, Blocks', n)
    <3> HIDE DEF size2
    <3>1. n \in Blocks' /\ n <= n /\ n < n + size2[n]
      BY <2>3
    <3> QED
      BY <3>1 DEF ContainingIn
  <2>5. n \in RootsNow'
    OBVIOUS
  <2> QED
    BY <1>3, <2>4, <2>5 DEF ClosedIn
<1>7. Blocks' \subseteq MarkedNow'
  BY <1>5, <1>6
<1>8. Starts' = MarkedNow'
  BY <1>3, <1>7
<1> QED
  BY <1>8 DEF MarkedNow

LEMMA CollectedAlone ==
    ASSUME IInv, IInv', program' = program, NEW st, OperandsOf(st), Collected(Marked(st), st)
    PROVE  Starts' = Marked(stack)'
<1> DEFINE S == Marked(st)
           N == {}
<1>1. program \in Programs /\ HeapInv
  BY DEF IInv
<1>2. S \subseteq Blocks
  BY <1>1, MarkedIs
<1>3. /\ heap' = CollectedHeap(S) /\ stack' = CollectedStack(S, st) /\ ids' = CollectedIds(S)
      /\ CollectRoots(S)
  BY DEF Collected
<1>4. S = Marked(st)
  OBVIOUS
<1> HIDE DEF S
<1>5. Blocks' = {Forward(S, p) : p \in S} \cup N
  BY <1>1, <1>2, <1>3, CollectedLaid DEF Blocks
<1>6. N \subseteq RootsNow'
  OBVIOUS
<1>7. \A i \in DOMAIN st : i \in DOMAIN stack' /\ stack'[i] = CollectedStack(S, st)[i]
  BY <1>3 DEF CollectedStack
<1>8. \A a \in 0 .. HeapWords - 1 : a < CollectedTop(S) => heap'[a] = CollectedHeap(S)[a]
  BY <1>3
<1> HIDE DEF N
<1> QED
  BY <1>3, <1>4, <1>5, <1>6, <1>7, <1>8, CollectedExactly

LEMMA CollectedForOne ==
    ASSUME IInv, IInv', NEW st, OperandsOf(st), NEW kind, NEW detail, NEW fill,
           ReserveLater(st, kind, detail, fill)
    PROVE  Starts' = Marked(stack)'
<1> DEFINE S   == Marked(st)
           top == CollectedTop(S)
           new == top + Header
           N   == {new}
<1>1. program \in Programs /\ HeapInv
  BY DEF IInv
<1>2. S \subseteq Blocks
  BY <1>1, MarkedIs
<1>3. /\ heap' = Placed(CollectedHeap(S), top, kind, detail, fill)
      /\ stack' = Append(CollectedStack(S, st), New(new)) /\ ids' = Named(CollectedIds(S), new)
      /\ CollectRoots(S) /\ program' = program
  BY DEF ReserveLater
<1>4. S = Marked(st) /\ new = top + Header
  OBVIOUS
<1>5. top \in Nat
  BY <1>1, <1>2, Forwards
<1>6. \A a \in 0 .. HeapWords - 1 : a < top => heap'[a] = CollectedHeap(S)[a]
  <2>1. DOMAIN CollectedHeap(S) = 0 .. HeapWords - 1
    BY <1>1, <1>2, CollectedHeapIs
  <2> DEFINE h == CollectedHeap(S)
             n == HeapWords
             w == Words(kind, detail)
  <2>2. heap' = Placed(h, top, kind, detail, fill) /\ DOMAIN h = 0 .. n - 1
    BY <1>3, <2>1
  <2>3. \A a : (top + Header) .. (top + Header + w - 1) \subseteq Int
    OBVIOUS
  <2> HIDE DEF h, n, w, top
  <2>4. \A a \in 0 .. n - 1 : a < top => a # top /\ a # top + 1 /\ a \notin (top + Header) .. (top + Header + w - 1)
    BY <1>5 DEF Header
  <2>5. \A a \in 0 .. n - 1 : a < top => Placed(h, top, kind, detail, fill)[a] = h[a]
    BY <2>2, <2>4 DEF Placed, w
  <2> QED
    BY <2>2, <2>5 DEF h, n
<1> HIDE DEF S, top, new
<1>7. Blocks' = {Forward(S, p) : p \in S} \cup N
  BY <1>1, <1>2, <1>3, CollectedLaid DEF Blocks, Named
<1>8. st \in Seq(TaggedWords) /\ CollectedStack(S, st) \in Seq(TaggedWords) /\ Len(CollectedStack(S, st)) = Len(st)
  BY <1>1, <1>2, StackMoved DEF OperandsOf
<1>9. /\ \A i \in DOMAIN st : i \in DOMAIN stack' /\ stack'[i] = CollectedStack(S, st)[i]
      /\ Len(st) + 1 \in DOMAIN stack' /\ stack'[Len(st) + 1] = New(new)
  <2> DEFINE st2 == CollectedStack(S, st)
             v   == New(new)
  <2>1. st2 \in Seq(TaggedWords) /\ Len(st2) = Len(st) /\ st \in Seq(TaggedWords) /\ stack' = Append(st2, v)
    BY <1>3, <1>8
  <2> HIDE DEF st2, v
  <2>2. /\ \A i \in DOMAIN st : i \in DOMAIN stack' /\ stack'[i] = st2[i]
        /\ Len(st) + 1 \in DOMAIN stack' /\ stack'[Len(st) + 1] = v
    BY <2>1
  <2> QED
    BY <2>2 DEF st2, v
<1>10. N \subseteq RootsNow'
  <2>1. RootsHeld'
    BY RootsAre, PTL
  <2>2. \A i \in DOMAIN stack' : stack'[i].ref => stack'[i].w \in RootsNow'
    BY <2>1 DEF RootsHeld
  <2>3. New(new).ref /\ New(new).w = new
    BY DEF New
  <2> QED
    BY <1>9, <2>2, <2>3
<1>11. \A a \in 0 .. HeapWords - 1 : a < CollectedTop(S) => heap'[a] = CollectedHeap(S)[a]
  BY <1>6 DEF top
<1> HIDE DEF N
<1>12. CollectRoots(S) /\ program' = program /\ S = Marked(st)
  BY <1>3, <1>4
<1>13. \A i \in DOMAIN st : i \in DOMAIN stack' /\ stack'[i] = CollectedStack(S, st)[i]
  BY <1>9
<1> QED
  BY <1>7, <1>10, <1>11, <1>12, <1>13, CollectedExactly

\* The walk finds what the definition without one names.
LEMMA MarksTheReachable ==
    ASSUME program \in Programs, HeapInv, NEW st
    PROVE  Marked(st) = Reachable(st)
<1> DEFINE M      == Marked(st)
           into(w, p) == p <= w /\ w < End(p)
           root   == {p \in Starts : \E w \in RootWords(st) : into(w, p)}
           edge   == {e \in Starts \X Starts : \E o \in RefOffsets(e[1]) : into(heap[e[1] + o], e[2])}
           closed == {Z \in SUBSET Starts : root \subseteq Z /\ \A e \in edge : e[1] \in Z => e[2] \in Z}
<1>1. Starts = Blocks
  BY StartsAre
<1>2. /\ M \subseteq Starts /\ (\A w \in RootWords(st) : Containing(w) \subseteq M)
      /\ \A p \in M : Targets(p) \subseteq M
      /\ \A Z \in SUBSET Starts :
            ((\A w \in RootWords(st) : Containing(w) \subseteq Z) /\ \A p \in Z : Targets(p) \subseteq Z)
               => M \subseteq Z
  BY <1>1, MarkedIs
<1>3. \A Z : root \subseteq Z <=> \A w \in RootWords(st) : Containing(w) \subseteq Z
  BY DEF Containing
<1>4. \A p, q \in Starts : <<p, q>> \in edge <=> q \in Targets(p)
  <2> SUFFICES ASSUME NEW p \in Starts, NEW q \in Starts
               PROVE  <<p, q>> \in edge <=> q \in Targets(p)
    OBVIOUS
  <2>1. q \in Targets(p) <=> \E o \in RefOffsets(p) : q \in Containing(heap[p + o])
    BY DEF Targets
  <2>2. \A o : q \in Containing(heap[p + o]) <=> into(heap[p + o], q)
    BY DEF Containing
  <2> QED
    BY <2>1, <2>2
<1>5. \A Z \in SUBSET Starts :
         (\A e \in edge : e[1] \in Z => e[2] \in Z) <=> \A p \in Z : Targets(p) \subseteq Z
  <2> SUFFICES ASSUME NEW Z \in SUBSET Starts
               PROVE  (\A e \in edge : e[1] \in Z => e[2] \in Z) <=> \A p \in Z : Targets(p) \subseteq Z
    OBVIOUS
  <2>1. \A p : Targets(p) \subseteq Starts
    BY DEF Targets, Containing
  <2>2. edge \subseteq Starts \X Starts
    OBVIOUS
  <2> HIDE DEF edge
  <2>3. ASSUME \A e \in edge : e[1] \in Z => e[2] \in Z, NEW p \in Z, NEW q \in Targets(p)
        PROVE  q \in Z
    <3>1. p \in Starts /\ q \in Starts
      BY <2>1
    <3>2. <<p, q>> \in edge
      BY <1>4, <3>1
    <3> QED
      BY <2>3, <3>2
  <2>4. ASSUME \A p \in Z : Targets(p) \subseteq Z, NEW e \in edge, e[1] \in Z
        PROVE  e[2] \in Z
    <3>1. e = <<e[1], e[2]>> /\ e[1] \in Starts /\ e[2] \in Starts
      BY <2>2
    <3>2. e[2] \in Targets(e[1])
      BY <1>4, <3>1
    <3> QED
      BY <2>4, <3>2
  <2> QED
    BY <2>3, <2>4
<1> HIDE DEF M, root, edge
<1>6. M \in closed /\ \A Z \in closed : M \subseteq Z
  BY <1>2, <1>3, <1>5
<1>7. {p \in Starts : \A Z \in closed : p \in Z} = M
  <2> HIDE DEF closed
  <2> QED  BY <1>2, <1>6
<1>8. Reachable(st) = {p \in Starts : \A Z \in closed : p \in Z}
  BY DEF Reachable, root, edge
<1> QED
  BY <1>7, <1>8 DEF M

MarksNow == Marked(stack) = Reachable(stack)

LEMMA MarksStanding == IInv => MarksNow
BY MarksTheReachable DEF IInv, MarksNow

\* A mark that spares a block leaves a word to win back.
LEMMA NothingToFree ==
    ASSUME IInv, CollectedTop(Marked(stack)) = heap_ptr
    PROVE  Starts = Reachable(stack)
<1> DEFINE S == Marked(stack)
<1>1. program \in Programs /\ HeapInv
  BY DEF IInv
<1>2. S \subseteq Blocks /\ S = Reachable(stack) /\ Starts = Blocks
  BY <1>1, MarkedIs, MarksTheReachable, StartsAre
<1>3. Tiles(Blocks, Sizes, heap_ptr) /\ heap_ptr \in Nat /\ HeapStart + Count(Sizes, S) = heap_ptr
  <2>1. CollectedTop(S) = SlidTop(Sizes, S)
    BY <1>1, <1>2, ForwardIs
  <2> QED
    BY <1>1, <2>1, BlockFacts DEF SlidTop
<1> HIDE DEF S
<1>4. ASSUME NEW p \in Blocks, p \notin S
      PROVE  FALSE
  <2>1. p \in Span(Sizes, p) /\ p \in Nat
    BY <1>1, BlockFacts DEF Span, Header
  <2>2. p \in Spans(Sizes, Blocks)
    BY <2>1 DEF Spans
  <2>3. ASSUME NEW q \in S, p \in Span(Sizes, q)
        PROVE  FALSE
    <3>1. /\ p \in Nat /\ q \in Nat /\ Sizes[p] \in Nat \ {0} /\ Sizes[q] \in Nat \ {0} /\ p # q
          /\ p < q => p + Sizes[p] + Header <= q
          /\ q < p => q + Sizes[q] + Header <= p
      BY <1>1, <1>2, <1>4, BlockFacts
    <3>2. q - Header <= p /\ p <= q + Sizes[q] - 1
      BY <2>3 DEF Span
    <3> QED
      BY <3>1, <3>2 DEF Header
  <2>4. p \notin Spans(Sizes, S)
    BY <2>3 DEF Spans
  <2>5. /\ IsFiniteSet(Spans(Sizes, Blocks)) /\ Count(Sizes, Blocks) \in Nat /\ Count(Sizes, S) \in Nat
        /\ Count(Sizes, Blocks) <= heap_ptr - HeapStart
    BY <1>2, <1>3, CountType
  <2>6. Spans(Sizes, S) \in SUBSET Spans(Sizes, Blocks) /\ Spans(Sizes, S) # Spans(Sizes, Blocks)
    BY <1>2, <2>2, <2>4 DEF Spans
  <2>7. Count(Sizes, S) <= Count(Sizes, Blocks) /\ Count(Sizes, S) # Count(Sizes, Blocks)
    BY <2>5, <2>6, FS_Subset DEF Count
  <2> QED
    BY <1>3, <2>5, <2>7 DEF HeapStart
<1> QED
  BY <1>2, <1>4

\* An allocation finds the whole of the operand stack, or all but two operands.
LEMMA RequestsStand ==
    ASSUME IInv, NEW r \in Requests
    PROVE  OperandsOf(r[1])
<1>1. OperandsOf(stack)
  BY Standing
<1>2. r[1] = stack \/ (Has(2) /\ r[1] = Drop(stack, 2))
  BY DEF Requests
<1>3. ASSUME Has(2)
      PROVE  OperandsOf(Drop(stack, 2))
  BY <1>3, Taken, NumbersAre
<1> QED
  BY <1>1, <1>2, <1>3

LEMMA CollectingExact ==
    ASSUME IInv, IInv', Collects
    PROVE  Starts' = Reachable(stack)'
<1>1. MarksNow'
  BY MarksStanding, PTL
<1>2. Starts' = Marked(stack)'
  <2>1. CASE Gc
    <3>1. Collected(Marked(stack), stack) /\ program' = program
      BY <2>1 DEF Gc
    <3> QED
      BY <3>1, Standing, CollectedAlone
  <2>2. ASSUME NEW r \in Requests, ReserveLater(r[1], r[2], r[3], r[4])
        PROVE  Starts' = Marked(stack)'
    BY <2>2, RequestsStand, CollectedForOne
  <2>3. ASSUME NEW r \in Requests, ReserveNever(r[1], r[2], r[3])
        PROVE  Starts' = Marked(stack)'
    <3>1. Collected(Marked(r[1]), r[1]) /\ program' = program
      BY <2>3 DEF ReserveNever
    <3> QED
      BY <3>1, RequestsStand, CollectedAlone
  <2> QED
    BY <2>1, <2>2, <2>3 DEF Collects
<1> QED
  BY <1>1, <1>2 DEF MarksNow

LEMMA RefusedInTime ==
    ASSUME IInv
    PROVE  ~RefusesTooSoon
<1>1. \A st : Marked(st) = Reachable(st)
  BY MarksTheReachable DEF IInv
<1>2. ASSUME NEW r \in Requests, ReserveNever(r[1], r[2], r[3])
      PROVE  ~Fits(CollectedTop(Reachable(r[1])), Words(r[2], r[3]))
  <2>1. ~Fits(CollectedTop(Marked(r[1])), Words(r[2], r[3]))
    BY <1>2 DEF ReserveNever
  <2> QED
    BY <1>1, <2>1
<1> QED
  BY <1>2 DEF RefusesTooSoon

\* vm.py's "cycles are collected, since reachability is what matters", and its
\* "Heap out of memory": after gc(), after a collection that made room for a
\* block and after one that could not, the blocks in the heap, the new one among
\* them, are those that can be reached from the roots, where reachability is the
\* least closed set and not the collector's walk; an allocation that fits beside
\* them is not refused; and where a gc() would free nothing every block is
\* reachable.
THEOREM CollectionsExact == Spec => CollectionIsExact
<1>1. IInv /\ IInv' => (Collects => Starts' = Reachable(stack)') /\ ~RefusesTooSoon
  BY CollectingExact, RefusedInTime
<1>2. IInv => ((Running /\ CollectedTop(Marked(stack)) = heap_ptr) => Starts = Reachable(stack))
  BY NothingToFree
<1> QED
  BY <1>1, <1>2, Always, PTL DEF CollectionIsExact

-----------------------------------------------------------------------------
(* No reference dangles.                                                   *)

\* Where a reference may point: null, or a word of a block.
Places(size, B) == {Null} \cup UNION {p .. (p + size[p] - 1) : p \in B}

StackIn(P, st)             == \A i \in DOMAIN st : st[i].ref => st[i].w \in P
FramesIn(P, funs, fs)      == \A i \in DOMAIN fs : \A s \in funs[fs[i].fn].refs : fs[i].locals[s] \in P
FieldsIn(P, structs, h, B) == \A p \in B : \A o \in OffsetsIn(structs, h, p) : h[p + o] \in P

PlacesNow == Places(Sizes, Blocks)

Holding ==
    /\ StackIn(PlacesNow, stack)
    /\ FramesIn(PlacesNow, Funs, frames)
    /\ FieldsIn(PlacesNow, Structs, heap, Blocks)

LEMMA InPlaces ==
    ASSUME IInv
    PROVE  /\ Blocks \subseteq PlacesNow /\ Null \in PlacesNow
           /\ \A p \in Blocks : \A o \in Nat : o < Sizes[p] => p + o \in PlacesNow
           /\ \A w \in PlacesNow : w = Null \/ \E p \in Blocks : p <= w /\ w < p + Sizes[p]
<1>1. \A p \in Blocks : p \in Nat /\ Sizes[p] \in Nat \ {0}
  BY BlockFacts DEF IInv
<1>2. \A p \in Blocks : \A w \in p .. (p + Sizes[p] - 1) : w \in PlacesNow
  BY DEF PlacesNow, Places
<1>3. Null \in PlacesNow
  BY DEF PlacesNow, Places
<1>4. ASSUME NEW p \in Blocks, NEW o \in Nat, o < Sizes[p]
      PROVE  p + o \in PlacesNow
  <2> DEFINE n == Sizes[p]
  <2>1. p \in Nat /\ n \in Nat /\ o < n
    BY <1>1, <1>4
  <2> HIDE DEF n
  <2>2. p + o \in p .. (p + n - 1)
    BY <1>4, <2>1
  <2> QED
    BY <1>2, <2>2 DEF n
<1>5. \A p \in Blocks : p \in PlacesNow
  <2>1. \A p \in Blocks : 0 \in Nat /\ 0 < Sizes[p] /\ p + 0 = p
    BY <1>1
  <2> QED
    BY <1>4, <2>1
<1>6. ASSUME NEW w \in PlacesNow, w # Null
      PROVE  \E p \in Blocks : p <= w /\ w < p + Sizes[p]
  <2>1. PICK p \in Blocks : w \in p .. (p + Sizes[p] - 1)
    BY <1>6 DEF PlacesNow, Places
  <2> DEFINE n == Sizes[p]
  <2>2. p \in Nat /\ n \in Nat /\ w \in p .. (p + n - 1)
    BY <1>1, <2>1
  <2> HIDE DEF n
  <2>3. p <= w /\ w < p + n
    BY <2>2
  <2> QED
    BY <2>3 DEF n
<1> QED
  BY <1>3, <1>4, <1>5, <1>6

LEMMA FrameHolds ==
    ASSUME IInv, NEW i \in DOMAIN frames, NEW s \in Refs(frames[i].fn)
    PROVE  /\ i \in 1 .. Len(frames) /\ frames[i] \in FramesOf(Funs) /\ frames[i].fn \in DOMAIN Funs
           /\ s \in Funs[frames[i].fn].refs /\ s \in DOMAIN frames[i].locals /\ frames[i].locals[s] \in Word
<1>1. frames \in Seq(FramesOf(Funs))
  BY DEF IInv, FramesInv
<1>2. i \in 1 .. Len(frames) /\ frames[i] \in FramesOf(Funs)
  BY <1>1
<1>3. frames[i].fn \in DOMAIN Funs /\ frames[i].locals \in [1 .. Funs[frames[i].fn].locals -> Word]
  BY <1>2, FrameIs
<1>4. Refs(frames[i].fn) \subseteq 1 .. Funs[frames[i].fn].locals
  BY <1>3, ProgramFacts DEF IInv, WellMade, Funs, Refs
<1> QED
  BY <1>2, <1>3, <1>4 DEF Refs

LEMMA FieldIsWord ==
    ASSUME IInv, NEW p \in Blocks, NEW o \in RefOffsets(p)
    PROVE  o \in Nat /\ o < Sizes[p] /\ heap[p + o] \in Word
<1>1. o \in 0 .. Sizes[p] - 1
  BY OffsetsInside
<1>2. Sizes[p] \in Nat
  BY BlockFacts DEF IInv
<1>3. o \in Nat /\ o < Sizes[p]
  BY <1>1, <1>2
<1> QED
  BY <1>3, InBlock

\* What the invariant says, in the words of the property.
LEMMA HoldingMeans ==
    ASSUME IInv, Holding
    PROVE  ReferencesHeld
<1>1. program \in Programs /\ HeapInv
  BY DEF IInv
<1>2. ASSUME NEW w \in Word, w \in PlacesNow
      PROVE  Held(w)
  <2>1. CASE w = Null
    BY <2>1 DEF Held
  <2>2. ASSUME NEW p \in Blocks, p <= w, w < p + Sizes[p]
        PROVE  Held(w)
    <3>1. Containing(w) = {p}
      BY <1>1, <2>2, ContainingIs
    <3> QED
      BY <3>1 DEF Held
  <2> QED
    BY <1>2, <2>1, <2>2, InPlaces
<1>3. ASSUME NEW w \in RootWords(stack)
      PROVE  w \in PlacesNow
  <2>1. CASE w \in Operands(stack)
    BY <2>1 DEF Operands, Holding, StackIn
  <2>2. CASE w \in FrameRoots
    <3>1. PICK i \in DOMAIN frames : \E s \in Refs(frames[i].fn) : w = frames[i].locals[s]
      BY <2>2 DEF FrameRoots, Activations
    <3> QED
      BY <3>1 DEF Holding, FramesIn, Refs
  <2>3. CASE w \in Permanents
    <3>1. literals \in Seq(Blocks) /\ variants \in [DOMAIN Structs -> Blocks \cup {Null}]
      BY DEF IInv, PermanentInv
    <3>2. w \in Blocks \cup {Null}
      BY <2>3, <3>1 DEF Permanents
    <3> QED
      BY <3>2, InPlaces
  <2> QED
    BY <2>1, <2>2, <2>3 DEF RootWords
<1>4. \A w \in RootWords(stack) : Held(w)
  BY <1>2, <1>3, Standing, RootsAreWords
<1>5. ASSUME NEW p \in Blocks, NEW o \in RefOffsets(p)
      PROVE  Held(heap[p + o])
  <2>1. o \in OffsetsIn(Structs, heap, p)
    BY <1>1, InTermsOfBlocks
  <2>2. heap[p + o] \in PlacesNow
    BY <2>1 DEF Holding, FieldsIn
  <2> QED
    BY <1>2, <2>2, FieldIsWord
<1>6. Starts = Blocks
  BY <1>1, StartsAre
<1> QED
  BY <1>4, <1>5, <1>6 DEF ReferencesHeld

\* The next state, from its parts.
LEMMA HoldsNext ==
    ASSUME program' = program, NEW P, PlacesNow' = P,
           StackIn(P, stack'), FramesIn(P, Funs, frames'), FieldsIn(P, Structs, heap', Blocks')
    PROVE  Holding'
<1>1. Funs' = Funs /\ Structs' = Structs
  BY DEF Funs, Structs
<1> QED
  BY <1>1 DEF Holding

LEMMA PlacesKept ==
    ASSUME UNCHANGED <<program, heap, ids>>
    PROVE  PlacesNow' = PlacesNow /\ Blocks' = Blocks
<1>1. Blocks' = Blocks /\ Structs' = Structs
  BY DEF Blocks, Structs
<1>2. Sizes' = Sizes
  BY <1>1 DEF Sizes
<1> QED
  BY <1>1, <1>2 DEF PlacesNow

\* A step that leaves the blocks alone.
LEMMA OperandsHold ==
    ASSUME Holding, UNCHANGED <<program, heap, ids>>,
           StackIn(PlacesNow, stack'), FramesIn(PlacesNow, Funs, frames')
    PROVE  Holding'
<1>1. PlacesNow' = PlacesNow /\ Blocks' = Blocks
  BY PlacesKept
<1>2. FieldsIn(PlacesNow, Structs, heap', Blocks')
  BY <1>1 DEF Holding
<1> QED
  BY <1>1, <1>2, HoldsNext

LEMMA DropIn ==
    ASSUME NEW P, NEW s \in Seq(TaggedWords), StackIn(P, s), NEW k \in Nat, k <= Len(s)
    PROVE  StackIn(P, Drop(s, k))
<1>1. Len(s) \in Nat /\ Len(s) - k \in Nat
  OBVIOUS
<1>2. Drop(s, k) = [i \in 1 .. (Len(s) - k) |-> s[i]]
  BY <1>1 DEF Drop
<1>3. \A i \in 1 .. (Len(s) - k) : i \in DOMAIN s
  BY <1>1
<1> QED
  BY <1>2, <1>3 DEF StackIn

LEMMA AppendIn ==
    ASSUME NEW P, NEW s \in Seq(TaggedWords), StackIn(P, s), NEW v, v.ref => v.w \in P
    PROVE  StackIn(P, Append(s, v))
<1>1. /\ Len(s) \in Nat /\ DOMAIN s = 1 .. Len(s)
      /\ DOMAIN Append(s, v) = 1 .. (Len(s) + 1)
      /\ \A i \in 1 .. Len(s) : Append(s, v)[i] = s[i]
      /\ Append(s, v)[Len(s) + 1] = v
  OBVIOUS
<1>2. \A i \in 1 .. (Len(s) + 1) : i \in 1 .. Len(s) \/ i = Len(s) + 1
  BY <1>1
<1> QED
  BY <1>1, <1>2 DEF StackIn

LEMMA TakenHolds ==
    ASSUME IInv, Holding, NEW k \in Nat, Has(k)
    PROVE  /\ StackIn(PlacesNow, Drop(stack, k))
           /\ \A j \in 1 .. k : Arg(j).ref => Arg(j).w \in PlacesNow
<1>1. stack \in Seq(TaggedWords) /\ Len(stack) \in Nat /\ k <= Len(stack)
  BY Taken DEF IInv, StackInv
<1>2. StackIn(PlacesNow, stack)
  BY DEF Holding
<1>3. \A j \in 1 .. k : Len(stack) - j + 1 \in DOMAIN stack
  BY <1>1
<1> QED
  BY <1>1, <1>2, <1>3, DropIn DEF StackIn, Arg

LEMMA PushHolds ==
    ASSUME IInv, Holding, NEW k \in Nat, Has(k), NEW w, NEW ref, Push(k, w, ref),
           ref => w \in PlacesNow, UNCHANGED <<Memory, frames>>
    PROVE  Holding'
<1> DEFINE v == [w |-> w, ref |-> ref]
<1>1. Drop(stack, k) \in Seq(TaggedWords) /\ StackIn(PlacesNow, Drop(stack, k))
  BY Taken, TakenHolds
<1>2. v.ref => v.w \in PlacesNow
  OBVIOUS
<1>3. stack' = Append(Drop(stack, k), v)
  BY DEF Push
<1> HIDE DEF v
<1>4. StackIn(PlacesNow, stack')
  BY <1>1, <1>2, <1>3, AppendIn
<1>5. UNCHANGED <<program, heap, ids>> /\ FramesIn(PlacesNow, Funs, frames')
  BY DEF Memory, Holding
<1> QED
  BY <1>4, <1>5, OperandsHold

LEMMA PushesHold ==
    ASSUME IInv, Holding, ~PastTheEnd
    PROVE  /\ \A n \in Ints : PushInt(n) => Holding'
           /\ \A i \in DOMAIN literals : LoadStr(i) => Holding'
           /\ \A t \in DOMAIN Structs : LoadVariant(t) => Holding'
           /\ \A s \in DOMAIN Frame.locals : LoadLocal(s) => Holding'
           /\ (Compare => Holding') /\ (AddPointer => Holding')
<1>1. Has(0)
  BY EmptyHanded
<1>2. literals \in Seq(Blocks) /\ variants \in [DOMAIN Structs -> Blocks \cup {Null}]
  BY DEF IInv, PermanentInv
<1>3. ASSUME NEW n \in Ints, PushInt(n)
      PROVE  Holding'
  <2>1. Push(0, n, FALSE) /\ UNCHANGED <<Memory, frames>>
    BY <1>3 DEF PushInt
  <2> QED
    BY <1>1, <2>1, NumbersAre, PushHolds
<1>4. ASSUME NEW i \in DOMAIN literals, LoadStr(i)
      PROVE  Holding'
  <2>1. Push(0, literals[i], TRUE) /\ UNCHANGED <<Memory, frames>>
    BY <1>4 DEF LoadStr
  <2>2. literals[i] \in PlacesNow
    BY <1>2, InPlaces
  <2> QED
    BY <1>1, <2>1, <2>2, NumbersAre, PushHolds
<1>5. ASSUME NEW t \in DOMAIN Structs, LoadVariant(t)
      PROVE  Holding'
  <2>1. Push(0, variants[t], TRUE) /\ UNCHANGED <<Memory, frames>>
    BY <1>5 DEF LoadVariant
  <2>2. variants[t] \in PlacesNow
    BY <1>2, InPlaces
  <2> QED
    BY <1>1, <2>1, <2>2, NumbersAre, PushHolds
<1>6. ASSUME NEW s \in DOMAIN Frame.locals, LoadLocal(s)
      PROVE  Holding'
  <2>1. Push(0, Frame.locals[s], s \in Refs(Frame.fn)) /\ UNCHANGED <<Memory, frames>>
    BY <1>6 DEF LoadLocal
  <2>2. s \in Refs(Frame.fn) => Frame.locals[s] \in PlacesNow
    <3>1. Frame = frames[Len(frames)] /\ Len(frames) \in DOMAIN frames
      BY TopFrame DEF IInv, FramesInv
    <3> QED
      BY <3>1 DEF Holding, FramesIn, Refs
  <2> QED
    BY <1>1, <2>1, <2>2, NumbersAre, PushHolds
<1>7. ASSUME Compare
      PROVE  Holding'
  <2>1. Has(2) /\ Push(2, IF Arg(2).w = Arg(1).w THEN 1 ELSE 0, FALSE) /\ UNCHANGED <<Memory, frames>>
    BY <1>7 DEF Compare
  <2> QED
    BY <2>1, NumbersAre, PushHolds
<1>8. ASSUME AddPointer
      PROVE  Holding'
  <2> DEFINE p == Arg(2).w
             o == Arg(1).w
  <2>1. /\ Has(2) /\ Is(Arg(2), Raw) /\ p + o < End(p)
        /\ Push(2, p + o, Arg(2).ref \/ Arg(1).ref) /\ UNCHANGED <<Memory, frames>>
    BY <1>8 DEF AddPointer
  <2>2. p \in Blocks
    BY <2>1, IsBlock
  <2>3. o \in Nat
    <3>1. Arg(1) \in TaggedWords
      BY <2>1, NumbersAre, Taken
    <3> QED
      BY <3>1, ArgIs, WordNat
  <2>4. p \in Nat /\ Sizes[p] \in Nat /\ End(p) = p + Sizes[p]
    BY <2>2, BlockFacts, SizeIs DEF IInv
  <2>5. o < Sizes[p]
    BY <2>1, <2>3, <2>4
  <2>6. p + o \in PlacesNow
    BY <2>2, <2>3, <2>5, InPlaces
  <2> DEFINE w == p + o
  <2>7. Push(2, w, Arg(2).ref \/ Arg(1).ref) /\ w \in PlacesNow
    BY <2>1, <2>6
  <2> HIDE DEF w
  <2> QED
    BY <2>1, <2>7, NumbersAre, PushHolds
<1> QED
  BY <1>3, <1>4, <1>5, <1>6, <1>7, <1>8

LEMMA LoadsHold ==
    ASSUME IInv, Holding
    PROVE  /\ \A off \in 0 .. HeapWords : HeapLoadField(off) => Holding'
           /\ \A kind \in {RefArray, ValArray} : ArrayGet(kind) => Holding'
           /\ (HeapLoad => Holding') /\ (ReadDetail => Holding')
<1>1. \A p \in Blocks : \A o \in RefOffsets(p) : heap[p + o] \in PlacesNow
  BY InTermsOfBlocks DEF IInv, Holding, FieldsIn
<1>2. ASSUME NEW off \in 0 .. HeapWords, HeapLoadField(off)
      PROVE  Holding'
  <2> DEFINE p == Arg(1).w
  <2>1. /\ Has(1) /\ Is(Arg(1), Struct)
        /\ Push(1, heap[p + off], off \in Structs[Detail(p)].refs)
        /\ UNCHANGED <<Memory, frames>>
    BY <1>2 DEF HeapLoadField
  <2>2. p \in Blocks /\ Kind(p) = Struct
    BY <2>1, IsBlock
  <2>3. off \in Structs[Detail(p)].refs => heap[p + off] \in PlacesNow
    BY <1>1, <2>2 DEF RefOffsets, Struct, RefArray
  <2> QED
    BY <2>1, <2>3, NumbersAre, PushHolds
<1>3. ASSUME NEW kind \in {RefArray, ValArray}, ArrayGet(kind)
      PROVE  Holding'
  <2> DEFINE p == Arg(2).w
             o == Arg(1).w
  <2>1. /\ Has(2) /\ Is(Arg(2), kind) /\ o < Detail(p)
        /\ Push(2, heap[p + o], Kind(p) = RefArray)
        /\ UNCHANGED <<Memory, frames>>
    BY <1>3 DEF ArrayGet
  <2>2. p \in Blocks /\ Detail(p) \in Nat
    BY <2>1, IsBlock
  <2>3. o \in Nat
    <3>1. Arg(1) \in TaggedWords
      BY <2>1, NumbersAre, Taken
    <3> QED
      BY <3>1, ArgIs, WordNat
  <2>4. o \in 0 .. Detail(p) - 1
    BY <2>1, <2>2, <2>3
  <2>5. Kind(p) = RefArray => heap[p + o] \in PlacesNow
    BY <1>1, <2>2, <2>4 DEF RefOffsets, Struct, RefArray
  <2> QED
    BY <2>1, <2>5, NumbersAre, PushHolds
<1>4. ASSUME HeapLoad
      PROVE  Holding'
  <2>1. Has(1) /\ Push(1, heap[Arg(1).w], FALSE) /\ UNCHANGED <<Memory, frames>>
    BY <1>4 DEF HeapLoad
  <2> QED
    BY <2>1, NumbersAre, PushHolds
<1>5. ASSUME ReadDetail
      PROVE  Holding'
  <2>1. Has(1) /\ Push(1, Detail(Arg(1).w), FALSE) /\ UNCHANGED <<Memory, frames>>
    BY <1>5 DEF ReadDetail
  <2> QED
    BY <2>1, NumbersAre, PushHolds
<1> QED
  BY <1>2, <1>3, <1>4, <1>5

LEMMA JoinIn ==
    ASSUME NEW P, NEW s \in Seq(TaggedWords), StackIn(P, s), NEW t \in Seq(TaggedWords), StackIn(P, t)
    PROVE  StackIn(P, s \o t)
<1>1. /\ Len(s) \in Nat /\ Len(t) \in Nat /\ DOMAIN s = 1 .. Len(s) /\ DOMAIN t = 1 .. Len(t)
      /\ DOMAIN (s \o t) = 1 .. (Len(s) + Len(t))
      /\ \A i \in 1 .. (Len(s) + Len(t)) : (s \o t)[i] = IF i <= Len(s) THEN s[i] ELSE t[i - Len(s)]
  OBVIOUS
<1>2. \A i \in 1 .. (Len(s) + Len(t)) : i \in 1 .. Len(s) \/ (~(i <= Len(s)) /\ i - Len(s) \in 1 .. Len(t))
  BY <1>1
<1>3. \A i \in 1 .. Len(s) : i <= Len(s)
  BY <1>1
<1> QED
  BY <1>1, <1>2, <1>3 DEF StackIn

LEMMA StackOpsHold ==
    ASSUME IInv, Holding
    PROVE  (PopValue => Holding') /\ (Dup => Holding') /\ (Swap => Holding') /\ (Fault => Holding')
<1>1. FramesIn(PlacesNow, Funs, frames) /\ StackIn(PlacesNow, stack) /\ stack \in Seq(TaggedWords)
  BY DEF Holding, IInv, StackInv
<1>2. ASSUME PopValue
      PROVE  Holding'
  <2>1. Has(1) /\ stack' = Drop(stack, 1) /\ UNCHANGED <<program, heap, ids, frames>>
    BY <1>2 DEF PopValue, Memory
  <2> QED
    BY <1>1, <2>1, NumbersAre, TakenHolds, OperandsHold
<1>3. ASSUME Dup
      PROVE  Holding'
  <2>1. Has(1) /\ stack' = Append(stack, Arg(1)) /\ UNCHANGED <<program, heap, ids, frames>>
    BY <1>3 DEF Dup, Memory
  <2>2. Arg(1).ref => Arg(1).w \in PlacesNow
    BY <2>1, NumbersAre, TakenHolds
  <2>3. StackIn(PlacesNow, stack')
    BY <1>1, <2>1, <2>2, AppendIn
  <2> QED
    BY <1>1, <2>1, <2>3, OperandsHold
<1>4. ASSUME Swap
      PROVE  Holding'
  <2> DEFINE two == <<Arg(1), Arg(2)>>
  <2>1. Has(2) /\ stack' = Drop(stack, 2) \o two /\ UNCHANGED <<program, heap, ids, frames>>
    BY <1>4 DEF Swap, Memory
  <2>2. /\ Drop(stack, 2) \in Seq(TaggedWords) /\ StackIn(PlacesNow, Drop(stack, 2))
        /\ Arg(1) \in TaggedWords /\ Arg(2) \in TaggedWords
        /\ Arg(1).ref => Arg(1).w \in PlacesNow
        /\ Arg(2).ref => Arg(2).w \in PlacesNow
    BY <2>1, NumbersAre, Taken, TakenHolds
  <2>3. two \in Seq(TaggedWords)
    BY <2>2
  <2>4. StackIn(PlacesNow, two)
    <3>1. \A i \in DOMAIN two : two[i] = Arg(1) \/ two[i] = Arg(2)
      OBVIOUS
    <3> HIDE DEF two
    <3> QED
      BY <2>2, <3>1 DEF StackIn
  <2> HIDE DEF two
  <2>5. StackIn(PlacesNow, stack')
    BY <2>1, <2>2, <2>3, <2>4, JoinIn
  <2> QED
    BY <1>1, <2>1, <2>5, OperandsHold
<1>5. ASSUME Fault
      PROVE  Holding'
  <2>1. PICK k \in {1, 2} : Has(k) /\ stack' = Drop(stack, k)
    BY <1>5 DEF Fault
  <2>2. UNCHANGED <<program, heap, ids, frames>> /\ k \in Nat
    BY <1>5, NumbersAre DEF Fault
  <2>3. StackIn(PlacesNow, stack')
    BY <2>1, <2>2, TakenHolds
  <2> QED
    BY <1>1, <2>2, <2>3, OperandsHold
<1> QED
  BY <1>2, <1>3, <1>4, <1>5

\* What may be stored where a reference belongs.
LEMMA StorableHolds ==
    ASSUME IInv, NEW v, v.ref => v.w \in PlacesNow, Storable(v, TRUE)
    PROVE  v.w \in PlacesNow
BY InPlaces DEF Storable

LEMMA StoreLocalHolds ==
    ASSUME IInv, Holding, NEW s \in DOMAIN Frame.locals, StoreLocal(s)
    PROVE  Holding'
<1> DEFINE n == Len(frames)
           w == Arg(1).w
           ls == [frames[n].locals EXCEPT ![s] = w]
<1>1. /\ Has(1) /\ stack' = Drop(stack, 1) /\ UNCHANGED <<program, heap, ids>>
      /\ Storable(Arg(1), s \in Refs(Frame.fn))
      /\ frames' = [frames EXCEPT ![n].locals[s] = w]
  BY DEF StoreLocal, Memory
<1>2. /\ frames \in Seq(FramesOf(Funs)) /\ n \in 1 .. Len(frames) /\ Frame = frames[n] /\ DOMAIN frames = 1 .. Len(frames)
      /\ Frame.locals \in [1 .. Funs[Frame.fn].locals -> Word] /\ frames[n] \in FramesOf(Funs)
  BY TopFrame DEF IInv, FramesInv
<1>3. StackIn(PlacesNow, stack') /\ (Arg(1).ref => w \in PlacesNow)
  BY <1>1, NumbersAre, TakenHolds
<1>4. s \in Refs(frames[n].fn) => w \in PlacesNow
  BY <1>1, <1>2, <1>3, StorableHolds
<1>5. frames' = [frames EXCEPT ![n] = [frames[n] EXCEPT !.locals = ls]]
  BY <1>1, <1>2
<1>6. /\ DOMAIN frames' = DOMAIN frames
      /\ \A i \in DOMAIN frames : i # n => frames'[i] = frames[i]
      /\ frames'[n].fn = frames[n].fn /\ frames'[n].locals = ls
  <2>1. frames[n] = [fn |-> frames[n].fn, locals |-> frames[n].locals, base |-> frames[n].base]
    BY <1>2, FrameIs
  <2> HIDE DEF ls
  <2>2. frames'[n] = [frames[n] EXCEPT !.locals = ls]
    BY <1>2, <1>5
  <2>3. frames'[n].fn = frames[n].fn /\ frames'[n].locals = ls
    BY <2>1, <2>2
  <2> HIDE DEF n
  <2> QED
    BY <1>2, <1>5, <2>3
<1>7. ASSUME NEW i \in DOMAIN frames', NEW r \in Funs[frames'[i].fn].refs
      PROVE  frames'[i].locals[r] \in PlacesNow
  <2>1. \A j \in DOMAIN frames : \A q \in Funs[frames[j].fn].refs : frames[j].locals[q] \in PlacesNow
    BY DEF Holding, FramesIn
  <2>2. CASE i # n
    BY <1>6, <1>7, <2>1, <2>2
  <2>3. CASE i = n
    <3>1. r \in Refs(frames[n].fn)
      BY <1>6, <1>7, <2>3 DEF Refs
    <3>2. r \in DOMAIN frames[n].locals /\ frames[n].locals[r] \in PlacesNow
      BY <1>2, <2>1, <3>1, FrameHolds DEF Refs
    <3>3. ls[r] = IF r = s THEN w ELSE frames[n].locals[r]
      BY <3>2
    <3>4. ls[r] \in PlacesNow
      BY <1>4, <3>1, <3>2, <3>3
    <3> QED
      BY <1>6, <2>3, <3>4
  <2> QED
    BY <2>2, <2>3
<1>8. FramesIn(PlacesNow, Funs, frames')
  BY <1>7 DEF FramesIn
<1> QED
  BY <1>1, <1>3, <1>8, OperandsHold

LEMMA CallHolds ==
    ASSUME IInv, Holding, NEW f \in DOMAIN Funs, Call(f)
    PROVE  Holding'
<1> DEFINE n    == Funs[f].params
           args == SubSeq(stack, Len(stack) - n + 1, Len(stack))
           ls   == [s \in 1 .. Funs[f].locals |-> IF s <= n THEN args[s].w ELSE 0]
           new  == [fn |-> f, base |-> Len(stack) - n, locals |-> ls]
<1>1. /\ Has(n) /\ stack' = Drop(stack, n) /\ frames' = Append(frames, new)
      /\ UNCHANGED <<program, heap, ids>>
      /\ \A i \in 1 .. n : Storable(args[i], i \in Refs(f))
  BY DEF Call, Memory
<1>2. Funs[f].locals \in Nat /\ n \in Nat /\ Refs(f) \subseteq 1 .. Funs[f].locals
  <2>1. WellMade(program)
    BY ProgramsAssumption DEF IInv
  <2>2. Funs[f].locals \in Nat /\ n \in 0 .. Funs[f].locals /\ Refs(f) \subseteq 1 .. Funs[f].locals
    BY <2>1 DEF WellMade, Funs, Refs
  <2> QED
    BY <2>2
<1>3. stack \in Seq(TaggedWords) /\ Len(stack) \in Nat /\ n <= Len(stack)
  BY <1>1, <1>2, Taken DEF IInv, StackInv
<1>4. StackIn(PlacesNow, stack')
  BY <1>1, <1>2, TakenHolds
<1>5. ASSUME NEW s \in Refs(f)
      PROVE  ls[s] \in PlacesNow
  <2>1. s \in 1 .. Funs[f].locals
    BY <1>2
  <2>2. CASE s <= n
    <3>1. s \in 1 .. n
      BY <1>2, <2>1, <2>2
    <3>2. args[s] = stack[Len(stack) - n + s] /\ Len(stack) - n + s \in DOMAIN stack
      <4> HIDE DEF n
      <4>1. args = [i \in 1 .. n |-> stack[Len(stack) - n + i]]
        <5>1. Len(stack) - n + 1 \in 1 .. Len(stack) + 1
          BY <1>2, <1>3
        <5>2. SubSeq(stack, Len(stack) - n + 1, Len(stack)) =
                [i \in 1 .. (Len(stack) - (Len(stack) - n + 1) + 1) |-> stack[i + (Len(stack) - n + 1) - 1]]
          BY <1>3, <5>1, SMT
        <5>3. Len(stack) - (Len(stack) - n + 1) + 1 = n
          BY <1>2, <1>3
        <5>4. \A i \in 1 .. n : i + (Len(stack) - n + 1) - 1 = Len(stack) - n + i
          BY <1>2, <1>3
        <5> QED
          BY <5>2, <5>3, <5>4
      <4>2. Len(stack) - n + s \in 1 .. Len(stack)
        BY <1>2, <1>3, <3>1
      <4>3. args[s] = stack[Len(stack) - n + s]
        <5> HIDE DEF args
        <5> QED  BY <3>1, <4>1
      <4>4. DOMAIN stack = 1 .. Len(stack)
        BY <1>3
      <4> HIDE DEF args
      <4> QED
        BY <4>2, <4>3, <4>4
    <3>3. args[s].ref => args[s].w \in PlacesNow
      BY <3>2 DEF Holding, StackIn
    <3>4. Storable(args[s], TRUE)
      BY <1>1, <3>1
    <3>5. args[s].w \in PlacesNow
      <4> HIDE DEF args
      <4> QED  BY <3>3, <3>4, StorableHolds
    <3> QED
      BY <2>1, <2>2, <3>5
  <2>3. CASE ~(s <= n)
    <3>1. ls[s] = 0
      BY <2>1, <2>3
    <3> QED
      BY <3>1, InPlaces DEF Null
  <2> QED
    BY <2>2, <2>3
<1>6. new.fn = f /\ new.locals = ls
  OBVIOUS
<1> HIDE DEF new, ls
<1>7. /\ frames \in Seq(FramesOf(Funs)) /\ Len(frames) \in Nat
  BY TopFrame DEF IInv, FramesInv
<1>8. /\ DOMAIN frames = 1 .. Len(frames) /\ DOMAIN frames' = 1 .. (Len(frames) + 1)
      /\ \A i \in 1 .. Len(frames) : frames'[i] = frames[i]
      /\ frames'[Len(frames) + 1] = new
  BY <1>1, <1>7
<1>9. \A i \in 1 .. (Len(frames) + 1) : i \in 1 .. Len(frames) \/ i = Len(frames) + 1
  BY <1>7
<1>10. \A i \in 1 .. Len(frames) : \A s \in Funs[frames[i].fn].refs : frames[i].locals[s] \in PlacesNow
  BY <1>8 DEF Holding, FramesIn
<1>11. \A s \in Funs[new.fn].refs : new.locals[s] \in PlacesNow
  BY <1>5, <1>6 DEF Refs
<1>12. FramesIn(PlacesNow, Funs, frames')
  BY <1>8, <1>9, <1>10, <1>11 DEF FramesIn
<1> QED
  BY <1>1, <1>4, <1>12, OperandsHold

LEMMA RetHolds ==
    ASSUME IInv, Holding, Ret
    PROVE  Holding'
<1>1. Len(frames) > 1 /\ frames' = Drop(frames, 1) /\ UNCHANGED <<program, heap, ids, stack>>
  BY DEF Ret, Memory
<1>2. frames \in Seq(FramesOf(Funs)) /\ Len(frames) \in Nat
  BY TopFrame DEF IInv, FramesInv
<1>3. \A i \in DOMAIN frames' : frames'[i] = frames[i] /\ i \in DOMAIN frames
  BY <1>1, <1>2 DEF Drop
<1>4. FramesIn(PlacesNow, Funs, frames')
  BY <1>3 DEF Holding, FramesIn
<1>5. StackIn(PlacesNow, stack')
  BY <1>1 DEF Holding
<1> QED
  BY <1>1, <1>4, <1>5, OperandsHold

\* A word of one block is no header, and no word of another block.
LEMMA BlocksApart ==
    ASSUME IInv, NEW p \in Blocks, NEW o \in Nat, o < Sizes[p], NEW q \in Blocks
    PROVE  /\ p + o # q - 2 /\ p + o # q - 1
           /\ \A r \in Nat : (r < Sizes[q] /\ p + o = q + r) => q = p /\ r = o
<1>1. /\ p \in Nat /\ q \in Nat /\ Sizes[p] \in Nat \ {0} /\ Sizes[q] \in Nat \ {0}
      /\ p < q => p + Sizes[p] + Header <= q
      /\ q < p => q + Sizes[q] + Header <= p
  BY BlockFacts DEF IInv
<1> DEFINE m == Sizes[p]
           n == Sizes[q]
<1>2. /\ p \in Nat /\ q \in Nat /\ m \in Nat /\ n \in Nat /\ o < m
      /\ p < q => p + m + 2 <= q
      /\ q < p => q + n + 2 <= p
  BY <1>1 DEF Header
<1> HIDE DEF m, n
<1>3. p + o # q - 2 /\ p + o # q - 1
  BY <1>2
<1>4. \A r \in Nat : (r < n /\ p + o = q + r) => q = p /\ r = o
  BY <1>2
<1> QED
  BY <1>3, <1>4 DEF n

\* A word written inside a block, a reference where references belong.
LEMMA WriteHolds ==
    ASSUME IInv, Holding, NEW k \in Nat, Has(k), stack' = Drop(stack, k),
           NEW p \in Blocks, NEW o \in Nat, o < Sizes[p], NEW w \in Word,
           heap' = [heap EXCEPT ![p + o] = w], o \in RefOffsets(p) => w \in PlacesNow,
           UNCHANGED <<program, frames, ids>>
    PROVE  Holding'
<1>1. program \in Programs /\ HeapInv /\ Laid(HeapWords, Structs, heap, Blocks, heap_ptr) /\ HeapWords \in Nat
  BY ProgramFacts DEF IInv, HeapInv
<1>2. Blocks' = Blocks /\ Structs' = Structs /\ Funs' = Funs
  BY DEF Blocks, Structs, Funs
<1> DEFINE a == p + o
<1>3. \A b \in DOMAIN heap : heap'[b] = IF b = a THEN w ELSE heap[b]
  OBVIOUS
<1>4. ASSUME NEW q \in Blocks
      PROVE  heap'[q - 2] = heap[q - 2] /\ heap'[q - 1] = heap[q - 1]
  <2>1. q - 2 \in DOMAIN heap /\ q - 1 \in DOMAIN heap
    BY <1>1, BlockFacts
  <2>2. a # q - 2 /\ a # q - 1
    BY BlocksApart
  <2> HIDE DEF a
  <2> QED
    BY <1>3, <2>1, <2>2
<1>5. ASSUME NEW q \in Blocks, NEW r \in OffsetsIn(Structs, heap', q)
      PROVE  heap'[q + r] \in PlacesNow
  <2>1. \A x \in Nat : (x < Sizes[q] /\ a = q + x) => q = p /\ x = o
    BY BlocksApart
  <2> HIDE DEF a
  <2>2. r \in OffsetsIn(Structs, heap, q)
    BY <1>4 DEF OffsetsIn
  <2>3. r \in RefOffsets(q)
    BY <1>1, <2>2, InTermsOfBlocks
  <2>4. r \in Nat /\ r < Sizes[q]
    BY <2>3, FieldIsWord
  <2>5. q + r \in DOMAIN heap
    BY <2>4, InBlock
  <2>6. CASE q + r = a
    <3>1. q = p /\ r = o
      BY <2>1, <2>4, <2>6
    <3> QED
      BY <1>3, <2>3, <2>5, <2>6, <3>1
  <2>7. CASE q + r # a
    <3>1. heap[q + r] \in PlacesNow
      BY <2>2 DEF Holding, FieldsIn
    <3> QED
      BY <1>3, <2>5, <2>7, <3>1
  <2> QED
    BY <2>6, <2>7
<1>6. PlacesNow' = PlacesNow
  <2>1. \A q \in Blocks : WordsFor(Structs, heap'[q - 2], heap'[q - 1]) = WordsFor(Structs, heap[q - 2], heap[q - 1])
    BY <1>4
  <2>2. SizesIn(Structs, heap', Blocks) = SizesIn(Structs, heap, Blocks)
    BY <2>1 DEF SizesIn
  <2>3. Sizes' = Sizes
    BY <1>2, <2>2 DEF Sizes
  <2> QED
    BY <1>2, <2>3 DEF PlacesNow
<1>7. FieldsIn(PlacesNow, Structs, heap', Blocks')
  BY <1>2, <1>5 DEF FieldsIn
<1>8. StackIn(PlacesNow, stack') /\ FramesIn(PlacesNow, Funs, frames')
  BY TakenHolds DEF Holding
<1> QED
  BY <1>6, <1>7, <1>8, HoldsNext

LEMMA StoresHold ==
    ASSUME IInv, Holding
    PROVE  /\ \A off \in 0 .. HeapWords : HeapStoreField(off) => Holding'
           /\ \A kind \in {RefArray, ValArray} : ArraySet(kind) => Holding'
           /\ (HeapStore => Holding')
<1>1. ASSUME NEW off \in 0 .. HeapWords, HeapStoreField(off)
      PROVE  Holding'
  <2> DEFINE p == Arg(2).w
             w == Arg(1).w
  <2>1. /\ Has(2) /\ Is(Arg(2), Struct) /\ off < Structs[Detail(p)].size
        /\ Storable(Arg(1), off \in Structs[Detail(p)].refs)
        /\ heap' = [heap EXCEPT ![p + off] = w] /\ stack' = Drop(stack, 2)
        /\ UNCHANGED <<program, frames, ids>>
    BY <1>1 DEF HeapStoreField
  <2>2. /\ p \in Blocks /\ Kind(p) = Struct /\ Structs[Detail(p)].size \in Nat
        /\ Structs[Detail(p)].size <= Sizes[p]
    BY <2>1, IsBlock
  <2>3. off \in Nat
    BY ProgramFacts DEF IInv
  <2>4. off < Sizes[p]
    <3>1. Sizes[p] \in Nat
      BY <2>2, BlockFacts DEF IInv
    <3> QED
      BY <2>1, <2>2, <2>3, <3>1
  <2>5. Arg(1) \in TaggedWords /\ (Arg(1).ref => w \in PlacesNow)
    BY <2>1, NumbersAre, Taken, TakenHolds
  <2>6. off \in RefOffsets(p) => w \in PlacesNow
    <3>1. RefOffsets(p) = Structs[Detail(p)].refs
      BY <2>2 DEF RefOffsets, Struct, RefArray
    <3>2. off \in RefOffsets(p) => Storable(Arg(1), TRUE)
      BY <2>1, <3>1
    <3> QED
      BY <2>5, <3>2, StorableHolds
  <2>7. w \in Word
    BY <2>5, ArgIs
  <2> QED
    BY <2>1, <2>2, <2>3, <2>4, <2>6, <2>7, NumbersAre, WriteHolds
<1>2. ASSUME NEW kind \in {RefArray, ValArray}, ArraySet(kind)
      PROVE  Holding'
  <2> DEFINE p == Arg(3).w
             o == Arg(2).w
             w == Arg(1).w
  <2>1. /\ Has(3) /\ Is(Arg(3), kind) /\ o < Detail(p) /\ Storable(Arg(1), kind = RefArray)
        /\ heap' = [heap EXCEPT ![p + o] = w] /\ stack' = Drop(stack, 3)
        /\ UNCHANGED <<program, frames, ids>>
    BY <1>2 DEF ArraySet
  <2>2. p \in Blocks /\ Kind(p) = kind /\ Detail(p) \in Nat /\ Detail(p) <= Sizes[p]
    BY <2>1, IsBlock
  <2>3. Arg(1) \in TaggedWords /\ Arg(2) \in TaggedWords /\ (Arg(1).ref => w \in PlacesNow)
    BY <2>1, NumbersAre, Taken, TakenHolds
  <2>4. o \in Nat /\ w \in Word
    BY <2>3, ArgIs, WordNat
  <2>5. o < Sizes[p]
    <3>1. Sizes[p] \in Nat
      BY <2>2, BlockFacts DEF IInv
    <3> QED
      BY <2>1, <2>2, <2>4, <3>1
  <2>6. o \in RefOffsets(p) => w \in PlacesNow
    <3>1. o \in RefOffsets(p) => kind = RefArray
      BY <2>2 DEF RefOffsets, Struct, RefArray, ValArray
    <3>2. o \in RefOffsets(p) => Storable(Arg(1), TRUE)
      BY <2>1, <3>1
    <3> QED
      BY <2>3, <3>2, StorableHolds
  <2> QED
    BY <2>1, <2>2, <2>4, <2>5, <2>6, NumbersAre, WriteHolds
<1>3. ASSUME HeapStore
      PROVE  Holding'
  <2> DEFINE a == Arg(2).w
             w == Arg(1).w
  <2>1. /\ Has(2) /\ InRaw(Arg(2)) /\ heap' = [heap EXCEPT ![a] = w] /\ stack' = Drop(stack, 2)
        /\ UNCHANGED <<program, frames, ids>>
    BY <1>3 DEF HeapStore
  <2>2. PICK p \in Containing(a) : Kind(p) = Raw
    BY <2>1 DEF InRaw
  <2>3. p \in Blocks /\ p <= a /\ a < p + Sizes[p]
    BY <2>2, ContainingIs DEF IInv
  <2>4. a \in Nat /\ w \in Word
    BY <2>1, NumbersAre, Taken, ArgIs, WordNat
  <2> DEFINE o == a - p
  <2>5. o \in Nat /\ o < Sizes[p] /\ p + o = a
    <3>1. p \in Nat /\ Sizes[p] \in Nat
      BY <2>3, BlockFacts DEF IInv
    <3> HIDE DEF a
    <3> QED
      BY <2>3, <2>4, <3>1
  <2>6. o \notin RefOffsets(p)
    BY <2>2 DEF RefOffsets, Struct, RefArray, Raw
  <2>7. heap' = [heap EXCEPT ![p + o] = w]
    BY <2>1, <2>5
  <2> HIDE DEF o, a, w
  <2> QED
    BY <2>1, <2>3, <2>4, <2>5, <2>6, <2>7, NumbersAre, WriteHolds
<1> QED
  BY <1>1, <1>2, <1>3

-----------------------------------------------------------------------------
(* A block put on top, and what a collection leaves.                        *)

GoodRefs(structs) ==
    \A t \in DOMAIN structs : structs[t].size \in Nat /\ structs[t].refs \subseteq 0 .. structs[t].size - 1

\* OffsetsInside, of any heap that is laid out as it should be.
LEMMA OffsetsWithin ==
    ASSUME NEW n \in Nat, NEW structs, GoodRefs(structs), NEW h, NEW B, NEW top,
           Laid(n, structs, h, B, top), NEW p \in B, NEW o \in OffsetsIn(structs, h, p)
    PROVE  o \in Nat /\ o < SizesIn(structs, h, B)[p]
<1> DEFINE k == h[p - 2]
           d == h[p - 1]
<1>1. HeaderFor(structs, k, d) /\ SizesIn(structs, h, B)[p] = WordsFor(structs, k, d)
  BY DEF Laid, SizesIn
<1>2. d \in Nat
  BY LaidAt, WordNat
<1>3. OffsetsIn(structs, h, p) = CASE k = Struct   -> structs[d].refs
                                   [] k = RefArray -> 0 .. d - 1
                                   [] OTHER        -> {}
  BY DEF OffsetsIn
<1> HIDE DEF k, d
<1>4. \A m \in Nat : m <= Larger(MinWords, m) /\ Larger(MinWords, m) \in Nat
  BY DEF Larger, MinWords
<1>5. CASE k = Struct
  <2> DEFINE m == structs[d].size
  <2>1. m \in Nat /\ structs[d].refs \subseteq 0 .. m - 1
    BY <1>1, <1>5 DEF HeaderFor, GoodRefs
  <2>2. WordsFor(structs, k, d) = Larger(MinWords, m)
    BY <1>5 DEF WordsFor, Struct, RefArray, ValArray
  <2>3. o \in structs[d].refs
    BY <1>3, <1>5 DEF Struct, RefArray
  <2> HIDE DEF m
  <2>4. o \in 0 .. m - 1
    BY <2>1, <2>3
  <2> QED
    BY <1>1, <1>4, <2>1, <2>2, <2>4
<1>6. CASE k = RefArray
  <2>1. WordsFor(structs, k, d) = Larger(MinWords, d)
    BY <1>6 DEF WordsFor, Struct, RefArray, ValArray
  <2>2. o \in 0 .. d - 1
    BY <1>3, <1>6 DEF Struct, RefArray
  <2> QED
    BY <1>1, <1>2, <1>4, <2>1, <2>2
<1> QED
  BY <1>3, <1>5, <1>6

LEMMA RefsAreGood == program \in Programs => GoodRefs(Structs)
BY ProgramFacts DEF WellMade, Structs, GoodRefs

\* The places of blocks, one at a time.
LEMMA PlacesAre ==
    ASSUME NEW B, NEW size, \A p \in B : p \in Nat /\ size[p] \in Nat
    PROVE  /\ \A p \in B : \A o \in Nat : o < size[p] => p + o \in Places(size, B)
           /\ Null \in Places(size, B)
<1>1. ASSUME NEW p \in B, NEW o \in Nat, o < size[p]
      PROVE  p + o \in Places(size, B)
  <2> DEFINE n == size[p]
  <2>1. p \in Nat /\ n \in Nat /\ o < n
    BY <1>1
  <2> HIDE DEF n
  <2>2. p + o \in p .. (p + n - 1)
    BY <1>1, <2>1
  <2> QED
    BY <2>2 DEF Places, n
<1> QED
  BY <1>1 DEF Places

\* h2 is h with a header and m words of fill at top.
Topped(n, h, h2, top, kind, detail, m, fill) ==
    /\ \A a \in 0 .. n - 1 : a < top => h2[a] = h[a]
    /\ h2[top] = kind /\ h2[top + 1] = detail
    /\ \A o \in Nat : o < m => h2[top + 2 + o] = fill

LEMMA PlacedIs ==
    ASSUME NEW n \in Nat, NEW h, DOMAIN h = 0 .. n - 1, NEW top \in Nat, NEW kind, NEW detail, NEW fill,
           NEW m \in Nat, m = Words(kind, detail), top + 2 + m <= n,
           NEW h2, h2 = Placed(h, top, kind, detail, fill)
    PROVE  Topped(n, h, h2, top, kind, detail, m, fill)
<1>1. \A a \in 0 .. n - 1 : h2[a] = CASE a = top     -> kind
                                      [] a = top + 1 -> detail
                                      [] a \in (top + 2) .. (top + 2 + m - 1) -> fill
                                      [] OTHER       -> h[a]
  BY DEF Placed, Header
<1>2. ASSUME NEW a \in 0 .. n - 1, a < top
      PROVE  h2[a] = h[a]
  <2>1. a # top /\ a # top + 1 /\ a \notin (top + 2) .. (top + 2 + m - 1)
    BY <1>2
  <2> QED
    BY <1>1, <2>1
<1>3. h2[top] = kind
  <2>1. top \in 0 .. n - 1 /\ top # top + 1 /\ top \notin (top + 2) .. (top + 2 + m - 1)
    OBVIOUS
  <2> QED
    BY <1>1, <2>1
<1>4. h2[top + 1] = detail
  <2>1. top + 1 \in 0 .. n - 1 /\ top # top + 1 /\ top + 1 \notin (top + 2) .. (top + 2 + m - 1)
    OBVIOUS
  <2> QED
    BY <1>1, <2>1
<1>5. ASSUME NEW o \in Nat, o < m
      PROVE  h2[top + 2 + o] = fill
  <2> DEFINE a == top + 2 + o
  <2>1. a \in 0 .. n - 1 /\ a # top /\ a # top + 1 /\ a \in (top + 2) .. (top + 2 + m - 1)
    BY <1>5
  <2> HIDE DEF a
  <2>2. h2[a] = fill
    BY <1>1, <2>1
  <2> QED
    BY <2>2 DEF a
<1> QED
  BY <1>2, <1>3, <1>4, <1>5 DEF Topped

\* A block put on top of a heap that has room for it: what could be pointed to
\* still can be, the new block too, and its own fields are null.
LEMMA PlacedHolds ==
    ASSUME program \in Programs, NEW h, NEW B, NEW top, Laid(HeapWords, Structs, h, B, top),
           NEW kind, NEW detail, NEW fill, Allocates(kind, detail, fill), Fits(top, Words(kind, detail)),
           NEW h2, h2 = Placed(h, top, kind, detail, fill), NEW B2, B2 = B \cup {top + Header},
           NEW P, P = Places(SizesIn(Structs, h, B), B),
           NEW P2, P2 = Places(SizesIn(Structs, h2, B2), B2)
    PROVE  /\ P \subseteq P2 /\ top + Header \in P2
           /\ FieldsIn(P, Structs, h, B) => FieldsIn(P2, Structs, h2, B2)
<1> DEFINE n     == HeapWords
           size  == SizesIn(Structs, h, B)
           size2 == SizesIn(Structs, h2, B2)
           m     == Words(kind, detail)
           new   == top + Header
<1>1. n \in Nat /\ GoodRefs(Structs) /\ top \in Nat /\ DOMAIN h = 0 .. n - 1
  <2>1. n \in Nat /\ GoodRefs(Structs)
    BY ProgramFacts, RefsAreGood
  <2>2. top \in HeapStart .. n /\ DOMAIN h = 0 .. n - 1
    BY DEF Laid
  <2>3. top \in Nat
    BY <2>1, <2>2 DEF HeapStart
  <2> QED
    BY <2>1, <2>2, <2>3
<1>2. kind \in Word /\ detail \in Word /\ fill \in Word /\ IsHeader(kind, detail) /\ m \in Nat \ {0}
  BY <1>1, HeaderFits
<1>3. Laid(HeapWords, Structs, h2, B2, top + Header + Words(kind, detail))
  BY <1>2, PlacedLaid
<1>4. /\ \A a \in 0 .. n - 1 : a < top => h2[a] = h[a]
      /\ h2[top] = kind /\ h2[top + 1] = detail
      /\ \A o \in Nat : o < m => h2[new + o] = fill
  <2>1. top + 2 + m <= n /\ m \in Nat
    BY <1>2 DEF Fits, Header
  <2> HIDE DEF n, m
  <2>2. /\ \A a \in 0 .. n - 1 : a < top => h2[a] = h[a]
        /\ h2[top] = kind /\ h2[top + 1] = detail
        /\ \A o \in Nat : o < m => h2[top + 2 + o] = fill
    <3> DEFINE w == m
    <3>1. w = Words(kind, detail) /\ w \in Nat /\ top + 2 + w <= n
      BY <2>1 DEF m
    <3>2. DOMAIN h = 0 .. n - 1 /\ top \in Nat /\ n \in Nat
      BY <1>1
    <3> HIDE DEF w
    <3>3. Topped(n, h, h2, top, kind, detail, w, fill)
      BY <3>1, <3>2, PlacedIs
    <3> QED
      BY <3>3 DEF w, Topped
  <2> QED
    BY <2>2 DEF Header
<1>5. ASSUME NEW p \in B
      PROVE  /\ p \in Nat /\ size[p] \in Nat \ {0} /\ size2[p] = size[p]
             /\ OffsetsIn(Structs, h2, p) = OffsetsIn(Structs, h, p)
             /\ \A o \in Nat : o < size[p] => h2[p + o] = h[p + o]
  <2>1. /\ p \in Nat /\ p + size[p] <= top /\ top <= n /\ size[p] \in Nat \ {0}
        /\ p - 2 \in 0 .. n - 1 /\ p - 1 \in 0 .. n - 1
    BY <1>1, LaidAt
  <2>2. h2[p - 2] = h[p - 2] /\ h2[p - 1] = h[p - 1]
    <3> HIDE DEF n, size
    <3>1. p - 2 < top /\ p - 1 < top
      BY <1>1, <2>1
    <3> QED
      BY <1>4, <2>1, <3>1
  <2>3. size2[p] = size[p]
    BY <2>2 DEF SizesIn
  <2>4. OffsetsIn(Structs, h2, p) = OffsetsIn(Structs, h, p)
    BY <2>2 DEF OffsetsIn
  <2>5. ASSUME NEW o \in Nat, o < size[p]
        PROVE  h2[p + o] = h[p + o]
    <3> HIDE DEF n, size
    <3>1. p + o \in 0 .. n - 1 /\ p + o < top
      BY <1>1, <2>1, <2>5
    <3> QED
      BY <1>4, <3>1
  <2> QED
    BY <2>1, <2>3, <2>4, <2>5
<1>6. ASSUME NEW p \in B2
      PROVE  p \in Nat /\ size2[p] \in Nat \ {0}
  BY <1>1, <1>3, LaidAt
<1>7. new \in B2 /\ size2[new] = m
  <2>1. new - 2 = top /\ new - 1 = top + 1
    BY <1>1 DEF Header
  <2>2. h2[new - 2] = kind /\ h2[new - 1] = detail
    BY <1>4, <2>1
  <2>3. new \in B2
    OBVIOUS
  <2>4. size2[new] = WordsFor(Structs, kind, detail)
    BY <2>2, <2>3 DEF SizesIn
  <2> QED
    BY <2>3, <2>4, WordsAre
<1> HIDE DEF size, size2
<1>8. P2 = Places(size2, B2) /\ P = Places(size, B)
  BY DEF size, size2
<1>9. (\A p \in B2 : \A o \in Nat : o < size2[p] => p + o \in P2) /\ Null \in P2
  BY <1>6, <1>8, PlacesAre
<1>10. P \subseteq P2
  <2> SUFFICES ASSUME NEW w \in P, w # Null
               PROVE  w \in P2
    BY <1>9
  <2>1. PICK p \in B : w \in p .. (p + size[p] - 1)
    BY <1>8 DEF Places
  <2>2. p \in B2 /\ size2[p] = size[p]
    BY <1>5
  <2> QED
    BY <1>8, <2>1, <2>2 DEF Places
<1>11. new \in P2
  <2>1. 0 \in Nat /\ 0 < size2[new] /\ new + 0 = new
    BY <1>1, <1>2, <1>7 DEF Header
  <2> QED
    BY <1>7, <1>9, <2>1
<1>12. ASSUME FieldsIn(P, Structs, h, B), NEW p \in B2, NEW o \in OffsetsIn(Structs, h2, p)
       PROVE  h2[p + o] \in P2
  <2>1. o \in Nat /\ o < size2[p]
    BY <1>1, <1>3, OffsetsWithin DEF size2
  <2>2. CASE p \in B
    <3>1. o \in OffsetsIn(Structs, h, p) /\ h2[p + o] = h[p + o]
      BY <1>5, <2>1, <2>2
    <3> QED
      BY <1>10, <1>12, <2>2, <3>1 DEF FieldsIn
  <2>3. CASE p = new
    <3>1. h2[p - 2] = kind
      <4>1. new - 2 = top
        BY <1>1 DEF Header
      <4> QED
        BY <1>4, <2>3, <4>1
    <3>2. kind \in {Struct, RefArray}
      BY <3>1 DEF OffsetsIn
    <3>3. fill = Null
      BY <3>2 DEF Allocates, Null
    <3>4. h2[p + o] = fill
      BY <1>4, <1>7, <2>1, <2>3
    <3> QED
      BY <1>9, <3>3, <3>4
  <2> QED
    BY <1>12, <2>2, <2>3
<1> QED
  BY <1>10, <1>11, <1>12 DEF FieldsIn

\* Where the references of what a collection keeps may point afterwards.
PlacesAfter(S) == Places(SizesIn(Structs, CollectedHeap(S), {Forward(S, p) : p \in S}), {Forward(S, p) : p \in S})

LEMMA SurvivorsSizes ==
    ASSUME program \in Programs, HeapInv, NEW S, S \subseteq Blocks
    PROVE  \A p \in S : SizesIn(Structs, CollectedHeap(S), {Forward(S, q) : q \in S})[Forward(S, p)] = Sizes[p]
<1> DEFINE h2 == CollectedHeap(S)
           B2 == {Forward(S, q) : q \in S}
<1>1. \A p \in S : h2[Forward(S, p) - 2] = heap[p - 2] /\ h2[Forward(S, p) - 1] = heap[p - 1]
  BY CollectedHeapIs
<1> HIDE DEF h2
<1>2. \A b \in B2 : SizesIn(Structs, h2, B2)[b] = WordsFor(Structs, h2[b - 2], h2[b - 1])
  BY DEF SizesIn
<1>3. ASSUME NEW p \in S
      PROVE  SizesIn(Structs, h2, B2)[Forward(S, p)] = Sizes[p]
  <2>1. Forward(S, p) \in B2
    OBVIOUS
  <2> HIDE DEF B2
  <2>2. SizesIn(Structs, h2, B2)[Forward(S, p)] = WordsFor(Structs, heap[p - 2], heap[p - 1])
    BY <1>1, <1>2, <2>1
  <2>3. Sizes[p] = WordsFor(Structs, heap[p - 2], heap[p - 1])
    BY DEF Sizes, SizesIn
  <2> QED
    BY <2>2, <2>3
<1> QED
  BY <1>3 DEF h2

\* A reference to something that survives follows it.
LEMMA MovedHolds ==
    ASSUME IInv, NEW S, S \subseteq Blocks, NEW w \in Word, w \in PlacesNow, Containing(w) \subseteq S
    PROVE  Moved(S, w) \in PlacesAfter(S)
<1>1. program \in Programs /\ HeapInv
  BY DEF IInv
<1> DEFINE B2    == {Forward(S, p) : p \in S}
           size2 == SizesIn(Structs, CollectedHeap(S), B2)
<1>2. \A p \in S : Forward(S, p) \in B2 /\ size2[Forward(S, p)] = Sizes[p] /\ Forward(S, p) \in Nat /\ Sizes[p] \in Nat
  BY <1>1, SurvivorsSizes, Forwards, BlockFacts
<1> HIDE DEF size2
<1>3. \A b \in B2 : b \in Nat /\ size2[b] \in Nat
  BY <1>2
<1> HIDE DEF B2
<1>4. /\ \A b \in B2 : \A o \in Nat : o < size2[b] => b + o \in Places(size2, B2)
      /\ Null \in Places(size2, B2)
  BY <1>3, PlacesAre
<1>5. PlacesAfter(S) = Places(size2, B2)
  BY DEF PlacesAfter, B2, size2
<1>6. CASE w = Null
  <2>1. \A p \in S : ~(p <= w /\ w < p + Sizes[p])
    <3>1. \A p \in S : p \in Nat /\ 3 <= p
      BY <1>1, BlockFacts
    <3> QED
      BY <1>6, <3>1 DEF Null
  <2>2. Moved(S, w) = w
    BY <1>1, <2>1, MovedIs
  <2> QED
    BY <1>4, <1>5, <1>6, <2>2
<1>7. CASE w # Null
  <2>1. PICK p \in Blocks : p <= w /\ w < p + Sizes[p]
    BY <1>7, InPlaces
  <2>2. p \in S
    <3>1. Containing(w) = {p}
      BY <1>1, <2>1, ContainingIs
    <3> QED
      BY <3>1
  <2>3. Moved(S, w) = Forward(S, p) + (w - p)
    BY <1>1, <2>1, <2>2, MovedIs
  <2> DEFINE o == w - p
             to == Forward(S, p)
  <2>4. o \in Nat /\ o < Sizes[p]
    <3>1. p \in Nat /\ Sizes[p] \in Nat /\ w \in Nat
      BY <1>1, BlockFacts, WordNat
    <3> QED
      BY <2>1, <3>1
  <2>5. to \in B2 /\ o < size2[to]
    BY <1>2, <2>2, <2>4
  <2>6. Moved(S, w) = to + o
    BY <2>3
  <2> HIDE DEF o, to
  <2> QED
    BY <1>4, <1>5, <2>4, <2>5, <2>6
<1> QED
  BY <1>6, <1>7

\* After a collection, everything that was kept still refers to what was kept.
LEMMA CollectedHolds ==
    ASSUME IInv, Holding, NEW st, OperandsOf(st), StackIn(PlacesNow, st), NEW S, S = Marked(st)
    PROVE  /\ StackIn(PlacesAfter(S), CollectedStack(S, st))
           /\ FramesIn(PlacesAfter(S), Funs, CollectedFrames(S))
           /\ FieldsIn(PlacesAfter(S), Structs, CollectedHeap(S), {Forward(S, p) : p \in S})
<1>1. program \in Programs /\ HeapInv
  BY DEF IInv
<1>2. /\ S \subseteq Blocks /\ \A w \in RootWords(st) : Containing(w) \subseteq S
      /\ \A p \in S : Targets(p) \subseteq S
  BY <1>1, MarkedIs
<1>3. ASSUME NEW w \in RootWords(st), w \in PlacesNow
      PROVE  Moved(S, w) \in PlacesAfter(S)
  BY <1>2, <1>3, RootsAreWords, MovedHolds
<1>4. ASSUME NEW i \in DOMAIN CollectedStack(S, st), CollectedStack(S, st)[i].ref
      PROVE  CollectedStack(S, st)[i].w \in PlacesAfter(S)
  <2>1. i \in DOMAIN st /\ CollectedStack(S, st)[i] = IF st[i].ref THEN [st[i] EXCEPT !.w = Moved(S, @)] ELSE st[i]
    BY DEF CollectedStack
  <2>2. st[i] \in TaggedWords
    BY <2>1 DEF OperandsOf
  <2>3. st[i].ref
    BY <1>4, <2>1
  <2>4. CollectedStack(S, st)[i].w = Moved(S, st[i].w)
    BY <2>1, <2>2, <2>3 DEF TaggedWords
  <2>5. st[i].w \in RootWords(st) /\ st[i].w \in PlacesNow
    BY <2>1, <2>3 DEF RootWords, Operands, StackIn
  <2> QED
    BY <1>3, <2>4, <2>5
<1>5. ASSUME NEW i \in DOMAIN CollectedFrames(S), NEW s \in Funs[CollectedFrames(S)[i].fn].refs
      PROVE  CollectedFrames(S)[i].locals[s] \in PlacesAfter(S)
  <2> DEFINE ls == [x \in DOMAIN frames[i].locals |->
                      IF x \in Refs(frames[i].fn) THEN Moved(S, frames[i].locals[x]) ELSE frames[i].locals[x]]
  <2>1. i \in DOMAIN frames /\ CollectedFrames(S)[i] = [frames[i] EXCEPT !.locals = ls]
    BY DEF CollectedFrames
  <2>2. frames[i] = [fn |-> frames[i].fn, locals |-> frames[i].locals, base |-> frames[i].base]
    <3>1. frames[i] \in FramesOf(Funs)
      <4>1. frames \in Seq(FramesOf(Funs))
        BY DEF IInv, FramesInv
      <4> QED
        BY <2>1, <4>1
    <3> QED
      BY <3>1, FrameIs
  <2> HIDE DEF ls
  <2>3. CollectedFrames(S)[i].fn = frames[i].fn /\ CollectedFrames(S)[i].locals = ls
    BY <2>1, <2>2
  <2>4. s \in Refs(frames[i].fn)
    BY <2>3 DEF Refs
  <2>5. s \in DOMAIN frames[i].locals
    BY <2>1, <2>4, FrameHolds
  <2>6. ls[s] = Moved(S, frames[i].locals[s])
    BY <2>4, <2>5 DEF ls
  <2>7. frames[i].locals[s] \in RootWords(st)
    <3>1. frames[i].locals[s] \in FrameRoots
      BY <2>1, <2>4 DEF FrameRoots, Activations
    <3> QED
      BY <3>1 DEF RootWords
  <2>8. frames[i].locals[s] \in PlacesNow
    BY <2>1, <2>4 DEF Holding, FramesIn, Refs
  <2> QED
    BY <1>3, <2>3, <2>6, <2>7, <2>8
<1>6. ASSUME NEW p \in S, NEW o \in OffsetsIn(Structs, CollectedHeap(S), Forward(S, p))
      PROVE  CollectedHeap(S)[Forward(S, p) + o] \in PlacesAfter(S)
  <2>1. /\ CollectedHeap(S)[Forward(S, p) - 2] = heap[p - 2] /\ CollectedHeap(S)[Forward(S, p) - 1] = heap[p - 1]
        /\ \A x \in RefOffsets(p) : CollectedHeap(S)[Forward(S, p) + x] = Moved(S, heap[p + x])
    BY <1>2, SurvivorsKept
  <2>2. o \in OffsetsIn(Structs, heap, p)
    BY <2>1 DEF OffsetsIn
  <2>3. o \in RefOffsets(p) /\ p \in Blocks
    BY <1>1, <1>2, <2>2, InTermsOfBlocks
  <2>4. heap[p + o] \in Word /\ heap[p + o] \in PlacesNow
    BY <2>2, <2>3, FieldIsWord DEF Holding, FieldsIn
  <2>5. Containing(heap[p + o]) \subseteq S
    BY <1>2, <2>3 DEF Targets
  <2>6. Moved(S, heap[p + o]) \in PlacesAfter(S)
    BY <1>2, <2>4, <2>5, MovedHolds
  <2> QED
    BY <2>1, <2>3, <2>6
<1> QED
  BY <1>4, <1>5, <1>6 DEF StackIn, FramesIn, FieldsIn

LEMMA CollectionHolds ==
    ASSUME IInv, Holding, NEW st, OperandsOf(st), StackIn(PlacesNow, st), Collected(Marked(st), st),
           program' = program
    PROVE  Holding'
<1> DEFINE S == Marked(st)
           B2 == {Forward(S, p) : p \in S}
<1>1. program \in Programs /\ HeapInv
  BY DEF IInv
<1>2. S \subseteq Blocks
  BY <1>1, MarkedIs
<1>3. /\ heap' = CollectedHeap(S) /\ stack' = CollectedStack(S, st) /\ ids' = CollectedIds(S)
      /\ frames' = CollectedFrames(S)
  BY DEF Collected, CollectRoots
<1>4. /\ StackIn(PlacesAfter(S), CollectedStack(S, st))
      /\ FramesIn(PlacesAfter(S), Funs, CollectedFrames(S))
      /\ FieldsIn(PlacesAfter(S), Structs, CollectedHeap(S), B2)
  BY CollectedHolds
<1> HIDE DEF S
<1>5. Blocks' = B2
  BY <1>1, <1>2, <1>3, CollectedLaid DEF Blocks
<1>6. PlacesNow' = PlacesAfter(S)
  <2>1. Structs' = Structs
    BY DEF Structs
  <2> QED
    BY <1>3, <1>5, <2>1 DEF PlacesNow, Sizes, PlacesAfter
<1> QED
  BY <1>3, <1>4, <1>5, <1>6, HoldsNext

\* More places leave what was held held.
LEMMA StillIn ==
    ASSUME NEW P, NEW P2, P \subseteq P2
    PROVE  /\ \A st : StackIn(P, st) => StackIn(P2, st)
           /\ \A funs, fs : FramesIn(P, funs, fs) => FramesIn(P2, funs, fs)
BY DEF StackIn, FramesIn

LEMMA ReserveHolds ==
    ASSUME IInv, Holding, NEW st, OperandsOf(st), StackIn(PlacesNow, st), NEW kind, NEW detail, NEW fill,
           Allocates(kind, detail, fill), Reserve(st, kind, detail, fill)
    PROVE  Holding'
<1>1. program \in Programs /\ HeapInv /\ st \in Seq(TaggedWords)
  BY DEF IInv, OperandsOf
<1>2. \A p : New(p).ref /\ New(p).w = p
  BY DEF New
<1>3. CASE ReserveNow(st, kind, detail, fill)
  <2> DEFINE p == heap_ptr + Header
  <2>1. /\ Fits(heap_ptr, Words(kind, detail))
        /\ heap' = Placed(heap, heap_ptr, kind, detail, fill)
        /\ stack' = Append(st, New(p)) /\ ids' = Named(ids, p)
        /\ UNCHANGED <<program, frames>>
    BY <1>3 DEF ReserveNow
  <2>2. Blocks' = Blocks \cup {heap_ptr + Header}
    BY <2>1 DEF Blocks, Named
  <2>3. Structs' = Structs
    BY <2>1 DEF Structs
  <2>4. PlacesNow' = Places(SizesIn(Structs, heap', Blocks'), Blocks')
    BY <2>3 DEF PlacesNow, Sizes
  <2>5. Laid(HeapWords, Structs, heap, Blocks, heap_ptr) /\ PlacesNow = Places(SizesIn(Structs, heap, Blocks), Blocks)
    BY <1>1 DEF HeapInv, PlacesNow, Sizes
  <2> DEFINE h2 == heap'
             B2 == Blocks'
             P  == PlacesNow
             P2 == PlacesNow'
  <2>6. /\ h2 = Placed(heap, heap_ptr, kind, detail, fill) /\ B2 = Blocks \cup {heap_ptr + Header}
        /\ P = Places(SizesIn(Structs, heap, Blocks), Blocks) /\ P2 = Places(SizesIn(Structs, h2, B2), B2)
    BY <2>1, <2>2, <2>4, <2>5
  <2>7. FieldsIn(P, Structs, heap, Blocks) /\ StackIn(P, st) /\ FramesIn(P, Funs, frames)
    BY DEF Holding
  <2> HIDE DEF h2, B2, P, P2
  <2>8. P \subseteq P2 /\ heap_ptr + Header \in P2 /\ (FieldsIn(P, Structs, heap, Blocks) => FieldsIn(P2, Structs, h2, B2))
    BY <1>1, <2>1, <2>5, <2>6, PlacedHolds
  <2>9. StackIn(P2, st) /\ FramesIn(P2, Funs, frames)
    BY <2>7, <2>8, StillIn
  <2>10. New(p).ref => New(p).w \in P2
    BY <1>2, <2>8
  <2> HIDE DEF p
  <2>11. StackIn(P2, stack')
    BY <1>1, <2>1, <2>9, <2>10, AppendIn
  <2> QED
    BY <2>1, <2>7, <2>8, <2>9, <2>11, HoldsNext DEF h2, B2, P2
<1>4. CASE ReserveLater(st, kind, detail, fill)
  <2> DEFINE S   == Marked(st)
             top == CollectedTop(S)
             p   == top + Header
             h   == CollectedHeap(S)
             B   == {Forward(S, q) : q \in S}
  <2>1. /\ Fits(top, Words(kind, detail))
        /\ heap' = Placed(h, top, kind, detail, fill)
        /\ stack' = Append(CollectedStack(S, st), New(p)) /\ ids' = Named(CollectedIds(S), p)
        /\ frames' = CollectedFrames(S) /\ program' = program
    BY <1>4 DEF ReserveLater, CollectRoots
  <2>2. S \subseteq Blocks
    BY <1>1, MarkedIs
  <2>3. /\ StackIn(PlacesAfter(S), CollectedStack(S, st))
        /\ FramesIn(PlacesAfter(S), Funs, CollectedFrames(S))
        /\ FieldsIn(PlacesAfter(S), Structs, h, B)
    BY CollectedHolds
  <2> HIDE DEF S
  <2>4. Laid(HeapWords, Structs, h, B, top) /\ DOMAIN CollectedIds(S) = B
    BY <1>1, <2>2, CollectedLaid
  <2>5. Blocks' = B \cup {top + Header}
    BY <2>1, <2>4 DEF Blocks, Named
  <2>6. PlacesNow' = Places(SizesIn(Structs, heap', Blocks'), Blocks')
    <3>1. Structs' = Structs
      BY <2>1 DEF Structs
    <3> QED
      BY <3>1 DEF PlacesNow, Sizes
  <2>7. CollectedStack(S, st) \in Seq(TaggedWords)
    BY <1>1, <2>2, StackMoved
  <2> DEFINE h2 == heap'
             B2 == Blocks'
             P  == PlacesAfter(S)
             P2 == PlacesNow'
             st2 == CollectedStack(S, st)
  <2>8. /\ h2 = Placed(h, top, kind, detail, fill) /\ B2 = B \cup {top + Header}
        /\ P = Places(SizesIn(Structs, h, B), B) /\ P2 = Places(SizesIn(Structs, h2, B2), B2)
    BY <2>1, <2>5, <2>6 DEF PlacesAfter
  <2>9. FieldsIn(P, Structs, h, B) /\ StackIn(P, st2) /\ FramesIn(P, Funs, frames') /\ st2 \in Seq(TaggedWords)
    BY <2>1, <2>3, <2>7
  <2>10. stack' = Append(st2, New(p))
    BY <2>1
  <2> HIDE DEF h2, B2, P, P2, h, B, top, st2
  <2>11. P \subseteq P2 /\ top + Header \in P2 /\ (FieldsIn(P, Structs, h, B) => FieldsIn(P2, Structs, h2, B2))
    BY <1>1, <2>1, <2>4, <2>8, PlacedHolds
  <2>12. StackIn(P2, st2) /\ FramesIn(P2, Funs, frames')
    BY <2>9, <2>11, StillIn
  <2>13. New(p).ref => New(p).w \in P2
    BY <1>2, <2>11
  <2> HIDE DEF p
  <2>14. StackIn(P2, stack')
    BY <2>9, <2>10, <2>12, <2>13, AppendIn
  <2> QED
    BY <2>1, <2>9, <2>11, <2>12, <2>14, HoldsNext DEF h2, B2, P2
<1>5. CASE ReserveNever(st, kind, detail)
  <2>1. Collected(Marked(st), st) /\ program' = program
    BY <1>5 DEF ReserveNever
  <2> QED
    BY <2>1, CollectionHolds
<1> QED
  BY <1>3, <1>4, <1>5 DEF Reserve

LEMMA ConstantHolds ==
    ASSUME IInv, Holding, NEW kind, NEW detail, NEW fill, Allocates(kind, detail, fill),
           Constant(kind, detail, fill), UNCHANGED <<program, stack, frames>>
    PROVE  Holding'
<1>1. program \in Programs /\ HeapInv
  BY DEF IInv
<1>2. /\ Fits(heap_ptr, Words(kind, detail))
      /\ heap' = Placed(heap, heap_ptr, kind, detail, fill)
      /\ ids' = Named(ids, heap_ptr + Header)
  BY DEF Constant
<1>3. Blocks' = Blocks \cup {heap_ptr + Header}
  BY <1>2 DEF Blocks, Named
<1>4. Structs' = Structs
  BY DEF Structs
<1>5. PlacesNow' = Places(SizesIn(Structs, heap', Blocks'), Blocks')
  BY <1>4 DEF PlacesNow, Sizes
<1>6. Laid(HeapWords, Structs, heap, Blocks, heap_ptr) /\ PlacesNow = Places(SizesIn(Structs, heap, Blocks), Blocks)
  BY <1>1 DEF HeapInv, PlacesNow, Sizes
<1> DEFINE h2 == heap'
           B2 == Blocks'
           P  == PlacesNow
           P2 == PlacesNow'
<1>7. /\ h2 = Placed(heap, heap_ptr, kind, detail, fill) /\ B2 = Blocks \cup {heap_ptr + Header}
      /\ P = Places(SizesIn(Structs, heap, Blocks), Blocks) /\ P2 = Places(SizesIn(Structs, h2, B2), B2)
  BY <1>2, <1>3, <1>5, <1>6
<1>8. FieldsIn(P, Structs, heap, Blocks) /\ StackIn(P, stack) /\ FramesIn(P, Funs, frames)
  BY DEF Holding
<1> HIDE DEF h2, B2, P, P2
<1>9. P \subseteq P2 /\ (FieldsIn(P, Structs, heap, Blocks) => FieldsIn(P2, Structs, h2, B2))
  BY <1>1, <1>2, <1>6, <1>7, PlacedHolds
<1>10. StackIn(P2, stack') /\ FramesIn(P2, Funs, frames')
  BY <1>8, <1>9, StillIn
<1> QED
  BY <1>8, <1>9, <1>10, HoldsNext DEF h2, B2, P2

LEMMA InstructionHolds ==
    ASSUME IInv, Holding, ~PastTheEnd, Instruction
    PROVE  Holding'
<1>1. ASSUME NEW n \in Ints, PushInt(n)
      PROVE  Holding'
  BY <1>1, PushesHold
<1>2. ASSUME NEW i \in DOMAIN literals, LoadStr(i)
      PROVE  Holding'
  BY <1>2, PushesHold
<1>3. ASSUME NEW t \in DOMAIN Structs, LoadVariant(t)
      PROVE  Holding'
  BY <1>3, PushesHold
<1>4. ASSUME NEW s \in DOMAIN Frame.locals, LoadLocal(s) \/ StoreLocal(s)
      PROVE  Holding'
  BY <1>4, PushesHold, StoreLocalHolds
<1>5. ASSUME PopValue \/ Dup \/ Swap \/ AddPointer \/ Compare \/ Fault
      PROVE  Holding'
  BY <1>5, StackOpsHold, PushesHold
<1>6. ASSUME NEW kind \in {RefArray, ValArray}, ArrayGet(kind) \/ ArraySet(kind)
      PROVE  Holding'
  BY <1>6, LoadsHold, StoresHold
<1>7. ASSUME Allocating
      PROVE  Holding'
  <2>1. PICK st, kind, detail, fill : /\ OperandsOf(st) /\ Allocates(kind, detail, fill)
                                      /\ Reserve(st, kind, detail, fill)
                                      /\ st = stack \/ (Has(2) /\ st = Drop(stack, 2))
    BY <1>7, AllocationIs
  <2>2. StackIn(PlacesNow, st)
    <3>1. StackIn(PlacesNow, stack)
      BY DEF Holding
    <3>2. Has(2) => StackIn(PlacesNow, Drop(stack, 2))
      BY NumbersAre, TakenHolds
    <3> QED
      BY <2>1, <3>1, <3>2
  <2> QED
    BY <2>1, <2>2, ReserveHolds
<1>8. ASSUME NEW off \in 0 .. HeapWords, HeapLoadField(off) \/ HeapStoreField(off)
      PROVE  Holding'
  BY <1>8, LoadsHold, StoresHold
<1>9. ASSUME HeapLoad \/ HeapStore \/ ReadDetail
      PROVE  Holding'
  BY <1>9, LoadsHold, StoresHold
<1>10. ASSUME NEW f \in DOMAIN Funs, Call(f)
       PROVE  Holding'
  BY <1>10, CallHolds
<1>11. ASSUME Ret
       PROVE  Holding'
  BY <1>11, RetHolds
<1>12. ASSUME Gc
       PROVE  Holding'
  <2>1. Collected(Marked(stack), stack) /\ program' = program
    BY <1>12 DEF Gc
  <2>2. StackIn(PlacesNow, stack)
    BY DEF Holding
  <2> QED
    BY <2>1, <2>2, Standing, CollectionHolds
<1> QED
  BY <1>1, <1>2, <1>3, <1>4, <1>5, <1>6, <1>7, <1>8, <1>9, <1>10, <1>11, <1>12 DEF Instruction, Allocating

LEMMA NextHolds ==
    ASSUME IInv, Holding, ~PastTheEnd, [Next]_vars
    PROVE  Holding'
<1>1. CASE Instruction
  BY <1>1, InstructionHolds
<1>2. CASE MaterialiseLiteral
  <2>1. /\ Len(literals) < Len(Literals) /\ Constant(String, Literals[Len(literals) + 1], 1)
        /\ UNCHANGED <<program, stack, frames>>
    BY <1>2 DEF MaterialiseLiteral
  <2> QED
    BY <2>1, LiteralAllocates, ConstantHolds
<1>3. ASSUME NEW t \in DOMAIN Structs, MaterialiseVariant(t)
      PROVE  Holding'
  <2>1. Constant(Struct, t, 0) /\ Allocates(Struct, t, 0) /\ UNCHANGED <<program, stack, frames>>
    BY <1>3 DEF MaterialiseVariant, Allocates
  <2> QED
    BY <2>1, ConstantHolds
<1>4. ASSUME UNCHANGED <<program, heap, stack, frames, ids>>
      PROVE  Holding'
  BY <1>4, OperandsHold DEF Holding
<1>5. CASE Start
  BY <1>4, <1>5 DEF Start
<1>6. CASE UNCHANGED vars
  BY <1>4, <1>6 DEF vars
<1> QED
  BY <1>1, <1>2, <1>3, <1>5, <1>6 DEF Next, Materialise, Over

LEMMA BeginsHolding == Init => Holding
<1> SUFFICES ASSUME Init
             PROVE  Holding
  OBVIOUS
<1>1. stack = <<>> /\ Blocks = {}
  BY DEF Init, Blocks
<1>2. StackIn(PlacesNow, stack) /\ FieldsIn(PlacesNow, Structs, heap, Blocks)
  BY <1>1 DEF StackIn, FieldsIn
<1>3. FramesIn(PlacesNow, Funs, frames)
  <2> DEFINE ls == [s \in 1 .. Funs[Main].locals |-> 0]
  <2>1. frames = <<[fn |-> Main, base |-> 0, locals |-> ls]>>
    BY DEF Init
  <2>2. \A s \in Funs[Main].refs : s \in 1 .. Funs[Main].locals
    <3>1. WellMade(program)
      BY ProgramsAssumption DEF Init
    <3> QED
      BY <3>1 DEF WellMade, Funs, Main
  <2>3. \A s \in Funs[Main].refs : ls[s] = Null
    BY <2>2 DEF Null
  <2>4. Null \in PlacesNow
    BY DEF PlacesNow, Places
  <2> HIDE DEF ls
  <2>5. \A i \in DOMAIN frames : frames[i].fn = Main /\ frames[i].locals = ls
    BY <2>1
  <2> QED
    BY <2>3, <2>4, <2>5 DEF FramesIn
<1> QED
  BY <1>2, <1>3 DEF Holding

\* vm.py's "objects move, but a heapptr is rewritten to follow its object, so it
\* stays valid", for every program that keeps its pointers inside their blocks
\* and every heap size: whatever is stored, called, returned, allocated and
\* collected, and wherever the blocks slide to, every reference on the stack, in
\* a frame, among the permanent objects and in any block, reachable or not, is
\* null or points into a block that is still there.
THEOREM NothingDangles ==
    ASSUME \A prog \in Programs : ~prog.pastEnd
    PROVE  Spec => []ReferencesHeld
<1>1. IInv => ~PastTheEnd
  BY DEF IInv, PastTheEnd
<1>2. Init => Holding
  BY BeginsHolding
<1>3. IInv /\ Holding /\ [Next]_vars => Holding'
  BY <1>1, NextHolds
<1>4. IInv /\ Holding => ReferencesHeld
  BY HoldingMeans
<1>5. Spec => []IInv
  BY Always
<1> QED
  BY <1>2, <1>3, <1>4, <1>5, PTL DEF Spec
=============================================================================
