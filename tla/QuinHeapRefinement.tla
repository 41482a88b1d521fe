------------------------- MODULE QuinHeapRefinement -------------------------
(***************************************************************************)
(* QuinVM's heap and its collector implement ManagedHeap: a program cannot *)
(* tell that its objects have addresses, or that they move.                *)
(***************************************************************************)
EXTENDS QuinHeapProofs

-----------------------------------------------------------------------------
(* What words mean.                                                        *)

\* A value of ManagedHeap.
IntValue(n) == [obj |-> 0, n |-> n]
ValueSet    == [obj : Nat, n : Nat]

\* What each word means as a reference, and what it means with its tag.
Sense              == [w \in Word |-> Value(w, TRUE)]
Means(sense, w, ref) == IF ref THEN sense[w] ELSE IntValue(w)

StackMeans(sense, st) == [i \in DOMAIN st |-> Means(sense, st[i].w, st[i].ref)]
LocalsMean(sense, refs, locals) == [s \in DOMAIN locals |-> Means(sense, locals[s], s \in refs)]
FrameMeans(sense, funs, fs) ==
    [i \in DOMAIN fs |-> [base |-> fs[i].base, locals |-> LocalsMean(sense, funs[fs[i].fn].refs, fs[i].locals)]]
WordsMean(sense, structs, h, size, p) ==
    [o \in 0 .. size - 1 |-> Means(sense, h[p + o], o \in OffsetsIn(structs, h, p))]
ObjectMeans(sense, structs, h, size, p) ==
    [kind |-> h[p - 2], detail |-> h[p - 1], words |-> WordsMean(sense, structs, h, size, p)]
ConstNames(structs, lits, vars_) ==
    ({"literal"} \X DOMAIN lits)
      \cup ({"variant"} \X {t \in DOMAIN structs : structs[t].variant /\ structs[t].size = 0 /\ vars_[t] # Null})
ConstMeans(sense, structs, lits, vars_) ==
    [c \in ConstNames(structs, lits, vars_) |->
        sense[IF c[1] = "literal" THEN lits[c[2]] ELSE vars_[c[2]]]]

\* No two blocks have the same identity, and identities never run out.
Distinct ==
    \A p \in Blocks : ids[p] \in 1 .. HeapWords /\ \A q \in Blocks : ids[p] = ids[q] => p = q

SenseIs ==
    /\ Sense \in [Word -> ValueSet]
    /\ Sense[Null] = IntValue(0)
    /\ \A p \in Blocks : \A o \in Nat : o < Sizes[p] =>
          p + o \in Word /\ Sense[p + o] = [obj |-> ids[p], n |-> o]

\* What the refinement mapping is, in terms of these.
ObjectsAre ==
    /\ Objects = [i \in DOMAIN Objects |-> Objects[i]]
    /\ DOMAIN Objects = {ids[p] : p \in Blocks}
    /\ \A p \in Blocks : Objects[ids[p]] = ObjectMeans(Sense, Structs, heap, Sizes[p], p)

Understood ==
    /\ StackValues = StackMeans(Sense, stack)
    /\ FrameValues = FrameMeans(Sense, Funs, frames)
    /\ Consts = ConstMeans(Sense, Structs, literals, variants)
    /\ SenseIs /\ ObjectsAre

\* The heap's size in words is a natural number.
LEMMA MaxWordsNat == MaxWords \in Nat
<1>1. MaxWords \in Int /\ 1 <= MaxWords
  BY SizeAssumption
<1> QED
  BY <1>1

\* The meaning of a word of a block does not depend on which of its words it is.
LEMMA SenseKnown ==
    ASSUME IInv, Distinct
    PROVE  SenseIs
<1>1. program \in Programs /\ HeapInv
  BY DEF IInv
<1>2. /\ \A p \in Blocks : /\ p \in Nat /\ 3 <= p /\ Sizes[p] \in Nat /\ p + Sizes[p] <= heap_ptr
                           /\ \A q \in Blocks : p < q => p + Sizes[p] + 2 <= q
      /\ heap_ptr \in Nat /\ heap_ptr <= 32768
  <2>1. HeapWords \in Nat /\ HeapWords <= 32768
    BY <1>1, ProgramFacts
  <2> QED
    BY <1>1, <2>1, BlockFacts DEF Header
<1>3. \A p \in Blocks : ids[p] \in Nat /\ ids[p] # 0
  <2>1. HeapWords \in Nat
    BY <1>1, ProgramFacts
  <2> QED
    BY <2>1 DEF Distinct
<1>4. \A p \in DOMAIN ids : End(p) = p + Sizes[p] /\ p \in Blocks
  BY SizeIs DEF Blocks
<1>5. \A w : Value(w, TRUE) =
         IF w = Null THEN IntValue(0)
         ELSE LET of == IF w \in DOMAIN ids THEN {w} ELSE {p \in DOMAIN ids : p <= w /\ w <= End(p)}
              IN  IF of = {} THEN [obj |-> MaxWords + 1, n |-> w]
                  ELSE LET p == CHOOSE q \in of : TRUE IN [obj |-> ids[p], n |-> w - p]
  BY DEF Value, IntValue, Null
<1>6. MaxWords \in Nat
  BY MaxWordsNat
<1>7. ASSUME NEW w \in Word
      PROVE  Value(w, TRUE) \in ValueSet
  <2>1. w \in Nat
    BY WordNat
  <2> DEFINE of == IF w \in DOMAIN ids THEN {w} ELSE {p \in DOMAIN ids : p <= w /\ w <= End(p)}
             p == CHOOSE q \in of : TRUE
  <2>2. \A x \in of : x \in Blocks /\ x \in Nat /\ x <= w
    <3>1. \A x \in of : x \in Blocks
      BY DEF Blocks
    <3>2. \A x \in of : x <= w
      <4>1. CASE w \in DOMAIN ids
        BY <2>1, <4>1
      <4>2. CASE w \notin DOMAIN ids
        BY <4>2
      <4> QED
        BY <4>1, <4>2
    <3> QED
      BY <1>2, <3>1, <3>2
  <2>3. of # {} => p \in of
    OBVIOUS
  <2>4. Value(w, TRUE) = IF w = Null THEN IntValue(0) ELSE IF of = {} THEN [obj |-> MaxWords + 1, n |-> w]
                                                           ELSE [obj |-> ids[p], n |-> w - p]
    BY <1>5
  <2> HIDE DEF of, p
  <2>5. of # {} => ids[p] \in Nat /\ w - p \in Nat
    BY <1>3, <2>1, <2>2, <2>3
  <2> QED
    <3>1. IntValue(0) \in ValueSet
      BY DEF IntValue, ValueSet
    <3>2. [obj |-> MaxWords + 1, n |-> w] \in ValueSet
      <4>1. MaxWords + 1 \in Nat
        BY <1>6
      <4> QED
        BY <2>1, <4>1 DEF ValueSet
    <3>3. of # {} => [obj |-> ids[p], n |-> w - p] \in ValueSet
      BY <2>5 DEF ValueSet
    <3> QED
      BY <2>4, <3>1, <3>2, <3>3
<1>8. ASSUME NEW p \in Blocks, NEW o \in Nat, o < Sizes[p]
      PROVE  p + o \in Word /\ Value(p + o, TRUE) = [obj |-> ids[p], n |-> o]
  <2>1. p + o \in Nat /\ p + o <= 65535 /\ p + o # 0
    BY <1>2, <1>8
  <2>2. p + o \in Word
    BY <2>1, WordNat
  <2> DEFINE w == p + o
             of == IF w \in DOMAIN ids THEN {w} ELSE {q \in DOMAIN ids : q <= w /\ w <= End(q)}
  <2>3. of = {p}
    <3>1. CASE o = 0
      BY <1>2, <3>1 DEF Blocks
    <3>2. CASE o # 0
      <4>1. ASSUME NEW q \in Blocks, q <= w, w <= q + Sizes[q] PROVE q = p
        BY <1>2, <1>8, <4>1
      <4>2. w \notin DOMAIN ids
        <5>1. SUFFICES ASSUME w \in Blocks PROVE FALSE
          BY DEF Blocks
        <5>2. w <= w + Sizes[w]
          BY <1>2, <5>1
        <5>3. w = p
          BY <1>2, <4>1, <5>1, <5>2
        <5> QED
          BY <1>2, <3>2, <5>3
      <4>3. p <= w /\ w <= End(p)
        BY <1>2, <1>4, <1>8 DEF Blocks
      <4>4. \A q \in DOMAIN ids : q <= w /\ w <= End(q) => q = p
        BY <1>4, <4>1
      <4> QED
        BY <4>2, <4>3, <4>4 DEF Blocks
    <3> QED
      BY <3>1, <3>2
  <2>4. Value(w, TRUE) = IF w = Null THEN IntValue(0) ELSE IF of = {} THEN [obj |-> MaxWords + 1, n |-> w]
                           ELSE [obj |-> ids[CHOOSE q \in of : TRUE], n |-> w - (CHOOSE q \in of : TRUE)]
    BY <1>5
  <2> HIDE DEF of
  <2>5. (CHOOSE q \in of : TRUE) = p /\ of # {}
    BY <2>3
  <2>6. w - p = o
    <3>1. p \in Nat
      BY <1>2
    <3> QED
      BY <3>1
  <2>7. w # Null
    BY <2>1 DEF Null
  <2>8. Value(w, TRUE) = [obj |-> ids[p], n |-> w - p]
    <3> HIDE DEF w
    <3> QED
      BY <2>4, <2>5, <2>7
  <2> QED
    BY <2>2, <2>6, <2>8
<1>9. Null \in Word /\ Value(Null, TRUE) = IntValue(0)
  <2>1. Null \in Word
    BY NumbersAre DEF Null
  <2> QED
    BY <1>5, <2>1, Zenon
<1> QED
  <2>1. \A w \in Word : Sense[w] = Value(w, TRUE)
    BY DEF Sense
  <2>2. Sense = [w \in Word |-> Sense[w]]
    BY DEF Sense
  <2>3. Sense \in [Word -> ValueSet]
    BY <1>7, <2>1, <2>2
  <2>4. Sense[Null] = IntValue(0)
    BY <1>9, <2>1
  <2>5. \A p \in Blocks : \A o \in Nat : o < Sizes[p] =>
          p + o \in Word /\ Sense[p + o] = [obj |-> ids[p], n |-> o]
    BY <1>8, <2>1
  <2> QED
    BY <2>3, <2>4, <2>5 DEF SenseIs

\* Value, the mapping of QuinHeap, is Means with the sense of the state.
LEMMA MeaningIs ==
    \A w \in Word, ref \in BOOLEAN : Value(w, ref) = Means(Sense, w, ref)
<1> SUFFICES ASSUME NEW w \in Word, NEW ref \in BOOLEAN
             PROVE  Value(w, ref) = Means(Sense, w, ref)
  OBVIOUS
<1>1. CASE ref
  <2>1. Sense[w] = Value(w, TRUE)
    BY DEF Sense
  <2>2. ref = TRUE
    BY <1>1
  <2> QED
    BY <2>1, <2>2 DEF Means
<1>2. CASE ~ref
  <2>1. Value(w, ref) = IntValue(w)
    BY <1>2 DEF Value, IntValue
  <2> QED
    BY <1>2, <2>1 DEF Means
<1> QED
  BY <1>1, <1>2

\* An object is what its block means.
LEMMA ObjectsKnown ==
    ASSUME IInv, Distinct
    PROVE  ObjectsAre
<1>1. program \in Programs /\ HeapInv
  BY DEF IInv
<1>2. DOMAIN Objects = {ids[p] : p \in Blocks} /\ Objects = [i \in DOMAIN Objects |-> Objects[i]]
  BY DEF Objects, Blocks
<1>3. ASSUME NEW p \in Blocks
      PROVE  Objects[ids[p]] = ObjectMeans(Sense, Structs, heap, Sizes[p], p)
  <2>1. (CHOOSE q \in DOMAIN ids : ids[q] = ids[p]) = p
    <3>1. \A q \in DOMAIN ids : ids[q] = ids[p] <=> q = p
      BY DEF Distinct, Blocks
    <3> QED
      BY <3>1 DEF Blocks
  <2>2. ids[p] \in {ids[q] : q \in DOMAIN ids}
    BY DEF Blocks
  <2>3. Objects[ids[p]] = [kind |-> Kind(p), detail |-> Detail(p),
                           words |-> [o \in 0 .. Size(p) - 1 |-> Value(heap[p + o], o \in RefOffsets(p))]]
    BY <2>1, <2>2 DEF Objects
  <2>4. Size(p) = Sizes[p]
    BY SizeIs
  <2>5. \A o \in 0 .. Sizes[p] - 1 :
           Value(heap[p + o], o \in RefOffsets(p)) = Means(Sense, heap[p + o], o \in OffsetsIn(Structs, heap, p))
    <3> SUFFICES ASSUME NEW o \in 0 .. Sizes[p] - 1
                 PROVE  Value(heap[p + o], o \in RefOffsets(p)) = Means(Sense, heap[p + o], o \in OffsetsIn(Structs, heap, p))
      OBVIOUS
    <3>1. Sizes[p] \in Nat
      BY <1>1, BlockFacts
    <3>2. o \in Nat /\ o < Sizes[p]
      BY <3>1
    <3>3. heap[p + o] \in Word
      BY <3>2, InBlock
    <3>4. RefOffsets(p) = OffsetsIn(Structs, heap, p)
      BY <1>1, InTermsOfBlocks
    <3>5. (o \in RefOffsets(p)) \in BOOLEAN
      OBVIOUS
    <3>6. Value(heap[p + o], o \in RefOffsets(p)) = Means(Sense, heap[p + o], o \in RefOffsets(p))
      BY <3>3, <3>5, MeaningIs
    <3> QED
      BY <3>4, <3>6
  <2>6. [o \in 0 .. Size(p) - 1 |-> Value(heap[p + o], o \in RefOffsets(p))]
          = WordsMean(Sense, Structs, heap, Sizes[p], p)
    BY <2>4, <2>5 DEF WordsMean
  <2> QED
    BY <2>3, <2>6 DEF ObjectMeans, Kind, Detail
<1> QED
  BY <1>2, <1>3 DEF ObjectsAre

\* The refinement mapping, in terms of what words mean.
LEMMA MappingKnown ==
    ASSUME IInv, Distinct
    PROVE  Understood
<1>1. StackValues = StackMeans(Sense, stack)
  <2>1. \A i \in DOMAIN stack : stack[i].w \in Word /\ stack[i].ref \in BOOLEAN
    <3>1. \A i \in DOMAIN stack : stack[i] \in TaggedWords
      BY DEF IInv, StackInv
    <3> QED
      BY <3>1, ArgIs
  <2>2. \A i \in DOMAIN stack : Value(stack[i].w, stack[i].ref) = Means(Sense, stack[i].w, stack[i].ref)
    BY <2>1, MeaningIs
  <2> QED
    BY <2>2 DEF StackValues, StackMeans
<1>2. FrameValues = FrameMeans(Sense, Funs, frames)
  <2>1. ASSUME NEW i \in DOMAIN frames
        PROVE  [s \in DOMAIN frames[i].locals |-> Value(frames[i].locals[s], s \in Refs(frames[i].fn))]
                  = LocalsMean(Sense, Funs[frames[i].fn].refs, frames[i].locals)
    <3>1. frames[i] \in FramesOf(Funs)
      BY DEF IInv, FramesInv
    <3>2. frames[i].locals \in [1 .. Funs[frames[i].fn].locals -> Word]
      BY <3>1, FrameIs
    <3>3. \A s \in DOMAIN frames[i].locals : frames[i].locals[s] \in Word
      BY <3>2
    <3>4. \A s \in DOMAIN frames[i].locals : (s \in Refs(frames[i].fn)) \in BOOLEAN
      OBVIOUS
    <3>5. \A s \in DOMAIN frames[i].locals :
            Value(frames[i].locals[s], s \in Refs(frames[i].fn)) = Means(Sense, frames[i].locals[s], s \in Refs(frames[i].fn))
      BY <3>3, <3>4, MeaningIs
    <3> QED
      BY <3>5 DEF LocalsMean, Refs
  <2> QED
    BY <2>1 DEF FrameValues, FrameMeans
<1>3. Consts = ConstMeans(Sense, Structs, literals, variants)
  <2>1. Interned = {t \in DOMAIN Structs : Structs[t].variant /\ Structs[t].size = 0}
    BY DEF Interned
  <2>2. {t \in Interned : variants[t] # Null}
           = {t \in DOMAIN Structs : Structs[t].variant /\ Structs[t].size = 0 /\ variants[t] # Null}
    BY <2>1
  <2> DEFINE word(c) == IF c[1] = "literal" THEN literals[c[2]] ELSE variants[c[2]]
  <2>3. Consts = [c \in ConstNames(Structs, literals, variants) |-> Value(word(c), TRUE)]
    BY <2>2 DEF Consts, ConstNames
  <2>4. \A c \in ConstNames(Structs, literals, variants) : word(c) \in Word
    <3>1. /\ \A i \in DOMAIN literals : literals[i] \in Word
          /\ \A t \in DOMAIN Structs : variants[t] \in Word
      BY Values
    <3>2. ASSUME NEW c \in {"literal"} \X DOMAIN literals PROVE word(c) \in Word
      <4>1. c[1] = "literal" /\ c[2] \in DOMAIN literals
        OBVIOUS
      <4> QED
        BY <3>1, <4>1
    <3>3. ASSUME NEW c \in {"variant"} \X {t \in DOMAIN Structs : Structs[t].variant /\ Structs[t].size = 0 /\ variants[t] # Null}
          PROVE word(c) \in Word
      <4>1. c[1] = "variant" /\ c[2] \in DOMAIN Structs
        OBVIOUS
      <4> QED
        BY <3>1, <4>1
    <3> QED
      BY <3>2, <3>3 DEF ConstNames
  <2> HIDE DEF word
  <2>5. \A c \in ConstNames(Structs, literals, variants) : Value(word(c), TRUE) = Sense[word(c)]
    BY <2>4 DEF Sense
  <2>6. Consts = [c \in ConstNames(Structs, literals, variants) |-> Sense[word(c)]]
    BY <2>3, <2>5
  <2> QED
    BY <2>6 DEF ConstMeans, word
<1> QED
  BY <1>1, <1>2, <1>3, SenseKnown, ObjectsKnown DEF Understood

-----------------------------------------------------------------------------
(* Identities.                                                             *)

DistinctIn(known, n) ==
    \A p \in DOMAIN known : known[p] \in 1 .. n /\ \A q \in DOMAIN known : known[p] = known[q] => p = q

\* While fewer are used than there are, an identity is unused.
LEMMA UnusedIs ==
    ASSUME program \in Programs, NEW known, DOMAIN known \subseteq 3 .. HeapWords,
           NEW used, used = {known[r] : r \in DOMAIN known}
    PROVE  Unused(used) \in 1 .. HeapWords /\ Unused(used) \notin used
<1> DEFINE n    == HeapWords
           free == {i \in 1 .. n : i \notin used}
<1>1. n \in Nat /\ 1 <= n
  BY ProgramFacts
<1> HIDE DEF n
<1>2. free # {}
  <2> SUFFICES ASSUME free = {} PROVE FALSE
    OBVIOUS
  <2>1. 1 .. n \subseteq used
    OBVIOUS
  <2>2. IsFiniteSet(1 .. n) /\ Cardinality(1 .. n) = n
    BY <1>1, FS_Interval
  <2>3. IsFiniteSet(3 .. n) /\ Cardinality(3 .. n) < n
    <3>1. IsFiniteSet(3 .. n) /\ Cardinality(3 .. n) = IF 3 > n THEN 0 ELSE n - 3 + 1
      <4>1. 3 \in Int /\ n \in Int
        BY <1>1
      <4> QED
        BY <4>1, FS_Interval
    <3> QED
      BY <1>1, <3>1
  <2>4. IsFiniteSet(DOMAIN known) /\ Cardinality(DOMAIN known) <= Cardinality(3 .. n)
    <3>1. DOMAIN known \in SUBSET (3 .. n)
      BY DEF n
    <3> QED
      BY <2>3, <3>1, FS_Subset
  <2> DEFINE f == [r \in DOMAIN known |-> known[r]]
  <2>5. f \in Surjection(DOMAIN known, used)
    BY DEF Surjection
  <2>6. IsFiniteSet(used) /\ Cardinality(used) <= Cardinality(DOMAIN known)
    <3> HIDE DEF f
    <3> QED
      BY <2>4, <2>5, FS_Surjection
  <2>7. Cardinality(1 .. n) <= Cardinality(used)
    BY <2>1, <2>6, FS_Subset
  <2>8. Cardinality(used) \in Nat /\ Cardinality(DOMAIN known) \in Nat /\ Cardinality(3 .. n) \in Nat
    BY <2>3, <2>4, <2>6, FS_CardinalityType
  <2> QED
    BY <1>1, <2>2, <2>3, <2>4, <2>6, <2>7, <2>8
<1>3. PICK i \in free : \A j \in free : i <= j
  <2>1. free \subseteq Nat
    BY <1>1
  <2> HIDE DEF free
  <2> QED
    BY <1>2, <2>1, LeastNat
<1>4. \A j \in 1 .. (i - 1) : j \in used
  BY <1>1, <1>3
<1>5. \E k \in 1 .. n : k \notin used /\ \A j \in 1 .. (k - 1) : j \in used
  BY <1>3, <1>4
<1>6. Unused(used) = CHOOSE k \in 1 .. n : k \notin used /\ \A j \in 1 .. (k - 1) : j \in used
  BY DEF Unused, n
<1>7. Unused(used) \in 1 .. n /\ Unused(used) \notin used
  BY <1>5, <1>6
<1> QED
  BY <1>7 DEF n

\* A new block gets an identity of its own, and the others keep theirs.
Joins(known, p, after) ==
    /\ DOMAIN after = DOMAIN known \cup {p} /\ \A q \in DOMAIN known : after[q] = known[q]
    /\ after[p] \notin {known[q] : q \in DOMAIN known}
\* Naming a new block takes an identity that no block has, and there is one.
LEMMA NamedIs ==
    ASSUME program \in Programs, NEW known, DOMAIN known \subseteq 3 .. HeapWords,
           DistinctIn(known, HeapWords), NEW p, p \notin DOMAIN known,
           NEW after, after = Named(known, p)
    PROVE  Joins(known, p, after) /\ DistinctIn(after, HeapWords)
<1> DEFINE used == {known[r] : r \in DOMAIN known}
<1>1. Unused(used) \in 1 .. HeapWords /\ Unused(used) \notin used
  BY UnusedIs
<1>2. DOMAIN after = DOMAIN known \cup {p} /\ \A q \in DOMAIN known : after[q] = known[q]
  BY DEF Named
<1>3. after[p] = Unused(used)
  BY DEF Named
<1>4. ASSUME NEW x \in DOMAIN after PROVE after[x] \in 1 .. HeapWords
  BY <1>1, <1>2, <1>3 DEF DistinctIn
<1>5. ASSUME NEW x \in DOMAIN after, NEW y \in DOMAIN after, after[x] = after[y] PROVE x = y
  BY <1>1, <1>2, <1>3, <1>5 DEF DistinctIn
<1>6. Joins(known, p, after)
  BY <1>1, <1>2, <1>3 DEF Joins
<1> QED
  BY <1>4, <1>5, <1>6 DEF DistinctIn

\* A block takes its identity along.
LEMMA CollectedIdsAre ==
    ASSUME program \in Programs, HeapInv, Distinct, NEW S, S \subseteq Blocks,
           NEW known, known = CollectedIds(S)
    PROVE  /\ DOMAIN known = {Forward(S, p) : p \in S}
           /\ \A p \in S : known[Forward(S, p)] = ids[p]
           /\ DistinctIn(known, HeapWords)
<1>1. DOMAIN known = {Forward(S, p) : p \in S}
  BY DEF CollectedIds
<1>2. ASSUME NEW p \in S, NEW q \in S, Forward(S, p) = Forward(S, q)
      PROVE  p = q
  <2>1. p \in Nat /\ q \in Nat /\ Sizes[p] \in Nat /\ Sizes[q] \in Nat
    BY BlockFacts
  <2>2. Forward(S, p) \in Nat /\ Forward(S, q) \in Nat
    BY Forwards
  <2>3. /\ p < q => Forward(S, p) + Sizes[p] + 2 <= Forward(S, q)
        /\ q < p => Forward(S, q) + Sizes[q] + 2 <= Forward(S, p)
    BY Forwards DEF Header
  <2> QED
    BY <1>2, <2>1, <2>2, <2>3
<1>3. ASSUME NEW p \in S
      PROVE  known[Forward(S, p)] = ids[p]
  <2>1. (CHOOSE x \in S : Forward(S, x) = Forward(S, p)) = p
    BY <1>2
  <2>2. Forward(S, p) \in {Forward(S, x) : x \in S}
    OBVIOUS
  <2> QED
    BY <2>1, <2>2 DEF CollectedIds
<1>4. DistinctIn(known, HeapWords)
  <2>1. \A p \in S : ids[p] \in 1 .. HeapWords /\ \A q \in S : ids[p] = ids[q] => p = q
    BY DEF Distinct
  <2>2. \A x \in DOMAIN known : \E p \in S : x = Forward(S, p) /\ known[x] = ids[p]
    BY <1>1, <1>3
  <2> QED
    BY <2>1, <2>2 DEF DistinctIn
<1> QED
  BY <1>1, <1>3, <1>4

\* A block is put on top of blocks that lie below it.
LEMMA GrownIds ==
    ASSUME program \in Programs, NEW h, NEW B, NEW top, Laid(HeapWords, Structs, h, B, top),
           NEW known, DOMAIN known = B, DistinctIn(known, HeapWords),
           NEW p, p = top + Header, NEW after, after = Named(known, p)
    PROVE  Joins(known, p, after) /\ p \notin B /\ DistinctIn(after, HeapWords)
<1> DEFINE n == HeapWords
<1>1. n \in Nat
  BY ProgramFacts
<1>2. \A q \in B : /\ q \in Nat /\ 3 <= q /\ SizesIn(Structs, h, B)[q] \in Nat /\ top \in Nat
                   /\ q + SizesIn(Structs, h, B)[q] <= top /\ top <= n
  <2> HIDE DEF n
  <2> QED
    BY <1>1, LaidAt DEF n
<1> HIDE DEF n
<1>3. B \subseteq 3 .. n
  BY <1>1, <1>2
<1>4. p \notin B
  BY <1>2 DEF Header
<1>5. DOMAIN known \subseteq 3 .. HeapWords /\ p \notin DOMAIN known
  BY <1>3, <1>4 DEF n
<1> QED
  BY <1>4, <1>5, NamedIs

\* Distinct, of the state, is DistinctIn of ids.
LEMMA DistinctIs == Distinct <=> DistinctIn(ids, HeapWords)
BY DEF Distinct, DistinctIn, Blocks

\* A collection leaves each survivor its identity (_gc).
LEMMA CollectedDistinct ==
    ASSUME IInv, Distinct, NEW st, Collected(Marked(st), st), program' = program
    PROVE  Distinct'
<1>1. program \in Programs /\ HeapInv
  BY DEF IInv
<1>2. Marked(st) \subseteq Blocks
  BY <1>1, MarkedIs
<1>3. ids' = CollectedIds(Marked(st)) /\ HeapWords' = HeapWords
  BY DEF Collected, HeapWords
<1>4. DistinctIn(ids', HeapWords)
  BY <1>1, <1>2, <1>3, CollectedIdsAre
<1> QED
  BY <1>3, <1>4 DEF Distinct, DistinctIn, Blocks

\* An allocation that may collect first keeps identities distinct (_reserve).
LEMMA ReserveDistinct ==
    ASSUME IInv, Distinct, NEW st, NEW kind, NEW detail, NEW fill, Reserve(st, kind, detail, fill)
    PROVE  Distinct'
<1>1. program \in Programs /\ HeapInv
  BY DEF IInv
<1>2. CASE ReserveNow(st, kind, detail, fill)
  <2>1. ids' = Named(ids, heap_ptr + Header) /\ HeapWords' = HeapWords
    BY <1>2 DEF ReserveNow, HeapWords
  <2>2. Laid(HeapWords, Structs, heap, Blocks, heap_ptr) /\ DOMAIN ids = Blocks /\ DistinctIn(ids, HeapWords)
    BY <1>1, DistinctIs DEF HeapInv, Blocks
  <2> DEFINE p == heap_ptr + Header
             after == ids'
  <2>3. p = heap_ptr + Header /\ after = Named(ids, p)
    BY <2>1
  <2> HIDE DEF p, after
  <2>4. DistinctIn(after, HeapWords)
    BY <1>1, <2>2, <2>3, GrownIds
  <2> QED
    BY <2>1, <2>4 DEF Distinct, DistinctIn, Blocks, after
<1>3. CASE ReserveLater(st, kind, detail, fill)
  <2> DEFINE S     == Marked(st)
             top   == CollectedTop(S)
             p     == top + Header
             h     == CollectedHeap(S)
             B     == {Forward(S, q) : q \in S}
             known == CollectedIds(S)
             after == ids'
  <2>1. after = Named(known, p) /\ HeapWords' = HeapWords
    BY <1>3 DEF ReserveLater, HeapWords
  <2>2. S \subseteq Blocks
    BY <1>1, MarkedIs
  <2>3. p = top + Header
    OBVIOUS
  <2> HIDE DEF S, after
  <2>4. Laid(HeapWords, Structs, h, B, top) /\ DOMAIN known = B /\ DistinctIn(known, HeapWords)
    BY <1>1, <2>2, CollectedLaid, CollectedIdsAre
  <2> HIDE DEF p, top, h, B, known
  <2>5. DistinctIn(after, HeapWords)
    BY <1>1, <2>1, <2>3, <2>4, GrownIds
  <2> QED
    BY <2>1, <2>5 DEF Distinct, DistinctIn, Blocks, after
<1>4. CASE ReserveNever(st, kind, detail)
  <2>1. Collected(Marked(st), st) /\ program' = program
    BY <1>4 DEF ReserveNever
  <2> QED
    BY <2>1, CollectedDistinct
<1> QED
  BY <1>2, <1>3, <1>4 DEF Reserve

\* So does whatever leaves the blocks alone.
LEMMA SameIds ==
    ASSUME Distinct, UNCHANGED <<program, ids>>
    PROVE  Distinct'
BY DEF Distinct, Blocks, HeapWords

\* And the allocation of a literal or a variant.
LEMMA ConstantDistinct ==
    ASSUME IInv, Distinct, NEW kind, NEW detail, NEW fill, Constant(kind, detail, fill), program' = program
    PROVE  Distinct'
<1>1. program \in Programs /\ HeapInv
  BY DEF IInv
<1>2. ids' = Named(ids, heap_ptr + Header) /\ HeapWords' = HeapWords
  BY DEF Constant, HeapWords
<1>3. Laid(HeapWords, Structs, heap, Blocks, heap_ptr) /\ DOMAIN ids = Blocks /\ DistinctIn(ids, HeapWords)
  BY <1>1, DistinctIs DEF HeapInv, Blocks
<1> DEFINE p == heap_ptr + Header
           after == ids'
<1>4. p = heap_ptr + Header /\ after = Named(ids, p)
  BY <1>2
<1> HIDE DEF p, after
<1>5. DistinctIn(after, HeapWords)
  BY <1>1, <1>3, <1>4, GrownIds
<1> QED
  BY <1>2, <1>5 DEF Distinct, DistinctIn, Blocks, after

\* Only an allocation or a collection changes who is where.
LEMMA OtherIds ==
    ASSUME Instruction, ~Allocating, ~Gc
    PROVE  UNCHANGED <<program, ids>>
<1>1. ASSUME \/ \E n \in Ints : PushInt(n)
             \/ \E i \in DOMAIN literals : LoadStr(i)
             \/ \E t \in DOMAIN Structs : LoadVariant(t)
             \/ \E s \in DOMAIN Frame.locals : LoadLocal(s) \/ StoreLocal(s)
             \/ PopValue \/ Dup \/ Swap \/ AddPointer \/ Compare
      PROVE  UNCHANGED <<program, ids>>
  BY <1>1 DEF PushInt, LoadStr, LoadVariant, LoadLocal, StoreLocal, PopValue, Dup, Swap,
              AddPointer, Compare, Memory
<1>2. ASSUME \/ \E kind \in {RefArray, ValArray} : ArrayGet(kind) \/ ArraySet(kind)
             \/ \E off \in 0 .. HeapWords : HeapLoadField(off) \/ HeapStoreField(off)
             \/ HeapLoad \/ HeapStore \/ ReadDetail \/ Fault
             \/ \E f \in DOMAIN Funs : Call(f)
             \/ Ret
      PROVE  UNCHANGED <<program, ids>>
  BY <1>2 DEF ArrayGet, ArraySet, HeapLoadField, HeapStoreField, HeapLoad, HeapStore, ReadDetail,
              Fault, Call, Ret, Memory
<1> QED
  BY <1>1, <1>2 DEF Instruction, Allocating

\* Every step keeps identities distinct.
LEMMA DistinctNext ==
    ASSUME IInv, Distinct, [Next]_vars
    PROVE  Distinct'
<1>1. CASE Instruction
  <2>1. CASE Allocating
    <3>1. \E st, kind, detail, fill : Reserve(st, kind, detail, fill)
      BY <2>1, AllocationIs
    <3> QED
      BY <3>1, ReserveDistinct
  <2>2. CASE Gc
    BY <2>2, CollectedDistinct DEF Gc
  <2> QED
    BY <1>1, <2>1, <2>2, OtherIds, SameIds
<1>2. CASE MaterialiseLiteral
  BY <1>2, ConstantDistinct DEF MaterialiseLiteral
<1>3. ASSUME NEW t \in DOMAIN Structs, MaterialiseVariant(t)
      PROVE  Distinct'
  BY <1>3, ConstantDistinct DEF MaterialiseVariant
<1>4. CASE Start \/ UNCHANGED vars
  BY <1>4, SameIds DEF Start, vars
<1> QED
  BY <1>1, <1>2, <1>3, <1>4 DEF Next, Materialise, Over

\* The empty heap has no identities to confuse.
LEMMA DistinctInit == Init => Distinct
BY DEF Init, Distinct, Blocks

-----------------------------------------------------------------------------
(* What a stack and its frames mean.                                       *)

LEMMA StackMeansType ==
    ASSUME NEW sense \in [Word -> ValueSet], NEW st \in Seq(TaggedWords)
    PROVE  /\ StackMeans(sense, st) \in Seq(ValueSet) /\ Len(StackMeans(sense, st)) = Len(st)
           /\ DOMAIN StackMeans(sense, st) = DOMAIN st
           /\ \A i \in 1 .. Len(st) : StackMeans(sense, st)[i] = Means(sense, st[i].w, st[i].ref)
<1>1. \A i \in DOMAIN st : st[i].w \in Word /\ st[i].ref \in BOOLEAN
  <2>1. \A i \in DOMAIN st : st[i] \in TaggedWords
    OBVIOUS
  <2> QED
    BY <2>1, ArgIs
<1>2. \A w \in Word, ref \in BOOLEAN : Means(sense, w, ref) \in ValueSet
  <2>1. \A w \in Word : w \in Nat
    BY WordNat
  <2>2. \A w \in Word : IntValue(w) \in ValueSet
    BY <2>1 DEF IntValue, ValueSet
  <2>3. \A w \in Word : sense[w] \in ValueSet
    OBVIOUS
  <2> QED
    BY <2>2, <2>3 DEF Means
<1> DEFINE S == StackMeans(sense, st)
           n == Len(st)
<1>3. n \in Nat /\ DOMAIN st = 1 .. n
  OBVIOUS
<1>4. S = [i \in 1 .. n |-> Means(sense, st[i].w, st[i].ref)]
  BY <1>3 DEF StackMeans
<1>5. \A i \in 1 .. n : Means(sense, st[i].w, st[i].ref) \in ValueSet
  BY <1>1, <1>2, <1>3
<1> HIDE DEF S, n
<1>6. S \in [1 .. n -> ValueSet]
  BY <1>4, <1>5
<1>7. S \in Seq(ValueSet) /\ Len(S) = n
  BY <1>3, <1>6
<1> QED
  BY <1>3, <1>4, <1>7 DEF S, n

\* Two sequences with the same elements.
LEMMA SameSeq ==
    ASSUME NEW X, NEW s \in Seq(X), NEW t \in Seq(X), Len(s) = Len(t), \A i \in 1 .. Len(s) : s[i] = t[i]
    PROVE  s = t
OBVIOUS

\* Drop removes the last k of a sequence.
LEMMA DropIs ==
    ASSUME NEW X, NEW s \in Seq(X), NEW k \in Nat, k <= Len(s)
    PROVE  /\ Drop(s, k) \in Seq(X) /\ Len(Drop(s, k)) = Len(s) - k /\ Len(s) - k \in Nat
           /\ \A i \in 1 .. Len(s) - k : Drop(s, k)[i] = s[i]
BY DEF Drop

\* What Append does to each place of a sequence.
LEMMA AppendIs ==
    ASSUME NEW X, NEW s \in Seq(X), NEW x \in X
    PROVE  /\ Append(s, x) \in Seq(X) /\ Len(Append(s, x)) = Len(s) + 1 /\ Len(s) + 1 \in Nat
           /\ \A i \in 1 .. Len(s) : Append(s, x)[i] = s[i]
           /\ Append(s, x)[Len(s) + 1] = x
OBVIOUS

\* Popping words pops what they mean.
LEMMA DropMeans ==
    ASSUME NEW sense \in [Word -> ValueSet], NEW st \in Seq(TaggedWords), NEW k \in Nat, k <= Len(st)
    PROVE  StackMeans(sense, Drop(st, k)) = Drop(StackMeans(sense, st), k)
<1> DEFINE d == Drop(st, k)
           S == StackMeans(sense, st)
           a == StackMeans(sense, d)
           b == Drop(S, k)
<1>1. d \in Seq(TaggedWords) /\ Len(d) = Len(st) - k /\ Len(st) - k \in Nat /\ \A i \in 1 .. Len(st) - k : d[i] = st[i]
  BY DropIs
<1>2. S \in Seq(ValueSet) /\ Len(S) = Len(st) /\ \A i \in 1 .. Len(st) : S[i] = Means(sense, st[i].w, st[i].ref)
  BY StackMeansType
<1> HIDE DEF d, S
<1>3. a \in Seq(ValueSet) /\ Len(a) = Len(d) /\ \A i \in 1 .. Len(d) : a[i] = Means(sense, d[i].w, d[i].ref)
  BY <1>1, StackMeansType
<1>4. b \in Seq(ValueSet) /\ Len(b) = Len(st) - k /\ \A i \in 1 .. Len(st) - k : b[i] = S[i]
  BY <1>2, DropIs
<1> HIDE DEF a, b
<1>5. \A i \in 1 .. Len(st) - k : a[i] = b[i]
  <2>1. \A i \in 1 .. Len(st) - k : i \in 1 .. Len(st)
    BY <1>1
  <2> QED
    BY <1>1, <1>2, <1>3, <1>4, <2>1
<1>6. Len(a) = Len(b) /\ \A i \in 1 .. Len(a) : a[i] = b[i]
  BY <1>1, <1>3, <1>4, <1>5
<1> QED
  BY <1>3, <1>4, <1>6, SameSeq DEF a, b, d, S

\* Pushing a word pushes what it means.
LEMMA AppendMeans ==
    ASSUME NEW sense \in [Word -> ValueSet], NEW st \in Seq(TaggedWords), NEW v \in TaggedWords
    PROVE  /\ Means(sense, v.w, v.ref) \in ValueSet
           /\ StackMeans(sense, Append(st, v)) = Append(StackMeans(sense, st), Means(sense, v.w, v.ref))
<1> DEFINE d == Append(st, v)
           S == StackMeans(sense, st)
           a == StackMeans(sense, d)
           m == Means(sense, v.w, v.ref)
           b == Append(S, m)
           n == Len(st)
<1>1. d \in Seq(TaggedWords) /\ Len(d) = n + 1 /\ n \in Nat /\ (\A i \in 1 .. n : d[i] = st[i]) /\ d[n + 1] = v
  BY AppendIs
<1>2. S \in Seq(ValueSet) /\ Len(S) = n /\ \A i \in 1 .. n : S[i] = Means(sense, st[i].w, st[i].ref)
  BY StackMeansType
<1> HIDE DEF d, S
<1>3. a \in Seq(ValueSet) /\ Len(a) = Len(d) /\ \A i \in 1 .. Len(d) : a[i] = Means(sense, d[i].w, d[i].ref)
  BY <1>1, StackMeansType
<1> HIDE DEF a, n
<1>4. a[n + 1] = m /\ m \in ValueSet
  <2>1. n + 1 \in 1 .. Len(d) /\ n + 1 \in 1 .. Len(a)
    BY <1>1, <1>3
  <2>2. a[n + 1] = m
    BY <1>1, <1>3, <2>1
  <2>3. a[n + 1] \in ValueSet
    BY <1>3, <2>1
  <2> QED
    BY <2>2, <2>3
<1> HIDE DEF m
<1>5. b \in Seq(ValueSet) /\ Len(b) = n + 1 /\ (\A i \in 1 .. n : b[i] = S[i]) /\ b[n + 1] = m
  BY <1>2, <1>4, AppendIs
<1> HIDE DEF b
<1>6. Len(a) = Len(b) /\ \A i \in 1 .. Len(a) : a[i] = b[i]
  <2>1. Len(a) = n + 1 /\ Len(b) = n + 1
    BY <1>1, <1>3, <1>5
  <2>2. ASSUME NEW i \in 1 .. (n + 1) PROVE a[i] = b[i]
    <3>1. CASE i = n + 1
      BY <1>4, <1>5, <3>1
    <3>2. CASE i # n + 1
      <4>1. i \in 1 .. n
        BY <1>1, <3>2
      <4> QED
        BY <1>1, <1>2, <1>3, <1>5, <4>1
    <3> QED
      BY <3>1, <3>2
  <2> QED
    BY <2>1, <2>2
<1>7. a = b
  BY <1>3, <1>5, <1>6, SameSeq
<1> QED
  BY <1>4, <1>7 DEF a, b, d, S, m

-----------------------------------------------------------------------------
(* Instructions that leave the heap alone.                                 *)

\* What the proof knows of a state.
Well == IInv /\ Distinct /\ Holding /\ Understood

\* Well, what the step lemmas assume, follows from the invariants.
LEMMA WellIs == IInv /\ Distinct /\ Holding => Well
BY MappingKnown DEF Well

\* What Well says of the operand stack and its meaning.
LEMMA WellTypes ==
    ASSUME Well
    PROVE  /\ Sense \in [Word -> ValueSet] /\ stack \in Seq(TaggedWords) /\ IInv /\ Holding
           /\ StackValues = StackMeans(Sense, stack) /\ FrameValues = FrameMeans(Sense, Funs, frames)
           /\ StackValues \in Seq(ValueSet) /\ Len(StackValues) = Len(stack) /\ Len(stack) \in Nat
           /\ \A i \in 1 .. Len(stack) : StackValues[i] = Means(Sense, stack[i].w, stack[i].ref)
<1>1. Sense \in [Word -> ValueSet] /\ stack \in Seq(TaggedWords) /\ IInv /\ Holding
  BY DEF Well, Understood, SenseIs, IInv, StackInv
<1>2. StackValues = StackMeans(Sense, stack) /\ FrameValues = FrameMeans(Sense, Funs, frames)
  BY DEF Well, Understood
<1> QED
  BY <1>1, <1>2, StackMeansType

\* Where nothing is written, words mean what they meant.
LEMMA SenseSame ==
    ASSUME UNCHANGED <<program, heap, ids>>
    PROVE  Sense' = Sense /\ Structs' = Structs /\ Funs' = Funs /\ Sizes' = Sizes /\ Blocks' = Blocks
<1>1. Structs' = Structs /\ Funs' = Funs /\ Blocks' = Blocks
  BY DEF Structs, Funs, Blocks
<1>2. Sizes' = Sizes
  BY <1>1 DEF Sizes
<1>3. Sense' = Sense
  BY <1>1 DEF Sense, Value, End, Size, Words, Kind, Detail
<1> QED
  BY <1>1, <1>2, <1>3

\* With the heap and the identities unchanged, so are the objects.
LEMMA ObjectsSame ==
    ASSUME Well, Well', UNCHANGED <<program, heap, ids>>
    PROVE  Objects' = Objects
<1>1. ObjectsAre /\ ObjectsAre'
  BY DEF Well, Understood
<1>2. Sense' = Sense /\ Structs' = Structs /\ Sizes' = Sizes /\ Blocks' = Blocks
  BY SenseSame
<1>3. DOMAIN Objects' = DOMAIN Objects
  BY <1>1, <1>2 DEF ObjectsAre
<1>4. \A i \in DOMAIN Objects : \E p \in Blocks : i = ids[p]
  BY <1>1 DEF ObjectsAre
<1>5. \A p \in Blocks : Objects'[ids[p]] = Objects[ids[p]]
  BY <1>1, <1>2 DEF ObjectsAre
<1>6. \A i \in DOMAIN Objects : Objects'[i] = Objects[i]
  BY <1>4, <1>5
<1>7. Objects = [i \in DOMAIN Objects |-> Objects[i]] /\ Objects' = [i \in DOMAIN Objects' |-> Objects'[i]]
  BY <1>1 DEF ObjectsAre
<1> QED
  BY <1>3, <1>6, <1>7

\* Constants mean the same as long as the words of the permanent objects do.
LEMMA ConstsSame ==
    ASSUME Well, Well', UNCHANGED <<program, literals, variants>>,
           \A w \in Permanents \ {Null} : Sense'[w] = Sense[w]
    PROVE  Consts' = Consts
<1>1. /\ Consts = ConstMeans(Sense, Structs, literals, variants)
      /\ Consts' = ConstMeans(Sense', Structs', literals', variants')
  BY DEF Well, Understood
<1>2. Structs' = Structs /\ literals' = literals /\ variants' = variants
  BY DEF Structs
<1> DEFINE word(c) == IF c[1] = "literal" THEN literals[c[2]] ELSE variants[c[2]]
           names   == ConstNames(Structs, literals, variants)
<1>3. \A i \in DOMAIN literals : literals[i] \in Permanents \ {Null}
  <2>1. \A i \in DOMAIN literals : literals[i] \in Blocks
    BY DEF Well, IInv, PermanentInv
  <2>2. Null \notin Blocks
    <3>1. \A p \in Blocks : 3 <= p
      BY BlockFacts DEF Well, IInv
    <3> QED
      BY <3>1 DEF Null
  <2> QED
    BY <2>1, <2>2 DEF Permanents
<1>4. \A t \in DOMAIN Structs : t \in DOMAIN variants
  BY DEF Well, IInv, PermanentInv
<1>5. ASSUME NEW c \in names PROVE word(c) \in Permanents \ {Null}
  <2>1. CASE c \in {"literal"} \X DOMAIN literals
    <3>1. c[1] = "literal" /\ c[2] \in DOMAIN literals
      BY <2>1
    <3> QED
      BY <1>3, <3>1
  <2>2. CASE c \in {"variant"} \X {t \in DOMAIN Structs : Structs[t].variant /\ Structs[t].size = 0 /\ variants[t] # Null}
    <3>1. c[1] = "variant" /\ c[2] \in DOMAIN Structs /\ variants[c[2]] # Null
      BY <2>2
    <3>2. c[2] \in DOMAIN variants
      BY <1>4, <3>1
    <3> QED
      BY <3>1, <3>2 DEF Permanents
  <2> QED
    BY <2>1, <2>2 DEF ConstNames
<1> HIDE DEF word
<1>6. \A c \in names : Sense'[word(c)] = Sense[word(c)]
  BY <1>5
<1>7. Consts = [c \in names |-> Sense[word(c)]] /\ Consts' = [c \in names |-> Sense'[word(c)]]
  BY <1>1, <1>2 DEF ConstMeans, word
<1> HIDE DEF names
<1> QED
  BY <1>6, <1>7

\* An instruction that writes neither heap nor constants changes no meaning.
LEMMA Untouched ==
    ASSUME Well, Well', UNCHANGED Memory
    PROVE  /\ Sense' = Sense /\ Objects' = Objects /\ Consts' = Consts /\ status' = status /\ Funs' = Funs
           /\ frames' = frames => FrameValues' = FrameValues
<1>1. UNCHANGED <<program, heap, ids>> /\ UNCHANGED <<program, literals, variants>> /\ status' = status
  BY DEF Memory
<1>2. Sense' = Sense /\ Funs' = Funs
  BY <1>1, SenseSame
<1>3. Objects' = Objects
  BY <1>1, ObjectsSame
<1>4. Consts' = Consts
  BY <1>1, <1>2, ConstsSame
<1>5. FrameValues = FrameMeans(Sense, Funs, frames) /\ FrameValues' = FrameMeans(Sense', Funs', frames')
  BY DEF Well, Understood
<1> QED
  BY <1>1, <1>2, <1>3, <1>4, <1>5

\* An instruction replaces k operands by one.
LEMMA PushMeans ==
    ASSUME Well, Well', NEW k \in Nat, Has(k), NEW w \in Word, NEW ref \in BOOLEAN, Push(k, w, ref),
           Sense' = Sense
    PROVE  /\ Means(Sense, w, ref) \in ValueSet /\ k <= Len(StackValues)
           /\ StackValues' = Append(Drop(StackValues, k), Means(Sense, w, ref))
<1>1. /\ StackValues = StackMeans(Sense, stack) /\ Sense \in [Word -> ValueSet] /\ stack \in Seq(TaggedWords)
      /\ Len(StackValues) = Len(stack) /\ IInv
  BY WellTypes
<1>2. StackValues' = StackMeans(Sense, stack')
  BY DEF Well, Understood
<1> DEFINE d == Drop(stack, k)
           v == [w |-> w, ref |-> ref]
<1>3. d \in Seq(TaggedWords) /\ k <= Len(stack)
  BY <1>1, Taken
<1>4. v \in TaggedWords /\ v.w = w /\ v.ref = ref
  BY DEF TaggedWords
<1>5. stack' = Append(d, v)
  BY DEF Push
<1>6. StackMeans(Sense, d) = Drop(StackValues, k)
  BY <1>1, <1>3, DropMeans
<1> HIDE DEF d, v
<1> QED
  BY <1>1, <1>2, <1>3, <1>4, <1>5, <1>6, AppendMeans

\* The top of a stack is what was pushed last.
LEMMA LastOne ==
    ASSUME NEW s \in Seq(ValueSet), NEW v \in ValueSet
    PROVE  /\ Managed!Top(Append(s, v)) = v /\ Managed!Drop(Append(s, v), 1) = s
           /\ Len(Append(s, v)) = Len(s) + 1
<1> DEFINE t == Append(s, v)
<1>1. t \in Seq(ValueSet) /\ Len(t) = Len(s) + 1 /\ Len(s) \in Nat /\ t[Len(t)] = v
      /\ \A i \in 1 .. Len(s) : t[i] = s[i]
  BY AppendIs
<1> HIDE DEF t
<1>2. Managed!Top(t) = v
  BY <1>1 DEF Managed!Top
<1>3. Drop(t, 1) = s
  <2>1. Drop(t, 1) \in Seq(ValueSet) /\ Len(Drop(t, 1)) = Len(s) /\ \A i \in 1 .. Len(s) : Drop(t, 1)[i] = t[i]
    BY <1>1 DEF Drop
  <2> QED
    BY <1>1, <2>1, SameSeq
<1> QED
  BY <1>1, <1>2, <1>3 DEF t, Drop, Managed!Drop

\* The two modules drop alike.
LEMMA DropsAgree == \A s, k : Managed!Drop(s, k) = Drop(s, k)
BY DEF Managed!Drop, Drop

\* No operand is taken: a number, a permanent object or a local is pushed.
LEMMA PushRefines ==
    ASSUME Well, Well', UNCHANGED <<Memory, frames>>, NEW w \in Word, NEW ref \in BOOLEAN, Push(0, w, ref),
           \/ ~ref \/ w = Null
           \/ \E c \in DOMAIN Consts : Means(Sense, w, ref) = Consts[c]
           \/ \E s \in DOMAIN Managed!Locals : Means(Sense, w, ref) = Managed!Locals[s]
    PROVE  Managed!Instruction
<1>1. /\ StackValues \in Seq(ValueSet) /\ Len(StackValues) \in Nat /\ IInv
  BY WellTypes
<1>2. /\ Sense' = Sense /\ Objects' = Objects /\ Consts' = Consts /\ status' = status /\ FrameValues' = FrameValues
  BY Untouched
<1> DEFINE m == Means(Sense, w, ref)
<1>3. m \in ValueSet /\ StackValues' = Append(StackValues, m)
  <2>1. Has(0) /\ 0 \in Nat
    BY <1>1, EmptyHanded
  <2>2. m \in ValueSet /\ StackValues' = Append(Drop(StackValues, 0), m)
    BY <1>2, <2>1, PushMeans
  <2>3. Drop(StackValues, 0) = StackValues
    <3>1. Drop(StackValues, 0) \in Seq(ValueSet) /\ Len(Drop(StackValues, 0)) = Len(StackValues)
          /\ \A i \in 1 .. Len(StackValues) : Drop(StackValues, 0)[i] = StackValues[i]
      BY <1>1 DEF Drop
    <3> QED
      BY <1>1, <3>1, SameSeq
  <2> QED
    BY <2>2, <2>3
<1>4. ~ref \/ w = Null => m.obj = 0
  <2>1. Sense[Null] = IntValue(0)
    BY DEF Well, Understood, SenseIs
  <2> QED
    BY <2>1 DEF Means, IntValue
<1>5. \/ m.obj = 0 \/ (\E c \in DOMAIN Consts : m = Consts[c])
      \/ \E s \in DOMAIN Managed!Locals : m = Managed!Locals[s]
  BY <1>4
<1> HIDE DEF m
<1>6. Len(StackValues') = Len(StackValues) + 1 /\ Managed!Top(StackValues') = m
  BY <1>1, <1>3, LastOne
<1>7. Managed!Push
  BY <1>2, <1>3, <1>5, <1>6 DEF Managed!Push, Managed!IsRef
<1> QED
  BY <1>7 DEF Managed!Instruction

\* The running activation's locals, as ManagedHeap sees them.
LEMMA LocalsAre ==
    ASSUME Well
    PROVE  /\ Managed!Locals = LocalsMean(Sense, Refs(Frame.fn), Frame.locals)
           /\ Len(FrameValues) = Len(frames) /\ DOMAIN FrameValues = DOMAIN frames
<1>1. FrameValues = FrameMeans(Sense, Funs, frames) /\ IInv
  BY WellTypes
<1>2. Len(frames) \in Nat /\ 1 <= Len(frames) /\ Frame = frames[Len(frames)] /\ frames \in Seq(FramesOf(Funs))
  BY <1>1, TopFrame DEF IInv, FramesInv
<1>3. DOMAIN frames = 1 .. Len(frames) /\ Len(frames) \in DOMAIN frames
  BY <1>2
<1>4. DOMAIN FrameValues = 1 .. Len(frames)
  BY <1>1, <1>3 DEF FrameMeans
<1>5. Len(FrameValues) = Len(frames)
  BY <1>2, <1>4
<1>6. FrameValues[Len(frames)] = [base |-> Frame.base, locals |-> LocalsMean(Sense, Funs[Frame.fn].refs, Frame.locals)]
  BY <1>1, <1>2, <1>3 DEF FrameMeans
<1> QED
  BY <1>3, <1>4, <1>5, <1>6 DEF Managed!Locals, Managed!Top, Refs

\* PUSH_INT, LOAD_STR, LOAD_VARIANT and LOAD_LOCAL are instructions of ManagedHeap.
LEMMA LoadsRefine ==
    ASSUME Well, Well'
    PROVE  /\ \A n \in Ints : PushInt(n) => Managed!Instruction
           /\ \A i \in DOMAIN literals : LoadStr(i) => Managed!Instruction
           /\ \A t \in DOMAIN Structs : LoadVariant(t) => Managed!Instruction
           /\ \A s \in DOMAIN Frame.locals : LoadLocal(s) => Managed!Instruction
<1>1. IInv /\ Consts = ConstMeans(Sense, Structs, literals, variants)
  BY DEF Well, Understood
<1>2. ASSUME NEW n \in Ints, PushInt(n) PROVE Managed!Instruction
  <2>1. n \in Word
    <3>1. WellMade(program)
      BY <1>1, ProgramFacts DEF IInv
    <3> QED
      BY <3>1 DEF WellMade, Ints
  <2>2. Push(0, n, FALSE) /\ UNCHANGED <<Memory, frames>>
    BY <1>2 DEF PushInt
  <2> QED
    BY <2>1, <2>2, PushRefines
<1>3. ASSUME NEW i \in DOMAIN literals, LoadStr(i) PROVE Managed!Instruction
  <2>1. literals[i] \in Word
    BY <1>1, Values
  <2>2. Push(0, literals[i], TRUE) /\ UNCHANGED <<Memory, frames>>
    BY <1>3 DEF LoadStr
  <2> DEFINE c == <<"literal", i>>
  <2>3. c \in ConstNames(Structs, literals, variants) /\ c[1] = "literal" /\ c[2] = i
    BY DEF ConstNames
  <2> HIDE DEF c
  <2>4. c \in DOMAIN Consts /\ Consts[c] = Sense[literals[i]]
    BY <1>1, <2>3 DEF ConstMeans
  <2>5. \E x \in DOMAIN Consts : Means(Sense, literals[i], TRUE) = Consts[x]
    BY <2>4 DEF Means
  <2> QED
    BY <2>1, <2>2, <2>5, PushRefines
<1>4. ASSUME NEW t \in DOMAIN Structs, LoadVariant(t) PROVE Managed!Instruction
  <2>1. variants[t] \in Word
    BY <1>1, Values
  <2>2. Push(0, variants[t], TRUE) /\ UNCHANGED <<Memory, frames>> /\ t \in Interned
    BY <1>4 DEF LoadVariant
  <2>3. CASE variants[t] = Null
    BY <2>1, <2>2, <2>3, PushRefines
  <2>4. CASE variants[t] # Null
    <3> DEFINE c == <<"variant", t>>
    <3>1. c \in ConstNames(Structs, literals, variants) /\ c[1] # "literal" /\ c[2] = t
      BY <2>2, <2>4 DEF ConstNames, Interned
    <3> HIDE DEF c
    <3>2. c \in DOMAIN Consts /\ Consts[c] = Sense[variants[t]]
      BY <1>1, <3>1 DEF ConstMeans
    <3>3. \E x \in DOMAIN Consts : Means(Sense, variants[t], TRUE) = Consts[x]
      BY <3>2 DEF Means
    <3> QED
      BY <2>1, <2>2, <3>3, PushRefines
  <2> QED
    BY <2>3, <2>4
<1>5. ASSUME NEW s \in DOMAIN Frame.locals, LoadLocal(s) PROVE Managed!Instruction
  <2> DEFINE ref == s \in Refs(Frame.fn)
             w   == Frame.locals[s]
  <2>1. w \in Word /\ ref \in BOOLEAN
    <3>1. Frame.locals \in [1 .. Funs[Frame.fn].locals -> Word]
      BY <1>1, TopFrame
    <3>2. w \in Word
      BY <3>1
    <3> QED
      BY <3>2
  <2>2. Push(0, w, ref) /\ UNCHANGED <<Memory, frames>>
    BY <1>5 DEF LoadLocal
  <2>3. s \in DOMAIN Managed!Locals /\ Managed!Locals[s] = Means(Sense, w, ref)
    <3>1. Managed!Locals = LocalsMean(Sense, Refs(Frame.fn), Frame.locals)
      BY LocalsAre
    <3> QED
      BY <3>1 DEF LocalsMean
  <2> HIDE DEF w, ref
  <2> QED
    BY <2>1, <2>2, <2>3, PushRefines
<1> QED
  BY <1>2, <1>3, <1>4, <1>5

\* The operands of an instruction.
LEMMA ArgMeans ==
    ASSUME Well, NEW k \in Nat, Has(k)
    PROVE  /\ k <= Len(StackValues)
           /\ \A j \in 1 .. k : /\ StackValues[Len(StackValues) - j + 1] = Means(Sense, Arg(j).w, Arg(j).ref)
                                /\ Arg(j).w \in Word /\ Arg(j).ref \in BOOLEAN
<1>1. /\ IInv /\ Len(StackValues) = Len(stack) /\ Len(stack) \in Nat
      /\ \A i \in 1 .. Len(stack) : StackValues[i] = Means(Sense, stack[i].w, stack[i].ref)
  BY WellTypes
<1>2. k <= Len(stack) /\ \A j \in 1 .. k : Arg(j) \in TaggedWords
  BY <1>1, Taken
<1>3. \A j \in 1 .. k : Len(stack) - j + 1 \in 1 .. Len(stack)
  BY <1>1, <1>2
<1>4. \A j \in 1 .. k : StackValues[Len(stack) - j + 1] = Means(Sense, Arg(j).w, Arg(j).ref)
  BY <1>1, <1>3 DEF Arg
<1> QED
  BY <1>1, <1>2, <1>4, ArgIs

\* A reference into a block names its object.
LEMMA RefMeans ==
    ASSUME Well, NEW p \in Blocks, NEW o \in Nat, o < Sizes[p]
    PROVE  /\ Means(Sense, p + o, TRUE) = [obj |-> ids[p], n |-> o]
           /\ ids[p] \in Nat /\ ids[p] # 0 /\ ids[p] \in DOMAIN Objects
           /\ Objects[ids[p]] = ObjectMeans(Sense, Structs, heap, Sizes[p], p)
<1>1. HeapWords \in Nat
  BY ProgramFacts DEF Well, IInv
<1>2. ids[p] \in 1 .. HeapWords
  BY DEF Well, Distinct
<1>3. ids[p] \in Nat /\ ids[p] # 0
  BY <1>1, <1>2
<1>4. Sense[p + o] = [obj |-> ids[p], n |-> o]
  BY DEF Well, Understood, SenseIs
<1>5. ids[p] \in DOMAIN Objects /\ Objects[ids[p]] = ObjectMeans(Sense, Structs, heap, Sizes[p], p)
  BY DEF Well, Understood, ObjectsAre
<1> QED
  BY <1>3, <1>4, <1>5 DEF Means

\* The first word of a block means its object at offset 0.
LEMMA StartMeans ==
    ASSUME Well, NEW p \in Blocks
    PROVE  /\ Means(Sense, p, TRUE) = [obj |-> ids[p], n |-> 0]
           /\ ids[p] \in Nat /\ ids[p] # 0 /\ ids[p] \in DOMAIN Objects
           /\ Objects[ids[p]] = ObjectMeans(Sense, Structs, heap, Sizes[p], p)
           /\ p \in Nat /\ Sizes[p] \in Nat \ {0}
<1>1. p \in Nat /\ Sizes[p] \in Nat \ {0}
  BY BlockFacts DEF Well, IInv
<1>2. 0 \in Nat /\ 0 < Sizes[p] /\ p + 0 = p
  BY <1>1
<1> QED
  BY <1>1, <1>2, RefMeans

\* k operands give way to one value, and nothing else changes.
LEMMA ComputeRefines ==
    ASSUME Well, Well', UNCHANGED <<Memory, frames>>, NEW k \in Nat, Has(k),
           NEW w \in Word, NEW ref \in BOOLEAN, Push(k, w, ref), NEW v, v = Means(Sense, w, ref)
    PROVE  Managed!Compute(k, v)
<1>1. /\ Sense' = Sense /\ Objects' = Objects /\ Consts' = Consts /\ status' = status /\ FrameValues' = FrameValues
  BY Untouched
<1>2. k <= Len(StackValues) /\ StackValues' = Append(Drop(StackValues, k), Means(Sense, w, ref))
  BY <1>1, PushMeans
<1>3. Len(StackValues) >= k
  BY <1>2, WellTypes
<1> QED
  BY <1>1, <1>2, <1>3, DropsAgree DEF Managed!Compute

\* Comparing two words compares what they mean: equal addresses are equal objects.
LEMMA CompareRefines ==
    ASSUME Well, Well', Compare
    PROVE  Managed!Instruction
<1>1. Has(2) /\ UNCHANGED <<Memory, frames>> /\ 2 \in Nat
  BY NumbersAre DEF Compare
<1> DEFINE n == IF Arg(2).w = Arg(1).w THEN 1 ELSE 0
<1>2. n \in Word /\ n \in {0, 1}
  BY NumbersAre
<1>3. Push(2, n, FALSE)
  BY DEF Compare
<1>4. Managed!Int(n) = Means(Sense, n, FALSE)
  BY DEF Managed!Int, Means, IntValue
<1> HIDE DEF n
<1>5. Managed!Compute(2, Managed!Int(n))
  BY <1>1, <1>2, <1>3, <1>4, ComputeRefines
<1>6. Len(StackValues) > 1
  <2>1. 2 <= Len(StackValues) /\ Len(StackValues) \in Nat
    BY <1>1, ArgMeans, WellTypes
  <2> QED
    BY <2>1
<1> QED
  BY <1>2, <1>5, <1>6 DEF Managed!Instruction

\* Pointer arithmetic within a block changes the offset and not the object.
LEMMA AddRefines ==
    ASSUME Well, Well', ~PastTheEnd, AddPointer
    PROVE  Managed!Instruction
<1> DEFINE p == Arg(2).w
           o == Arg(1).w
<1>1. Has(2) /\ UNCHANGED <<Memory, frames>> /\ 2 \in Nat /\ IInv
  BY NumbersAre DEF AddPointer, Well
<1>2. Is(Arg(2), Raw) /\ ~Arg(1).ref /\ p + o < End(p) /\ Push(2, p + o, Arg(2).ref \/ Arg(1).ref)
  BY DEF AddPointer
<1>3. p \in Blocks /\ Arg(2).ref
  BY <1>1, <1>2, IsBlock DEF Is
<1>4. /\ StackValues[Len(StackValues) - 2 + 1] = Means(Sense, p, Arg(2).ref)
      /\ StackValues[Len(StackValues) - 1 + 1] = Means(Sense, o, Arg(1).ref)
      /\ o \in Word /\ 2 <= Len(StackValues) /\ Arg(2).ref \in BOOLEAN /\ Arg(1).ref \in BOOLEAN
  <2>1. 1 \in 1 .. 2 /\ 2 \in 1 .. 2
    OBVIOUS
  <2> QED
    BY <1>1, <2>1, ArgMeans
<1> HIDE DEF p, o
<1>5. o \in Nat
  BY <1>4, WordNat
<1>6. o < Sizes[p]
  <2>1. p \in Nat /\ Sizes[p] \in Nat /\ End(p) = p + Sizes[p]
    BY <1>3, StartMeans, SizeIs
  <2> QED
    BY <1>2, <1>5, <2>1
<1>7. Means(Sense, p, Arg(2).ref) = [obj |-> ids[p], n |-> 0] /\ ids[p] \in Nat
  <2>1. Arg(2).ref = TRUE
    BY <1>3, <1>4
  <2> QED
    BY <1>3, <2>1, StartMeans
<1>8. Means(Sense, o, Arg(1).ref) = [obj |-> 0, n |-> o]
  BY <1>2 DEF Means, IntValue
<1>9. Means(Sense, p + o, TRUE) = [obj |-> ids[p], n |-> o] /\ p + o \in Word
  <2>1. p + o \in Word
    BY <1>3, <1>5, <1>6 DEF Well, Understood, SenseIs
  <2> QED
    BY <1>3, <1>5, <1>6, <2>1, RefMeans
<1> DEFINE a == StackValues[Len(StackValues) - 1]
           b == Managed!Top(StackValues)
           v == [obj |-> a.obj + b.obj, n |-> a.n + b.n]
<1>10. a = [obj |-> ids[p], n |-> 0] /\ b = [obj |-> 0, n |-> o]
  <2>1. Len(StackValues) - 2 + 1 = Len(StackValues) - 1 /\ Len(StackValues) - 1 + 1 = Len(StackValues)
    BY WellTypes
  <2> QED
    BY <1>4, <1>7, <1>8, <2>1 DEF Managed!Top
<1>11. v = [obj |-> ids[p], n |-> o]
  BY <1>5, <1>7, <1>10
<1>12. ~(Managed!IsRef(a) /\ Managed!IsRef(b))
  BY <1>10 DEF Managed!IsRef
<1>13. Managed!Compute(2, v)
  <2>1. Push(2, p + o, TRUE)
    <3>1. (Arg(2).ref \/ Arg(1).ref) = TRUE
      BY <1>2, <1>3
    <3> QED
      BY <1>2, <3>1
  <2>2. v = Means(Sense, p + o, TRUE)
    BY <1>9, <1>11
  <2> HIDE DEF v
  <2> QED
    BY <1>1, <1>9, <2>1, <2>2, ComputeRefines
<1>14. Len(StackValues) > 1
  BY <1>4, WellTypes
<1> HIDE DEF a, b
<1>15. Managed!Add
  BY <1>12, <1>13, <1>14 DEF Managed!Add, a, b
<1> QED
  BY <1>15 DEF Managed!Instruction

\* The word an access selects, in terms of its object.
LEMMA WordMeans ==
    ASSUME Well, NEW k \in Nat, 1 <= k, Has(k), NEW p \in Blocks, NEW n \in Nat, NEW o \in Nat,
           n + o < Sizes[p], Arg(k).ref, Arg(k).w = p + n, NEW r, r = Managed!Nth(k)
    PROVE  /\ r = [obj |-> ids[p], n |-> n] /\ Managed!IsRef(r)
           /\ Objects[r.obj] = ObjectMeans(Sense, Structs, heap, Sizes[p], p)
           /\ Managed!Selects(k, o, Objects[r.obj].words)
           /\ n + o \in 0 .. Sizes[p] - 1
           /\ Objects[r.obj].words[r.n + o]
                = Means(Sense, heap[p + (n + o)], (n + o) \in OffsetsIn(Structs, heap, p))
<1>1. p \in Nat /\ Sizes[p] \in Nat /\ n < Sizes[p] /\ n + o \in 0 .. Sizes[p] - 1
  <2>1. p \in Nat /\ Sizes[p] \in Nat
    BY StartMeans
  <2> QED
    BY <2>1
<1>2. r = [obj |-> ids[p], n |-> n] /\ ids[p] # 0
  <2>1. k \in 1 .. k
    OBVIOUS
  <2>2. StackValues[Len(StackValues) - k + 1] = Means(Sense, Arg(k).w, Arg(k).ref) /\ Arg(k).ref \in BOOLEAN
    BY <2>1, ArgMeans
  <2>3. Arg(k).ref = TRUE
    BY <2>2
  <2>4. Means(Sense, p + n, TRUE) = [obj |-> ids[p], n |-> n] /\ ids[p] # 0
    BY <1>1, RefMeans
  <2> QED
    BY <2>2, <2>3, <2>4 DEF Managed!Nth
<1>3. Objects[r.obj] = ObjectMeans(Sense, Structs, heap, Sizes[p], p)
  <2>1. r.obj = ids[p]
    BY <1>2
  <2> QED
    BY <2>1, StartMeans
<1> DEFINE words == WordsMean(Sense, Structs, heap, Sizes[p], p)
<1>4. Objects[r.obj].words = words
  BY <1>3 DEF ObjectMeans
<1>5. DOMAIN words = 0 .. Sizes[p] - 1
      /\ words[n + o] = Means(Sense, heap[p + (n + o)], (n + o) \in OffsetsIn(Structs, heap, p))
  BY <1>1 DEF WordsMean
<1> HIDE DEF words
<1>6. r.obj # 0 /\ r.n = n
  BY <1>2
<1>7. Managed!IsRef(r)
  BY <1>6 DEF Managed!IsRef
<1>8. Managed!Selects(k, o, Objects[r.obj].words)
  BY <1>1, <1>4, <1>5, <1>6, <1>7 DEF Managed!Selects
<1> QED
  BY <1>1, <1>2, <1>3, <1>4, <1>5, <1>6, <1>7, <1>8

\* A load through a reference pushes the field of the object it means.
LEMMA ReadRefines ==
    ASSUME Well, Well', UNCHANGED <<Memory, frames>>, NEW k \in Nat, 1 <= k, Has(k),
           NEW p \in Blocks, NEW n \in Nat, NEW o \in Nat, n + o < Sizes[p], Arg(k).ref, Arg(k).w = p + n,
           NEW offs, o \in offs, NEW ref \in BOOLEAN, ref <=> (n + o) \in OffsetsIn(Structs, heap, p),
           Push(k, heap[p + (n + o)], ref)
    PROVE  Managed!Read(k, offs)
<1> DEFINE w == heap[p + (n + o)]
           m == Means(Sense, w, ref)
           r == Managed!Nth(k)
           d == Drop(StackValues, k)
<1>1. /\ Managed!IsRef(r) /\ Managed!Selects(k, o, Objects[r.obj].words)
      /\ Objects[r.obj].words[r.n + o] = Means(Sense, w, (n + o) \in OffsetsIn(Structs, heap, p))
  BY WordMeans
<1>2. w \in Word
  <2>1. n + o \in Nat /\ IInv
    BY DEF Well
  <2> QED
    BY <2>1, InBlock
<1>3. Objects[r.obj].words[r.n + o] = m
  BY <1>1 DEF Means
<1>4. /\ Sense' = Sense /\ Objects' = Objects /\ Consts' = Consts /\ status' = status /\ FrameValues' = FrameValues
  BY Untouched
<1>5. Push(k, w, ref)
  OBVIOUS
<1> HIDE DEF w
<1>6. m \in ValueSet /\ k <= Len(StackValues) /\ StackValues' = Append(d, m)
  BY <1>2, <1>4, <1>5, PushMeans
<1>7. d \in Seq(ValueSet) /\ Len(d) = Len(StackValues) - k /\ Len(StackValues) \in Nat
  BY <1>6, WellTypes, DropIs
<1> HIDE DEF m, r
<1>8. d = Managed!Drop(StackValues, k)
  BY DropsAgree
<1> HIDE DEF d
<1>9. Managed!Top(StackValues') = m /\ Managed!Drop(StackValues', 1) = d /\ Len(StackValues') = Len(d) + 1
  BY <1>6, <1>7, LastOne
<1>10. Len(StackValues) >= k /\ Len(StackValues') = Len(StackValues) - k + 1
  BY <1>6, <1>7, <1>9
<1>11. Objects[Managed!Nth(k).obj].words[Managed!Nth(k).n + o] = m
  BY <1>3 DEF r
<1> QED
  BY <1>1, <1>4, <1>8, <1>9, <1>10, <1>11 DEF Managed!Read, r

\* Loads read a word of the object the reference names.
LEMMA ReadsRefine ==
    ASSUME Well, Well'
    PROVE  /\ \A off \in 0 .. HeapWords : HeapLoadField(off) => Managed!Instruction
           /\ \A kind \in {RefArray, ValArray} : ArrayGet(kind) => Managed!Instruction
           /\ HeapLoad => Managed!Instruction
<1>1. IInv /\ HeapWords \in Nat /\ (\A p : RefOffsets(p) = OffsetsIn(Structs, heap, p))
  BY ProgramFacts, InTermsOfBlocks DEF Well, IInv
<1>2. \A p \in Blocks : p \in Nat /\ Sizes[p] \in Nat /\ Sizes[p] <= MaxWords
  <2>1. ASSUME NEW p \in Blocks PROVE Sizes[p] <= MaxWords
    <3>1. HeapWords <= MaxWords
      <4>1. WellMade(program)
        BY <1>1, ProgramFacts DEF IInv
      <4> QED
        BY <4>1, MaxWordsNat DEF WellMade, HeapWords
    <3>2. p \in Nat /\ Sizes[p] \in Nat /\ p + Sizes[p] <= heap_ptr /\ heap_ptr <= HeapWords /\ heap_ptr \in Nat
      BY <1>1, BlockFacts DEF IInv
    <3> QED
      BY <1>1, <3>1, <3>2, MaxWordsNat
  <2> QED
    BY <2>1, StartMeans
<1>3. \A off \in Nat : (\E p \in Blocks : off < Sizes[p]) => off \in 0 .. MaxWords
  BY <1>2, MaxWordsNat
<1>4. ASSUME NEW off \in 0 .. HeapWords, HeapLoadField(off) PROVE Managed!Instruction
  <2> DEFINE p == Arg(1).w
  <2>1. Has(1) /\ UNCHANGED <<Memory, frames>> /\ Is(Arg(1), Struct) /\ off < Structs[Detail(p)].size
        /\ Push(1, heap[p + off], off \in Structs[Detail(p)].refs)
    BY <1>4 DEF HeapLoadField
  <2>2. p \in Blocks /\ Kind(p) = Struct /\ Structs[Detail(p)].size \in Nat /\ Structs[Detail(p)].size <= Sizes[p]
    BY <1>1, <2>1, IsBlock
  <2>3. Arg(1).ref
    BY <2>1 DEF Is
  <2> HIDE DEF p
  <2>4. off \in Nat /\ off < Sizes[p] /\ 0 + off = off
    BY <1>1, <1>2, <2>1, <2>2
  <2>5. OffsetsIn(Structs, heap, p) = Structs[Detail(p)].refs
    <3>1. RefArray # Struct
      BY DEF RefArray, Struct
    <3> QED
      BY <2>2, <3>1 DEF OffsetsIn, Kind, Detail
  <2>6. Managed!Read(1, 0 .. MaxWords)
    <3>1. p + 0 = p /\ p + (0 + off) = p + off /\ 0 + off < Sizes[p] /\ off \in 0 .. MaxWords /\ 1 <= 1
      BY <1>2, <1>3, <2>2, <2>4
    <3> DEFINE ref == off \in Structs[Detail(p)].refs
    <3>2. ref \in BOOLEAN
      OBVIOUS
    <3>3. Push(1, heap[p + (0 + off)], ref)
      BY <2>1, <3>1
    <3>4. Arg(1).w = p + 0
      BY <3>1 DEF p
    <3>5. ref <=> (0 + off) \in OffsetsIn(Structs, heap, p)
      BY <2>4, <2>5
    <3> DEFINE offs == 0 .. MaxWords
    <3>6. off \in offs
      BY <3>1
    <3> HIDE DEF ref, offs
    <3>7. Has(1) /\ UNCHANGED <<Memory, frames>> /\ 1 \in Nat /\ 1 <= 1 /\ 0 \in Nat /\ 0 + off < Sizes[p]
          /\ off \in Nat /\ p \in Blocks
      BY <2>1, <2>2, <2>4, <3>1, NumbersAre
    <3>8. Managed!Read(1, offs)
      BY <2>3, <3>2, <3>3, <3>4, <3>5, <3>6, <3>7, ReadRefines
    <3> QED
      BY <3>8 DEF offs
  <2> QED
    BY <2>6 DEF Managed!Instruction
<1>5. ASSUME NEW kind \in {RefArray, ValArray}, ArrayGet(kind) PROVE Managed!Instruction
  <2> DEFINE p == Arg(2).w
             o == Arg(1).w
  <2>1. Has(2) /\ UNCHANGED <<Memory, frames>> /\ Is(Arg(2), kind) /\ ~Arg(1).ref /\ o < Detail(p)
        /\ Push(2, heap[p + o], Kind(p) = RefArray)
    BY <1>5 DEF ArrayGet
  <2>2. p \in Blocks /\ Kind(p) = kind /\ Detail(p) \in Nat /\ Detail(p) <= Sizes[p]
    BY <1>1, <2>1, IsBlock
  <2>3. Arg(2).ref
    BY <2>1 DEF Is
  <2>4. StackValues[Len(StackValues) - 1 + 1] = Means(Sense, o, Arg(1).ref) /\ o \in Word /\ 2 <= Len(StackValues)
    <3>1. 1 \in 1 .. 2
      OBVIOUS
    <3> QED
      BY <2>1, <3>1, NumbersAre, ArgMeans
  <2>5. o \in Nat
    BY <2>4, WordNat
  <2>6. Managed!Top(StackValues) = IntValue(o) /\ Len(StackValues) > 1
    <3>1. Len(StackValues) \in Nat /\ Len(StackValues) - 1 + 1 = Len(StackValues)
      BY WellTypes
    <3>2. Means(Sense, o, Arg(1).ref) = IntValue(o)
      BY <2>1 DEF Means
    <3> HIDE DEF o
    <3> QED
      BY <2>4, <3>1, <3>2 DEF Managed!Top
  <2> HIDE DEF p, o
  <2>7. o < Sizes[p] /\ 0 + o = o
    BY <1>2, <2>1, <2>2, <2>5
  <2>8. (Kind(p) = RefArray) <=> o \in OffsetsIn(Structs, heap, p)
    <3>1. CASE kind = RefArray
      <4>1. RefArray # Struct
        BY DEF RefArray, Struct
      <4>2. OffsetsIn(Structs, heap, p) = 0 .. Detail(p) - 1
        BY <2>2, <3>1, <4>1 DEF OffsetsIn, Kind, Detail
      <4>3. o \in 0 .. Detail(p) - 1
        BY <2>1, <2>2, <2>5
      <4> QED
        BY <2>2, <3>1, <4>2, <4>3
    <3>2. CASE kind = ValArray
      <4>1. ValArray # Struct /\ ValArray # RefArray
        BY DEF RefArray, Struct, ValArray
      <4>2. OffsetsIn(Structs, heap, p) = {}
        BY <2>2, <3>2, <4>1 DEF OffsetsIn, Kind, Detail
      <4> QED
        BY <2>2, <3>2, <4>1, <4>2
    <3> QED
      BY <3>1, <3>2
  <2>9. Managed!Read(2, {Managed!Top(StackValues).n})
    <3>1. p + 0 = p /\ p + (0 + o) = p + o /\ 0 + o < Sizes[p] /\ 1 <= 2
      BY <1>2, <2>2, <2>5, <2>7
    <3>2. (Kind(p) = RefArray) \in BOOLEAN
      OBVIOUS
    <3>3. Push(2, heap[p + (0 + o)], Kind(p) = RefArray)
      BY <2>1, <3>1
    <3>4. Arg(2).w = p + 0
      BY <3>1 DEF p
    <3>5. (Kind(p) = RefArray) <=> (0 + o) \in OffsetsIn(Structs, heap, p)
      BY <2>7, <2>8
    <3>6. o \in {Managed!Top(StackValues).n}
      BY <2>6 DEF IntValue
    <3> HIDE DEF Push, Has
    <3> QED
      BY <2>1, <2>2, <2>3, <2>5, <3>1, <3>2, <3>3, <3>4, <3>5, <3>6, NumbersAre, ReadRefines
  <2> QED
    BY <2>6, <2>9 DEF Managed!Instruction
<1>6. ASSUME HeapLoad PROVE Managed!Instruction
  <2>1. Has(1) /\ UNCHANGED <<Memory, frames>> /\ Arg(1).ref /\ Push(1, heap[Arg(1).w], FALSE)
    BY <1>6 DEF HeapLoad, InRaw
  <2>2. PICK p \in Containing(Arg(1).w) : Kind(p) = Raw
    BY <1>6 DEF HeapLoad, InRaw
  <2>3. p \in Blocks /\ p <= Arg(1).w /\ Arg(1).w < p + Sizes[p]
    BY <1>1, <2>2, ContainingIs DEF IInv
  <2>4. Arg(1).w \in Nat
    <3>1. 1 \in 1 .. 1
      OBVIOUS
    <3>2. Arg(1).w \in Word
      BY <2>1, <3>1, NumbersAre, ArgMeans
    <3> QED
      BY <3>2, WordNat
  <2> DEFINE w == Arg(1).w
             n == w - p
  <2>5. w \in Nat /\ p <= w /\ w < p + Sizes[p]
    BY <2>3, <2>4
  <2> HIDE DEF w
  <2>6. n \in Nat /\ w = p + n /\ n + 0 < Sizes[p] /\ p + (n + 0) = w /\ n + 0 = n
    BY <1>2, <2>3, <2>5
  <2> HIDE DEF n
  <2>7. FALSE <=> (n + 0) \in OffsetsIn(Structs, heap, p)
    <3>1. Raw # Struct /\ Raw # RefArray
      BY DEF Raw, Struct, RefArray
    <3> QED
      BY <2>2, <3>1 DEF OffsetsIn, Kind
  <2>8. Managed!Read(1, 0 .. MaxWords)
    <3>1. 0 \in 0 .. MaxWords /\ 1 <= 1 /\ FALSE \in BOOLEAN
      BY MaxWordsNat
    <3>2. Push(1, heap[p + (n + 0)], FALSE) /\ Arg(1).w = p + n
      BY <2>1, <2>6 DEF w
    <3> HIDE DEF Push, Has
    <3> QED
      BY <2>1, <2>3, <2>6, <2>7, <3>1, <3>2, NumbersAre, ReadRefines
  <2> QED
    BY <2>8 DEF Managed!Instruction
<1> QED
  BY <1>4, <1>5, <1>6

\* The length of an array or a string, the type of a struct.
LEMMA InspectRefines ==
    ASSUME Well, Well', ReadDetail
    PROVE  Managed!Instruction
<1> DEFINE p == Arg(1).w
<1>1. IInv /\ Has(1) /\ UNCHANGED <<Memory, frames>> /\ Push(1, Detail(p), FALSE)
  BY DEF ReadDetail, Well
<1>2. PICK kind \in {Struct, RefArray, ValArray, String} : Is(Arg(1), kind)
  BY DEF ReadDetail
<1>3. p \in Blocks /\ Detail(p) \in Word /\ Arg(1).ref
  BY <1>1, <1>2, IsBlock DEF Is
<1>4. StackValues[Len(StackValues) - 1 + 1] = Means(Sense, p, Arg(1).ref) /\ Arg(1).ref \in BOOLEAN
      /\ 1 <= Len(StackValues)
  <2>1. 1 \in 1 .. 1
    OBVIOUS
  <2> QED
    BY <1>1, <2>1, NumbersAre, ArgMeans
<1> HIDE DEF p
<1> DEFINE r == Managed!Top(StackValues)
<1>5. r = [obj |-> ids[p], n |-> 0]
  <2>1. Len(StackValues) \in Nat /\ Len(StackValues) - 1 + 1 = Len(StackValues)
    BY WellTypes
  <2>2. Arg(1).ref = TRUE
    BY <1>3, <1>4
  <2>3. Means(Sense, p, TRUE) = [obj |-> ids[p], n |-> 0]
    BY <1>3, StartMeans
  <2> QED
    BY <1>4, <2>1, <2>2, <2>3 DEF Managed!Top
<1>6. ids[p] # 0 /\ Objects[ids[p]] = ObjectMeans(Sense, Structs, heap, Sizes[p], p)
  BY <1>3, StartMeans
<1>7. Objects[ids[p]].detail = Detail(p)
  BY <1>6 DEF ObjectMeans, Detail
<1> HIDE DEF r
<1>8. r.obj = ids[p] /\ Managed!IsRef(r)
  BY <1>5, <1>6 DEF Managed!IsRef
<1>9. Managed!Int(Objects[r.obj].detail) = Means(Sense, Detail(p), FALSE)
  BY <1>7, <1>8 DEF Managed!Int, Means, IntValue
<1>10. Managed!Compute(1, Managed!Int(Objects[r.obj].detail))
  <2>1. FALSE \in BOOLEAN
    OBVIOUS
  <2> QED
    BY <1>1, <1>3, <1>9, <2>1, NumbersAre, ComputeRefines
<1>11. Len(StackValues) > 0
  BY <1>4, WellTypes
<1> QED
  BY <1>8, <1>10, <1>11 DEF Managed!Instruction, Managed!Inspect, r

-----------------------------------------------------------------------------
(* Operands and activations.                                               *)

LEMMA NoneDropped ==
    ASSUME NEW X, NEW s \in Seq(X)
    PROVE  Drop(s, 0) = s
<1>1. Drop(s, 0) \in Seq(X) /\ Len(Drop(s, 0)) = Len(s) /\ \A i \in 1 .. Len(s) : Drop(s, 0)[i] = s[i]
  BY DEF Drop
<1> QED
  BY <1>1, SameSeq

\* Two pushes are an append of two.
LEMMA TwoMore ==
    ASSUME NEW X, NEW s \in Seq(X), NEW a \in X, NEW b \in X
    PROVE  s \o <<a, b>> = Append(Append(s, a), b)
<1> DEFINE t == s \o <<a, b>>
           u == Append(Append(s, a), b)
<1>1. t \in Seq(X) /\ Len(t) = Len(s) + 2 /\ (\A i \in 1 .. Len(s) : t[i] = s[i])
      /\ t[Len(s) + 1] = a /\ t[Len(s) + 2] = b
  <2>1. <<a, b>> \in Seq(X) /\ Len(<<a, b>>) = 2 /\ <<a, b>>[1] = a /\ <<a, b>>[2] = b
    OBVIOUS
  <2> QED
    BY <2>1
<1>2. u \in Seq(X) /\ Len(u) = Len(s) + 2 /\ (\A i \in 1 .. Len(s) : u[i] = s[i])
      /\ u[Len(s) + 1] = a /\ u[Len(s) + 2] = b
  <2> DEFINE c == Append(s, a)
  <2>1. c \in Seq(X) /\ Len(c) = Len(s) + 1 /\ Len(s) \in Nat /\ (\A i \in 1 .. Len(s) : c[i] = s[i])
        /\ c[Len(s) + 1] = a
    BY AppendIs
  <2> HIDE DEF c
  <2>2. Append(c, b) \in Seq(X) /\ Len(Append(c, b)) = Len(s) + 2
        /\ (\A i \in 1 .. (Len(s) + 1) : Append(c, b)[i] = c[i]) /\ Append(c, b)[Len(s) + 2] = b
    BY <2>1
  <2>3. u = Append(c, b)
    BY DEF c
  <2> HIDE DEF u
  <2> QED
    BY <2>1, <2>2, <2>3
<1> HIDE DEF t, u
<1>3. Len(s) \in Nat
  OBVIOUS
<1>4. \A i \in 1 .. Len(t) : t[i] = u[i]
  BY <1>1, <1>2, <1>3
<1>5. t = u
  BY <1>1, <1>2, <1>4, SameSeq
<1> QED
  BY <1>5 DEF t, u

\* Operands go, are repeated or change places.
LEMMA StackOpsRefine ==
    ASSUME Well, Well'
    PROVE  (PopValue => Managed!Instruction) /\ (Dup => Managed!Instruction) /\ (Swap => Managed!Instruction)
<1>1. /\ Sense \in [Word -> ValueSet] /\ stack \in Seq(TaggedWords) /\ IInv /\ StackValues = StackMeans(Sense, stack)
      /\ StackValues \in Seq(ValueSet) /\ Len(StackValues) = Len(stack) /\ Len(stack) \in Nat
  BY WellTypes
<1>2. UNCHANGED <<Memory, frames>>
        => /\ Objects' = Objects /\ Consts' = Consts /\ status' = status /\ FrameValues' = FrameValues
           /\ StackValues' = StackMeans(Sense, stack')
  <2> SUFFICES ASSUME UNCHANGED <<Memory, frames>>
               PROVE /\ Objects' = Objects /\ Consts' = Consts /\ status' = status /\ FrameValues' = FrameValues
                     /\ StackValues' = StackMeans(Sense, stack')
    OBVIOUS
  <2>1. StackValues' = StackMeans(Sense', stack')
    BY DEF Well, Understood
  <2> QED
    BY <2>1, Untouched
<1>3. ASSUME PopValue PROVE Managed!Instruction
  <2>1. Has(1) /\ stack' = Drop(stack, 1) /\ UNCHANGED <<Memory, frames>>
    BY <1>3 DEF PopValue
  <2>2. 1 <= Len(stack)
    BY <1>1, <2>1, NumbersAre, Taken
  <2>3. StackValues' = Drop(StackValues, 1)
    BY <1>1, <1>2, <2>1, <2>2, NumbersAre, DropMeans
  <2>4. Len(StackValues) > 0
    BY <1>1, <2>2
  <2>5. Managed!Pop
    BY <1>2, <2>1, <2>3, <2>4, DropsAgree DEF Managed!Pop
  <2> QED
    BY <2>5 DEF Managed!Instruction
<1>4. ASSUME Dup PROVE Managed!Instruction
  <2>1. Has(1) /\ stack' = Append(stack, Arg(1)) /\ UNCHANGED <<Memory, frames>>
    BY <1>4 DEF Dup
  <2>2. 1 <= Len(stack) /\ Arg(1) \in TaggedWords
    <3>1. 1 \in 1 .. 1
      OBVIOUS
    <3> QED
      BY <1>1, <2>1, <3>1, NumbersAre, Taken
  <2>3. StackValues' = Append(StackValues, Means(Sense, Arg(1).w, Arg(1).ref))
    BY <1>1, <1>2, <2>1, <2>2, AppendMeans
  <2>4. StackValues[Len(StackValues) - 1 + 1] = Means(Sense, Arg(1).w, Arg(1).ref)
    <3>1. 1 \in 1 .. 1
      OBVIOUS
    <3> QED
      BY <2>1, <3>1, NumbersAre, ArgMeans
  <2>5. Len(StackValues) - 1 + 1 = Len(StackValues) /\ Len(StackValues) > 0 /\ Len(StackValues) >= 0
    BY <1>1, <2>2
  <2>6. Managed!Drop(StackValues, 0) = StackValues
    BY <1>1, NoneDropped, DropsAgree
  <2>7. StackValues' = Append(Managed!Drop(StackValues, 0), Managed!Top(StackValues))
    BY <2>3, <2>4, <2>5, <2>6 DEF Managed!Top
  <2>8. Managed!Dup
    BY <1>2, <2>1, <2>5, <2>7 DEF Managed!Dup, Managed!Compute
  <2> QED
    BY <2>8 DEF Managed!Instruction
<1>5. ASSUME Swap PROVE Managed!Instruction
  <2> DEFINE d == Drop(stack, 2)
             a == Arg(1)
             b == Arg(2)
  <2>1. Has(2) /\ stack' = d \o <<a, b>> /\ UNCHANGED <<Memory, frames>>
    BY <1>5 DEF Swap
  <2>2. 2 <= Len(stack) /\ a \in TaggedWords /\ b \in TaggedWords /\ d \in Seq(TaggedWords)
    <3>1. 1 \in 1 .. 2 /\ 2 \in 1 .. 2
      OBVIOUS
    <3> QED
      BY <1>1, <2>1, <3>1, NumbersAre, Taken
  <2>3. /\ StackValues[Len(StackValues) - 1 + 1] = Means(Sense, a.w, a.ref)
        /\ StackValues[Len(StackValues) - 2 + 1] = Means(Sense, b.w, b.ref)
    <3>1. 1 \in 1 .. 2 /\ 2 \in 1 .. 2
      OBVIOUS
    <3> QED
      BY <2>1, <3>1, NumbersAre, ArgMeans
  <2>4. StackMeans(Sense, d) = Drop(StackValues, 2)
    BY <1>1, <2>2, NumbersAre, DropMeans
  <2> DEFINE m == Means(Sense, a.w, a.ref)
             n == Means(Sense, b.w, b.ref)
             D == Drop(StackValues, 2)
  <2>5. D \in Seq(ValueSet)
    BY <1>1, <2>2, NumbersAre, DropIs
  <2> HIDE DEF a, b, d, D
  <2>6. stack' = Append(Append(d, a), b) /\ Append(d, a) \in Seq(TaggedWords)
    BY <2>1, <2>2, TwoMore
  <2>7. StackMeans(Sense, Append(d, a)) = Append(D, m) /\ m \in ValueSet
    BY <1>1, <2>2, <2>4, AppendMeans DEF D
  <2>8. StackMeans(Sense, Append(Append(d, a), b)) = Append(Append(D, m), n) /\ n \in ValueSet
    BY <1>1, <2>2, <2>6, <2>7, AppendMeans
  <2> HIDE DEF m, n
  <2>9. StackValues' = D \o <<m, n>>
    <3>1. StackValues' = StackMeans(Sense, stack')
      BY <1>2, <2>1
    <3>2. D \o <<m, n>> = Append(Append(D, m), n)
      BY <2>5, <2>7, <2>8, TwoMore
    <3> QED
      BY <2>6, <2>8, <3>1, <3>2
  <2>10. StackValues[Len(StackValues)] = m /\ StackValues[Len(StackValues) - 1] = n /\ Len(StackValues) > 1
    <3>1. Len(StackValues) - 1 + 1 = Len(StackValues) /\ Len(StackValues) - 2 + 1 = Len(StackValues) - 1
      BY <1>1
    <3> QED
      BY <1>1, <2>2, <2>3, <3>1 DEF m, n
  <2>11. Managed!Swap
    BY <1>2, <2>1, <2>9, <2>10, DropsAgree DEF Managed!Swap, Managed!Top, D
  <2> QED
    BY <2>11 DEF Managed!Instruction
<1> QED
  BY <1>3, <1>4, <1>5

\* A value that may be stored means the same where it is stored.
LEMMA StorableMeans ==
    ASSUME Well, NEW w \in Word, NEW from \in BOOLEAN, NEW to \in BOOLEAN,
           IF to THEN from \/ w = Null ELSE ~from
    PROVE  Means(Sense, w, to) = Means(Sense, w, from)
<1>1. Sense[Null] = IntValue(0)
  BY DEF Well, Understood, SenseIs
<1>2. CASE to = from
  BY <1>2
<1>3. CASE to /\ ~from
  <2>1. w = Null /\ to = TRUE
    BY <1>3
  <2> QED
    BY <1>1, <1>3, <2>1 DEF Means, Null
<1> QED
  BY <1>2, <1>3

\* An activation, as the program understands it.
ValueFrames == [base : Nat, locals : Seq(ValueSet)]
FrameMean(sense, funs, fr) == [base |-> fr.base, locals |-> LocalsMean(sense, funs[fr.fn].refs, fr.locals)]
GoodFuns(funs) == \A f \in DOMAIN funs : funs[f].locals \in Nat

\* A word means a value.
LEMMA MeansType ==
    ASSUME NEW sense \in [Word -> ValueSet], NEW w \in Word, NEW ref
    PROVE  Means(sense, w, ref) \in ValueSet
<1>1. IntValue(w) \in ValueSet
  <2>1. w \in Nat
    BY WordNat
  <2> QED
    BY <2>1 DEF IntValue, ValueSet
<1>2. sense[w] \in ValueSet
  OBVIOUS
<1> QED
  BY <1>1, <1>2 DEF Means

\* Locals mean values, one for each.
LEMMA LocalsMeanType ==
    ASSUME NEW sense \in [Word -> ValueSet], NEW refs, NEW m \in Nat, NEW locals \in [1 .. m -> Word]
    PROVE  LocalsMean(sense, refs, locals) \in Seq(ValueSet) /\ Len(LocalsMean(sense, refs, locals)) = m
<1>1. DOMAIN locals = 1 .. m /\ \A s \in 1 .. m : locals[s] \in Word
  OBVIOUS
<1>2. \A s \in 1 .. m : Means(sense, locals[s], s \in refs) \in ValueSet
  BY <1>1, MeansType
<1> DEFINE x == LocalsMean(sense, refs, locals)
<1>3. x \in [1 .. m -> ValueSet]
  BY <1>1, <1>2 DEF LocalsMean
<1> HIDE DEF x
<1>4. x \in Seq(ValueSet) /\ Len(x) = m
  BY <1>3
<1> QED
  BY <1>4 DEF x

\* An activation's meaning, part by part.
LEMMA FrameMeanType ==
    ASSUME NEW sense \in [Word -> ValueSet], NEW funs, GoodFuns(funs), NEW fr \in FramesOf(funs)
    PROVE  /\ FrameMean(sense, funs, fr) \in ValueFrames
           /\ FrameMean(sense, funs, fr).base = fr.base /\ fr.base \in Nat
           /\ FrameMean(sense, funs, fr).locals = LocalsMean(sense, funs[fr.fn].refs, fr.locals)
           /\ Len(FrameMean(sense, funs, fr).locals) = funs[fr.fn].locals
           /\ fr.locals \in [1 .. funs[fr.fn].locals -> Word]
           /\ DOMAIN fr.locals = 1 .. funs[fr.fn].locals /\ funs[fr.fn].locals \in Nat
<1>1. fr.fn \in DOMAIN funs /\ fr.base \in Nat /\ fr.locals \in [1 .. funs[fr.fn].locals -> Word]
  BY FrameIs
<1>2. funs[fr.fn].locals \in Nat
  BY <1>1 DEF GoodFuns
<1> DEFINE m == funs[fr.fn].locals
           l == LocalsMean(sense, funs[fr.fn].refs, fr.locals)
<1>3. l \in Seq(ValueSet) /\ Len(l) = m
  BY <1>1, <1>2, LocalsMeanType
<1>4. DOMAIN fr.locals = 1 .. m
  BY <1>1
<1>5. FrameMean(sense, funs, fr) = [base |-> fr.base, locals |-> l]
  BY DEF FrameMean
<1> HIDE DEF l, m
<1>6. [base |-> fr.base, locals |-> l] \in ValueFrames
  BY <1>1, <1>3 DEF ValueFrames
<1> QED
  BY <1>1, <1>2, <1>3, <1>4, <1>5, <1>6 DEF l, m

\* The activations' meanings, one for each.
LEMMA FrameMeansType ==
    ASSUME NEW sense \in [Word -> ValueSet], NEW funs, GoodFuns(funs), NEW fs \in Seq(FramesOf(funs))
    PROVE  /\ FrameMeans(sense, funs, fs) \in Seq(ValueFrames) /\ Len(FrameMeans(sense, funs, fs)) = Len(fs)
           /\ Len(fs) \in Nat
           /\ \A i \in 1 .. Len(fs) : FrameMeans(sense, funs, fs)[i] = FrameMean(sense, funs, fs[i])
<1> DEFINE F == FrameMeans(sense, funs, fs)
           n == Len(fs)
<1>1. n \in Nat /\ DOMAIN fs = 1 .. n /\ \A i \in 1 .. n : fs[i] \in FramesOf(funs)
  OBVIOUS
<1>2. F = [i \in 1 .. n |-> FrameMean(sense, funs, fs[i])]
  BY <1>1 DEF FrameMeans, FrameMean
<1>3. \A i \in 1 .. n : FrameMean(sense, funs, fs[i]) \in ValueFrames
  BY <1>1, FrameMeanType
<1> HIDE DEF F, n
<1>4. F \in [1 .. n -> ValueFrames]
  BY <1>2, <1>3
<1>5. F \in Seq(ValueFrames) /\ Len(F) = n
  BY <1>1, <1>4
<1> QED
  BY <1>1, <1>2, <1>5 DEF F, n

\* What Well says of the activations and their meaning.
LEMMA WellFrames ==
    ASSUME Well
    PROVE  /\ GoodFuns(Funs) /\ frames \in Seq(FramesOf(Funs)) /\ FrameValues = FrameMeans(Sense, Funs, frames)
           /\ FrameValues \in Seq(ValueFrames) /\ Len(FrameValues) = Len(frames) /\ Len(frames) \in Nat
           /\ 1 <= Len(frames) /\ Managed!Top(FrameValues) = FrameMean(Sense, Funs, Frame)
           /\ Frame = frames[Len(frames)] /\ Frame \in FramesOf(Funs)
           /\ \A i \in 1 .. Len(frames) : FrameValues[i] = FrameMean(Sense, Funs, frames[i])
<1>1. IInv /\ FrameValues = FrameMeans(Sense, Funs, frames) /\ Sense \in [Word -> ValueSet]
  BY WellTypes
<1>2. GoodFuns(Funs)
  <2>1. WellMade(program)
    BY <1>1, ProgramFacts DEF IInv
  <2>2. \A f \in DOMAIN program.funs : program.funs[f].locals \in Nat
    BY <2>1 DEF WellMade
  <2> QED
    BY <2>2 DEF Funs, GoodFuns
<1>3. frames \in Seq(FramesOf(Funs))
  BY <1>1 DEF IInv, FramesInv
<1>4. 1 <= Len(frames) /\ Frame = frames[Len(frames)] /\ Frame \in FramesOf(Funs)
  BY <1>1, TopFrame
<1>5. /\ FrameValues \in Seq(ValueFrames) /\ Len(FrameValues) = Len(frames) /\ Len(frames) \in Nat
      /\ \A i \in 1 .. Len(frames) : FrameValues[i] = FrameMean(Sense, Funs, frames[i])
  BY <1>1, <1>2, <1>3, FrameMeansType
<1>6. Len(frames) \in 1 .. Len(frames)
  BY <1>4, <1>5
<1>7. Managed!Top(FrameValues) = FrameMean(Sense, Funs, Frame)
  BY <1>4, <1>5, <1>6 DEF Managed!Top
<1> QED
  BY <1>1, <1>2, <1>3, <1>4, <1>5, <1>7

\* Two activations with the same base and the same values.
LEMMA SameFrame ==
    ASSUME NEW a \in ValueFrames, NEW b \in ValueFrames, a.base = b.base, Len(a.locals) = Len(b.locals),
           \A s \in 1 .. Len(a.locals) : a.locals[s] = b.locals[s]
    PROVE  a = b
<1>1. a.locals \in Seq(ValueSet) /\ b.locals \in Seq(ValueSet)
  BY DEF ValueFrames
<1>2. a.locals = b.locals
  BY <1>1, SameSeq
<1> QED
  BY <1>2 DEF ValueFrames

\* What a local means depends on whether the frame map names it.
LEMMA LocalIs ==
    ASSUME NEW sense, NEW refs, NEW locals, NEW s \in DOMAIN locals
    PROVE  LocalsMean(sense, refs, locals)[s] = Means(sense, locals[s], s \in refs)
BY DEF LocalsMean

\* What EXCEPT does to each place of a sequence.
LEMMA OneReplaced ==
    ASSUME NEW X, NEW t \in Seq(X), NEW s \in 1 .. Len(t), NEW v \in X
    PROVE  /\ [t EXCEPT ![s] = v] \in Seq(X) /\ Len([t EXCEPT ![s] = v]) = Len(t)
           /\ \A x \in 1 .. Len(t) : [t EXCEPT ![s] = v][x] = IF x = s THEN v ELSE t[x]
OBVIOUS

\* The variable that is assigned, and nothing else, has a new value.
LEMMA StoreLocalRefines ==
    ASSUME Well, Well', NEW s \in DOMAIN Frame.locals, StoreLocal(s)
    PROVE  Managed!Instruction
<1> DEFINE n    == Len(frames)
           w    == Arg(1).w
           fr2  == [Frame EXCEPT !.locals[s] = w]
           F    == FrameValues
           top  == Managed!Top(StackValues)
           F2   == [F EXCEPT ![n].locals[s] = top]
           m    == Funs[Frame.fn].locals
           to   == s \in Refs(Frame.fn)
           g    == F[n]
           g2   == FrameMean(Sense, Funs, fr2)
<1>1. Has(1) /\ Storable(Arg(1), to) /\ frames' = [frames EXCEPT ![n].locals[s] = w]
      /\ stack' = Drop(stack, 1) /\ UNCHANGED Memory
  BY DEF StoreLocal
<1>2. /\ Objects' = Objects /\ Consts' = Consts /\ status' = status /\ Sense' = Sense /\ Funs' = Funs
      /\ Sense \in [Word -> ValueSet] /\ stack \in Seq(TaggedWords) /\ IInv
      /\ StackValues = StackMeans(Sense, stack) /\ Len(StackValues) = Len(stack) /\ Len(stack) \in Nat
  BY <1>1, Untouched, WellTypes
<1>3. /\ GoodFuns(Funs) /\ frames \in Seq(FramesOf(Funs)) /\ F \in Seq(ValueFrames) /\ Len(F) = n
      /\ n \in Nat /\ 1 <= n /\ g = FrameMean(Sense, Funs, Frame) /\ Frame = frames[n] /\ Frame \in FramesOf(Funs)
      /\ \A i \in 1 .. n : F[i] = FrameMean(Sense, Funs, frames[i])
  BY WellFrames DEF Managed!Top
<1>4. /\ w \in Word /\ Arg(1).ref \in BOOLEAN /\ 1 <= Len(stack) /\ top = Means(Sense, w, Arg(1).ref)
  <2>1. 1 \in 1 .. 1
    OBVIOUS
  <2>2. StackValues[Len(StackValues) - 1 + 1] = Means(Sense, w, Arg(1).ref)
        /\ 1 <= Len(StackValues) /\ w \in Word /\ Arg(1).ref \in BOOLEAN
    BY <1>1, <2>1, NumbersAre, ArgMeans
  <2>3. Len(StackValues) - 1 + 1 = Len(StackValues)
    BY <1>2
  <2> QED
    BY <1>2, <2>2, <2>3 DEF Managed!Top
<1>5. StackValues' = Drop(StackValues, 1)
  <2>1. StackValues' = StackMeans(Sense', stack')
    BY DEF Well, Understood
  <2> QED
    BY <1>1, <1>2, <1>4, <2>1, NumbersAre, DropMeans
<1>6. top = Means(Sense, w, to) /\ top \in ValueSet
  <2>1. to \in BOOLEAN
    OBVIOUS
  <2>2. IF to THEN Arg(1).ref \/ w = Null ELSE ~Arg(1).ref
    BY <1>1 DEF Storable
  <2> HIDE DEF to, w, top
  <2>3. Means(Sense, w, to) = Means(Sense, w, Arg(1).ref)
    BY <1>4, <2>1, <2>2, StorableMeans
  <2>4. top \in ValueSet
    BY <1>2, <1>4, MeansType
  <2> QED
    BY <1>4, <2>3, <2>4
<1>7. /\ g \in ValueFrames /\ g.base = Frame.base /\ Len(g.locals) = m /\ m \in Nat
      /\ g.locals = LocalsMean(Sense, Funs[Frame.fn].refs, Frame.locals)
      /\ Frame.locals \in [1 .. m -> Word] /\ DOMAIN Frame.locals = 1 .. m
  BY <1>2, <1>3, FrameMeanType
<1>8. fr2 \in FramesOf(Funs) /\ fr2.base = Frame.base /\ fr2.fn = Frame.fn /\ fr2.locals = [Frame.locals EXCEPT ![s] = w]
  <2>1. Frame = [fn |-> Frame.fn, locals |-> Frame.locals, base |-> Frame.base] /\ Frame.base \in Nat
        /\ Frame.fn \in DOMAIN Funs
    BY <1>3, FrameIs
  <2>2. fr2 = [fn |-> Frame.fn, locals |-> [Frame.locals EXCEPT ![s] = w], base |-> Frame.base]
    BY <2>1
  <2>3. [Frame.locals EXCEPT ![s] = w] \in [1 .. m -> Word]
    BY <1>4, <1>7
  <2> DEFINE l2 == [Frame.locals EXCEPT ![s] = w]
  <2> HIDE DEF fr2, l2, m
  <2>4. fr2.base = Frame.base /\ fr2.fn = Frame.fn /\ fr2.locals = l2
    BY <2>2 DEF l2
  <2>5. fr2 = [fn |-> fr2.fn, locals |-> fr2.locals, base |-> fr2.base]
    BY <2>2, <2>4 DEF l2
  <2>6. fr2.locals \in [1 .. Funs[fr2.fn].locals -> Word]
    BY <2>3, <2>4 DEF l2, m
  <2>7. fr2 \in FramesOf(Funs)
    BY <2>1, <2>4, <2>5, <2>6, FrameIs
  <2> QED
    BY <2>4, <2>7 DEF l2
<1>9. /\ g2 \in ValueFrames /\ g2.base = Frame.base /\ Len(g2.locals) = m
      /\ g2.locals = LocalsMean(Sense, Funs[Frame.fn].refs, fr2.locals)
  <2> HIDE DEF fr2
  <2>1. g2 \in ValueFrames /\ g2.base = fr2.base /\ Len(g2.locals) = Funs[fr2.fn].locals
        /\ g2.locals = LocalsMean(Sense, Funs[fr2.fn].refs, fr2.locals)
    BY <1>2, <1>3, <1>8, FrameMeanType
  <2> QED
    BY <1>8, <2>1
<1>10. \A x \in 1 .. m : g2.locals[x] = IF x = s THEN top ELSE g.locals[x]
  <2> SUFFICES ASSUME NEW x \in 1 .. m PROVE g2.locals[x] = IF x = s THEN top ELSE g.locals[x]
    OBVIOUS
  <2>1. x \in DOMAIN Frame.locals /\ DOMAIN fr2.locals = DOMAIN Frame.locals
        /\ fr2.locals[x] = IF x = s THEN w ELSE Frame.locals[x]
    BY <1>7, <1>8
  <2>2. g.locals[x] = Means(Sense, Frame.locals[x], x \in Refs(Frame.fn))
    BY <1>7, <2>1, LocalIs DEF Refs
  <2>3. g2.locals[x] = Means(Sense, fr2.locals[x], x \in Refs(Frame.fn))
    BY <1>9, <2>1, LocalIs DEF Refs
  <2> QED
    BY <1>6, <2>1, <2>2, <2>3
<1> DEFINE h == [g EXCEPT !.locals[s] = top]
<1>11. g2 = h
  <2> DEFINE l2 == [g.locals EXCEPT ![s] = top]
  <2>1. g.locals \in Seq(ValueSet) /\ g = [base |-> g.base, locals |-> g.locals]
    BY <1>7 DEF ValueFrames
  <2>2. s \in 1 .. m
    BY <1>7
  <2> HIDE DEF g, g2, top, m, w, fr2
  <2>4. h = [base |-> g.base, locals |-> l2]
    BY <2>1
  <2>5. l2 \in Seq(ValueSet) /\ Len(l2) = m /\ \A x \in 1 .. m : l2[x] = IF x = s THEN top ELSE g.locals[x]
    <3>1. Len(g.locals) = m /\ s \in 1 .. Len(g.locals)
      BY <1>7, <2>2
    <3> QED
      BY <1>6, <2>1, <3>1, OneReplaced
  <2> HIDE DEF l2, h
  <2>6. h \in ValueFrames /\ h.base = g2.base /\ h.locals = l2
    BY <1>7, <1>9, <2>4, <2>5 DEF ValueFrames
  <2>7. Len(h.locals) = Len(g2.locals) /\ \A x \in 1 .. Len(g2.locals) : g2.locals[x] = h.locals[x]
    BY <1>9, <1>10, <2>5, <2>6
  <2> QED
    BY <1>9, <2>6, <2>7, SameFrame
<1>12. FrameValues' = F2
  <2>1. FrameValues' = FrameMeans(Sense, Funs, frames') /\ frames' \in Seq(FramesOf(Funs))
    <3>1. FrameValues' = FrameMeans(Sense', Funs', frames') /\ frames' \in Seq(FramesOf(Funs'))
      BY DEF Well, Understood, IInv, FramesInv
    <3> QED
      BY <1>2, <3>1
  <2>2. Len(frames') = n /\ n \in 1 .. n /\ DOMAIN frames = 1 .. n /\ \A i \in 1 .. n : frames'[i] = IF i = n THEN fr2 ELSE frames[i]
    BY <1>1, <1>3
  <2>3. /\ FrameValues' \in Seq(ValueFrames) /\ Len(FrameValues') = n
        /\ \A i \in 1 .. n : FrameValues'[i] = FrameMean(Sense, Funs, frames'[i])
    BY <1>2, <1>3, <2>1, <2>2, FrameMeansType
  <2>4. F2 = [F EXCEPT ![n] = h]
    OBVIOUS
  <2>5. \A i \in 1 .. n : FrameValues'[i] = IF i = n THEN h ELSE F[i]
    <3> HIDE DEF h, F, g, fr2
    <3> QED
      BY <1>3, <1>11, <2>2, <2>3
  <2> HIDE DEF h, F, g, g2, fr2, F2, n
  <2>6. F2 \in Seq(ValueFrames) /\ Len(F2) = n /\ \A i \in 1 .. n : F2[i] = IF i = n THEN h ELSE F[i]
    <3>1. h \in ValueFrames
      BY <1>9, <1>11
    <3>2. F \in [1 .. n -> ValueFrames]
      BY <1>3
    <3>3. F2 \in [1 .. n -> ValueFrames] /\ \A i \in 1 .. n : F2[i] = IF i = n THEN h ELSE F[i]
      BY <2>4, <3>1, <3>2
    <3> QED
      BY <1>3, <3>3
  <2> QED
    BY <2>3, <2>5, <2>6, SameSeq
<1>13. s \in DOMAIN Managed!Locals
  <2>1. Managed!Locals = LocalsMean(Sense, Refs(Frame.fn), Frame.locals)
    BY LocalsAre
  <2> QED
    BY <2>1 DEF LocalsMean
<1>14. FrameValues' = [FrameValues EXCEPT ![Len(FrameValues)].locals[s] = Managed!Top(StackValues)]
  BY <1>3, <1>12
<1>15. Len(StackValues) > 0
  BY <1>2, <1>4
<1>16. Managed!StoreLocal(s)
  <2> HIDE DEF F, top, F2, h, g, g2, n, w, m, fr2
  <2> QED
    BY <1>2, <1>5, <1>14, <1>15, DropsAgree DEF Managed!StoreLocal
<1> QED
  BY <1>13, <1>16 DEF Managed!Instruction

\* The caller is as it was.
LEMMA RetRefines ==
    ASSUME Well, Well', Ret
    PROVE  Managed!Instruction
<1> DEFINE n == Len(frames)
           F == FrameValues
           d == Drop(F, 1)
<1>1. 1 < n /\ Len(stack) = Frame.base + 1 /\ frames' = Drop(frames, 1) /\ UNCHANGED <<Memory, stack>>
  BY DEF Ret
<1>2. /\ Objects' = Objects /\ Consts' = Consts /\ status' = status /\ Sense' = Sense /\ Funs' = Funs
      /\ Sense \in [Word -> ValueSet] /\ Len(StackValues) = Len(stack) /\ StackValues = StackMeans(Sense, stack)
  BY <1>1, Untouched, WellTypes
<1>3. StackValues' = StackValues
  <2>1. StackValues' = StackMeans(Sense', stack')
    BY DEF Well, Understood
  <2> QED
    BY <1>1, <1>2, <2>1
<1>4. /\ GoodFuns(Funs) /\ frames \in Seq(FramesOf(Funs)) /\ F \in Seq(ValueFrames) /\ Len(F) = n
      /\ n \in Nat /\ Managed!Top(F) = FrameMean(Sense, Funs, Frame) /\ Frame \in FramesOf(Funs)
      /\ \A i \in 1 .. n : F[i] = FrameMean(Sense, Funs, frames[i])
  BY WellFrames
<1>5. Managed!Top(F).base = Frame.base
  BY <1>4 DEF FrameMean
<1> HIDE DEF n
<1>6. /\ Drop(frames, 1) \in Seq(FramesOf(Funs)) /\ Len(Drop(frames, 1)) = n - 1 /\ n - 1 \in Nat
      /\ \A i \in 1 .. n - 1 : Drop(frames, 1)[i] = frames[i]
  <2>1. 1 \in Nat /\ 1 <= Len(frames) /\ Len(frames) = n
    BY <1>1, <1>4 DEF n
  <2>2. frames \in Seq(FramesOf(Funs))
    BY <1>4
  <2> DEFINE X == FramesOf(Funs)
  <2> HIDE DEF X
  <2>3. /\ Drop(frames, 1) \in Seq(X) /\ Len(Drop(frames, 1)) = Len(frames) - 1 /\ Len(frames) - 1 \in Nat
        /\ \A i \in 1 .. Len(frames) - 1 : Drop(frames, 1)[i] = frames[i]
    <3>1. frames \in Seq(X)
      BY <2>2 DEF X
    <3> QED
      BY <2>1, <3>1, DropIs
  <2> QED
    BY <2>1, <2>3 DEF X
<1>7. FrameValues' = d
  <2>1. FrameValues' = FrameMeans(Sense, Funs, frames')
    <3>1. FrameValues' = FrameMeans(Sense', Funs', frames')
      BY DEF Well, Understood
    <3> QED
      BY <1>2, <3>1
  <2>2. /\ FrameValues' \in Seq(ValueFrames) /\ Len(FrameValues') = n - 1
        /\ \A i \in 1 .. n - 1 : FrameValues'[i] = FrameMean(Sense, Funs, frames'[i])
    <3>1. frames' \in Seq(FramesOf(Funs)) /\ Len(frames') = n - 1 /\ GoodFuns(Funs)
      BY <1>1, <1>4, <1>6
    <3>2. Sense \in [Word -> ValueSet]
      BY <1>2
    <3> DEFINE e == FrameMeans(Sense, Funs, frames')
    <3> HIDE DEF e, d, F
    <3>3. /\ e \in Seq(ValueFrames) /\ Len(e) = Len(frames')
          /\ \A i \in 1 .. Len(frames') : e[i] = FrameMean(Sense, Funs, frames'[i])
      BY <3>1, <3>2, FrameMeansType DEF e
    <3>4. FrameValues' = e
      BY <2>1 DEF e
    <3> QED
      BY <3>1, <3>3, <3>4
  <2> HIDE DEF F
  <2>3. d \in Seq(ValueFrames) /\ Len(d) = n - 1 /\ \A i \in 1 .. n - 1 : d[i] = F[i]
    <3>1. 1 \in Nat /\ 1 <= Len(F)
      BY <1>1, <1>4 DEF n
    <3>2. F \in Seq(ValueFrames) /\ Len(F) = n
      BY <1>4
    <3> QED
      BY <3>1, <3>2, DropIs
  <2>4. \A i \in 1 .. n - 1 : FrameValues'[i] = d[i]
    <3>1. \A i \in 1 .. n - 1 : i \in 1 .. n
      BY <1>4
    <3> QED
      BY <1>1, <1>4, <1>6, <2>2, <2>3, <3>1
  <2> HIDE DEF d
  <2> QED
    BY <2>2, <2>3, <2>4, SameSeq
<1>8. Managed!Return
  BY <1>1, <1>2, <1>3, <1>4, <1>5, <1>7, DropsAgree DEF Managed!Return
<1> QED
  BY <1>8 DEF Managed!Instruction

\* What the last n operands are.
LEMMA TailIs ==
    ASSUME NEW X, NEW s \in Seq(X), NEW n \in Nat, n <= Len(s)
    PROVE  /\ Len(SubSeq(s, Len(s) - n + 1, Len(s))) = n
           /\ \A i \in 1 .. n : /\ SubSeq(s, Len(s) - n + 1, Len(s))[i] = s[Len(s) - n + i]
                                /\ Len(s) - n + i \in 1 .. Len(s)
OBVIOUS

\* A call adds the meaning of its activation.
LEMMA FrameAppendMeans ==
    ASSUME NEW sense \in [Word -> ValueSet], NEW funs, GoodFuns(funs), NEW fs \in Seq(FramesOf(funs)),
           NEW fr \in FramesOf(funs)
    PROVE  /\ FrameMeans(sense, funs, Append(fs, fr)) = Append(FrameMeans(sense, funs, fs), FrameMean(sense, funs, fr))
           /\ Len(FrameMeans(sense, funs, Append(fs, fr))) = Len(fs) + 1
           /\ Managed!Top(FrameMeans(sense, funs, Append(fs, fr))) = FrameMean(sense, funs, fr)
<1> DEFINE X  == FramesOf(funs)
           d  == Append(fs, fr)
           n  == Len(fs)
           F  == FrameMeans(sense, funs, fs)
           a  == FrameMeans(sense, funs, d)
           m  == FrameMean(sense, funs, fr)
           b  == Append(F, m)
<1>1. d \in Seq(X) /\ Len(d) = n + 1 /\ n \in Nat /\ (\A i \in 1 .. n : d[i] = fs[i]) /\ d[n + 1] = fr
  <2>1. fs \in Seq(X) /\ fr \in X
    OBVIOUS
  <2> HIDE DEF X
  <2> QED
    BY <2>1, AppendIs
<1> HIDE DEF d
<1>2. F \in Seq(ValueFrames) /\ Len(F) = n /\ \A i \in 1 .. n : F[i] = FrameMean(sense, funs, fs[i])
  BY FrameMeansType
<1>3. a \in Seq(ValueFrames) /\ Len(a) = n + 1 /\ \A i \in 1 .. n + 1 : a[i] = FrameMean(sense, funs, d[i])
  <2>1. d \in Seq(FramesOf(funs))
    BY <1>1
  <2>2. a \in Seq(ValueFrames) /\ Len(a) = Len(d) /\ \A i \in 1 .. Len(d) : a[i] = FrameMean(sense, funs, d[i])
    BY <2>1, FrameMeansType
  <2> HIDE DEF a
  <2> QED
    BY <1>1, <2>2
<1>4. m \in ValueFrames
  BY FrameMeanType
<1> HIDE DEF F, a, m, n, X
<1>5. b \in Seq(ValueFrames) /\ Len(b) = n + 1 /\ (\A i \in 1 .. n : b[i] = F[i]) /\ b[n + 1] = m
  <2>1. b \in Seq(ValueFrames) /\ Len(b) = Len(F) + 1 /\ (\A i \in 1 .. Len(F) : b[i] = F[i]) /\ b[Len(F) + 1] = m
    BY <1>2, <1>4, AppendIs
  <2> HIDE DEF b
  <2> QED
    BY <1>2, <2>1
<1>6. a[n + 1] = m
  <2>1. n + 1 \in 1 .. n + 1
    BY <1>1
  <2> QED
    BY <1>1, <1>3, <2>1 DEF m
<1> HIDE DEF b
<1>7. \A i \in 1 .. n + 1 : a[i] = b[i]
  <2> SUFFICES ASSUME NEW i \in 1 .. n + 1 PROVE a[i] = b[i]
    OBVIOUS
  <2>1. CASE i = n + 1
    BY <1>5, <1>6, <2>1
  <2>2. CASE i # n + 1
    <3>1. i \in 1 .. n
      BY <1>1, <2>2
    <3> QED
      BY <1>1, <1>2, <1>3, <1>5, <3>1
  <2> QED
    BY <2>1, <2>2
<1>8. a = b
  BY <1>3, <1>5, <1>7, SameSeq
<1>9. Managed!Top(a) = m
  BY <1>3, <1>6 DEF Managed!Top
<1> QED
  BY <1>3, <1>8, <1>9 DEF a, b, d, F, m, n

\* The caller's operands become the callee's first variables.
LEMMA CallRefines ==
    ASSUME Well, Well', NEW f \in DOMAIN Funs, Call(f)
    PROVE  Managed!Instruction
<1> DEFINE n      == Funs[f].params
           args   == SubSeq(stack, Len(stack) - n + 1, Len(stack))
           l      == [s \in 1 .. Funs[f].locals |-> IF s <= n THEN args[s].w ELSE 0]
           fr     == [fn |-> f, base |-> Len(stack) - n, locals |-> l]
           F      == FrameValues
           S      == StackValues
           callee == FrameMean(Sense, Funs, fr)
           base   == Len(stack) - n
           m      == Funs[f].locals
           argv   == SubSeq(S, base + 1, Len(S))
<1>1. /\ Has(n) /\ (\A i \in 1 .. n : Storable(args[i], i \in Refs(f)))
      /\ stack' = Drop(stack, n) /\ frames' = Append(frames, fr) /\ UNCHANGED Memory
  BY DEF Call
<1>2. /\ Objects' = Objects /\ Consts' = Consts /\ status' = status /\ Sense' = Sense /\ Funs' = Funs
      /\ Sense \in [Word -> ValueSet] /\ stack \in Seq(TaggedWords) /\ IInv /\ S \in Seq(ValueSet)
      /\ S = StackMeans(Sense, stack) /\ Len(S) = Len(stack) /\ Len(stack) \in Nat
      /\ \A i \in 1 .. Len(stack) : S[i] = Means(Sense, stack[i].w, stack[i].ref)
  BY <1>1, Untouched, WellTypes
<1>3. /\ GoodFuns(Funs) /\ frames \in Seq(FramesOf(Funs)) /\ F = FrameMeans(Sense, Funs, frames)
      /\ F \in Seq(ValueFrames) /\ Len(F) = Len(frames)
      /\ Managed!Top(F) = FrameMean(Sense, Funs, Frame) /\ Frame \in FramesOf(Funs)
  BY WellFrames
<1>4. n \in Nat /\ m \in Nat /\ n <= m
  <2>1. WellMade(program)
    BY <1>2, ProgramFacts DEF IInv
  <2>2. program.funs[f].locals \in Nat /\ program.funs[f].params \in 0 .. program.funs[f].locals
    BY <2>1 DEF WellMade, Funs
  <2> QED
    BY <2>2 DEF Funs
<1>5. n <= Len(stack) /\ base \in Nat /\ Frame.base <= base /\ Frame.base \in Nat /\ base <= Len(stack)
  <2>1. Frame.base \in Nat
    BY <1>2, TopFrame
  <2>2. Len(stack) >= Frame.base + n
    BY <1>1 DEF Has
  <2> HIDE DEF n
  <2> QED
    BY <1>2, <1>4, <2>1, <2>2
<1>6. fr \in FramesOf(Funs) /\ fr.fn = f /\ fr.base = base /\ fr.locals = l
  <2>1. frames' \in Seq(FramesOf(Funs'))
    BY DEF Well, IInv, FramesInv
  <2> DEFINE X == FramesOf(Funs)
  <2>2. frames' \in Seq(X) /\ frames \in Seq(X)
    BY <1>2, <1>3, <2>1
  <2>3. frames'[Len(frames) + 1] = fr /\ Len(frames') = Len(frames) + 1 /\ Len(frames) \in Nat
    <3> HIDE DEF fr, X
    <3> QED
      BY <1>1, <2>2
  <2>4. fr \in X
    <3>1. Len(frames) + 1 \in 1 .. Len(frames')
      BY <2>3
    <3> HIDE DEF fr, X
    <3> QED
      BY <2>2, <2>3, <3>1
  <2> QED
    BY <2>4
<1> HIDE DEF fr
<1>7. F \in Seq(ValueFrames) /\ FrameValues' = Append(F, callee) /\ Managed!Top(FrameValues') = callee
      /\ Len(FrameValues') = Len(F) + 1
  <2>1. FrameValues' = FrameMeans(Sense, Funs, frames')
    <3>1. FrameValues' = FrameMeans(Sense', Funs', frames')
      BY DEF Well, Understood
    <3> QED
      BY <1>2, <3>1
  <2>2. Sense \in [Word -> ValueSet] /\ GoodFuns(Funs) /\ frames \in Seq(FramesOf(Funs))
        /\ fr \in FramesOf(Funs)
    BY <1>2, <1>3, <1>6
  <2> HIDE DEF F, n, l, base, m, S, argv
  <2> DEFINE d == Append(frames, fr)
  <2>3. /\ FrameMeans(Sense, Funs, d) = Append(FrameMeans(Sense, Funs, frames), callee)
        /\ Len(FrameMeans(Sense, Funs, d)) = Len(frames) + 1
        /\ Managed!Top(FrameMeans(Sense, Funs, d)) = callee
    BY <2>2, FrameAppendMeans
  <2>4. FrameValues' = FrameMeans(Sense, Funs, d)
    BY <1>1, <2>1
  <2> HIDE DEF d, callee
  <2> QED
    BY <1>3, <2>3, <2>4
<1>8. /\ callee \in ValueFrames /\ callee.base = base /\ Len(callee.locals) = m
      /\ callee.locals = LocalsMean(Sense, Refs(f), l)
  <2>1. /\ callee \in ValueFrames /\ callee.base = fr.base /\ Len(callee.locals) = Funs[fr.fn].locals
        /\ callee.locals = LocalsMean(Sense, Funs[fr.fn].refs, fr.locals)
    <3>1. Sense \in [Word -> ValueSet] /\ GoodFuns(Funs) /\ fr \in FramesOf(Funs)
      BY <1>2, <1>3, <1>6
    <3> HIDE DEF n, l, base, m, F, S, argv
    <3>2. /\ FrameMean(Sense, Funs, fr) \in ValueFrames
          /\ FrameMean(Sense, Funs, fr).base = fr.base
          /\ Len(FrameMean(Sense, Funs, fr).locals) = Funs[fr.fn].locals
          /\ FrameMean(Sense, Funs, fr).locals = LocalsMean(Sense, Funs[fr.fn].refs, fr.locals)
      BY <3>1, FrameMeanType
    <3> QED
      BY <3>2
  <2> HIDE DEF callee, l
  <2> QED
    BY <1>6, <2>1 DEF Refs
<1>9. StackValues' = Drop(S, n) /\ Drop(S, n) = SubSeq(S, 1, base)
  <2>1. StackValues' = StackMeans(Sense', stack')
    BY DEF Well, Understood
  <2>2. StackValues' = Drop(S, n)
    <3> HIDE DEF n
    <3> QED
      BY <1>1, <1>2, <1>4, <1>5, <2>1, DropMeans
  <2>3. Drop(S, n) = SubSeq(S, 1, base)
    <3> HIDE DEF S, n
    <3> QED
      BY <1>2 DEF Drop
  <2> QED
    BY <2>2, <2>3
<1>10. Len(argv) = n /\ \A s \in 1 .. n : argv[s] = S[Len(stack) - n + s]
  <2> HIDE DEF S, n
  <2>1. argv = SubSeq(S, Len(S) - n + 1, Len(S))
    BY <1>2
  <2> HIDE DEF argv
  <2> QED
    BY <1>2, <1>4, <1>5, <2>1, TailIs
<1>11. \A s \in 1 .. n : /\ args[s] = stack[Len(stack) - n + s] /\ Len(stack) - n + s \in 1 .. Len(stack)
  <2> HIDE DEF n
  <2> QED
    BY <1>2, <1>4, <1>5, TailIs
<1>12. ASSUME NEW s \in 1 .. m
       PROVE  callee.locals[s] = IF s <= Len(argv) THEN argv[s] ELSE Managed!Int(0)
  <2> DEFINE to == s \in Refs(f)
  <2>1. callee.locals[s] = Means(Sense, l[s], to)
    <3>1. DOMAIN l = 1 .. m
      OBVIOUS
    <3> HIDE DEF l, callee, m
    <3> QED
      BY <1>8, <3>1, LocalIs
  <2>2. CASE s <= n
    <3>1. s \in 1 .. n /\ l[s] = args[s].w
      BY <1>4, <2>2
    <3> DEFINE v == args[s]
    <3>2. v = stack[Len(stack) - n + s] /\ Len(stack) - n + s \in 1 .. Len(stack)
      BY <1>11, <3>1
    <3>3. v \in TaggedWords
      <4> HIDE DEF v, args
      <4> QED
        BY <1>2, <3>2
    <3>4. v.w \in Word /\ v.ref \in BOOLEAN
      BY <3>3, ArgIs
    <3>5. Storable(v, to)
      BY <1>1, <3>1
    <3>6. argv[s] = Means(Sense, v.w, v.ref)
      <4>1. S[Len(stack) - n + s] = Means(Sense, v.w, v.ref)
        BY <1>2, <3>2
      <4>2. argv[s] = S[Len(stack) - n + s]
        BY <1>10, <3>1
      <4> QED
        BY <4>1, <4>2
    <3> HIDE DEF v
    <3>7. Means(Sense, v.w, to) = Means(Sense, v.w, v.ref)
      <4>1. to \in BOOLEAN
        OBVIOUS
      <4>2. IF to THEN v.ref \/ v.w = Null ELSE ~v.ref
        BY <3>5 DEF Storable
      <4> HIDE DEF to
      <4> QED
        BY <3>4, <4>1, <4>2, StorableMeans
    <3> HIDE DEF argv, l, callee, args
    <3> QED
      BY <1>10, <2>1, <2>2, <3>1, <3>6, <3>7 DEF v
  <2>3. CASE ~(s <= n)
    <3>1. l[s] = 0
      BY <2>3
    <3>2. Means(Sense, 0, to) = IntValue(0)
      BY DEF Well, Understood, SenseIs, Means, Null
    <3> HIDE DEF argv, l, callee
    <3> QED
      BY <1>10, <2>1, <2>3, <3>1, <3>2 DEF IntValue, Managed!Int
  <2> QED
    BY <2>2, <2>3
<1>13. callee.locals = [s \in DOMAIN callee.locals |-> IF s <= Len(argv) THEN argv[s] ELSE Managed!Int(0)]
  <2>1. callee.locals \in Seq(ValueSet)
    BY <1>8 DEF ValueFrames
  <2>2. callee.locals = [s \in DOMAIN callee.locals |-> callee.locals[s]]
    <3> HIDE DEF callee, l
    <3> QED
      BY <1>8 DEF LocalsMean
  <2> DEFINE x == callee.locals
  <2>3. DOMAIN x = 1 .. m
    <3>1. x \in Seq(ValueSet) /\ Len(x) = m
      BY <1>8, <2>1
    <3> HIDE DEF x, m
    <3> QED
      BY <3>1
  <2> HIDE DEF callee, argv, m
  <2> QED
    BY <1>12, <2>2, <2>3
<1>14. callee.base \in Managed!Top(F).base .. Len(S)
  <2>1. Managed!Top(F).base = Frame.base
    BY <1>3 DEF FrameMean
  <2> HIDE DEF callee, F, S, base
  <2> QED
    BY <1>2, <1>5, <1>8, <2>1
<1>15. Len(argv) <= Len(callee.locals)
  <2> HIDE DEF argv, callee, n, m
  <2> QED
    BY <1>4, <1>8, <1>10
<1>16. argv = SubSeq(S, callee.base + 1, Len(S)) /\ StackValues' = SubSeq(S, 1, callee.base)
  <2> HIDE DEF callee, base, S, n
  <2> QED
    BY <1>8, <1>9
<1>17. Managed!Call
  <2> HIDE DEF argv, callee, base
  <2> QED
    BY <1>2, <1>7, <1>13, <1>14, <1>15, <1>16 DEF Managed!Call
<1> QED
  BY <1>17 DEF Managed!Instruction

-----------------------------------------------------------------------------
(* Stores.                                                                 *)

\* What has the same meaning word by word has the same meaning.
LEMMA ObjectFollows ==
    ASSUME NEW sense, NEW sense2, NEW structs, NEW h, NEW h2, NEW size, NEW p, NEW p2,
           h2[p2 - 2] = h[p - 2], h2[p2 - 1] = h[p - 1],
           \A o \in 0 .. size - 1 : Means(sense2, h2[p2 + o], o \in OffsetsIn(structs, h, p))
                                       = Means(sense, h[p + o], o \in OffsetsIn(structs, h, p))
    PROVE  ObjectMeans(sense2, structs, h2, size, p2) = ObjectMeans(sense, structs, h, size, p)
<1>1. OffsetsIn(structs, h2, p2) = OffsetsIn(structs, h, p)
  BY DEF OffsetsIn
<1>2. WordsMean(sense2, structs, h2, size, p2) = WordsMean(sense, structs, h, size, p)
  BY <1>1 DEF WordsMean
<1> QED
  BY <1>2 DEF ObjectMeans

Replaced(a, x, v, b) == b = [a EXCEPT !.words[x] = v]
\* A block of which one word means something else is an object with one field replaced.
LEMMA ObjectReplaced ==
    ASSUME NEW sense, NEW sense2, NEW structs, NEW h, NEW h2, NEW size, NEW p, NEW v, NEW x \in 0 .. size - 1,
           h2[p - 2] = h[p - 2], h2[p - 1] = h[p - 1],
           \A o \in 0 .. size - 1 : Means(sense2, h2[p + o], o \in OffsetsIn(structs, h, p))
                                       = IF o = x THEN v ELSE Means(sense, h[p + o], o \in OffsetsIn(structs, h, p))
    PROVE  Replaced(ObjectMeans(sense, structs, h, size, p), x, v, ObjectMeans(sense2, structs, h2, size, p))
<1> DEFINE W  == WordsMean(sense, structs, h, size, p)
           W2 == WordsMean(sense2, structs, h2, size, p)
<1>1. OffsetsIn(structs, h2, p) = OffsetsIn(structs, h, p)
  BY DEF OffsetsIn
<1>2. W = [o \in 0 .. size - 1 |-> Means(sense, h[p + o], o \in OffsetsIn(structs, h, p))]
  BY DEF WordsMean
<1>3. W2 = [o \in 0 .. size - 1 |-> Means(sense2, h2[p + o], o \in OffsetsIn(structs, h, p))]
  BY <1>1 DEF WordsMean
<1>4. ObjectMeans(sense, structs, h, size, p) = [kind |-> h[p - 2], detail |-> h[p - 1], words |-> W]
      /\ ObjectMeans(sense2, structs, h2, size, p) = [kind |-> h2[p - 2], detail |-> h2[p - 1], words |-> W2]
  BY DEF ObjectMeans
<1> HIDE DEF W, W2
<1>5. W2 = [W EXCEPT ![x] = v]
  <2>1. DOMAIN W = 0 .. size - 1 /\ DOMAIN W2 = 0 .. size - 1
    BY <1>2, <1>3
  <2>2. \A o \in 0 .. size - 1 : W2[o] = IF o = x THEN v ELSE W[o]
    BY <1>2, <1>3
  <2>3. W = [o \in DOMAIN W |-> W[o]] /\ W2 = [o \in DOMAIN W2 |-> W2[o]]
    BY <1>2, <1>3
  <2> QED
    BY <2>1, <2>2, <2>3
<1> QED
  BY <1>4, <1>5 DEF Replaced

\* A stack whose words mean what they did means what it did.
LEMMA StackFollows ==
    ASSUME NEW sense, NEW sense2, NEW st, NEW st2, DOMAIN st2 = DOMAIN st,
           \A i \in DOMAIN st : Means(sense2, st2[i].w, st2[i].ref) = Means(sense, st[i].w, st[i].ref)
    PROVE  StackMeans(sense2, st2) = StackMeans(sense, st)
BY DEF StackMeans

\* And so do activations.
LEMMA FramesFollow ==
    ASSUME NEW sense, NEW sense2, NEW funs, NEW fs, NEW fs2, DOMAIN fs2 = DOMAIN fs,
           \A i \in DOMAIN fs :
              /\ fs2[i].base = fs[i].base /\ fs2[i].fn = fs[i].fn /\ DOMAIN fs2[i].locals = DOMAIN fs[i].locals
              /\ \A s \in DOMAIN fs[i].locals : Means(sense2, fs2[i].locals[s], s \in funs[fs[i].fn].refs)
                                                  = Means(sense, fs[i].locals[s], s \in funs[fs[i].fn].refs)
    PROVE  FrameMeans(sense2, funs, fs2) = FrameMeans(sense, funs, fs)
<1>1. ASSUME NEW i \in DOMAIN fs
      PROVE  LocalsMean(sense2, funs[fs2[i].fn].refs, fs2[i].locals) = LocalsMean(sense, funs[fs[i].fn].refs, fs[i].locals)
  BY DEF LocalsMean
<1> QED
  BY <1>1 DEF FrameMeans

\* Where blocks stay where they are, so does the meaning of what refers to them.
LEMMA SenseStill ==
    ASSUME Well, Well', UNCHANGED ids, Sizes' = Sizes
    PROVE  \A w \in PlacesNow : Sense'[w] = Sense[w]
<1>1. SenseIs /\ SenseIs' /\ Blocks' = Blocks
  BY DEF Well, Understood, Blocks
<1> SUFFICES ASSUME NEW w \in PlacesNow PROVE Sense'[w] = Sense[w]
  OBVIOUS
<1>2. CASE w = Null
  BY <1>1, <1>2 DEF SenseIs
<1>3. CASE w # Null
  <2>1. PICK p \in Blocks : p <= w /\ w < p + Sizes[p]
    BY <1>3, InPlaces DEF Well
  <2>2. p \in Nat /\ Sizes[p] \in Nat
    BY StartMeans
  <2>3. w \in Nat
    <3>1. w \in p .. (p + Sizes[p] - 1) \/ \E q \in Blocks : w \in q .. (q + Sizes[q] - 1)
      BY <1>3 DEF PlacesNow, Places
    <3>2. PICK q \in Blocks : w \in q .. (q + Sizes[q] - 1)
      BY <3>1
    <3>3. q \in Nat
      BY StartMeans
    <3> QED
      BY <3>2, <3>3
  <2> DEFINE o == w - p
  <2>4. o \in Nat /\ o < Sizes[p] /\ p + o = w
    BY <2>1, <2>2, <2>3
  <2> HIDE DEF o
  <2>5. Sense[p + o] = [obj |-> ids[p], n |-> o]
    BY <1>1, <2>4 DEF SenseIs
  <2>6. Sense'[p + o] = [obj |-> ids[p], n |-> o]
    BY <1>1, <2>4 DEF SenseIs
  <2> QED
    BY <2>4, <2>5, <2>6
<1> QED
  BY <1>2, <1>3

\* A stack within P does not see a change of sense outside P.
LEMMA StackStill ==
    ASSUME NEW sense, NEW sense2, NEW P, \A w \in P : sense2[w] = sense[w], NEW st, StackIn(P, st)
    PROVE  StackMeans(sense2, st) = StackMeans(sense, st)
<1>1. \A i \in DOMAIN st : Means(sense2, st[i].w, st[i].ref) = Means(sense, st[i].w, st[i].ref)
  BY DEF StackIn, Means
<1> QED
  BY <1>1, StackFollows

\* Neither do activations.
LEMMA FramesStill ==
    ASSUME NEW sense, NEW sense2, NEW P, \A w \in P : sense2[w] = sense[w], NEW funs, NEW fs, FramesIn(P, funs, fs)
    PROVE  FrameMeans(sense2, funs, fs) = FrameMeans(sense, funs, fs)
<1>1. \A i \in DOMAIN fs : \A s \in DOMAIN fs[i].locals :
        Means(sense2, fs[i].locals[s], s \in funs[fs[i].fn].refs) = Means(sense, fs[i].locals[s], s \in funs[fs[i].fn].refs)
  BY DEF FramesIn, Means
<1> QED
  BY <1>1, FramesFollow

\* A permanent object's address is a place a reference may have.
LEMMA PermanentPlaces ==
    ASSUME IInv
    PROVE  Permanents \subseteq PlacesNow
<1>1. \A i \in DOMAIN literals : literals[i] \in Blocks
  BY DEF IInv, PermanentInv
<1>2. \A t \in DOMAIN variants : variants[t] \in Blocks \cup {Null}
  BY DEF IInv, PermanentInv
<1>3. Blocks \subseteq PlacesNow /\ Null \in PlacesNow
  BY InPlaces
<1> QED
  BY <1>1, <1>2, <1>3 DEF Permanents

\* One word of one object has a new value.
Rewritten(all, i, x, v, after) == after = [all EXCEPT ![i].words[x] = v]
\* A store into a block rewrites one field of its object, and no other object.
LEMMA ObjectWritten ==
    ASSUME Well, Well', UNCHANGED <<program, ids>>, Sizes' = Sizes, NEW p \in Blocks, NEW x \in Nat, x < Sizes[p],
           NEW w \in Word, heap' = [heap EXCEPT ![p + x] = w], NEW v,
           Means(Sense', w, x \in OffsetsIn(Structs, heap, p)) = v
    PROVE  Rewritten(Objects, ids[p], x, v, Objects')
<1>1. /\ IInv /\ Holding /\ ObjectsAre /\ ObjectsAre' /\ Blocks' = Blocks /\ Structs' = Structs
  BY DEF Well, Understood, Blocks, Structs
<1>2. DOMAIN heap = 0 .. HeapWords - 1 /\ p + x \in DOMAIN heap
  BY <1>1, BlockFacts, InBlock DEF IInv
<1>3. \A q \in Blocks : /\ q \in Nat /\ Sizes[q] \in Nat /\ heap'[q - 2] = heap[q - 2] /\ heap'[q - 1] = heap[q - 1]
                        /\ OffsetsIn(Structs, heap', q) = OffsetsIn(Structs, heap, q)
  <2> SUFFICES ASSUME NEW q \in Blocks
               PROVE  /\ q \in Nat /\ Sizes[q] \in Nat /\ heap'[q - 2] = heap[q - 2] /\ heap'[q - 1] = heap[q - 1]
                      /\ OffsetsIn(Structs, heap', q) = OffsetsIn(Structs, heap, q)
    OBVIOUS
  <2>1. q \in Nat /\ Sizes[q] \in Nat
    BY StartMeans
  <2>2. p + x # q - 2 /\ p + x # q - 1
    BY <1>1, BlocksApart
  <2>3. heap'[q - 2] = heap[q - 2] /\ heap'[q - 1] = heap[q - 1]
    BY <1>2, <2>2
  <2>4. OffsetsIn(Structs, heap', q) = OffsetsIn(Structs, heap, q)
    BY <2>3 DEF OffsetsIn
  <2> QED
    BY <2>1, <2>3, <2>4
<1>4. \A q \in Blocks : \A o \in Nat : o < Sizes[q] =>
         heap'[q + o] = IF q = p /\ o = x THEN w ELSE heap[q + o]
  <2> SUFFICES ASSUME NEW q \in Blocks, NEW o \in Nat, o < Sizes[q]
               PROVE  heap'[q + o] = IF q = p /\ o = x THEN w ELSE heap[q + o]
    OBVIOUS
  <2>1. q + o \in DOMAIN heap
    BY <1>1, InBlock
  <2>2. p + x = q + o => q = p /\ o = x
    BY <1>1, BlocksApart
  <2>3. heap'[q + o] = IF p + x = q + o THEN w ELSE heap[q + o]
    BY <2>1
  <2> QED
    BY <2>2, <2>3
<1>5. \A q \in Blocks : \A o \in Nat : o < Sizes[q] =>
         Means(Sense', heap[q + o], o \in OffsetsIn(Structs, heap, q)) = Means(Sense, heap[q + o], o \in OffsetsIn(Structs, heap, q))
  <2>1. \A y \in PlacesNow : Sense'[y] = Sense[y]
    BY SenseStill
  <2>2. \A q \in Blocks : \A o \in OffsetsIn(Structs, heap, q) : heap[q + o] \in PlacesNow
    BY <1>1 DEF Holding, FieldsIn
  <2> QED
    BY <2>1, <2>2 DEF Means
<1>6. \A q \in Blocks : Objects'[ids[q]] = ObjectMeans(Sense', Structs, heap', Sizes[q], q)
                        /\ Objects[ids[q]] = ObjectMeans(Sense, Structs, heap, Sizes[q], q)
  BY <1>1 DEF ObjectsAre
<1>7. ASSUME NEW q \in Blocks, q # p
      PROVE  Objects'[ids[q]] = Objects[ids[q]]
  <2>1. \A o \in 0 .. Sizes[q] - 1 : Means(Sense', heap'[q + o], o \in OffsetsIn(Structs, heap, q))
                                       = Means(Sense, heap[q + o], o \in OffsetsIn(Structs, heap, q))
    <3>1. \A o \in 0 .. Sizes[q] - 1 : o \in Nat /\ o < Sizes[q]
      BY <1>3
    <3> QED
      BY <1>4, <1>5, <1>7, <3>1
  <2>2. ObjectMeans(Sense', Structs, heap', Sizes[q], q) = ObjectMeans(Sense, Structs, heap, Sizes[q], q)
    <3> DEFINE n == Sizes[q]
               h == heap'
               s == Sense'
    <3>1. \A o \in 0 .. n - 1 : Means(s, h[q + o], o \in OffsetsIn(Structs, heap, q))
                                    = Means(Sense, heap[q + o], o \in OffsetsIn(Structs, heap, q))
      BY <2>1
    <3>2. h[q - 2] = heap[q - 2] /\ h[q - 1] = heap[q - 1]
      BY <1>3
    <3> HIDE DEF n, h, s
    <3>3. ObjectMeans(s, Structs, h, n, q) = ObjectMeans(Sense, Structs, heap, n, q)
      BY <3>1, <3>2, ObjectFollows
    <3> QED
      BY <3>3 DEF n, h, s
  <2> QED
    BY <1>6, <2>2
<1> DEFINE A == Objects[ids[p]]
           B == [A EXCEPT !.words[x] = v]
<1>8. Objects'[ids[p]] = B
  <2>1. x \in 0 .. Sizes[p] - 1
    BY <1>3
  <2>2. \A o \in 0 .. Sizes[p] - 1 : o \in Nat /\ o < Sizes[p]
    BY <1>3
  <2>3. \A o \in 0 .. Sizes[p] - 1 : Means(Sense', heap'[p + o], o \in OffsetsIn(Structs, heap, p))
          = IF o = x THEN v ELSE Means(Sense, heap[p + o], o \in OffsetsIn(Structs, heap, p))
    BY <1>4, <1>5, <2>2
  <2> DEFINE n == Sizes[p]
             h == heap'
             s == Sense'
  <2>4. \A o \in 0 .. n - 1 : Means(s, h[p + o], o \in OffsetsIn(Structs, heap, p))
          = IF o = x THEN v ELSE Means(Sense, heap[p + o], o \in OffsetsIn(Structs, heap, p))
    BY <2>3
  <2>5. h[p - 2] = heap[p - 2] /\ h[p - 1] = heap[p - 1]
    BY <1>3
  <2>6. x \in 0 .. n - 1
    BY <2>1
  <2> HIDE DEF n, h, s
  <2>7. Replaced(ObjectMeans(Sense, Structs, heap, n, p), x, v, ObjectMeans(s, Structs, h, n, p))
    BY <2>4, <2>5, <2>6, ObjectReplaced
  <2> QED
    BY <1>6, <2>7 DEF n, h, s, Replaced
<1>9. DOMAIN Objects' = DOMAIN Objects /\ DOMAIN Objects = {ids[q] : q \in Blocks}
  BY <1>1 DEF ObjectsAre
<1>10. Objects = [i \in DOMAIN Objects |-> Objects[i]] /\ Objects' = [i \in DOMAIN Objects' |-> Objects'[i]]
  BY <1>1 DEF ObjectsAre
<1>11. \A i \in DOMAIN Objects : Objects'[i] = IF i = ids[p] THEN B ELSE Objects[i]
  <2> HIDE DEF B
  <2> QED
    BY <1>7, <1>8, <1>9
<1>12. [Objects EXCEPT ![ids[p]] = B] = [i \in DOMAIN Objects |-> IF i = ids[p] THEN B ELSE Objects[i]]
  <2> HIDE DEF B
  <2> QED
    BY <1>10
<1>13. Objects' = [Objects EXCEPT ![ids[p]] = B]
  <2> HIDE DEF B
  <2> QED
    BY <1>9, <1>10, <1>11, <1>12
<1> QED
  BY <1>13 DEF Rewritten

\* Blocks whose headers are unchanged have the sizes they had.
LEMMA SizesStill ==
    ASSUME UNCHANGED <<program, ids>>,
           \A q \in Blocks : heap'[q - 2] = heap[q - 2] /\ heap'[q - 1] = heap[q - 1]
    PROVE  Sizes' = Sizes
<1>1. Structs' = Structs /\ Blocks' = Blocks
  BY DEF Structs, Blocks
<1> QED
  BY <1>1 DEF Sizes, SizesIn

\* A word of an object is written, and nothing else is different.
LEMMA WriteRefines ==
    ASSUME Well, Well', NEW k \in Nat, 1 < k, Has(k), stack' = Drop(stack, k),
           NEW p \in Blocks, NEW n \in Nat, NEW o \in Nat, n + o < Sizes[p], Arg(k).ref, Arg(k).w = p + n,
           Storable(Arg(1), (n + o) \in OffsetsIn(Structs, heap, p)),
           heap' = [heap EXCEPT ![p + (n + o)] = Arg(1).w],
           UNCHANGED <<program, frames, heap_ptr, literals, variants, status, ids>>,
           NEW offs, o \in offs
    PROVE  Managed!Write(k, offs)
<1> DEFINE x   == n + o
           w   == Arg(1).w
           top == Managed!Top(StackValues)
           to  == x \in OffsetsIn(Structs, heap, p)
           r   == Managed!Nth(k)
<1>1. /\ IInv /\ Holding /\ StackValues = StackMeans(Sense, stack) /\ Sense \in [Word -> ValueSet]
      /\ stack \in Seq(TaggedWords) /\ Len(StackValues) = Len(stack) /\ Len(stack) \in Nat
  BY WellTypes
<1>2. Funs' = Funs /\ Structs' = Structs /\ Blocks' = Blocks /\ x \in Nat /\ HeapWords \in Nat
  BY <1>1, ProgramFacts DEF Funs, Structs, Blocks, IInv
<1>3. w \in Word /\ Arg(1).ref \in BOOLEAN /\ top = Means(Sense, w, Arg(1).ref) /\ k <= Len(stack)
  <2>1. 1 \in 1 .. k
    OBVIOUS
  <2>2. StackValues[Len(StackValues) - 1 + 1] = Means(Sense, w, Arg(1).ref)
        /\ k <= Len(StackValues) /\ w \in Word /\ Arg(1).ref \in BOOLEAN
    BY <2>1, ArgMeans
  <2>3. Len(StackValues) - 1 + 1 = Len(StackValues)
    BY <1>1
  <2> QED
    BY <1>1, <2>2, <2>3 DEF Managed!Top
<1>4. Sizes' = Sizes
  <2>1. ASSUME NEW q \in Blocks PROVE heap'[q - 2] = heap[q - 2] /\ heap'[q - 1] = heap[q - 1]
    <3>1. q - 2 \in DOMAIN heap /\ q - 1 \in DOMAIN heap
      BY <1>1, BlockFacts DEF IInv
    <3>2. p + x # q - 2 /\ p + x # q - 1
      BY <1>1, <1>2, BlocksApart
    <3> HIDE DEF x, w
    <3>3. heap' = [heap EXCEPT ![p + x] = w]
      BY DEF x, w
    <3> QED
      BY <3>1, <3>2, <3>3
  <2> QED
    BY <2>1, SizesStill
<1>5. \A y \in PlacesNow : Sense'[y] = Sense[y]
  BY <1>4, SenseStill
<1>6. to => w \in PlacesNow
  <2> SUFFICES ASSUME to PROVE w \in PlacesNow
    OBVIOUS
  <2>1. Storable(Arg(1), TRUE)
    BY DEF Storable
  <2>2. Arg(1).ref => w \in PlacesNow
    <3>1. 1 \in 1 .. k
      OBVIOUS
    <3> QED
      BY <1>1, <3>1, TakenHolds
  <2> QED
    BY <1>1, <2>1, <2>2, StorableHolds
<1>7. Means(Sense', w, to) = top
  <2>1. Means(Sense', w, to) = Means(Sense, w, to)
    BY <1>5, <1>6 DEF Means
  <2>2. to \in BOOLEAN
    OBVIOUS
  <2>3. IF to THEN Arg(1).ref \/ w = Null ELSE ~Arg(1).ref
    BY DEF Storable
  <2> HIDE DEF to, w
  <2>4. Means(Sense, w, to) = Means(Sense, w, Arg(1).ref)
    BY <1>3, <2>2, <2>3, StorableMeans
  <2> QED
    BY <1>3, <2>1, <2>4
<1>8. Objects' = [Objects EXCEPT ![ids[p]].words[x] = top]
  <2>1. heap' = [heap EXCEPT ![p + x] = w] /\ UNCHANGED <<program, ids>> /\ x < Sizes[p]
    OBVIOUS
  <2> HIDE DEF w, top, x
  <2>2. Rewritten(Objects, ids[p], x, top, Objects')
    BY <1>2, <1>3, <1>4, <1>7, <2>1, ObjectWritten
  <2> QED
    BY <2>2 DEF Rewritten
<1>9. /\ r = [obj |-> ids[p], n |-> n] /\ Managed!IsRef(r) /\ Managed!Selects(k, o, Objects[r.obj].words)
  <2>1. 1 <= k
    OBVIOUS
  <2> QED
    BY <2>1, WordMeans
<1>10. StackValues' = Drop(StackValues, k)
  <2>1. StackValues' = StackMeans(Sense', Drop(stack, k))
    BY DEF Well, Understood
  <2>2. StackIn(PlacesNow, Drop(stack, k))
    BY <1>1, TakenHolds
  <2>3. StackMeans(Sense', Drop(stack, k)) = StackMeans(Sense, Drop(stack, k))
    BY <1>5, <2>2, StackStill
  <2> QED
    BY <1>1, <1>3, <2>1, <2>3, DropMeans
<1>11. FrameValues' = FrameValues
  <2>1. FrameValues' = FrameMeans(Sense', Funs, frames) /\ FrameValues = FrameMeans(Sense, Funs, frames)
    <3>1. FrameValues' = FrameMeans(Sense', Funs', frames') /\ FrameValues = FrameMeans(Sense, Funs, frames)
      BY DEF Well, Understood
    <3> QED
      BY <1>2, <3>1
  <2>2. FramesIn(PlacesNow, Funs, frames)
    BY <1>1 DEF Holding
  <2> QED
    BY <1>5, <2>1, <2>2, FramesStill
<1>12. Consts' = Consts
  <2>1. \A y \in Permanents \ {Null} : Sense'[y] = Sense[y]
    BY <1>1, <1>5, PermanentPlaces
  <2> QED
    BY <2>1, ConstsSame
<1>13. Len(StackValues) >= k
  BY <1>1, <1>3
<1>14. Objects' = [Objects EXCEPT ![r.obj].words[r.n + o] = top]
  <2>1. r.obj = ids[p] /\ r.n = n
    BY <1>9
  <2> QED
    BY <1>8, <2>1
<1>15. \E off \in offs : /\ Managed!Selects(k, off, Objects[r.obj].words)
                         /\ Objects' = [Objects EXCEPT ![r.obj].words[r.n + off] = top]
  BY <1>9, <1>14
<1>16. UNCHANGED status
  OBVIOUS
<1> QED
  <2> HIDE DEF r, top
  <2> QED
    BY <1>9, <1>10, <1>11, <1>12, <1>13, <1>15, <1>16, DropsAgree DEF Managed!Write, r, top

\* Stores write a word of the object the reference names.
LEMMA WritesRefine ==
    ASSUME Well, Well'
    PROVE  /\ \A off \in 0 .. HeapWords : HeapStoreField(off) => Managed!Instruction
           /\ \A kind \in {RefArray, ValArray} : ArraySet(kind) => Managed!Instruction
           /\ HeapStore => Managed!Instruction
<1>1. IInv /\ HeapWords \in Nat /\ (\A p : RefOffsets(p) = OffsetsIn(Structs, heap, p))
  BY ProgramFacts, InTermsOfBlocks DEF Well, IInv
<1>2. \A p \in Blocks : p \in Nat /\ Sizes[p] \in Nat
  BY StartMeans
<1>3. \A off \in Nat : off <= HeapWords => off \in 0 .. MaxWords
  <2>1. HeapWords <= MaxWords
    <3>1. WellMade(program)
      BY <1>1, ProgramFacts DEF IInv
    <3> QED
      BY <3>1, MaxWordsNat DEF WellMade, HeapWords
  <2> QED
    BY <1>1, <2>1, MaxWordsNat
<1>4. ASSUME NEW off \in 0 .. HeapWords, HeapStoreField(off) PROVE Managed!Instruction
  <2> DEFINE p    == Arg(2).w
             offs == 0 .. MaxWords
  <2>1. /\ Has(2) /\ stack' = Drop(stack, 2) /\ Is(Arg(2), Struct) /\ off < Structs[Detail(p)].size
        /\ Storable(Arg(1), off \in Structs[Detail(p)].refs) /\ heap' = [heap EXCEPT ![p + off] = Arg(1).w]
        /\ UNCHANGED <<program, frames, heap_ptr, literals, variants, status, ids>>
    BY <1>4 DEF HeapStoreField
  <2>2. p \in Blocks /\ Kind(p) = Struct /\ Structs[Detail(p)].size \in Nat /\ Structs[Detail(p)].size <= Sizes[p]
    BY <1>1, <2>1, IsBlock
  <2>3. Arg(2).ref
    BY <2>1 DEF Is
  <2> HIDE DEF p
  <2>4. off \in Nat /\ 0 + off < Sizes[p] /\ 0 + off = off /\ p + 0 = p /\ off \in offs
    BY <1>1, <1>2, <1>3, <2>1, <2>2
  <2>5. OffsetsIn(Structs, heap, p) = Structs[Detail(p)].refs
    <3>1. RefArray # Struct
      BY DEF RefArray, Struct
    <3> QED
      BY <2>2, <3>1 DEF OffsetsIn, Kind, Detail
  <2>6. /\ Storable(Arg(1), (0 + off) \in OffsetsIn(Structs, heap, p))
        /\ heap' = [heap EXCEPT ![p + (0 + off)] = Arg(1).w] /\ Arg(2).w = p + 0
    BY <2>1, <2>4, <2>5 DEF p
  <2>7. 2 \in Nat /\ 1 < 2 /\ 0 \in Nat
    OBVIOUS
  <2> HIDE DEF offs
  <2>8. Managed!Write(2, offs)
    BY <2>1, <2>2, <2>3, <2>4, <2>6, <2>7, WriteRefines
  <2> QED
    BY <2>8 DEF Managed!Instruction, offs
<1>5. ASSUME NEW kind \in {RefArray, ValArray}, ArraySet(kind) PROVE Managed!Instruction
  <2> DEFINE p == Arg(3).w
             o == Arg(2).w
  <2>1. /\ Has(3) /\ stack' = Drop(stack, 3) /\ Is(Arg(3), kind) /\ ~Arg(2).ref /\ o < Detail(p)
        /\ Storable(Arg(1), kind = RefArray) /\ heap' = [heap EXCEPT ![p + o] = Arg(1).w]
        /\ UNCHANGED <<program, frames, heap_ptr, literals, variants, status, ids>>
    BY <1>5 DEF ArraySet
  <2>2. p \in Blocks /\ Kind(p) = kind /\ Detail(p) \in Nat /\ Detail(p) <= Sizes[p]
    BY <1>1, <2>1, IsBlock
  <2>3. Arg(3).ref
    BY <2>1 DEF Is
  <2>4. StackValues[Len(StackValues) - 2 + 1] = Means(Sense, o, Arg(2).ref) /\ o \in Word /\ 3 <= Len(StackValues)
    <3>1. 2 \in 1 .. 3
      OBVIOUS
    <3> QED
      BY <2>1, <3>1, NumbersAre, ArgMeans
  <2>5. o \in Nat
    BY <2>4, WordNat
  <2>6. Managed!Nth(2) = IntValue(o) /\ Len(StackValues) > 1
    <3>1. Len(StackValues) \in Nat
      BY WellTypes
    <3>2. Means(Sense, o, Arg(2).ref) = IntValue(o)
      BY <2>1 DEF Means
    <3> HIDE DEF o
    <3> QED
      BY <2>4, <3>1, <3>2 DEF Managed!Nth
  <2> HIDE DEF p, o
  <2>7. 0 + o < Sizes[p] /\ 0 + o = o /\ p + 0 = p
    BY <1>2, <2>1, <2>2, <2>5
  <2>8. (kind = RefArray) <=> o \in OffsetsIn(Structs, heap, p)
    <3>1. CASE kind = RefArray
      <4>1. RefArray # Struct
        BY DEF RefArray, Struct
      <4>2. OffsetsIn(Structs, heap, p) = 0 .. Detail(p) - 1
        BY <2>2, <3>1, <4>1 DEF OffsetsIn, Kind, Detail
      <4>3. o \in 0 .. Detail(p) - 1
        BY <2>1, <2>2, <2>5
      <4> QED
        BY <3>1, <4>2, <4>3
    <3>2. CASE kind = ValArray
      <4>1. ValArray # Struct /\ ValArray # RefArray
        BY DEF RefArray, Struct, ValArray
      <4>2. OffsetsIn(Structs, heap, p) = {}
        BY <2>2, <3>2, <4>1 DEF OffsetsIn, Kind, Detail
      <4> QED
        BY <3>2, <4>1, <4>2
    <3> QED
      BY <3>1, <3>2
  <2>9. Storable(Arg(1), (0 + o) \in OffsetsIn(Structs, heap, p))
    BY <2>1, <2>7, <2>8 DEF Storable
  <2>10. heap' = [heap EXCEPT ![p + (0 + o)] = Arg(1).w] /\ Arg(3).w = p + 0
    BY <2>1, <2>7 DEF p
  <2>11. 3 \in Nat /\ 1 < 3 /\ 0 \in Nat
    OBVIOUS
  <2> DEFINE offs == {Managed!Nth(2).n}
  <2>12. o \in offs
    BY <2>6 DEF IntValue
  <2> HIDE DEF offs
  <2>13. Managed!Write(3, offs)
    BY <2>1, <2>2, <2>3, <2>5, <2>7, <2>9, <2>10, <2>11, <2>12, WriteRefines
  <2> QED
    BY <2>6, <2>13 DEF Managed!Instruction, offs
<1>6. ASSUME HeapStore PROVE Managed!Instruction
  <2> DEFINE w == Arg(2).w
  <2>1. /\ Has(2) /\ stack' = Drop(stack, 2) /\ Arg(2).ref /\ ~Arg(1).ref /\ heap' = [heap EXCEPT ![w] = Arg(1).w]
        /\ UNCHANGED <<program, frames, heap_ptr, literals, variants, status, ids>>
    BY <1>6 DEF HeapStore, InRaw
  <2>2. PICK p \in Containing(w) : Kind(p) = Raw
    BY <1>6 DEF HeapStore, InRaw
  <2>3. p \in Blocks /\ p <= w /\ w < p + Sizes[p]
    BY <1>1, <2>2, ContainingIs DEF IInv
  <2>4. w \in Nat
    <3>1. 2 \in 1 .. 2
      OBVIOUS
    <3>2. w \in Word
      BY <2>1, <3>1, NumbersAre, ArgMeans
    <3> HIDE DEF w
    <3> QED
      BY <3>2, WordNat
  <2> DEFINE n    == w - p
             offs == 0 .. MaxWords
  <2> HIDE DEF w
  <2>5. n \in Nat /\ w = p + n /\ n + 0 < Sizes[p] /\ p + (n + 0) = w
    BY <1>2, <2>3, <2>4
  <2>6. 2 \in Nat /\ 1 < 2 /\ 0 \in Nat /\ 0 \in offs
    BY MaxWordsNat
  <2> HIDE DEF n, offs
  <2>7. OffsetsIn(Structs, heap, p) = {}
    <3>1. Raw # Struct /\ Raw # RefArray
      BY DEF Raw, Struct, RefArray
    <3> QED
      BY <2>2, <3>1 DEF OffsetsIn, Kind
  <2>8. Storable(Arg(1), (n + 0) \in OffsetsIn(Structs, heap, p))
    BY <2>1, <2>7 DEF Storable
  <2>9. heap' = [heap EXCEPT ![p + (n + 0)] = Arg(1).w] /\ Arg(2).w = p + n
    BY <2>1, <2>5 DEF w
  <2>10. Managed!Write(2, offs)
    BY <2>1, <2>3, <2>5, <2>6, <2>8, <2>9, WriteRefines
  <2> QED
    BY <2>10 DEF Managed!Instruction, offs
<1> QED
  BY <1>4, <1>5, <1>6

-----------------------------------------------------------------------------
(* What is kept.                                                           *)

\* A place is null, or a word of the one block that contains it.
LEMMA PlaceIs ==
    ASSUME Well, NEW w \in PlacesNow
    PROVE  \/ w = Null
           \/ \E p \in Blocks, o \in Nat : /\ o < Sizes[p] /\ w = p + o /\ w \in Word
                                           /\ Containing(w) = {p} /\ Sense[w] = [obj |-> ids[p], n |-> o]
<1> SUFFICES ASSUME w # Null
             PROVE  \E p \in Blocks, o \in Nat : /\ o < Sizes[p] /\ w = p + o /\ w \in Word
                                                 /\ Containing(w) = {p} /\ Sense[w] = [obj |-> ids[p], n |-> o]
  OBVIOUS
<1>1. IInv /\ SenseIs /\ program \in Programs /\ HeapInv
  BY DEF Well, Understood, IInv
<1>2. PICK p \in Blocks : w \in p .. (p + Sizes[p] - 1)
  BY DEF PlacesNow, Places
<1>3. p \in Nat /\ Sizes[p] \in Nat
  BY StartMeans
<1> DEFINE o == w - p
<1>4. o \in Nat /\ o < Sizes[p] /\ w = p + o
  BY <1>2, <1>3
<1> HIDE DEF o
<1>5. p + o \in Word /\ Sense[p + o] = [obj |-> ids[p], n |-> o]
  BY <1>1, <1>4 DEF SenseIs
<1>6. Containing(w) = {p}
  <2>1. p <= w /\ w < p + Sizes[p] /\ w \in Word
    BY <1>3, <1>4, <1>5
  <2> QED
    BY <1>1, <2>1, ContainingIs
<1> QED
  BY <1>4, <1>5, <1>6

\* What a reference into the blocks of S names is one of them, or nothing.
IdsOf(S) == {ids[p] : p \in S}
\* A reference whose block is kept means an object that is kept.
LEMMA NamesKept ==
    ASSUME Well, NEW S, S \subseteq Blocks, NEW w \in PlacesNow, Containing(w) \subseteq S
    PROVE  Sense[w].obj \in IdsOf(S) \cup {0}
<1>1. CASE w = Null
  BY <1>1 DEF Well, Understood, SenseIs, IntValue
<1>2. CASE w # Null
  <2>1. PICK p \in Blocks, o \in Nat : Containing(w) = {p} /\ Sense[w] = [obj |-> ids[p], n |-> o]
    BY <1>2, PlaceIs
  <2>2. p \in S /\ Sense[w].obj = ids[p]
    BY <2>1
  <2> QED
    BY <2>2 DEF IdsOf
<1> QED
  BY <1>1, <1>2

\* The roots hold only places.
LEMMA RootsArePlaces ==
    ASSUME Well, NEW st, StackIn(PlacesNow, st)
    PROVE  RootWords(st) \subseteq PlacesNow
<1>1. IInv /\ Holding
  BY DEF Well
<1>2. Operands(st) \subseteq PlacesNow
  BY DEF Operands, StackIn
<1>3. FrameRoots \subseteq PlacesNow
  <2>1. \A i \in DOMAIN frames : \A s \in Refs(frames[i].fn) : frames[i].locals[s] \in PlacesNow
    BY <1>1 DEF Holding, FramesIn, Refs
  <2> QED
    BY <2>1 DEF FrameRoots, Activations
<1>4. Permanents \subseteq PlacesNow
  BY <1>1, PermanentPlaces
<1> QED
  BY <1>2, <1>3, <1>4 DEF RootWords

\* Means through a reference to something kept.
LEMMA MeansKept ==
    ASSUME Well, NEW S, S \subseteq Blocks, NEW w, NEW ref, ref => w \in PlacesNow /\ Containing(w) \subseteq S
    PROVE  Means(Sense, w, ref).obj \in IdsOf(S) \cup {0}
<1>1. CASE ref
  BY <1>1, NamesKept DEF Means
<1>2. CASE ~ref
  BY <1>2 DEF Means, IntValue
<1> QED
  BY <1>1, <1>2

\* The blocks of S, whatever they refer to being among them.
Shut(S) ==
    /\ S \subseteq Blocks
    /\ \A p \in S : Targets(p) \subseteq S
Rooted(S, st) == \A w \in RootWords(st) : Containing(w) \subseteq S

\* A collection keeps whatever the program holds.
LEMMA HoldsRoots ==
    ASSUME Well, NEW S, Shut(S), NEW st, Rooted(S, st), StackIn(PlacesNow, st)
    PROVE  Managed!RootIds(StackMeans(Sense, st)) \subseteq IdsOf(S)
<1>1. RootWords(st) \subseteq PlacesNow /\ S \subseteq Blocks
  BY RootsArePlaces DEF Shut
<1>2. Managed!Holds(StackMeans(Sense, st)) \subseteq IdsOf(S)
  <2>1. \A i \in DOMAIN st : StackMeans(Sense, st)[i].obj \in IdsOf(S) \cup {0}
    <3> SUFFICES ASSUME NEW i \in DOMAIN st PROVE StackMeans(Sense, st)[i].obj \in IdsOf(S) \cup {0}
      OBVIOUS
    <3>1. st[i].ref => st[i].w \in RootWords(st)
      BY DEF RootWords, Operands
    <3>2. st[i].ref => st[i].w \in PlacesNow /\ Containing(st[i].w) \subseteq S
      BY <1>1, <3>1 DEF Rooted
    <3>3. Means(Sense, st[i].w, st[i].ref).obj \in IdsOf(S) \cup {0}
      BY <1>1, <3>2, MeansKept
    <3> QED
      BY <3>3 DEF StackMeans
  <2>2. DOMAIN StackMeans(Sense, st) = DOMAIN st
    BY DEF StackMeans
  <2> QED
    BY <2>1, <2>2 DEF Managed!Holds
<1>3. Managed!Holds(Consts) \subseteq IdsOf(S)
  <2>1. Consts = ConstMeans(Sense, Structs, literals, variants)
    BY DEF Well, Understood
  <2>2. \A w \in Permanents : Sense[w].obj \in IdsOf(S) \cup {0}
    <3> SUFFICES ASSUME NEW w \in Permanents PROVE Sense[w].obj \in IdsOf(S) \cup {0}
      OBVIOUS
    <3>1. w \in RootWords(st)
      BY DEF RootWords
    <3>2. w \in PlacesNow /\ Containing(w) \subseteq S
      BY <1>1, <3>1 DEF Rooted
    <3> QED
      BY <1>1, <3>2, NamesKept
  <2>3. \A c \in DOMAIN Consts : Consts[c].obj \in IdsOf(S) \cup {0}
    <3> SUFFICES ASSUME NEW c \in DOMAIN Consts PROVE Consts[c].obj \in IdsOf(S) \cup {0}
      OBVIOUS
    <3> DEFINE w == IF c[1] = "literal" THEN literals[c[2]] ELSE variants[c[2]]
    <3>1. c \in ConstNames(Structs, literals, variants) /\ Consts[c] = Sense[w]
      BY <2>1 DEF ConstMeans
    <3>2. w \in Permanents
      <4>1. CASE c[1] = "literal" /\ c[2] \in DOMAIN literals
        BY <4>1 DEF Permanents
      <4>2. CASE c[1] = "variant" /\ c[2] \in DOMAIN variants
        BY <4>2 DEF Permanents
      <4>3. DOMAIN variants = DOMAIN Structs
        BY DEF Well, IInv, PermanentInv
      <4> QED
        BY <3>1, <4>1, <4>2, <4>3 DEF ConstNames
    <3> QED
      BY <2>2, <3>1, <3>2
  <2> QED
    BY <2>3 DEF Managed!Holds
<1>4. ASSUME NEW i \in DOMAIN FrameValues
      PROVE  Managed!Holds(FrameValues[i].locals) \subseteq IdsOf(S)
  <2>1. FrameValues = FrameMeans(Sense, Funs, frames)
    BY DEF Well, Understood
  <2>2. i \in DOMAIN frames /\ FrameValues[i].locals = LocalsMean(Sense, Refs(frames[i].fn), frames[i].locals)
    BY <2>1 DEF FrameMeans, Refs
  <2> DEFINE L == frames[i].locals
             R == Refs(frames[i].fn)
  <2>3. \A s \in R : L[s] \in RootWords(st)
    BY <2>2 DEF RootWords, FrameRoots, Activations
  <2>4. \A s \in DOMAIN L : Means(Sense, L[s], s \in R).obj \in IdsOf(S) \cup {0}
    <3> SUFFICES ASSUME NEW s \in DOMAIN L PROVE Means(Sense, L[s], s \in R).obj \in IdsOf(S) \cup {0}
      OBVIOUS
    <3>1. s \in R => L[s] \in PlacesNow /\ Containing(L[s]) \subseteq S
      BY <1>1, <2>3 DEF Rooted
    <3> HIDE DEF L, R
    <3> QED
      BY <1>1, <3>1, MeansKept
  <2> HIDE DEF L, R
  <2>5. FrameValues[i].locals = LocalsMean(Sense, R, L)
    BY <2>2 DEF L, R
  <2> QED
    BY <2>4, <2>5 DEF Managed!Holds, LocalsMean
<1> QED
  BY <1>2, <1>3, <1>4 DEF Managed!RootIds

\* ... and what the kept objects refer to.
LEMMA HoldsFields ==
    ASSUME Well, NEW S, Shut(S), NEW p \in S
    PROVE  Managed!Holds(Objects[ids[p]].words) \subseteq IdsOf(S)
<1>1. /\ S \subseteq Blocks /\ p \in Blocks /\ Targets(p) \subseteq S
      /\ RefOffsets(p) = OffsetsIn(Structs, heap, p)
  BY InTermsOfBlocks DEF Shut, Well, IInv
<1>2. Objects[ids[p]].words = WordsMean(Sense, Structs, heap, Sizes[p], p)
  <2>1. Objects[ids[p]] = ObjectMeans(Sense, Structs, heap, Sizes[p], p)
    BY <1>1, StartMeans
  <2> QED
    BY <2>1 DEF ObjectMeans
<1>3. \A o \in 0 .. Sizes[p] - 1 : Means(Sense, heap[p + o], o \in OffsetsIn(Structs, heap, p)).obj \in IdsOf(S) \cup {0}
  <2> SUFFICES ASSUME NEW o \in 0 .. Sizes[p] - 1
               PROVE  Means(Sense, heap[p + o], o \in OffsetsIn(Structs, heap, p)).obj \in IdsOf(S) \cup {0}
    OBVIOUS
  <2>1. o \in OffsetsIn(Structs, heap, p) => heap[p + o] \in PlacesNow /\ Containing(heap[p + o]) \subseteq S
    BY <1>1 DEF Targets, Well, Holding, FieldsIn
  <2> QED
    BY <1>1, <2>1, MeansKept
<1> QED
  BY <1>2, <1>3 DEF Managed!Holds, WordsMean

\* So the objects of such a set may be all that is left.
LEMMA KeepsShut ==
    ASSUME Well, NEW S, Shut(S), NEW st, Rooted(S, st), StackIn(PlacesNow, st),
           NEW after, DOMAIN after = IdsOf(S), \A p \in S : after[ids[p]] = Objects[ids[p]]
    PROVE  Managed!Keeps(after, StackMeans(Sense, st))
<1>1. DOMAIN Objects = IdsOf(Blocks) /\ S \subseteq Blocks
  BY DEF Well, Understood, ObjectsAre, IdsOf, Shut
<1>2. DOMAIN after \subseteq DOMAIN Objects
  BY <1>1 DEF IdsOf
<1>3. \A i \in DOMAIN after : after[i] = Objects[i] /\ Managed!Holds(after[i].words) \subseteq DOMAIN after
  <2> SUFFICES ASSUME NEW i \in DOMAIN after
               PROVE  after[i] = Objects[i] /\ Managed!Holds(after[i].words) \subseteq DOMAIN after
    OBVIOUS
  <2>1. PICK p \in S : i = ids[p]
    BY DEF IdsOf
  <2>2. Managed!Holds(Objects[ids[p]].words) \subseteq IdsOf(S)
    BY HoldsFields
  <2>3. after[i] = Objects[ids[p]]
    BY <2>1
  <2> QED
    BY <2>1, <2>2, <2>3
<1>4. Managed!RootIds(StackMeans(Sense, st)) \subseteq DOMAIN after
  BY HoldsRoots
<1> QED
  BY <1>2, <1>3, <1>4 DEF Managed!Keeps

\* All the blocks are such a set, and so are the marked ones.
LEMMA ShutSets ==
    ASSUME IInv, NEW st
    PROVE  /\ Shut(Blocks) /\ Rooted(Blocks, st)
           /\ Shut(Marked(st)) /\ Rooted(Marked(st), st)
<1>1. program \in Programs /\ HeapInv
  BY DEF IInv
<1>2. Shut(Marked(st)) /\ Rooted(Marked(st), st)
  BY <1>1, MarkedIs DEF Shut, Rooted
<1>3. \A w : Containing(w) \subseteq Blocks
  BY <1>1, ContainingIs
<1> QED
  BY <1>2, <1>3 DEF Shut, Rooted, Targets

\* An instruction that faults has taken its operands and changed nothing else.
LEMMA FaultRefines ==
    ASSUME Well, Well', Fault
    PROVE  Managed!Instruction
<1>1. PICK k \in {1, 2} : Has(k) /\ stack' = Drop(stack, k)
  BY DEF Fault
<1>2. /\ status' = "faulted" /\ UNCHANGED <<program, heap, ids>> /\ UNCHANGED <<program, literals, variants>>
      /\ UNCHANGED frames
  BY DEF Fault
<1>3. Sense' = Sense /\ Funs' = Funs /\ Objects' = Objects
  BY <1>2, SenseSame, ObjectsSame
<1>4. Consts' = Consts
  BY <1>2, <1>3, ConstsSame
<1>5. /\ IInv /\ Holding /\ StackValues = StackMeans(Sense, stack) /\ Sense \in [Word -> ValueSet]
      /\ stack \in Seq(TaggedWords) /\ Len(StackValues) = Len(stack) /\ Len(stack) \in Nat
  BY WellTypes
<1>6. k \in Nat /\ k \in 0 .. 2
  OBVIOUS
<1>7. k <= Len(stack) /\ StackIn(PlacesNow, Drop(stack, k))
  BY <1>1, <1>5, <1>6, Taken, TakenHolds
<1>8. StackValues' = Drop(StackValues, k) /\ Drop(StackValues, k) = StackMeans(Sense, Drop(stack, k))
  <2>1. StackValues' = StackMeans(Sense', stack')
    BY DEF Well, Understood
  <2> QED
    BY <1>1, <1>3, <1>5, <1>6, <1>7, <2>1, DropMeans
<1>9. FrameValues' = FrameValues
  <2>1. FrameValues' = FrameMeans(Sense', Funs', frames') /\ FrameValues = FrameMeans(Sense, Funs, frames)
    BY DEF Well, Understood
  <2> QED
    BY <1>2, <1>3, <2>1
<1>10. Managed!Keeps(Objects', Drop(StackValues, k))
  <2>1. DOMAIN Objects = IdsOf(Blocks)
    BY DEF Well, Understood, ObjectsAre, IdsOf
  <2> DEFINE all == Objects'
             st  == Drop(stack, k)
  <2>2. DOMAIN all = IdsOf(Blocks) /\ \A p \in Blocks : all[ids[p]] = Objects[ids[p]]
    BY <1>3, <2>1
  <2>3. Shut(Blocks) /\ Rooted(Blocks, st) /\ StackIn(PlacesNow, st)
    BY <1>5, <1>7, ShutSets DEF Shut
  <2> HIDE DEF all, st
  <2>4. Managed!Keeps(all, StackMeans(Sense, st))
    BY <2>2, <2>3, KeepsShut
  <2> QED
    BY <1>8, <2>4 DEF all, st
<1>11. Len(StackValues) >= k
  BY <1>5, <1>6, <1>7
<1>12. Managed!Fail(k)
  BY <1>2, <1>4, <1>8, <1>9, <1>10, <1>11, DropsAgree DEF Managed!Fail
<1> QED
  BY <1>6, <1>12 DEF Managed!Instruction

-----------------------------------------------------------------------------
(* What is carried over.                                                   *)

\* A step carries the blocks of S to at[p], with their identities, and turns a
\* reference w among their words into mv[w].
Carried(S, at, mv) ==
    /\ S \subseteq Blocks /\ mv[Null] = Null
    /\ \A p \in S : /\ at[p] \in Blocks' /\ ids'[at[p]] = ids[p] /\ Sizes'[at[p]] = Sizes[p]
                    /\ heap'[at[p] - 2] = heap[p - 2] /\ heap'[at[p] - 1] = heap[p - 1]
    /\ \A p \in S : \A o \in Nat : o < Sizes[p] =>
          /\ mv[p + o] = at[p] + o
          /\ heap'[at[p] + o] = IF o \in OffsetsIn(Structs, heap, p) THEN mv[heap[p + o]] ELSE heap[p + o]

\* A reference that is followed means what it meant.
LEMMA SenseCarried ==
    ASSUME Well, Well', NEW S, NEW at, NEW mv, Carried(S, at, mv), NEW w \in PlacesNow, Containing(w) \subseteq S
    PROVE  Sense'[mv[w]] = Sense[w]
<1>1. SenseIs /\ SenseIs'
  BY DEF Well, Understood
<1>2. CASE w = Null
  BY <1>1, <1>2 DEF Carried, SenseIs
<1>3. CASE w # Null
  <2>1. PICK p \in Blocks, o \in Nat : o < Sizes[p] /\ w = p + o /\ Containing(w) = {p} /\ Sense[w] = [obj |-> ids[p], n |-> o]
    BY <1>3, PlaceIs
  <2>2. p \in S
    BY <2>1
  <2>3. at[p] \in Blocks' /\ ids'[at[p]] = ids[p] /\ Sizes'[at[p]] = Sizes[p] /\ mv[w] = at[p] + o
    BY <2>1, <2>2 DEF Carried
  <2>4. Sense'[at[p] + o] = [obj |-> ids'[at[p]], n |-> o]
    BY <1>1, <2>1, <2>3 DEF SenseIs
  <2> QED
    BY <2>1, <2>3, <2>4
<1> QED
  BY <1>2, <1>3

\* A word carried through a collection means what it did before.
LEMMA MeansCarried ==
    ASSUME Well, Well', NEW S, NEW at, NEW mv, Carried(S, at, mv), NEW w, NEW ref,
           ref => w \in PlacesNow /\ Containing(w) \subseteq S
    PROVE  Means(Sense', IF ref THEN mv[w] ELSE w, ref) = Means(Sense, w, ref)
<1>1. CASE ref
  BY <1>1, SenseCarried DEF Means
<1>2. CASE ~ref
  BY <1>2 DEF Means
<1> QED
  BY <1>1, <1>2

\* An object that is carried is what it was.
LEMMA ObjectCarried ==
    ASSUME Well, Well', UNCHANGED program, NEW S, NEW at, NEW mv, Carried(S, at, mv), Shut(S), NEW p \in S
    PROVE  ids[p] \in DOMAIN Objects' /\ Objects'[ids[p]] = Objects[ids[p]]
<1>1. ObjectsAre /\ ObjectsAre' /\ Structs' = Structs /\ p \in Blocks /\ Targets(p) \subseteq S
  BY DEF Well, Understood, Structs, Shut
<1>2. at[p] \in Blocks' /\ ids'[at[p]] = ids[p] /\ Sizes'[at[p]] = Sizes[p]
  BY DEF Carried
<1>3. ids[p] \in DOMAIN Objects' /\ Objects'[ids[p]] = ObjectMeans(Sense', Structs, heap', Sizes[p], at[p])
  BY <1>1, <1>2 DEF ObjectsAre
<1>4. Objects[ids[p]] = ObjectMeans(Sense, Structs, heap, Sizes[p], p)
  BY <1>1 DEF ObjectsAre
<1>5. RefOffsets(p) = OffsetsIn(Structs, heap, p) /\ Sizes[p] \in Nat
  BY <1>1, InTermsOfBlocks, StartMeans DEF Well, IInv
<1>6. \A o \in 0 .. Sizes[p] - 1 : Means(Sense', heap'[at[p] + o], o \in OffsetsIn(Structs, heap, p))
                                     = Means(Sense, heap[p + o], o \in OffsetsIn(Structs, heap, p))
  <2> SUFFICES ASSUME NEW o \in 0 .. Sizes[p] - 1
               PROVE  Means(Sense', heap'[at[p] + o], o \in OffsetsIn(Structs, heap, p))
                        = Means(Sense, heap[p + o], o \in OffsetsIn(Structs, heap, p))
    OBVIOUS
  <2> DEFINE w   == heap[p + o]
             ref == o \in OffsetsIn(Structs, heap, p)
  <2>1. o \in Nat /\ o < Sizes[p]
    BY <1>5
  <2>2. heap'[at[p] + o] = IF ref THEN mv[w] ELSE w
    BY <2>1 DEF Carried
  <2>3. ref => w \in PlacesNow /\ Containing(w) \subseteq S
    BY <1>1, <1>5 DEF Targets, Well, Holding, FieldsIn
  <2> HIDE DEF w, ref
  <2>4. Means(Sense', IF ref THEN mv[w] ELSE w, ref) = Means(Sense, w, ref)
    BY <2>3, MeansCarried
  <2> QED
    BY <2>2, <2>4 DEF w, ref
<1> DEFINE h == heap'
           s == Sense'
           n == Sizes[p]
           q == at[p]
<1>7. h[q - 2] = heap[p - 2] /\ h[q - 1] = heap[p - 1]
  BY DEF Carried
<1>8. \A o \in 0 .. n - 1 : Means(s, h[q + o], o \in OffsetsIn(Structs, heap, p))
                              = Means(Sense, heap[p + o], o \in OffsetsIn(Structs, heap, p))
  BY <1>6
<1> HIDE DEF h, s, n, q
<1>9. ObjectMeans(s, Structs, h, n, q) = ObjectMeans(Sense, Structs, heap, n, p)
  BY <1>7, <1>8, ObjectFollows
<1> QED
  BY <1>3, <1>4, <1>9 DEF h, s, n, q

\* So are the operands, once the references among them are followed,
FollowedStack(mv, st, st2) ==
    /\ DOMAIN st2 = DOMAIN st
    /\ \A i \in DOMAIN st : st2[i].ref = st[i].ref /\ st2[i].w = IF st[i].ref THEN mv[st[i].w] ELSE st[i].w
\* So do the operands that are roots of the collection,
LEMMA StackCarried ==
    ASSUME Well, Well', NEW S, NEW at, NEW mv, Carried(S, at, mv), NEW st, NEW st2,
           FollowedStack(mv, st, st2), StackIn(PlacesNow, st), Rooted(S, st)
    PROVE  StackMeans(Sense', st2) = StackMeans(Sense, st)
<1>1. \A i \in DOMAIN st : Means(Sense', st2[i].w, st2[i].ref) = Means(Sense, st[i].w, st[i].ref)
  <2> SUFFICES ASSUME NEW i \in DOMAIN st
               PROVE  Means(Sense', st2[i].w, st2[i].ref) = Means(Sense, st[i].w, st[i].ref)
    OBVIOUS
  <2> DEFINE w   == st[i].w
             ref == st[i].ref
  <2>1. ref => w \in PlacesNow
    BY DEF StackIn
  <2>2. ref => w \in RootWords(st)
    BY DEF RootWords, Operands
  <2>3. ref => w \in PlacesNow /\ Containing(w) \subseteq S
    BY <2>1, <2>2 DEF Rooted
  <2>4. st2[i].ref = ref /\ st2[i].w = IF ref THEN mv[w] ELSE w
    BY DEF FollowedStack
  <2> HIDE DEF w, ref
  <2>5. Means(Sense', IF ref THEN mv[w] ELSE w, ref) = Means(Sense, w, ref)
    BY <2>3, MeansCarried
  <2> QED
    BY <2>4, <2>5 DEF w, ref
<1> DEFINE s == Sense'
<1>2. \A i \in DOMAIN st : Means(s, st2[i].w, st2[i].ref) = Means(Sense, st[i].w, st[i].ref)
  BY <1>1
<1> HIDE DEF s
<1>3. StackMeans(s, st2) = StackMeans(Sense, st)
  BY <1>2, StackFollows DEF FollowedStack
<1> QED
  BY <1>3 DEF s

\* and the activations.
FollowedFrames(mv, fs, fs2) ==
    /\ DOMAIN fs2 = DOMAIN fs
    /\ \A i \in DOMAIN fs :
          /\ fs2[i].base = fs[i].base /\ fs2[i].fn = fs[i].fn /\ DOMAIN fs2[i].locals = DOMAIN fs[i].locals
          /\ \A s \in DOMAIN fs[i].locals :
                fs2[i].locals[s] = IF s \in Refs(fs[i].fn) THEN mv[fs[i].locals[s]] ELSE fs[i].locals[s]
\* and the locals of the activations.
LEMMA FramesCarried ==
    ASSUME Well, Well', UNCHANGED program, NEW S, NEW at, NEW mv, Carried(S, at, mv),
           FollowedFrames(mv, frames, frames'), NEW st, Rooted(S, st)
    PROVE  FrameValues' = FrameValues
<1>1. ASSUME NEW i \in DOMAIN frames, NEW x \in DOMAIN frames[i].locals
      PROVE  Means(Sense', frames'[i].locals[x], x \in Refs(frames[i].fn))
               = Means(Sense, frames[i].locals[x], x \in Refs(frames[i].fn))
  <2> DEFINE w   == frames[i].locals[x]
             ref == x \in Refs(frames[i].fn)
  <2>1. ref => w \in PlacesNow
    BY DEF Well, Holding, FramesIn, Refs
  <2>2. ref => w \in RootWords(st)
    BY DEF RootWords, FrameRoots, Activations
  <2>3. ref => w \in PlacesNow /\ Containing(w) \subseteq S
    BY <2>1, <2>2 DEF Rooted
  <2>4. frames'[i].locals[x] = IF ref THEN mv[w] ELSE w
    BY DEF FollowedFrames
  <2> HIDE DEF w, ref
  <2>5. Means(Sense', IF ref THEN mv[w] ELSE w, ref) = Means(Sense, w, ref)
    BY <2>3, MeansCarried
  <2> QED
    BY <2>4, <2>5 DEF w, ref
<1> DEFINE s   == Sense'
           fs2 == frames'
<1>2. \A i \in DOMAIN frames : \A x \in DOMAIN frames[i].locals :
         Means(s, fs2[i].locals[x], x \in Funs[frames[i].fn].refs) = Means(Sense, frames[i].locals[x], x \in Funs[frames[i].fn].refs)
  BY <1>1 DEF Refs
<1>3. /\ DOMAIN fs2 = DOMAIN frames
      /\ \A i \in DOMAIN frames : fs2[i].base = frames[i].base /\ fs2[i].fn = frames[i].fn
                                  /\ DOMAIN fs2[i].locals = DOMAIN frames[i].locals
  BY DEF FollowedFrames
<1>4. FrameValues' = FrameMeans(s, Funs, fs2) /\ FrameValues = FrameMeans(Sense, Funs, frames)
  <2>1. FrameValues' = FrameMeans(Sense', Funs', frames') /\ FrameValues = FrameMeans(Sense, Funs, frames)
    BY DEF Well, Understood
  <2>2. Funs' = Funs
    BY DEF Funs
  <2> QED
    BY <2>1, <2>2
<1> HIDE DEF s, fs2
<1>5. FrameMeans(s, Funs, fs2) = FrameMeans(Sense, Funs, frames)
  BY <1>2, <1>3, FramesFollow
<1> QED
  BY <1>4, <1>5

\* The permanent objects stay where they are.
LEMMA ConstsCarried ==
    ASSUME Well, Well', NEW S, NEW at, NEW mv, Carried(S, at, mv), UNCHANGED <<program, literals, variants>>,
           \A w \in Permanents : mv[w] = w, NEW st, Rooted(S, st)
    PROVE  Consts' = Consts
<1>1. \A w \in Permanents : w \in PlacesNow /\ Containing(w) \subseteq S
  <2>1. Permanents \subseteq PlacesNow
    BY PermanentPlaces DEF Well
  <2> QED
    BY <2>1 DEF Rooted, RootWords
<1>2. \A w \in Permanents \ {Null} : Sense'[w] = Sense[w]
  BY <1>1, SenseCarried
<1> QED
  BY <1>2, ConstsSame

\* A collection carries the survivors,
At(S) == [p \in S |-> Forward(S, p)]
Mv(S) == [w \in Word |-> Moved(S, w)]
\* A slide (_gc) carries the survivors' words along.
LEMMA CollectionCarries ==
    ASSUME IInv, UNCHANGED program, NEW S, S \subseteq Blocks,
           \A a \in 0 .. HeapWords - 1 : a < CollectedTop(S) => heap'[a] = CollectedHeap(S)[a],
           \A p \in S : Forward(S, p) \in Blocks' /\ ids'[Forward(S, p)] = ids[p]
    PROVE  Carried(S, At(S), Mv(S))
<1>1. program \in Programs /\ HeapInv /\ HeapWords \in Nat /\ heap_ptr \in Nat /\ heap_ptr <= HeapWords
  BY ProgramFacts, BlockFacts DEF IInv
<1>2. CollectedTop(S) \in Nat /\ CollectedTop(S) <= heap_ptr
  BY <1>1, Forwards
<1>3. \A p \in S : /\ p \in Blocks /\ p \in Nat /\ 3 <= p /\ Sizes[p] \in Nat \ {0} /\ Forward(S, p) \in Nat
                   /\ 3 <= Forward(S, p) /\ Forward(S, p) + Sizes[p] <= CollectedTop(S)
  BY <1>1, Forwards, BlockFacts
<1>4. Mv(S)[Null] = Null
  <2>1. Null \in Word
    BY NumbersAre DEF Null
  <2>2. \A p \in S : ~(p <= Null /\ Null < p + Sizes[p])
    BY <1>3 DEF Null
  <2>3. Moved(S, Null) = Null
    BY <1>1, <2>1, <2>2, MovedIs
  <2> QED
    BY <2>1, <2>3 DEF Mv
<1>5. ASSUME NEW p \in S
      PROVE  /\ heap'[Forward(S, p) - 2] = heap[p - 2] /\ heap'[Forward(S, p) - 1] = heap[p - 1]
             /\ \A o \in Nat : o < Sizes[p] =>
                   heap'[Forward(S, p) + o] = IF o \in RefOffsets(p) THEN Moved(S, heap[p + o]) ELSE heap[p + o]
  <2> DEFINE q == Forward(S, p)
             n == Sizes[p]
             h == CollectedHeap(S)
  <2>1. /\ h[q - 2] = heap[p - 2] /\ h[q - 1] = heap[p - 1]
        /\ \A o \in 0 .. n - 1 : h[q + o] = IF o \in RefOffsets(p) THEN Moved(S, heap[p + o]) ELSE heap[p + o]
    BY <1>1, CollectedHeapIs
  <2>2. q \in Nat /\ 3 <= q /\ n \in Nat /\ n # 0 /\ q + n <= CollectedTop(S)
    BY <1>3
  <2>3. \A a \in 0 .. HeapWords - 1 : a < CollectedTop(S) => heap'[a] = h[a]
    OBVIOUS
  <2> HIDE DEF q, n, h
  <2>4. \A a \in Nat : a < CollectedTop(S) => a \in 0 .. HeapWords - 1
    BY <1>1, <1>2
  <2>5. q - 2 \in Nat /\ q - 2 < CollectedTop(S) /\ q - 1 \in Nat /\ q - 1 < CollectedTop(S)
    BY <1>2, <2>2
  <2>6. \A o \in Nat : o < n => q + o \in Nat /\ q + o < CollectedTop(S) /\ o \in 0 .. n - 1
    BY <1>2, <2>2
  <2>7. heap'[q - 2] = heap[p - 2] /\ heap'[q - 1] = heap[p - 1]
    BY <2>1, <2>3, <2>4, <2>5
  <2>8. \A o \in Nat : o < n => heap'[q + o] = IF o \in RefOffsets(p) THEN Moved(S, heap[p + o]) ELSE heap[p + o]
    BY <2>1, <2>3, <2>4, <2>6
  <2> QED
    BY <2>7, <2>8 DEF q, n
<1>6. ASSUME NEW p \in S PROVE Sizes'[Forward(S, p)] = Sizes[p]
  <2>1. Structs' = Structs /\ Forward(S, p) \in Blocks'
    BY DEF Structs
  <2> DEFINE q == Forward(S, p)
  <2>2. heap'[q - 2] = heap[p - 2] /\ heap'[q - 1] = heap[p - 1]
    BY <1>5
  <2>3. Sizes' = SizesIn(Structs, heap', Blocks')
    BY <2>1 DEF Sizes
  <2> HIDE DEF q
  <2>4. q \in Blocks' => Sizes'[q] = WordsFor(Structs, heap'[q - 2], heap'[q - 1])
    BY <2>3 DEF SizesIn
  <2>5. Sizes[p] = WordsFor(Structs, heap[p - 2], heap[p - 1])
    BY <1>3 DEF Sizes, SizesIn
  <2>6. Sizes'[q] = Sizes[p]
    BY <2>1, <2>2, <2>4, <2>5 DEF q
  <2> QED
    BY <2>6 DEF q
<1>7. ASSUME NEW p \in S, NEW o \in Nat, o < Sizes[p]
      PROVE  /\ Mv(S)[p + o] = At(S)[p] + o
             /\ heap'[At(S)[p] + o] = IF o \in OffsetsIn(Structs, heap, p) THEN Mv(S)[heap[p + o]] ELSE heap[p + o]
  <2>1. p + o \in Word /\ heap[p + o] \in Word
    <3>1. p + o <= heap_ptr /\ p + o \in Nat
      <4>1. p \in Nat /\ Sizes[p] \in Nat /\ p + Sizes[p] <= heap_ptr
        BY <1>1, <1>3, BlockFacts
      <4> QED
        BY <1>1, <1>7, <4>1
    <3>2. HeapWords <= 32768
      BY <1>1, ProgramFacts
    <3>3. p + o \in Word
      BY <1>1, <3>1, <3>2, WordNat
    <3>4. heap[p + o] \in Word
      BY <1>3, <1>7, InBlock
    <3> QED
      BY <3>3, <3>4
  <2>2. Moved(S, p + o) = Forward(S, p) + o
    <3>1. p \in Nat /\ Sizes[p] \in Nat /\ p <= p + o /\ p + o < p + Sizes[p] /\ (p + o) - p = o
      BY <1>3, <1>7
    <3>2. Moved(S, p + o) = Forward(S, p) + ((p + o) - p)
      BY <1>1, <2>1, <3>1, MovedIs
    <3> QED
      BY <3>1, <3>2
  <2>3. Mv(S)[p + o] = Moved(S, p + o) /\ Mv(S)[heap[p + o]] = Moved(S, heap[p + o]) /\ At(S)[p] = Forward(S, p)
    BY <2>1 DEF Mv, At
  <2>4. RefOffsets(p) = OffsetsIn(Structs, heap, p)
    BY <1>1, InTermsOfBlocks
  <2> QED
    BY <1>5, <1>7, <2>2, <2>3, <2>4
<1>8. \A p \in S : At(S)[p] = Forward(S, p)
  BY DEF At
<1> HIDE DEF At, Mv
<1> QED
  BY <1>4, <1>5, <1>6, <1>7, <1>8 DEF Carried

\* and follows every reference there is.
LEMMA CollectionFollows ==
    ASSUME IInv, NEW S, S \subseteq Blocks, NEW st, OperandsOf(st)
    PROVE  FollowedStack(Mv(S), st, CollectedStack(S, st)) /\ FollowedFrames(Mv(S), frames, CollectedFrames(S))
<1>1. \A i \in DOMAIN st : st[i] \in TaggedWords
  BY DEF OperandsOf
<1>2. FollowedStack(Mv(S), st, CollectedStack(S, st))
  <2>1. ASSUME NEW i \in DOMAIN st
        PROVE  /\ CollectedStack(S, st)[i].ref = st[i].ref
               /\ CollectedStack(S, st)[i].w = IF st[i].ref THEN Mv(S)[st[i].w] ELSE st[i].w
    <3>1. st[i].w \in Word /\ st[i] = [w |-> st[i].w, ref |-> st[i].ref]
      BY <1>1 DEF TaggedWords
    <3>2. CollectedStack(S, st)[i] = IF st[i].ref THEN [st[i] EXCEPT !.w = Moved(S, @)] ELSE st[i]
      BY DEF CollectedStack
    <3>3. [st[i] EXCEPT !.w = Moved(S, @)] = [w |-> Moved(S, st[i].w), ref |-> st[i].ref]
      BY <3>1
    <3>4. Mv(S)[st[i].w] = Moved(S, st[i].w)
      BY <3>1 DEF Mv
    <3> QED
      BY <3>2, <3>3, <3>4
  <2>2. DOMAIN CollectedStack(S, st) = DOMAIN st
    BY DEF CollectedStack
  <2> HIDE DEF Mv
  <2> QED
    BY <2>1, <2>2 DEF FollowedStack
<1>3. FollowedFrames(Mv(S), frames, CollectedFrames(S))
  <2>1. ASSUME NEW i \in DOMAIN frames
        PROVE  LET a == frames[i]
                   b == CollectedFrames(S)[i]
               IN  /\ b.base = a.base /\ b.fn = a.fn /\ DOMAIN b.locals = DOMAIN a.locals
                   /\ \A x \in DOMAIN a.locals :
                         b.locals[x] = IF x \in Refs(a.fn) THEN Mv(S)[a.locals[x]] ELSE a.locals[x]
    <3> DEFINE a == frames[i]
               b == CollectedFrames(S)[i]
               L == [x \in DOMAIN a.locals |-> IF x \in Refs(a.fn) THEN Moved(S, a.locals[x]) ELSE a.locals[x]]
    <3>1. a \in FramesOf(Funs)
      BY DEF IInv, FramesInv
    <3>2. a = [fn |-> a.fn, locals |-> a.locals, base |-> a.base] /\ a.locals \in [1 .. Funs[a.fn].locals -> Word]
      BY <3>1, FrameIs
    <3>3. b = [a EXCEPT !.locals = L]
      BY DEF CollectedFrames
    <3>4. b = [fn |-> a.fn, locals |-> L, base |-> a.base]
      <4> HIDE DEF a, L, b
      <4> QED
        BY <3>2, <3>3
    <3>5. \A x \in DOMAIN a.locals : a.locals[x] \in Word /\ Mv(S)[a.locals[x]] = Moved(S, a.locals[x])
      BY <3>2 DEF Mv
    <3>6. b.locals = L /\ b.fn = a.fn /\ b.base = a.base
      <4> HIDE DEF a, L, b
      <4> QED
        BY <3>4
    <3>7. \A x \in DOMAIN a.locals : L[x] = IF x \in Refs(a.fn) THEN Mv(S)[a.locals[x]] ELSE a.locals[x]
      BY <3>5
    <3>8. DOMAIN L = DOMAIN a.locals
      OBVIOUS
    <3> HIDE DEF a, b, L
    <3>9. /\ b.base = a.base /\ b.fn = a.fn /\ DOMAIN b.locals = DOMAIN a.locals
          /\ \A x \in DOMAIN a.locals : b.locals[x] = IF x \in Refs(a.fn) THEN Mv(S)[a.locals[x]] ELSE a.locals[x]
      BY <3>6, <3>7, <3>8
    <3> QED
      BY <3>9 DEF a, b
  <2>2. DOMAIN CollectedFrames(S) = DOMAIN frames
    BY DEF CollectedFrames
  <2> HIDE DEF Mv
  <2> QED
    BY <2>1, <2>2 DEF FollowedFrames
<1> QED
  BY <1>2, <1>3

\* An allocation that needs no collection carries every block where it is.
Same(B) == [p \in B |-> p]
\* An allocation that need not collect carries everything, in place.
LEMMA GrowthCarries ==
    ASSUME IInv, UNCHANGED program,
           \A a \in 0 .. HeapWords - 1 : a < heap_ptr => heap'[a] = heap[a],
           \A p \in Blocks : p \in Blocks' /\ ids'[p] = ids[p]
    PROVE  Carried(Blocks, Same(Blocks), Same(Word))
<1>1. program \in Programs /\ HeapInv /\ HeapWords \in Nat /\ heap_ptr \in Nat /\ heap_ptr <= HeapWords /\ HeapWords <= 32768
  BY ProgramFacts, BlockFacts DEF IInv
<1>2. \A p \in Blocks : p \in Nat /\ 3 <= p /\ Sizes[p] \in Nat \ {0} /\ p + Sizes[p] <= heap_ptr
  BY <1>1, BlockFacts
<1>3. Same(Word)[Null] = Null
  BY NumbersAre DEF Same, Null
<1>4. \A a \in Nat : a < heap_ptr => a \in 0 .. HeapWords - 1
  BY <1>1
<1>5. \A p \in Blocks : heap'[p - 2] = heap[p - 2] /\ heap'[p - 1] = heap[p - 1]
  <2>1. \A p \in Blocks : p - 2 \in Nat /\ p - 2 < heap_ptr /\ p - 1 \in Nat /\ p - 1 < heap_ptr
    BY <1>1, <1>2
  <2> QED
    BY <1>4, <2>1
<1>6. \A p \in Blocks : Sizes'[p] = Sizes[p]
  <2>1. Structs' = Structs
    BY DEF Structs
  <2>2. Sizes' = SizesIn(Structs, heap', Blocks')
    BY <2>1 DEF Sizes
  <2> QED
    BY <1>5, <2>2 DEF Sizes, SizesIn
<1>7. \A p \in Blocks : Same(Blocks)[p] = p
  BY DEF Same
<1>8. ASSUME NEW p \in Blocks, NEW o \in Nat, o < Sizes[p]
      PROVE  /\ Same(Word)[p + o] = p + o /\ Same(Word)[heap[p + o]] = heap[p + o]
             /\ heap'[p + o] = heap[p + o]
  <2>1. p + o \in Nat /\ p + o < heap_ptr
    BY <1>1, <1>2, <1>8
  <2>2. p + o \in Word
    BY <1>1, <2>1, WordNat
  <2>3. heap[p + o] \in Word
    BY <1>8, InBlock
  <2> QED
    BY <1>4, <2>1, <2>2, <2>3 DEF Same
<1> DEFINE at == Same(Blocks)
           mv == Same(Word)
<1>9. /\ mv[Null] = Null /\ (\A p \in Blocks : at[p] = p)
      /\ \A p \in Blocks : \A o \in Nat : o < Sizes[p] =>
            mv[p + o] = p + o /\ mv[heap[p + o]] = heap[p + o] /\ heap'[p + o] = heap[p + o]
  BY <1>3, <1>7, <1>8
<1> HIDE DEF at, mv
<1>10. Carried(Blocks, at, mv)
  BY <1>5, <1>6, <1>9 DEF Carried
<1> QED
  BY <1>10 DEF at, mv

-----------------------------------------------------------------------------
(* Collections.                                                            *)

\* Whatever else it does, a step that collects changes no value the program holds.
LEMMA CollectionMeans ==
    ASSUME Well, Well', UNCHANGED program, NEW st, OperandsOf(st), StackIn(PlacesNow, st),
           NEW S, S = Marked(st), CollectRoots(S),
           \A a \in 0 .. HeapWords - 1 : a < CollectedTop(S) => heap'[a] = CollectedHeap(S)[a],
           \A p \in S : Forward(S, p) \in Blocks' /\ ids'[Forward(S, p)] = ids[p]
    PROVE  /\ S \subseteq Blocks /\ Shut(S) /\ Rooted(S, st)
           /\ StackMeans(Sense', CollectedStack(S, st)) = StackMeans(Sense, st)
           /\ FrameValues' = FrameValues /\ Consts' = Consts
           /\ \A p \in S : ids[p] \in DOMAIN Objects' /\ Objects'[ids[p]] = Objects[ids[p]]
<1>1. IInv /\ program \in Programs /\ HeapInv /\ PermanentInv
  BY DEF Well, IInv
<1>2. S \subseteq Blocks /\ Shut(S) /\ Rooted(S, st)
  BY <1>1, ShutSets DEF Shut
<1> DEFINE at == At(S)
           mv == Mv(S)
<1>3. Carried(S, at, mv)
  BY <1>1, <1>2, CollectionCarries
<1>4. FollowedStack(mv, st, CollectedStack(S, st)) /\ FollowedFrames(mv, frames, frames')
  <2>1. frames' = CollectedFrames(S)
    BY DEF CollectRoots
  <2> QED
    BY <1>1, <1>2, <2>1, CollectionFollows
<1>5. Permanents \cap Blocks \subseteq S
  BY <1>1, PermanentsMarked
<1>6. UNCHANGED <<program, literals, variants>>
  BY <1>1, <1>2, <1>5, RootsKept
<1>7. \A w \in Permanents : mv[w] = w
  <2>1. \A w \in Permanents : Moved(S, w) = w
    BY <1>1, <1>2, <1>5, PermanentsStill
  <2>2. \A w \in Permanents : w \in Word
    BY <1>1, RootsAreWords DEF RootWords
  <2> QED
    BY <2>1, <2>2 DEF Mv
<1> HIDE DEF at, mv
<1> DEFINE st2 == CollectedStack(S, st)
<1>8. FollowedStack(mv, st, st2)
  BY <1>4
<1> HIDE DEF st2
<1>9. StackMeans(Sense', st2) = StackMeans(Sense, st)
  BY <1>2, <1>3, <1>8, StackCarried
<1>10. FrameValues' = FrameValues
  BY <1>2, <1>3, <1>4, FramesCarried
<1>11. Consts' = Consts
  BY <1>2, <1>3, <1>6, <1>7, ConstsCarried
<1>12. \A p \in S : ids[p] \in DOMAIN Objects' /\ Objects'[ids[p]] = Objects[ids[p]]
  BY <1>2, <1>3, ObjectCarried
<1> QED
  BY <1>2, <1>9, <1>10, <1>11, <1>12 DEF st2

\* When it is all that happens, the marked objects are what is left.
LEMMA CollectedMeans ==
    ASSUME Well, Well', UNCHANGED program, NEW st, OperandsOf(st), StackIn(PlacesNow, st),
           Collected(Marked(st), st)
    PROVE  /\ StackValues' = StackMeans(Sense, st) /\ FrameValues' = FrameValues /\ Consts' = Consts
           /\ Managed!Keeps(Objects', StackMeans(Sense, st))
<1> DEFINE S == Marked(st)
<1>1. program \in Programs /\ HeapInv /\ Distinct /\ S \subseteq Blocks
  BY ShutSets DEF Well, IInv, Shut
<1>2. /\ CollectRoots(S) /\ heap' = CollectedHeap(S) /\ ids' = CollectedIds(S) /\ stack' = CollectedStack(S, st)
  BY DEF Collected
<1> HIDE DEF S
<1>3. Blocks' = {Forward(S, p) : p \in S} /\ \A p \in S : ids'[Forward(S, p)] = ids[p]
  <2> DEFINE known == CollectedIds(S)
  <2>1. DOMAIN known = {Forward(S, p) : p \in S} /\ \A p \in S : known[Forward(S, p)] = ids[p]
    <3> HIDE DEF known
    <3>1. known = CollectedIds(S)
      BY DEF known
    <3> QED
      BY <1>1, <3>1, CollectedIdsAre
  <2> QED
    BY <1>2, <2>1 DEF Blocks
<1>4. /\ Shut(S) /\ Rooted(S, st)
      /\ StackMeans(Sense', CollectedStack(S, st)) = StackMeans(Sense, st)
      /\ FrameValues' = FrameValues /\ Consts' = Consts
      /\ \A p \in S : ids[p] \in DOMAIN Objects' /\ Objects'[ids[p]] = Objects[ids[p]]
  <2>1. S = Marked(st)
    BY DEF S
  <2>2. \A a \in 0 .. HeapWords - 1 : a < CollectedTop(S) => heap'[a] = CollectedHeap(S)[a]
    BY <1>2
  <2>3. \A p \in S : Forward(S, p) \in Blocks' /\ ids'[Forward(S, p)] = ids[p]
    BY <1>3
  <2> QED
    BY <1>2, <2>1, <2>2, <2>3, CollectionMeans
<1>5. DOMAIN Objects' = IdsOf(S)
  <2>1. DOMAIN Objects' = {ids'[q] : q \in Blocks'}
    BY DEF Well, Understood, ObjectsAre
  <2> QED
    BY <1>3, <2>1 DEF IdsOf
<1>6. Managed!Keeps(Objects', StackMeans(Sense, st))
  <2> DEFINE all == Objects'
  <2>1. DOMAIN all = IdsOf(S) /\ \A p \in S : all[ids[p]] = Objects[ids[p]]
    BY <1>4, <1>5
  <2> HIDE DEF all
  <2>2. Managed!Keeps(all, StackMeans(Sense, st))
    BY <1>4, <2>1, KeepsShut
  <2> QED
    BY <2>2 DEF all
<1>7. StackValues' = StackMeans(Sense', stack')
  BY DEF Well, Understood
<1> QED
  BY <1>2, <1>4, <1>6, <1>7

\* A collection on its own forgets some objects, and that is all.
LEMMA GcRefines ==
    ASSUME Well, Well', Gc
    PROVE  Managed!Instruction
<1>1. Collected(Marked(stack), stack) /\ UNCHANGED <<program, status>>
  BY DEF Gc
<1>2. OperandsOf(stack) /\ StackIn(PlacesNow, stack) /\ StackValues = StackMeans(Sense, stack)
  BY Standing DEF Well, Holding, Understood
<1>3. /\ StackValues' = StackValues /\ FrameValues' = FrameValues /\ Consts' = Consts
      /\ Managed!Keeps(Objects', StackValues)
  BY <1>1, <1>2, CollectedMeans
<1> QED
  BY <1>1, <1>3 DEF Managed!Instruction, Managed!Forget

\* What an instruction that allocates finds on the stack when it has taken its
\* operands.
LEMMA OperandsTaken ==
    ASSUME Well, NEW k \in {0, 2}, Has(k), NEW st, st = Drop(stack, k)
    PROVE  /\ OperandsOf(st) /\ StackIn(PlacesNow, st) /\ st \in Seq(TaggedWords) /\ Len(StackValues) >= k
           /\ StackMeans(Sense, st) = Drop(StackValues, k) /\ Len(StackMeans(Sense, st)) = Len(StackValues) - k
           /\ StackMeans(Sense, st) \in Seq(ValueSet)
<1>1. /\ IInv /\ Holding /\ StackValues = StackMeans(Sense, stack) /\ Sense \in [Word -> ValueSet]
      /\ stack \in Seq(TaggedWords) /\ Len(StackValues) = Len(stack) /\ Len(stack) \in Nat
  BY WellTypes
<1>2. k \in Nat
  OBVIOUS
<1>3. st \in Seq(TaggedWords) /\ Len(st) = Len(stack) - k /\ k <= Len(stack) /\ OperandsOf(st)
  BY <1>1, <1>2, Taken
<1>4. StackIn(PlacesNow, st)
  BY <1>1, <1>2, TakenHolds
<1>5. StackMeans(Sense, st) = Drop(StackValues, k)
  BY <1>1, <1>2, <1>3, DropMeans
<1>6. StackMeans(Sense, st) \in Seq(ValueSet) /\ Len(StackMeans(Sense, st)) = Len(st)
  BY <1>1, <1>3, StackMeansType
<1> QED
  BY <1>1, <1>2, <1>3, <1>4, <1>5, <1>6

\* An allocation that fails twice has collected, and is a fault.
LEMMA NeverRefines ==
    ASSUME Well, Well', NEW k \in {0, 2}, Has(k), NEW st, st = Drop(stack, k), NEW kind, NEW detail,
           ReserveNever(st, kind, detail)
    PROVE  Managed!Instruction
<1>1. Collected(Marked(st), st) /\ status' = "faulted" /\ UNCHANGED program
  BY DEF ReserveNever
<1>2. /\ OperandsOf(st) /\ StackIn(PlacesNow, st) /\ StackMeans(Sense, st) = Drop(StackValues, k)
      /\ Len(StackValues) >= k
  BY OperandsTaken
<1>3. /\ StackValues' = StackMeans(Sense, st) /\ FrameValues' = FrameValues /\ Consts' = Consts
      /\ Managed!Keeps(Objects', StackMeans(Sense, st))
  BY <1>1, <1>2, CollectedMeans
<1>4. Managed!Fail(k)
  BY <1>1, <1>2, <1>3, DropsAgree DEF Managed!Fail
<1> QED
  BY <1>4 DEF Managed!Instruction

-----------------------------------------------------------------------------
(* New objects.                                                            *)

\* Only a string is filled with anything but zeros.
Fills(kind, fill) == fill = 0 \/ (fill = 1 /\ kind = String)

\* Blocks have places and sizes, also after a step.
LEMMA SizesNat == IInv => \A p \in Blocks : p \in Nat /\ Sizes[p] \in Nat \ {0}
BY BlockFacts DEF IInv
\* Sizes are positive after a step as well.
LEMMA SizesNatNext == IInv' => \A p \in Blocks' : p \in Nat /\ Sizes'[p] \in Nat \ {0}
<1>1. (IInv => \A p \in Blocks : p \in Nat /\ Sizes[p] \in Nat \ {0})'
  BY SizesNat, PTL
<1> QED
  BY <1>1

\* The object at a block that was just written has no reference in it.
LEMMA FreshObject ==
    ASSUME Well', UNCHANGED program, NEW q \in Blocks', NEW kind, NEW detail, NEW fill, Fills(kind, fill),
           heap'[q - 2] = kind, heap'[q - 1] = detail,
           \A o \in Nat : o < Words(kind, detail) => heap'[q + o] = fill
    PROVE  ids'[q] \in DOMAIN Objects' /\ Managed!Fresh(Objects'[ids'[q]])
<1>1. ObjectsAre' /\ SenseIs' /\ Structs' = Structs
  BY DEF Well, Understood, Structs
<1> DEFINE n == Sizes'[q]
           h == heap'
           s == Sense'
           X == Objects'[ids'[q]]
<1>2. n = Words(kind, detail)
  <2>1. Sizes' = SizesIn(Structs, heap', Blocks')
    BY <1>1 DEF Sizes
  <2>2. n = WordsFor(Structs, heap'[q - 2], heap'[q - 1])
    BY <2>1 DEF SizesIn
  <2>3. Words(kind, detail) = WordsFor(Structs, kind, detail)
    BY WordsAre
  <2> QED
    BY <2>2, <2>3
<1>3. n \in Nat
  BY SizesNatNext DEF Well
<1>4. ids'[q] \in DOMAIN Objects' /\ X = ObjectMeans(s, Structs, h, n, q)
  BY <1>1 DEF ObjectsAre
<1>5. h[q - 2] = kind /\ h[q - 1] = detail /\ \A o \in Nat : o < n => h[q + o] = fill
  BY <1>2
<1>6. s[Null] = IntValue(0)
  BY <1>1 DEF SenseIs
<1> HIDE DEF n, h, s, X
<1>7. X.kind = kind /\ X.words = WordsMean(s, Structs, h, n, q)
  BY <1>4, <1>5 DEF ObjectMeans
<1>8. ASSUME NEW o \in 0 .. n - 1
      PROVE  Means(s, h[q + o], o \in OffsetsIn(Structs, h, q)) = IntValue(fill)
  <2>1. h[q + o] = fill
    BY <1>3, <1>5
  <2>2. CASE fill = 0
    BY <1>6, <2>1, <2>2 DEF Means, Null
  <2>3. CASE kind = String
    <3>1. String # Struct /\ String # RefArray
      BY DEF String, Struct, RefArray
    <3>2. OffsetsIn(Structs, h, q) = {}
      BY <1>5, <2>3, <3>1 DEF OffsetsIn
    <3> QED
      BY <2>1, <3>2 DEF Means
  <2> QED
    BY <2>2, <2>3 DEF Fills
<1>9. DOMAIN X.words = 0 .. n - 1 /\ \A o \in DOMAIN X.words : X.words[o] = IntValue(fill)
  BY <1>7, <1>8 DEF WordsMean
<1>10. ~Managed!IsRef(IntValue(fill)) /\ (kind # String => IntValue(fill) = Managed!Int(0))
  BY DEF Fills, IntValue, Managed!IsRef, Managed!Int
<1>11. Managed!Fresh(X)
  BY <1>7, <1>9, <1>10 DEF Managed!Fresh
<1> QED
  BY <1>4, <1>11 DEF X

\* A fresh object beside the ones that are kept.
Wrote(q, kind, detail, fill) ==
    /\ heap'[q - 2] = kind /\ heap'[q - 1] = detail
    /\ \A o \in Nat : o < Words(kind, detail) => heap'[q + o] = fill
Adds(S, q) ==
    /\ q \in Blocks' /\ {ids'[b] : b \in Blocks'} = IdsOf(S) \cup {ids'[q]}
    /\ ids'[q] \notin IdsOf(S)
KeepsObjects(S) == \A p \in S : Objects'[ids[p]] = Objects[ids[p]]
\* A block added to what is kept is an object that was not there, with fresh fields.
LEMMA NewObject ==
    ASSUME Well, Well', UNCHANGED program, NEW S, Shut(S), NEW st, Rooted(S, st), StackIn(PlacesNow, st),
           NEW q, Adds(S, q), NEW kind, NEW detail, NEW fill, Fills(kind, fill), Wrote(q, kind, detail, fill),
           KeepsObjects(S)
    PROVE  Managed!Extends(Objects', ids'[q], StackMeans(Sense, st)) /\ ids'[q] \in 1 .. MaxWords
<1>0. /\ q \in Blocks' /\ {ids'[b] : b \in Blocks'} = IdsOf(S) \cup {ids'[q]} /\ ids'[q] \notin IdsOf(S)
      /\ \A p \in S : Objects'[ids[p]] = Objects[ids[p]]
  BY DEF Adds, KeepsObjects
<1>1. ids'[q] \in DOMAIN Objects' /\ Managed!Fresh(Objects'[ids'[q]])
  BY <1>0, FreshObject DEF Wrote
<1> DEFINE all == Objects'
           i   == ids'[q]
           old == [j \in DOMAIN all \ {i} |-> all[j]]
<1>2. DOMAIN all = IdsOf(S) \cup {i}
  BY <1>0 DEF Well, Understood, ObjectsAre
<1>3. DOMAIN old = IdsOf(S) /\ \A p \in S : old[ids[p]] = Objects[ids[p]]
  <2>1. DOMAIN old = IdsOf(S)
    BY <1>0, <1>2
  <2>2. \A p \in S : ids[p] \in IdsOf(S) /\ all[ids[p]] = Objects[ids[p]]
    BY <1>0 DEF IdsOf
  <2>3. i \notin IdsOf(S)
    BY <1>0
  <2> HIDE DEF all, i
  <2> QED
    BY <1>2, <2>1, <2>2, <2>3
<1> HIDE DEF old
<1>4. Managed!Keeps(old, StackMeans(Sense, st))
  BY <1>3, KeepsShut
<1>5. Managed!Extends(Objects', ids'[q], StackMeans(Sense, st))
  <2>1. Managed!Keeps([j \in DOMAIN all \ {i} |-> all[j]], StackMeans(Sense, st))
    BY <1>4 DEF old
  <2> HIDE DEF all, i
  <2>2. i \in DOMAIN all /\ Managed!Fresh(all[i])
    BY <1>1 DEF all, i
  <2>3. Managed!Extends(all, i, StackMeans(Sense, st))
    BY <2>1, <2>2 DEF Managed!Extends
  <2> QED
    BY <2>3 DEF all, i
<1>6. ids'[q] \in 1 .. MaxWords
  <2>1. HeapWords \in Nat /\ HeapWords <= MaxWords /\ HeapWords' = HeapWords /\ MaxWords \in Nat
    <3>1. WellMade(program) /\ HeapWords \in Nat
      BY ProgramFacts DEF Well, IInv
    <3> QED
      BY <3>1, MaxWordsNat DEF WellMade, HeapWords
  <2>2. ids'[q] \in 1 .. HeapWords
    BY <1>0, <2>1 DEF Well, Distinct
  <2> QED
    BY <2>1, <2>2
<1> QED
  BY <1>5, <1>6

\* A reference to it goes on the stack.
LEMMA NewRefines ==
    ASSUME Well, Well', UNCHANGED <<program, status>>, NEW k \in {0, 2}, Has(k), NEW st, st = Drop(stack, k),
           NEW st2 \in Seq(TaggedWords), StackMeans(Sense', st2) = StackMeans(Sense, st),
           NEW q \in Blocks', q \in Word, stack' = Append(st2, New(q)),
           FrameValues' = FrameValues, Consts' = Consts,
           Managed!Extends(Objects', ids'[q], StackMeans(Sense, st)), ids'[q] \in 1 .. MaxWords
    PROVE  Managed!Instruction
<1>1. /\ StackMeans(Sense, st) = Drop(StackValues, k) /\ StackMeans(Sense, st) \in Seq(ValueSet)
      /\ Len(StackMeans(Sense, st)) = Len(StackValues) - k /\ Len(StackValues) >= k
  BY OperandsTaken
<1> DEFINE s  == Sense'
           v  == [obj |-> ids'[q], n |-> 0]
           vs == Drop(StackValues, k)
<1>2. StackValues' = StackMeans(s, Append(st2, New(q))) /\ s \in [Word -> ValueSet]
  BY DEF Well, Understood, SenseIs
<1>3. New(q) \in TaggedWords /\ New(q).w = q /\ New(q).ref = TRUE
  BY DEF New, TaggedWords
<1>4. Means(s, q, TRUE) = v
  <2>1. SenseIs' /\ IInv'
    BY DEF Well, Understood
  <2>2. q \in Nat /\ Sizes'[q] \in Nat \ {0}
    BY <2>1, SizesNatNext
  <2>3. 0 < Sizes'[q] /\ q + 0 = q
    BY <2>2
  <2>4. Sense'[q + 0] = [obj |-> ids'[q], n |-> 0]
    BY <2>1, <2>3 DEF SenseIs
  <2> QED
    BY <2>3, <2>4 DEF Means
<1>5. StackMeans(s, st2) = vs
  BY <1>1
<1> HIDE DEF s, v, vs
<1>6. StackValues' = Append(vs, v) /\ v \in ValueSet
  BY <1>2, <1>3, <1>4, <1>5, AppendMeans
<1>7. vs \in Seq(ValueSet) /\ Len(vs) = Len(StackValues) - k
  BY <1>1 DEF vs
<1>8. /\ Managed!Top(StackValues') = v /\ Managed!Drop(StackValues', 1) = vs
      /\ Len(StackValues') = Len(StackValues) - k + 1
  BY <1>6, <1>7, LastOne
<1>9. Managed!New(k)
  <2> DEFINE i == ids'[q]
  <2>1. Managed!Extends(Objects', i, Drop(StackValues, k)) /\ i \in 1 .. MaxWords
    BY <1>1
  <2>2. Managed!Top(StackValues') = [obj |-> i, n |-> 0]
    BY <1>8 DEF v
  <2>3. UNCHANGED <<FrameValues, Consts, status>>
    OBVIOUS
  <2> HIDE DEF i
  <2> QED
    BY <1>1, <1>8, <2>1, <2>2, <2>3, DropsAgree DEF Managed!New, vs
<1>10. k \in 0 .. 2
  OBVIOUS
<1> QED
  BY <1>9, <1>10 DEF Managed!Instruction

\* What a new block says, from where it begins.
LEMMA PlacedSays ==
    ASSUME program \in Programs, NEW h \in [0 .. HeapWords - 1 -> Word], NEW top \in Nat,
           NEW kind, NEW detail, NEW fill, Allocates(kind, detail, fill), Fits(top, Words(kind, detail)),
           NEW q, q = top + Header, NEW h2, h2 = Placed(h, top, kind, detail, fill)
    PROVE  /\ h2[q - 2] = kind /\ h2[q - 1] = detail /\ q \in Word
           /\ \A o \in Nat : o < Words(kind, detail) => h2[q + o] = fill
           /\ \A a \in 0 .. HeapWords - 1 : a < top => h2[a] = h[a]
<1> DEFINE m == Words(kind, detail)
<1>1. m \in Nat /\ top + Header \in Word /\ HeapWords \in Nat
  BY HeaderFits, ProgramFacts
<1>2. top + 2 + m <= HeapWords
  BY DEF Fits, Header
<1> HIDE DEF m
<1>3. m = Words(kind, detail) /\ DOMAIN h = 0 .. HeapWords - 1
  BY DEF m
<1>4. Topped(HeapWords, h, h2, top, kind, detail, m, fill)
  BY <1>1, <1>2, <1>3, PlacedIs
<1>5. q - 2 = top /\ q - 1 = top + 1 /\ \A o \in Nat : q + o = top + 2 + o
  BY DEF Header
<1> QED
  BY <1>1, <1>3, <1>4, <1>5 DEF Topped

\* The identities there are, with one more.
LEMMA NamesGrow ==
    ASSUME NEW S, NEW known, {known[x] : x \in DOMAIN known} = IdsOf(S), NEW q, NEW after, Joins(known, q, after)
    PROVE  /\ {after[b] : b \in DOMAIN after} = IdsOf(S) \cup {after[q]}
           /\ after[q] \notin IdsOf(S) /\ q \in DOMAIN after
           /\ \A x \in DOMAIN known : x \in DOMAIN after /\ after[x] = known[x]
BY DEF Joins

\* A block added above the others changes no value the program holds, and is a
\* fresh object.
LEMMA GrowthMeans ==
    ASSUME Well, Well', UNCHANGED <<program, frames>>, NEW st, OperandsOf(st), StackIn(PlacesNow, st),
           NEW kind, NEW detail, NEW fill, Allocates(kind, detail, fill), Fills(kind, fill),
           Constant(kind, detail, fill), NEW q, q = heap_ptr + Header
    PROVE  /\ q \in Blocks' /\ q \in Word /\ \A w \in PlacesNow : Sense'[w] = Sense[w]
           /\ StackMeans(Sense', st) = StackMeans(Sense, st) /\ FrameValues' = FrameValues
           /\ Managed!Extends(Objects', ids'[q], StackMeans(Sense, st)) /\ ids'[q] \in 1 .. MaxWords
<1>1. /\ Fits(heap_ptr, Words(kind, detail)) /\ heap' = Placed(heap, heap_ptr, kind, detail, fill)
      /\ ids' = Named(ids, q)
  BY DEF Constant
<1>3. /\ IInv /\ program \in Programs /\ HeapInv /\ DistinctIn(ids, HeapWords) /\ HeapWords \in Nat /\ heap_ptr \in Nat
      /\ heap \in [0 .. HeapWords - 1 -> Word] /\ Laid(HeapWords, Structs, heap, Blocks, heap_ptr) /\ DOMAIN ids = Blocks
  BY ProgramFacts, BlockFacts, DistinctIs DEF Well, IInv, HeapInv, Laid, Blocks
<1>4. /\ heap'[q - 2] = kind /\ heap'[q - 1] = detail /\ q \in Word
      /\ \A o \in Nat : o < Words(kind, detail) => heap'[q + o] = fill
      /\ \A a \in 0 .. HeapWords - 1 : a < heap_ptr => heap'[a] = heap[a]
  <2> DEFINE h2 == heap'
  <2>1. h2 = Placed(heap, heap_ptr, kind, detail, fill)
    BY <1>1
  <2> HIDE DEF h2
  <2>2. /\ h2[q - 2] = kind /\ h2[q - 1] = detail /\ q \in Word
        /\ \A o \in Nat : o < Words(kind, detail) => h2[q + o] = fill
        /\ \A a \in 0 .. HeapWords - 1 : a < heap_ptr => h2[a] = heap[a]
    BY <1>1, <1>3, <2>1, PlacedSays
  <2> QED
    BY <2>2 DEF h2
<1>5. /\ {ids'[b] : b \in Blocks'} = IdsOf(Blocks) \cup {ids'[q]} /\ ids'[q] \notin IdsOf(Blocks) /\ q \in Blocks'
      /\ \A p \in Blocks : p \in Blocks' /\ ids'[p] = ids[p]
  <2> DEFINE after == ids'
  <2>1. after = Named(ids, q) /\ DOMAIN after = Blocks'
    BY <1>1 DEF Blocks
  <2> HIDE DEF after
  <2>2. Joins(ids, q, after)
    BY <1>3, <2>1, GrownIds
  <2>3. {ids[x] : x \in DOMAIN ids} = IdsOf(Blocks)
    BY <1>3 DEF IdsOf
  <2>4. /\ {after[b] : b \in DOMAIN after} = IdsOf(Blocks) \cup {after[q]}
        /\ after[q] \notin IdsOf(Blocks) /\ q \in DOMAIN after
        /\ \A x \in DOMAIN ids : x \in DOMAIN after /\ after[x] = ids[x]
    BY <2>2, <2>3, NamesGrow
  <2> QED
    BY <1>3, <2>1, <2>4 DEF after
<1> DEFINE at == Same(Blocks)
           mv == Same(Word)
<1>6. Carried(Blocks, at, mv)
  BY <1>3, <1>4, <1>5, GrowthCarries
<1>7. \A w \in Word : mv[w] = w
  BY DEF Same
<1> HIDE DEF at, mv
<1>8. Shut(Blocks) /\ Rooted(Blocks, st) /\ st \in Seq(TaggedWords)
  BY <1>3, ShutSets DEF OperandsOf
<1>9. StackMeans(Sense', st) = StackMeans(Sense, st)
  <2>1. \A i \in DOMAIN st : st[i].w \in Word
    BY <1>8, ArgIs
  <2>2. FollowedStack(mv, st, st)
    BY <1>7, <2>1 DEF FollowedStack
  <2> QED
    BY <1>6, <1>8, <2>2, StackCarried
<1>10. FrameValues' = FrameValues
  <2>1. \A i \in DOMAIN frames : \A x \in Refs(frames[i].fn) : frames[i].locals[x] \in Word
    BY <1>3, FrameHolds
  <2>2. FollowedFrames(mv, frames, frames')
    BY <1>7, <2>1 DEF FollowedFrames
  <2> QED
    BY <1>6, <1>8, <2>2, FramesCarried
<1>11. \A w \in PlacesNow : Sense'[w] = Sense[w]
  <2>1. \A w \in PlacesNow : w \in Word
    <3>1. Null \in Word
      BY NumbersAre DEF Null
    <3> QED
      BY <3>1, PlaceIs
  <2>2. \A w \in PlacesNow : Containing(w) \subseteq Blocks
    BY <1>3, ContainingIs
  <2>3. \A w \in PlacesNow : Sense'[mv[w]] = Sense[w]
    BY <1>6, <2>2, SenseCarried
  <2> QED
    BY <1>7, <2>1, <2>3
<1>12. KeepsObjects(Blocks)
  BY <1>6, <1>8, ObjectCarried DEF KeepsObjects
<1>13. Managed!Extends(Objects', ids'[q], StackMeans(Sense, st)) /\ ids'[q] \in 1 .. MaxWords
  <2>1. Adds(Blocks, q) /\ Wrote(q, kind, detail, fill)
    BY <1>4, <1>5 DEF Adds, Wrote
  <2> QED
    BY <1>8, <1>12, <2>1, NewObject
<1> QED
  BY <1>4, <1>5, <1>9, <1>10, <1>11, <1>13

\* An allocation that fits.
LEMMA NowRefines ==
    ASSUME Well, Well', NEW k \in {0, 2}, Has(k), NEW st, st = Drop(stack, k), NEW kind, NEW detail, NEW fill,
           Allocates(kind, detail, fill), Fills(kind, fill), ReserveNow(st, kind, detail, fill)
    PROVE  Managed!Instruction
<1> DEFINE q == heap_ptr + Header
<1>1. Constant(kind, detail, fill)
  BY DEF ReserveNow, Constant
<1>2. stack' = Append(st, New(q)) /\ UNCHANGED <<program, frames, literals, variants, status>>
  BY DEF ReserveNow
<1>3. q = heap_ptr + Header
  OBVIOUS
<1> HIDE DEF q
<1>4. OperandsOf(st) /\ StackIn(PlacesNow, st) /\ st \in Seq(TaggedWords)
  BY OperandsTaken
<1>5. /\ q \in Blocks' /\ q \in Word /\ \A w \in PlacesNow : Sense'[w] = Sense[w]
      /\ StackMeans(Sense', st) = StackMeans(Sense, st) /\ FrameValues' = FrameValues
      /\ Managed!Extends(Objects', ids'[q], StackMeans(Sense, st)) /\ ids'[q] \in 1 .. MaxWords
  BY <1>1, <1>2, <1>3, <1>4, GrowthMeans
<1>6. Consts' = Consts
  <2>1. \A w \in Permanents \ {Null} : Sense'[w] = Sense[w]
    BY <1>5, PermanentPlaces DEF Well
  <2> QED
    BY <1>2, <2>1, ConstsSame
<1> QED
  BY <1>2, <1>4, <1>5, <1>6, NewRefines

\* An allocation that fits once a collection has made room.
LEMMA LaterRefines ==
    ASSUME Well, Well', NEW k \in {0, 2}, Has(k), NEW st, st = Drop(stack, k), NEW kind, NEW detail, NEW fill,
           Allocates(kind, detail, fill), Fills(kind, fill), ReserveLater(st, kind, detail, fill)
    PROVE  Managed!Instruction
<1> DEFINE S   == Marked(st)
           top == CollectedTop(S)
           q   == top + Header
           old == CollectedHeap(S)
           was == CollectedIds(S)
           st2 == CollectedStack(S, st)
<1>1. /\ Fits(top, Words(kind, detail)) /\ heap' = Placed(old, top, kind, detail, fill)
      /\ stack' = Append(st2, New(q)) /\ ids' = Named(was, q) /\ CollectRoots(S)
      /\ UNCHANGED <<program, status>>
  BY DEF ReserveLater
<1>2. /\ IInv /\ program \in Programs /\ HeapInv /\ Distinct /\ HeapWords \in Nat
  BY ProgramFacts DEF Well, IInv
<1>3. S \subseteq Blocks /\ Shut(S) /\ Rooted(S, st)
  BY <1>2, ShutSets DEF Shut
<1>4. OperandsOf(st) /\ StackIn(PlacesNow, st) /\ st \in Seq(TaggedWords)
  BY OperandsTaken
<1> HIDE DEF S
<1>5. top \in Nat /\ old \in [0 .. HeapWords - 1 -> Word] /\ Laid(HeapWords, Structs, old, {Forward(S, p) : p \in S}, top)
  BY <1>2, <1>3, Forwards, CollectedHeapIs, CollectedLaid
<1>6. /\ DOMAIN was = {Forward(S, p) : p \in S} /\ \A p \in S : was[Forward(S, p)] = ids[p]
      /\ DistinctIn(was, HeapWords)
  <2> HIDE DEF was
  <2>1. was = CollectedIds(S)
    BY DEF was
  <2> QED
    BY <1>2, <1>3, <2>1, CollectedIdsAre
<1> DEFINE B == {Forward(S, p) : p \in S}
<1>7. st2 \in Seq(TaggedWords)
  BY <1>2, <1>3, <1>4, StackMoved
<1>8. q = top + Header /\ old = CollectedHeap(S) /\ st2 = CollectedStack(S, st) /\ top = CollectedTop(S)
  OBVIOUS
<1> HIDE DEF q, old, was, st2, top
<1>9. /\ heap'[q - 2] = kind /\ heap'[q - 1] = detail /\ q \in Word
      /\ \A o \in Nat : o < Words(kind, detail) => heap'[q + o] = fill
      /\ \A a \in 0 .. HeapWords - 1 : a < top => heap'[a] = old[a]
  <2> DEFINE h2 == heap'
  <2>1. h2 = Placed(old, top, kind, detail, fill)
    BY <1>1
  <2> HIDE DEF h2
  <2>2. /\ h2[q - 2] = kind /\ h2[q - 1] = detail /\ q \in Word
        /\ \A o \in Nat : o < Words(kind, detail) => h2[q + o] = fill
        /\ \A a \in 0 .. HeapWords - 1 : a < top => h2[a] = old[a]
    BY <1>1, <1>2, <1>5, <1>8, <2>1, PlacedSays
  <2> QED
    BY <2>2 DEF h2
<1>10. /\ {ids'[b] : b \in Blocks'} = IdsOf(S) \cup {ids'[q]} /\ ids'[q] \notin IdsOf(S) /\ q \in Blocks'
       /\ \A p \in S : Forward(S, p) \in Blocks' /\ ids'[Forward(S, p)] = ids[p]
  <2> DEFINE after == ids'
  <2>1. after = Named(was, q) /\ DOMAIN after = Blocks'
    BY <1>1 DEF Blocks
  <2>2. {was[x] : x \in DOMAIN was} = IdsOf(S)
    BY <1>6 DEF IdsOf
  <2>3. DOMAIN was = B /\ Laid(HeapWords, Structs, old, B, top)
    BY <1>5, <1>6
  <2> HIDE DEF after, B
  <2>4. Joins(was, q, after)
    BY <1>2, <1>6, <1>8, <2>1, <2>3, GrownIds
  <2>5. /\ {after[b] : b \in DOMAIN after} = IdsOf(S) \cup {after[q]}
        /\ after[q] \notin IdsOf(S) /\ q \in DOMAIN after
        /\ \A x \in DOMAIN was : x \in DOMAIN after /\ after[x] = was[x]
    BY <2>2, <2>4, NamesGrow
  <2> QED
    BY <1>6, <2>1, <2>5 DEF after
<1>11. /\ StackMeans(Sense', st2) = StackMeans(Sense, st) /\ FrameValues' = FrameValues /\ Consts' = Consts
       /\ \A p \in S : Objects'[ids[p]] = Objects[ids[p]]
  <2>1. S = Marked(st)
    BY DEF S
  <2>2. \A a \in 0 .. HeapWords - 1 : a < CollectedTop(S) => heap'[a] = CollectedHeap(S)[a]
    BY <1>8, <1>9
  <2>3. \A p \in S : Forward(S, p) \in Blocks' /\ ids'[Forward(S, p)] = ids[p]
    BY <1>10
  <2> QED
    BY <1>1, <1>4, <1>8, <2>1, <2>2, <2>3, CollectionMeans
<1>12. Managed!Extends(Objects', ids'[q], StackMeans(Sense, st)) /\ ids'[q] \in 1 .. MaxWords
  <2>1. Adds(S, q) /\ Wrote(q, kind, detail, fill) /\ KeepsObjects(S)
    BY <1>9, <1>10, <1>11 DEF Adds, Wrote, KeepsObjects
  <2> QED
    BY <1>1, <1>3, <1>4, <2>1, NewObject
<1> QED
  BY <1>1, <1>7, <1>9, <1>10, <1>11, <1>12, NewRefines

\* What an allocation may do.
LEMMA AllocationsRefine ==
    ASSUME Well, Well', Allocating
    PROVE  Managed!Instruction
<1>1. IInv
  BY DEF Well
<1>2. PICK st, kind, detail, fill : /\ Allocates(kind, detail, fill) /\ Reserve(st, kind, detail, fill)
                                    /\ fill = 0 \/ kind = String
                                    /\ st = stack \/ (Has(2) /\ st = Drop(stack, 2))
  BY <1>1, AllocationIs
<1>3. Fills(kind, fill)
  BY <1>2 DEF Allocates, Fills
<1>4. PICK k \in {0, 2} : Has(k) /\ st = Drop(stack, k)
  <2>1. stack = Drop(stack, 0)
    <3>1. stack \in Seq(TaggedWords)
      BY WellTypes
    <3> HIDE DEF TaggedWords
    <3> QED
      BY <3>1, NoneDropped
  <2>2. Has(0)
    BY <1>1, EmptyHanded
  <2> QED
    BY <1>2, <2>1, <2>2
<1>5. CASE ReserveNow(st, kind, detail, fill)
  BY <1>2, <1>3, <1>4, <1>5, NowRefines
<1>6. CASE ReserveLater(st, kind, detail, fill)
  BY <1>2, <1>3, <1>4, <1>6, LaterRefines
<1>7. CASE ReserveNever(st, kind, detail)
  BY <1>4, <1>7, NeverRefines
<1> QED
  BY <1>2, <1>5, <1>6, <1>7 DEF Reserve

-----------------------------------------------------------------------------
(* Before main.                                                            *)

\* Where the constant c is.
ConstWord(lits, vars_, c) == IF c[1] = "literal" THEN lits[c[2]] ELSE vars_[c[2]]
\* Every constant is a permanent object.
LEMMA ConstWordsAre ==
    ASSUME IInv, NEW c \in ConstNames(Structs, literals, variants)
    PROVE  ConstWord(literals, variants, c) \in Permanents
<1>1. DOMAIN variants = DOMAIN Structs
  BY DEF IInv, PermanentInv
<1>2. (c[1] = "literal" /\ c[2] \in DOMAIN literals) \/ (c[1] = "variant" /\ c[2] \in DOMAIN variants)
  BY <1>1 DEF ConstNames
<1> QED
  BY <1>2 DEF ConstWord, Permanents

\* A constant is given a fresh object, and the others keep theirs.
NamesOne(c, q) ==
    /\ ConstNames(Structs, literals', variants') = ConstNames(Structs, literals, variants) \cup {c}
    /\ \A d \in ConstNames(Structs, literals, variants) :
          ConstWord(literals', variants', d) = ConstWord(literals, variants, d)
    /\ ConstWord(literals', variants', c) = q
\* Allocating a literal or a variant materialises one constant.
LEMMA ConstantRefines ==
    ASSUME Well, Well', Starting, UNCHANGED <<program, stack, frames, status>>,
           NEW kind, NEW detail, NEW fill, Allocates(kind, detail, fill), Fills(kind, fill),
           Constant(kind, detail, fill), NEW q, q = heap_ptr + Header, NEW c, NamesOne(c, q)
    PROVE  Managed!Materialise
<1>1. IInv /\ Structs' = Structs
  BY DEF Well, Structs
<1>2. OperandsOf(stack) /\ StackIn(PlacesNow, stack)
  BY <1>1, Standing DEF Well, Holding
<1>3. /\ q \in Blocks' /\ q \in Word /\ \A w \in PlacesNow : Sense'[w] = Sense[w]
      /\ StackMeans(Sense', stack) = StackMeans(Sense, stack) /\ FrameValues' = FrameValues
      /\ Managed!Extends(Objects', ids'[q], StackMeans(Sense, stack)) /\ ids'[q] \in 1 .. MaxWords
  BY <1>2, GrowthMeans
<1>4. StackValues = StackMeans(Sense, stack) /\ StackValues' = StackMeans(Sense', stack)
  <2>1. StackValues = StackMeans(Sense, stack) /\ StackValues' = StackMeans(Sense', stack')
    BY DEF Well, Understood
  <2> QED
    BY <2>1
<1> DEFINE C  == ConstNames(Structs, literals, variants)
           C2 == ConstNames(Structs, literals', variants')
           s  == Sense'
<1>5. Consts = [d \in C |-> Sense[ConstWord(literals, variants, d)]]
  BY DEF Well, Understood, ConstMeans, ConstWord
<1>6. Consts' = [d \in C2 |-> s[ConstWord(literals', variants', d)]]
  <2>1. Consts' = ConstMeans(Sense', Structs', literals', variants')
    BY DEF Well, Understood
  <2> QED
    BY <1>1, <2>1 DEF ConstMeans, ConstWord
<1>7. C2 = C \cup {c} /\ ConstWord(literals', variants', c) = q
      /\ \A d \in C : ConstWord(literals', variants', d) = ConstWord(literals, variants, d)
  BY DEF NamesOne
<1>8. \A d \in C : s[ConstWord(literals, variants, d)] = Sense[ConstWord(literals, variants, d)]
  <2>1. \A d \in C : ConstWord(literals, variants, d) \in PlacesNow
    BY <1>1, ConstWordsAre, PermanentPlaces
  <2> QED
    BY <1>3, <2>1
<1>9. s[q] = [obj |-> ids'[q], n |-> 0]
  <2>1. SenseIs' /\ IInv'
    BY DEF Well, Understood
  <2>2. q \in Nat /\ Sizes'[q] \in Nat \ {0}
    BY <1>3, <2>1, SizesNatNext
  <2>3. 0 < Sizes'[q] /\ q + 0 = q
    BY <2>2
  <2>4. Sense'[q + 0] = [obj |-> ids'[q], n |-> 0]
    BY <1>3, <2>1, <2>3 DEF SenseIs
  <2> QED
    BY <2>3, <2>4
<1> HIDE DEF C, C2, s
<1>10. /\ DOMAIN Consts' = DOMAIN Consts \cup {c}
       /\ \A d \in DOMAIN Consts : Consts'[d] = Consts[d]
       /\ Consts'[c] = [obj |-> ids'[q], n |-> 0]
  <2>1. DOMAIN Consts = C /\ DOMAIN Consts' = C2 /\ c \in C2 /\ C \subseteq C2
    BY <1>5, <1>6, <1>7
  <2>2. Consts'[c] = s[q]
    BY <1>6, <1>7, <2>1
  <2>3. ASSUME NEW d \in C PROVE Consts'[d] = Consts[d]
    <3>1. Consts'[d] = s[ConstWord(literals', variants', d)]
      BY <1>6, <2>1
    <3>2. Consts[d] = Sense[ConstWord(literals, variants, d)]
      BY <1>5
    <3> QED
      BY <1>7, <1>8, <3>1, <3>2
  <2> QED
    BY <1>7, <1>9, <2>1, <2>2, <2>3
<1>11. status = "starting"
  BY DEF Starting
<1> DEFINE i   == ids'[q]
           all == Objects'
           cs  == Consts'
<1>12. Managed!Extends(all, i, StackValues) /\ i \in 1 .. MaxWords
  BY <1>3, <1>4
<1>13. /\ c \in DOMAIN cs /\ DOMAIN cs = DOMAIN Consts \cup {c} /\ (\A d \in DOMAIN Consts : cs[d] = Consts[d])
       /\ cs[c] = [obj |-> i, n |-> 0]
  BY <1>10
<1>14. UNCHANGED <<StackValues, FrameValues, status>>
  BY <1>3, <1>4
<1> HIDE DEF i
<1> QED
  BY <1>11, <1>12, <1>13, <1>14 DEF Managed!Materialise

\* MaterialiseLiteral (_materialise_literals) is ManagedHeap's Materialise.
LEMMA LiteralRefines ==
    ASSUME Well, Well', MaterialiseLiteral
    PROVE  Managed!Materialise
<1> DEFINE m      == Len(literals)
           detail == Literals[Len(literals) + 1]
           q      == heap_ptr + Header
           c      == <<"literal", Len(literals) + 1>>
<1>1. /\ Starting /\ m < Len(Literals) /\ Constant(String, detail, 1) /\ literals' = Append(literals, q)
      /\ UNCHANGED <<program, stack, frames, variants, status>>
  BY DEF MaterialiseLiteral
<1>2. IInv
  BY DEF Well
<1>3. Allocates(String, detail, 1) /\ Fills(String, 1)
  BY <1>1, <1>2, LiteralAllocates DEF Fills
<1>4. /\ DOMAIN literals' = DOMAIN literals \cup {m + 1} /\ literals'[m + 1] = q
      /\ \A i \in DOMAIN literals : literals'[i] = literals[i]
  <2>1. literals \in Seq(Blocks)
    BY <1>2 DEF IInv, PermanentInv
  <2> QED
    BY <1>1, <2>1
<1>5. NamesOne(c, q)
  <2>1. ConstNames(Structs, literals', variants') = ConstNames(Structs, literals, variants) \cup {c}
    <3>1. {"literal"} \X (DOMAIN literals \cup {m + 1}) = ({"literal"} \X DOMAIN literals) \cup {c}
      OBVIOUS
    <3> HIDE DEF c, m, q
    <3> QED
      BY <1>1, <1>4, <3>1 DEF ConstNames
  <2>2. \A d \in ConstNames(Structs, literals, variants) :
           ConstWord(literals', variants', d) = ConstWord(literals, variants, d)
    <3>1. ASSUME NEW d \in ConstNames(Structs, literals, variants), d[1] = "literal"
          PROVE  d[2] \in DOMAIN literals
      BY <3>1 DEF ConstNames
    <3> HIDE DEF c, m, q
    <3> QED
      BY <1>1, <1>4, <3>1 DEF ConstWord
  <2>3. ConstWord(literals', variants', c) = q
    BY <1>4 DEF ConstWord
  <2> HIDE DEF c, q
  <2> QED
    BY <2>1, <2>2, <2>3 DEF NamesOne
<1>6. q = heap_ptr + Header
  OBVIOUS
<1> HIDE DEF m, detail, q, c
<1> QED
  BY <1>1, <1>3, <1>5, <1>6, ConstantRefines

\* MaterialiseVariant (_materialise_variants) is ManagedHeap's Materialise.
LEMMA VariantRefines ==
    ASSUME Well, Well', NEW t \in DOMAIN Structs, MaterialiseVariant(t)
    PROVE  Managed!Materialise
<1> DEFINE q == heap_ptr + Header
           c == <<"variant", t>>
           T(v) == {u \in DOMAIN Structs : Structs[u].variant /\ Structs[u].size = 0 /\ v[u] # Null}
<1>1. /\ Starting /\ t \in Interned /\ variants[t] = Null /\ Constant(Struct, t, 0)
      /\ variants' = [variants EXCEPT ![t] = q] /\ UNCHANGED <<program, stack, frames, literals, status>>
  BY DEF MaterialiseVariant
<1>2. IInv /\ Allocates(Struct, t, 0) /\ Fills(Struct, 0)
  BY DEF Well, Allocates, Fills
<1>3. DOMAIN variants = DOMAIN Structs
  BY <1>2 DEF IInv, PermanentInv
<1>4. q # Null /\ Structs[t].variant /\ Structs[t].size = 0
  <2>1. heap_ptr \in Nat
    BY <1>2, BlockFacts DEF IInv
  <2> QED
    BY <1>1, <2>1 DEF Null, Header, Interned
<1>5. /\ variants'[t] = q /\ \A u \in DOMAIN Structs : u # t => variants'[u] = variants[u]
  BY <1>1, <1>3
<1>6. NamesOne(c, q)
  <2> DEFINE v2 == variants'
  <2>1. T(v2) = T(variants) \cup {t}
    <3> HIDE DEF q
    <3> QED
      BY <1>4, <1>5
  <2>2. {"variant"} \X (T(variants) \cup {t}) = ({"variant"} \X T(variants)) \cup {c}
    <3> HIDE DEF T
    <3> QED
      OBVIOUS
  <2>3. ConstNames(Structs, literals, v2) = ({"literal"} \X DOMAIN literals) \cup ({"variant"} \X T(v2))
        /\ ConstNames(Structs, literals, variants) = ({"literal"} \X DOMAIN literals) \cup ({"variant"} \X T(variants))
    BY DEF ConstNames
  <2>4. ConstNames(Structs, literals', variants') = ConstNames(Structs, literals, variants) \cup {c}
    <3> HIDE DEF T, c, q
    <3>1. ConstNames(Structs, literals, v2) = ConstNames(Structs, literals, variants) \cup {c}
      BY <2>1, <2>2, <2>3
    <3> QED
      BY <1>1, <3>1
  <2>5. \A d \in ConstNames(Structs, literals, variants) :
           ConstWord(literals', variants', d) = ConstWord(literals, variants, d)
    <3> SUFFICES ASSUME NEW d \in ConstNames(Structs, literals, variants)
                 PROVE  ConstWord(literals', variants', d) = ConstWord(literals, variants, d)
      OBVIOUS
    <3>1. d[1] = "literal" \/ d[2] \in T(variants)
      BY <2>3
    <3>2. d[2] \in T(variants) => d[2] \in DOMAIN Structs /\ d[2] # t
      BY <1>1
    <3> HIDE DEF T, q
    <3> QED
      BY <1>1, <1>5, <3>1, <3>2 DEF ConstWord
  <2>6. ConstWord(literals', variants', c) = q
    BY <1>5 DEF ConstWord
  <2> HIDE DEF c, q
  <2> QED
    BY <2>4, <2>5, <2>6 DEF NamesOne
<1>7. q = heap_ptr + Header
  OBVIOUS
<1> HIDE DEF q, c
<1> QED
  BY <1>1, <1>2, <1>6, <1>7, ConstantRefines

-----------------------------------------------------------------------------
(* The refinement.                                                         *)

\* When the memory stays as it is, so does what the program understands by it.
LEMMA MeaningKept ==
    ASSUME Well, Well', UNCHANGED <<program, heap, ids, stack, frames, literals, variants>>
    PROVE  UNCHANGED <<Objects, StackValues, FrameValues, Consts>>
<1>1. Sense' = Sense /\ Funs' = Funs /\ Objects' = Objects
  BY SenseSame, ObjectsSame
<1>2. Consts' = Consts
  BY <1>1, ConstsSame
<1>3. StackValues' = StackMeans(Sense', stack') /\ StackValues = StackMeans(Sense, stack)
  BY DEF Well, Understood
<1>4. FrameValues' = FrameMeans(Sense', Funs', frames') /\ FrameValues = FrameMeans(Sense, Funs, frames)
  BY DEF Well, Understood
<1> QED
  BY <1>1, <1>2, <1>3, <1>4

\* The entry of main is ManagedHeap's Start.
LEMMA StartRefines ==
    ASSUME Well, Well', Start
    PROVE  Managed!Start
<1>1. UNCHANGED <<Objects, StackValues, FrameValues, Consts>>
  BY MeaningKept DEF Start
<1> QED
  BY <1>1 DEF Start, Starting, Managed!Start

\* A step that changes nothing is a stutter.
LEMMA StutterRefines ==
    ASSUME Well, Well', UNCHANGED vars
    PROVE  UNCHANGED Managed!vars
<1>1. UNCHANGED <<Objects, StackValues, FrameValues, Consts>> /\ UNCHANGED status
  BY MeaningKept DEF vars
<1> QED
  BY <1>1 DEF Managed!vars

\* Every instruction is one of the memory's.
LEMMA InstructionRefines ==
    ASSUME Well, Well', ~PastTheEnd, Instruction
    PROVE  status = "running" /\ Managed!Instruction
<1>1. ASSUME NEW n \in Ints, PushInt(n)
      PROVE  status = "running" /\ Managed!Instruction
  BY <1>1, LoadsRefine DEF PushInt, Running
<1>2. ASSUME NEW i \in DOMAIN literals, LoadStr(i)
      PROVE  status = "running" /\ Managed!Instruction
  BY <1>2, LoadsRefine DEF LoadStr, Running
<1>3. ASSUME NEW t \in DOMAIN Structs, LoadVariant(t)
      PROVE  status = "running" /\ Managed!Instruction
  BY <1>3, LoadsRefine DEF LoadVariant, Running
<1>4. ASSUME NEW s \in DOMAIN Frame.locals, LoadLocal(s)
      PROVE  status = "running" /\ Managed!Instruction
  BY <1>4, LoadsRefine DEF LoadLocal, Running
<1>5. ASSUME NEW s \in DOMAIN Frame.locals, StoreLocal(s)
      PROVE  status = "running" /\ Managed!Instruction
  BY <1>5, StoreLocalRefines DEF StoreLocal, Running
<1>6. ASSUME PopValue \/ Dup \/ Swap
      PROVE  status = "running" /\ Managed!Instruction
  BY <1>6, StackOpsRefine DEF PopValue, Dup, Swap, Running
<1>7. ASSUME AddPointer
      PROVE  status = "running" /\ Managed!Instruction
  BY <1>7, AddRefines DEF AddPointer, Running
<1>8. ASSUME Compare
      PROVE  status = "running" /\ Managed!Instruction
  BY <1>8, CompareRefines DEF Compare, Running
<1>9. ASSUME NEW kind \in {RefArray, ValArray}, ArrayGet(kind) \/ ArraySet(kind)
      PROVE  status = "running" /\ Managed!Instruction
  BY <1>9, ReadsRefine, WritesRefine DEF ArrayGet, ArraySet, Running
<1>10. ASSUME Allocating
       PROVE  status = "running" /\ Managed!Instruction
  BY <1>10, AllocationIs, AllocationsRefine DEF Well, Running
<1>11. ASSUME NEW off \in 0 .. HeapWords, HeapLoadField(off) \/ HeapStoreField(off)
       PROVE  status = "running" /\ Managed!Instruction
  BY <1>11, ReadsRefine, WritesRefine DEF HeapLoadField, HeapStoreField, Running
<1>12. ASSUME HeapLoad \/ HeapStore
       PROVE  status = "running" /\ Managed!Instruction
  BY <1>12, ReadsRefine, WritesRefine DEF HeapLoad, HeapStore, Running
<1>13. ASSUME ReadDetail
       PROVE  status = "running" /\ Managed!Instruction
  BY <1>13, InspectRefines DEF ReadDetail, Running
<1>14. ASSUME NEW f \in DOMAIN Funs, Call(f)
       PROVE  status = "running" /\ Managed!Instruction
  BY <1>14, CallRefines DEF Call, Running
<1>15. ASSUME Ret
       PROVE  status = "running" /\ Managed!Instruction
  BY <1>15, RetRefines DEF Ret, Running
<1>16. ASSUME Gc
       PROVE  status = "running" /\ Managed!Instruction
  BY <1>16, GcRefines DEF Gc, Running
<1>17. ASSUME Fault
       PROVE  status = "running" /\ Managed!Instruction
  BY <1>17, FaultRefines DEF Fault, Running
<1> QED
  BY <1>1, <1>2, <1>3, <1>4, <1>5, <1>6, <1>7, <1>8, <1>9, <1>10, <1>11, <1>12, <1>13, <1>14, <1>15, <1>16, <1>17
     DEF Instruction, Allocating

\* Every step is a step of the memory, or changes nothing there.
LEMMA NextRefines ==
    ASSUME Well, Well', ~PastTheEnd, [Next]_vars
    PROVE  [Managed!Next]_(Managed!vars)
<1>1. CASE Instruction
  BY <1>1, InstructionRefines DEF Managed!Next
<1>2. CASE MaterialiseLiteral
  BY <1>2, LiteralRefines DEF Managed!Next
<1>3. ASSUME NEW t \in DOMAIN Structs, MaterialiseVariant(t)
      PROVE  [Managed!Next]_(Managed!vars)
  BY <1>3, VariantRefines DEF Managed!Next
<1>4. CASE Start
  BY <1>4, StartRefines DEF Managed!Next
<1>5. CASE UNCHANGED vars
  BY <1>5, StutterRefines
<1> QED
  BY <1>1, <1>2, <1>3, <1>4, <1>5 DEF Next, Materialise, Over

\* The program starts with no objects, empty hands and zeroed variables.
LEMMA NoEntries ==
    ASSUME NEW f, f = [x \in DOMAIN f |-> f[x]], DOMAIN f = {}
    PROVE  f = <<>>
OBVIOUS

\* The initial heap has no objects and no constants.
LEMMA InitRefines == Init => Managed!Init
<1> SUFFICES ASSUME Init
             PROVE  Managed!Init
  OBVIOUS
<1>1. Well
  BY Begins, DistinctInit, BeginsHolding, WellIs
<1>2. ids = <<>> /\ stack = <<>> /\ literals = <<>> /\ variants = [t \in DOMAIN Structs |-> Null] /\ status = "starting"
  BY DEF Init
<1>3. Blocks = {} /\ DOMAIN stack = {} /\ DOMAIN literals = {} /\ \A t \in DOMAIN Structs : variants[t] = Null
  BY <1>2 DEF Blocks
<1>4. Objects = <<>>
  <2>1. Objects = [i \in DOMAIN Objects |-> Objects[i]] /\ DOMAIN Objects = {ids[p] : p \in Blocks}
    BY <1>1 DEF Well, Understood, ObjectsAre
  <2>2. DOMAIN Objects = {}
    BY <1>3, <2>1
  <2> QED
    BY <2>1, <2>2, NoEntries
<1>5. StackValues = <<>>
  <2>1. StackValues = StackMeans(Sense, stack)
    BY <1>1 DEF Well, Understood
  <2>2. StackValues = [i \in DOMAIN StackValues |-> StackValues[i]] /\ DOMAIN StackValues = {}
    BY <1>3, <2>1 DEF StackMeans
  <2> QED
    BY <2>2, NoEntries
<1>6. Consts = <<>>
  <2>1. Consts = ConstMeans(Sense, Structs, literals, variants)
    BY <1>1 DEF Well, Understood
  <2>2. ConstNames(Structs, literals, variants) = {}
    BY <1>3 DEF ConstNames
  <2>3. Consts = [c \in DOMAIN Consts |-> Consts[c]] /\ DOMAIN Consts = {}
    BY <2>1, <2>2 DEF ConstMeans
  <2> QED
    BY <2>3, NoEntries
<1>7. Len(FrameValues) = 1 /\ Managed!Top(FrameValues).base = 0
      /\ \A s \in DOMAIN Managed!Locals : Managed!Locals[s] = Managed!Int(0)
  <2> DEFINE L == [s \in 1 .. Funs[Main].locals |-> 0]
  <2>1. frames = <<[fn |-> Main, base |-> 0, locals |-> L]>>
    BY DEF Init
  <2> HIDE DEF L
  <2>2. Len(frames) = 1 /\ Frame = [fn |-> Main, base |-> 0, locals |-> L]
    BY <2>1 DEF Frame, Last
  <2>3. Len(FrameValues) = Len(frames) /\ Managed!Top(FrameValues) = FrameMean(Sense, Funs, Frame)
    BY <1>1, WellFrames
  <2>4. Managed!Top(FrameValues).base = 0
    BY <2>2, <2>3 DEF FrameMean
  <2>5. Managed!Locals = LocalsMean(Sense, Refs(Frame.fn), L)
    <3>1. Frame.locals = L
      BY <2>2
    <3> QED
      BY <1>1, <3>1, LocalsAre
  <2>6. \A s \in DOMAIN L : L[s] = Null
    BY DEF L, Null
  <2>7. Sense[Null] = IntValue(0)
    BY <1>1 DEF Well, Understood, SenseIs
  <2>8. \A s \in DOMAIN L : Means(Sense, L[s], s \in Refs(Frame.fn)) = Managed!Int(0)
    BY <2>6, <2>7 DEF Means, Null, IntValue, Managed!Int
  <2>9. \A s \in DOMAIN Managed!Locals : Managed!Locals[s] = Managed!Int(0)
    BY <2>5, <2>8 DEF LocalsMean
  <2> QED
    BY <2>2, <2>3, <2>4, <2>9
<1> QED
  BY <1>2, <1>4, <1>5, <1>6, <1>7 DEF Managed!Init

\* "Objects move, but a heapptr is rewritten to follow its object, so it stays
\* valid", in full: for every heap size and every set of programs that keep
\* their pointers inside their blocks, a QuinVM whose collector slides objects
\* about is a machine whose objects never move.  Whatever is read, written,
\* compared, passed, returned and allocated is what it would have been there;
\* a collection loses nothing that can still be reached, mixes no two objects
\* up, and an allocation that succeeds gives a cleared object no reference led
\* to before.
THEOREM ImplementsManagedHeap ==
    ASSUME \A prog \in Programs : ~prog.pastEnd
    PROVE  Spec => ManagedSpec
<1>1. IInv => ~PastTheEnd
  BY DEF IInv, PastTheEnd
<1>2. Init => Distinct /\ Holding
  BY DistinctInit, BeginsHolding
<1>3. IInv /\ Distinct /\ Holding /\ [Next]_vars => Distinct' /\ Holding'
  BY <1>1, DistinctNext, NextHolds
<1>4. IInv /\ Distinct /\ Holding => Well
  BY WellIs
<1>5. IInv /\ Well /\ Well' /\ [Next]_vars => [Managed!Next]_(Managed!vars)
  BY <1>1, NextRefines
<1>6. Init => Managed!Init
  BY InitRefines
<1>7. Spec => []IInv
  BY Always
<1> QED
  BY <1>2, <1>3, <1>4, <1>5, <1>6, <1>7, PTL DEF Spec, ManagedSpec, Managed!Spec
=============================================================================
