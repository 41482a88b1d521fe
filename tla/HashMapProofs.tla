---------------------------- MODULE HashMapProofs ----------------------------
(***************************************************************************)
(* Whatever the hash, the keys and the calls, a table's counts are exact   *)
(* and it has an empty slot.                                               *)
(***************************************************************************)
EXTENDS HashMap, FiniteSetTheorems, TLAPS

States == {Empty, Used, Dead}

-----------------------------------------------------------------------------
(* Counting the slots of an array of n states.                             *)

Among(f, n, what) == {s \in Slots(n) : f[s] = what}
Count(f, n, what) == Cardinality(Among(f, n, what))

LEMMA AmongFinite ==
    ASSUME NEW f, NEW n \in Nat, NEW what
    PROVE  IsFiniteSet(Among(f, n, what)) /\ Count(f, n, what) \in Nat
<1>1. IsFiniteSet(Slots(n))
  BY FS_Interval DEF Slots
<1>2. Among(f, n, what) \in SUBSET Slots(n)
  BY DEF Among
<1>3. IsFiniteSet(Among(f, n, what))
  BY <1>1, <1>2, FS_Subset
<1> QED
  BY <1>3, FS_CardinalityType DEF Count

LEMMA NoneCounted ==
    ASSUME NEW f, NEW n \in Nat, NEW what, \A s \in Slots(n) : f[s] # what
    PROVE  Count(f, n, what) = 0
<1>1. Among(f, n, what) = {}
  BY DEF Among
<1> QED
  BY <1>1, FS_EmptySet DEF Count

\* A slot that changes is counted under its new state, and no longer under
\* the old one.
LEMMA CountUpdate ==
    ASSUME NEW n \in Nat, NEW f \in [Slots(n) -> States],
           NEW s \in Slots(n), NEW to \in States, f[s] # to
    PROVE  LET g == [f EXCEPT ![s] = to]
           IN  /\ Count(g, n, to) = Count(f, n, to) + 1
               /\ Count(g, n, f[s]) = Count(f, n, f[s]) - 1
<1> DEFINE g == [f EXCEPT ![s] = to]
<1>1. Count(g, n, to) = Count(f, n, to) + 1
  <2>1. Among(g, n, to) = Among(f, n, to) \cup {s} /\ s \notin Among(f, n, to)
    BY DEF Among
  <2> HIDE DEF g
  <2> QED
    BY <2>1, AmongFinite, FS_AddElement DEF Count
<1>2. Count(g, n, f[s]) = Count(f, n, f[s]) - 1
  <2>1. Among(g, n, f[s]) = Among(f, n, f[s]) \ {s} /\ s \in Among(f, n, f[s])
    BY DEF Among
  <2> HIDE DEF g
  <2> QED
    BY <2>1, AmongFinite, FS_RemoveElement DEF Count
<1> QED
  BY <1>1, <1>2

LEMMA CountOther ==
    ASSUME NEW n \in Nat, NEW f \in [Slots(n) -> States],
           NEW s \in Slots(n), NEW to \in States, NEW w \in States,
           w # to, w # f[s]
    PROVE  Count([f EXCEPT ![s] = to], n, w) = Count(f, n, w)
<1>1. Among([f EXCEPT ![s] = to], n, w) = Among(f, n, w)
  BY DEF Among
<1> QED
  BY <1>1 DEF Count

\* An array with no empty slot has only used and dead ones.
LEMMA FullCount ==
    ASSUME NEW n \in Nat, NEW f \in [Slots(n) -> States],
           Among(f, n, Empty) = {}
    PROVE  Count(f, n, Used) + Count(f, n, Dead) = n
<1> DEFINE U == Among(f, n, Used)
           D == Among(f, n, Dead)
<1>1. U \cup D = Slots(n) /\ U \cap D = {}
  BY DEF Among, States, Empty, Used, Dead
<1>2. IsFiniteSet(U) /\ IsFiniteSet(D)
  BY AmongFinite
<1>3. Cardinality(U \cup D) = Cardinality(U) + Cardinality(D) - Cardinality(U \cap D)
  BY <1>2, FS_Union
<1>4. Cardinality(Slots(n)) = n
  BY FS_Interval DEF Slots
<1>5. Cardinality(U \cap D) = 0
  BY <1>1, FS_EmptySet
<1>6. Cardinality(U) \in Nat /\ Cardinality(D) \in Nat
  BY <1>2, FS_CardinalityType
<1>7. Cardinality(U) + Cardinality(D) = n
  <2> HIDE DEF U, D
  <2>1. Cardinality(U \cup D) = Cardinality(Slots(n))
    BY <1>1, Zenon
  <2> QED
    BY <2>1, <1>3, <1>4, <1>5, <1>6
<1> QED
  BY <1>7 DEF Count

-----------------------------------------------------------------------------
(* The inductive invariant.                                                *)

\* The table's own types, and its counts.
TableInv ==
    /\ hash \in [Keys -> Nat] /\ hash \in Hashes
    /\ slots \in Smallest .. Largest
    /\ state \in [Slots(slots) -> States]
    /\ DOMAIN keys = Slots(slots) /\ DOMAIN values = Slots(slots)
    /\ \A s \in Slots(slots) : state[s] = Used => keys[s] \in Keys /\ values[s] \in Values
    /\ len = Count(state, slots, Used)
    /\ dead = Count(state, slots, Dead)
    /\ at \in {"idle", "probe", "grow", "rehouse", "faulted"}
    /\ each = [at |-> each.at, i |-> each.i]
    /\ each.at \in {"none", "scan", "body"}

\* A probe is of a key, and remembers a tombstone.
ProbeInv ==
    /\ i \in Slots(slots)
    /\ reuse \in Slots(slots) \cup {NoSlot}
    /\ reuse # NoSlot => state[reuse] = Dead /\ at \in {"probe", "rehouse"}
    /\ at \in {"probe", "grow", "rehouse"} => call.key \in Keys
    /\ at \in {"grow", "rehouse"} => call.op = "set"
    /\ at \in {"probe", "grow", "rehouse"} /\ call.op = "set" => call.value \in Values

\* What a growth has still to rehouse.
Left == {s \in Slots(old.slots) : old.next <= s /\ old.state[s] = Used}

\* What a growth has left and what it has rehoused were all in the old table.
GrowthInv ==
    at \in {"grow", "rehouse"} =>
        /\ old = [slots |-> old.slots, state |-> old.state, keys |-> old.keys,
                  values |-> old.values, next |-> old.next]
        /\ old.slots \in Nat /\ old.slots >= 2 /\ slots = 2 * old.slots
        /\ old.state \in [Slots(old.slots) -> States]
        /\ \A s \in Slots(old.slots) :
              old.state[s] = Used => old.keys[s] \in Keys /\ old.values[s] \in Values
        /\ old.next \in 0 .. old.slots
        /\ at = "rehouse" => old.next < old.slots /\ old.state[old.next] = Used
        /\ dead = 0
        /\ 4 * (len + Cardinality(Left)) <= 3 * old.slots

\* The load stays at three quarters, and an insertion has room for one more.
LoadInv ==
    /\ 4 * (len + dead) <= 3 * slots
    /\ at = "probe" /\ call.op = "set" => 4 * (len + dead + 1) <= 3 * slots

MapInv == TableInv /\ ProbeInv /\ GrowthInv /\ LoadInv

LEMMA CountsNat ==
    ASSUME TableInv
    PROVE  /\ slots \in Nat /\ slots >= 2
           /\ len \in Nat /\ dead \in Nat
BY SlotsAssumption, AmongFinite DEF TableInv

LEMMA HomeSlot ==
    ASSUME TableInv, NEW k \in Keys
    PROVE  Home(k, slots) \in Slots(slots)
<1>1. hash[k] \in Nat /\ slots \in Nat /\ slots > 0
  BY CountsNat DEF TableInv
<1> QED
  BY <1>1 DEF Home, Slots

LEMMA NoSlotOutside ==
    ASSUME TableInv
    PROVE  NoSlot \notin Slots(slots)
BY SlotsAssumption DEF TableInv, NoSlot, Slots

LEMMA LeftFinite ==
    ASSUME GrowthInv, at \in {"grow", "rehouse"}
    PROVE  IsFiniteSet(Left) /\ Cardinality(Left) \in Nat
<1>1. old.slots - 1 \in Int
  BY DEF GrowthInv
<1>2. IsFiniteSet(0 .. old.slots - 1)
  <2> HIDE DEF GrowthInv
  <2> QED
    BY <1>1, FS_Interval
<1>3. Left \in SUBSET (0 .. old.slots - 1)
  BY DEF Slots, Left
<1>4. IsFiniteSet(Left)
  BY <1>2, <1>3, FS_Subset
<1> QED
  BY <1>4, FS_CardinalityType

-----------------------------------------------------------------------------
(* The table starts empty.                                                 *)

LEMMA MapInit == Init => MapInv
<1> SUFFICES ASSUME Init PROVE MapInv
    OBVIOUS
<1> USE DEF Init
<1>1. slots \in Nat /\ slots >= 2 /\ slots <= Largest
  BY SlotsAssumption
<1>2. Count(state, slots, Used) = 0 /\ Count(state, slots, Dead) = 0
  BY <1>1, NoneCounted DEF Empty, Used, Dead
<1>3. TableInv
  BY <1>1, <1>2, HashAssumption DEF TableInv, States, NoEach, Empty, Used
<1>4. ProbeInv
  BY <1>1 DEF ProbeInv, NoSlot, Slots
<1>5. GrowthInv /\ LoadInv
  BY <1>1 DEF GrowthInv, LoadInv
<1> QED
  BY <1>3, <1>4, <1>5 DEF MapInv

-----------------------------------------------------------------------------
(* Calls, and the beginning of a probe.                                    *)

\* A probe that begins in an unchanged table.
LEMMA BeginProbe ==
    ASSUME MapInv, UNCHANGED table, UNCHANGED each,
           at' \in {"probe", "rehouse"},
           NEW k \in Keys, i' = Home(k, slots), reuse' = NoSlot,
           call'.key \in Keys, call'.op = "set" => call'.value \in Values,
           at' = "rehouse" => call'.op = "set",
           at' = "rehouse" => GrowthInv',
           at' = "probe" /\ call'.op = "set" => 4 * (len + dead + 1) <= 3 * slots
    PROVE  MapInv'
<1> USE DEF MapInv, table
<1>1. TableInv'
  BY DEF TableInv
<1>2. ProbeInv'
  BY HomeSlot DEF ProbeInv
<1>3. GrowthInv'
  BY DEF GrowthInv
<1>4. LoadInv'
  BY DEF LoadInv
<1> QED
  BY <1>1, <1>2, <1>3, <1>4

LEMMA MapCalls ==
    ASSUME MapInv, NEW k \in Keys,
           \/ CallFind("get", k) \/ CallFind("remove", k)
           \/ \E v \in Values : CallSet(k, v)
    PROVE  MapInv'
<1> USE DEF Ready, Probing, loops
<1>1. CASE CallFind("get", k) \/ CallFind("remove", k)
  <2>1. /\ UNCHANGED table /\ UNCHANGED each /\ at' = "probe"
        /\ i' = Home(k, slots) /\ reuse' = NoSlot
        /\ call'.key = k /\ call'.op # "set"
    BY <1>1 DEF CallFind
  <2> QED
    BY <2>1, BeginProbe
<1>2. ASSUME NEW v \in Values, CallSet(k, v) PROVE MapInv'
  <2>1. /\ UNCHANGED table /\ UNCHANGED each /\ at' = "probe"
        /\ i' = Home(k, slots) /\ reuse' = NoSlot
        /\ call'.key = k /\ call'.value = v
    BY <1>2 DEF CallSet
  <2>2. 4 * (len + dead + 1) <= 3 * slots
    BY <1>2, CountsNat DEF CallSet, Overloaded, MapInv
  <2> QED
    BY <2>1, <2>2, BeginProbe
<1> QED
  BY <1>1, <1>2

\* The whole of a table that is three quarters full is left to rehouse.
LEMMA MapGrow ==
    ASSUME MapInv, NEW k \in Keys, NEW v \in Values, CallSetGrow(k, v)
    PROVE  MapInv'
<1> USE DEF MapInv, CallSetGrow, Ready
<1>1. slots \in Nat /\ slots >= 2 /\ len \in Nat /\ dead \in Nat
  BY CountsNat
<1>2. slots' = 2 * slots /\ slots' \in Smallest .. Largest /\ slots' \in Nat
  BY <1>1, SlotsAssumption DEF TableInv
<1>3. Count(state', slots', Used) = 0 /\ Count(state', slots', Dead) = 0
  BY <1>2, NoneCounted DEF Empty, Used, Dead
<1>4. TableInv'
  <2>1. state' \in [Slots(slots') -> States]
    BY DEF States
  <2>2. \A s \in Slots(slots') : state'[s] # Used
    BY DEF Empty, Used
  <2>3. DOMAIN keys' = Slots(slots') /\ DOMAIN values' = Slots(slots')
    OBVIOUS
  <2> QED
    BY <1>2, <1>3, <2>1, <2>2, <2>3 DEF TableInv
<1>5. ProbeInv'
  <2>1. i \in Slots(slots')
    BY <1>1 DEF ProbeInv, Slots
  <2>2. reuse' = NoSlot
    BY DEF ProbeInv
  <2> QED
    BY <2>1, <2>2 DEF ProbeInv
<1>6. GrowthInv'
  <2>1. Left' = Among(state, slots, Used)
    BY <1>1 DEF Left, Among, Slots
  <2>2. 4 * (len' + Cardinality(Left')) <= 3 * slots
    BY <1>1, <2>1 DEF Count, LoadInv, TableInv
  <2> QED
    BY <1>1, <2>2 DEF GrowthInv, TableInv
<1>7. LoadInv'
  BY <1>1, <1>2 DEF LoadInv
<1> QED
  BY <1>4, <1>5, <1>6, <1>7

-----------------------------------------------------------------------------
(* Growth.                                                                 *)

\* One old slot less.
LEMMA LeftNext ==
    ASSUME GrowthInv, at \in {"grow", "rehouse"}, old.next < old.slots,
           old' = [old EXCEPT !.next = @ + 1]
    PROVE  /\ old' = [slots |-> old.slots, state |-> old.state, keys |-> old.keys,
                      values |-> old.values, next |-> old.next + 1]
           /\ Cardinality(Left') = IF old.state[old.next] = Used
                                   THEN Cardinality(Left) - 1 ELSE Cardinality(Left)
<1>1. old' = [slots |-> old.slots, state |-> old.state, keys |-> old.keys,
              values |-> old.values, next |-> old.next + 1]
  BY DEF GrowthInv
<1>2. old.next \in 0 .. old.slots /\ old.slots \in Nat
  BY DEF GrowthInv
<1>3. CASE old.state[old.next] = Used
  <2>1. Left' = Left \ {old.next} /\ old.next \in Left
    BY <1>1, <1>2, <1>3 DEF Left, Slots
  <2> QED
    BY <1>1, <1>3, <2>1, LeftFinite, FS_RemoveElement
<1>4. CASE old.state[old.next] # Used
  <2>1. Left' = Left
    BY <1>1, <1>2, <1>4 DEF Left, Slots
  <2> QED
    BY <1>1, <1>4, <2>1
<1> QED
  BY <1>3, <1>4

LEMMA MapSkipOld ==
    ASSUME MapInv, SkipOld
    PROVE  MapInv'
<1> USE DEF MapInv, SkipOld, Growing, table, loops
<1>1. TableInv' /\ ProbeInv' /\ LoadInv'
  BY DEF TableInv, ProbeInv, LoadInv
<1>2. GrowthInv'
  <2>1. /\ old' = [slots |-> old.slots, state |-> old.state, keys |-> old.keys,
                   values |-> old.values, next |-> old.next + 1]
        /\ Cardinality(Left') = Cardinality(Left)
    BY LeftNext
  <2>2. old.next + 1 \in 0 .. old.slots
    BY DEF GrowthInv
  <2> QED
    BY <2>1, <2>2 DEF GrowthInv
<1> QED
  BY <1>1, <1>2

LEMMA MapRehouseOld ==
    ASSUME MapInv, RehouseOld
    PROVE  MapInv'
<1> USE DEF MapInv, RehouseOld, Growing, loops
<1>1. old.keys[old.next] \in Keys
  BY DEF GrowthInv, Slots
<1>2. GrowthInv'
  <2>1. Left' = Left
    BY DEF Left
  <2> QED
    BY <2>1 DEF GrowthInv, table
<1>3. /\ call'.key \in Keys /\ call'.op = "set"
      /\ call'.value \in Values
  BY DEF ProbeInv
<1> QED
  BY <1>1, <1>2, <1>3, BeginProbe

\* Twice the slots leave room for one more entry.
LEMMA MapGrown ==
    ASSUME MapInv, Grown
    PROVE  MapInv'
<1> USE DEF MapInv, Grown, Growing, Probing, loops
<1>1. /\ len \in Nat /\ Cardinality(Left) \in Nat /\ old.slots \in Nat
      /\ dead = 0 /\ old.slots >= 2 /\ slots = 2 * old.slots
      /\ 4 * (len + Cardinality(Left)) <= 3 * old.slots
  BY CountsNat, LeftFinite DEF GrowthInv
<1>2. 4 * (len + dead + 1) <= 3 * slots
  BY <1>1
<1>3. call'.key \in Keys /\ call'.op = "set" /\ call'.value \in Values
  BY DEF ProbeInv
<1> QED
  BY <1>2, <1>3, BeginProbe

-----------------------------------------------------------------------------
(* Probes.                                                                 *)

LEMMA ProbedKey ==
    ASSUME MapInv, Inserting
    PROVE  Key \in Keys /\ Value \in Values
BY DEF MapInv, Inserting, Key, Value, ProbeInv, GrowthInv, Slots

\* A probe goes on, and may have found its tombstone.
LEMMA MapStep ==
    ASSUME MapInv, Step
    PROVE  MapInv'
<1> USE DEF MapInv, Step, table, loops
<1>1. TableInv' /\ LoadInv'
  BY DEF TableInv, LoadInv
<1>2. GrowthInv'
  <2>1. Left' = Left
    BY DEF Left
  <2> QED
    BY <2>1 DEF GrowthInv
<1>3. i' \in Slots(slots)
  <2>1. i + 1 \in Nat /\ slots \in Nat /\ slots > 0
    BY CountsNat DEF ProbeInv, Slots
  <2> QED
    BY <2>1 DEF After, Slots
<1>4. ProbeInv'
  BY <1>3 DEF ProbeInv
<1> QED
  BY <1>1, <1>2, <1>3, <1>4

\* Back from map_set with the table's own invariants in place.  The entry that
\* was rehoused, if it was, is one more of these and one less of those.
LEMMA MapStored ==
    ASSUME MapInv, Inserting, Stored, UNCHANGED slots,
           TableInv', UNCHANGED each,
           4 * (len' + dead') <= 3 * slots,
           at = "rehouse" => dead' = 0 /\ len' <= len + 1
    PROVE  MapInv'
<1> USE DEF MapInv, Stored, Done
<1>1. CASE at = "rehouse"
  <2>1. /\ old.next < old.slots /\ old.state[old.next] = Used
        /\ old' = [old EXCEPT !.next = @ + 1] /\ at' = "grow"
    BY <1>1 DEF GrowthInv
  <2>2. /\ old' = [slots |-> old.slots, state |-> old.state, keys |-> old.keys,
                   values |-> old.values, next |-> old.next + 1]
        /\ Cardinality(Left') = Cardinality(Left) - 1
    BY <1>1, <2>1, LeftNext
  <2>3. old.next + 1 \in 0 .. old.slots
    BY <1>1, <2>1 DEF GrowthInv
  <2>4. 4 * (len' + Cardinality(Left')) <= 3 * old.slots
    <3>1. len \in Nat /\ len' \in Nat /\ Cardinality(Left) \in Nat
      BY <1>1, CountsNat, LeftFinite, AmongFinite DEF TableInv
    <3>2. 4 * (len + Cardinality(Left)) <= 3 * old.slots /\ old.slots \in Nat
      BY <1>1 DEF GrowthInv
    <3> QED
      BY <1>1, <2>2, <3>1, <3>2
  <2>5. GrowthInv'
    BY <1>1, <2>1, <2>2, <2>3, <2>4 DEF GrowthInv
  <2>6. ProbeInv'
    BY <1>1, CountsNat DEF ProbeInv, Slots
  <2>7. LoadInv'
    BY <2>1 DEF LoadInv
  <2> QED
    BY <2>5, <2>6, <2>7
<1>2. CASE at # "rehouse"
  <2>1. at' = "idle"
    BY <1>2
  <2>2. ProbeInv'
    BY <2>1, CountsNat DEF ProbeInv, Slots
  <2>3. GrowthInv' /\ LoadInv'
    BY <2>1 DEF GrowthInv, LoadInv
  <2> QED
    BY <2>2, <2>3
<1> QED
  BY <1>1, <1>2

LEMMA MapReplace ==
    ASSUME MapInv, Replace
    PROVE  MapInv'
<1> USE DEF MapInv, Replace, loops
<1>1. Value \in Values
  BY ProbedKey
<1>2. TableInv'
  <2>1. at' \in {"idle", "grow"}
    BY DEF Stored
  <2>2. /\ DOMAIN values' = Slots(slots)
        /\ \A s \in Slots(slots) : state[s] = Used => values'[s] \in Values
    BY <1>1 DEF TableInv
  <2> QED
    BY <2>1, <2>2 DEF TableInv
<1>3. /\ 4 * (len' + dead') <= 3 * slots
      /\ at = "rehouse" => dead' = 0 /\ len' <= len + 1
  BY CountsNat DEF LoadInv, GrowthInv
<1> QED
  BY <1>2, <1>3, MapStored

LEMMA MapInsert ==
    ASSUME MapInv, Insert
    PROVE  MapInv'
<1> USE DEF MapInv, Insert, loops
<1> DEFINE s == IF reuse = NoSlot THEN i ELSE reuse
<1>1. Key \in Keys /\ Value \in Values
  BY ProbedKey
<1>2. s \in Slots(slots) /\ state[s] = IF reuse = NoSlot THEN Empty ELSE Dead
  BY DEF ProbeInv, Absent
<1>3. /\ state' = [state EXCEPT ![s] = Used]
      /\ keys' = [keys EXCEPT ![s] = Key]
      /\ values' = [values EXCEPT ![s] = Value]
      /\ slots' = slots
  OBVIOUS
<1>4. slots \in Nat /\ len \in Nat /\ dead \in Nat
  BY CountsNat
<1>5. /\ Count(state', slots, Used) = len + 1
      /\ Count(state', slots, Dead) = dead'
  <2> HIDE DEF s
  <2>1. state \in [Slots(slots) -> States] /\ state[s] # Used
    BY <1>2 DEF TableInv, Empty, Used, Dead
  <2>2. /\ Count(state', slots, Used) = Count(state, slots, Used) + 1
        /\ Count(state', slots, state[s]) = Count(state, slots, state[s]) - 1
    <3>1. Used \in States
      BY DEF States
    <3> HIDE DEF MapInv, Insert
    <3> QED
      BY <1>2, <1>3, <1>4, <2>1, <3>1, CountUpdate
  <2>3. CASE reuse = NoSlot
    <3>1. /\ Dead # Used /\ Dead # state[s]
          /\ Dead \in States /\ Used \in States
      BY <1>2, <2>3 DEF Empty, Used, Dead, States
    <3>2. Count(state', slots, Dead) = Count(state, slots, Dead)
      <4> HIDE DEF MapInv, Insert
      <4> QED
        BY <1>2, <1>3, <1>4, <2>1, <3>1, CountOther
    <3> QED
      BY <2>2, <2>3, <3>2 DEF TableInv, ReuseCount
  <2>4. CASE reuse # NoSlot
    BY <1>2, <2>2, <2>4 DEF TableInv, ReuseCount
  <2> QED
    BY <2>3, <2>4
<1>6. TableInv'
  <2> HIDE DEF s
  <2>1. at' \in {"idle", "grow"}
    BY DEF Stored
  <2>2. /\ state' \in [Slots(slots) -> States]
        /\ DOMAIN keys' = Slots(slots) /\ DOMAIN values' = Slots(slots)
    BY <1>2, <1>3 DEF TableInv, States
  <2>3. \A r \in Slots(slots) :
           state'[r] = Used => keys'[r] \in Keys /\ values'[r] \in Values
    BY <1>1, <1>2, <1>3 DEF TableInv
  <2> QED
    BY <1>3, <1>5, <2>1, <2>2, <2>3 DEF TableInv
<1>7. dead' = dead \/ (dead' = dead - 1 /\ reuse # NoSlot)
  BY <1>4 DEF ReuseCount
<1>8. dead' \in Nat
  BY <1>4, <1>5, AmongFinite
<1>9. at = "rehouse" => dead' = 0 /\ len' <= len + 1
  BY <1>4, <1>7, <1>8 DEF GrowthInv
<1>10. 4 * (len' + dead') <= 3 * slots
  <2>1. CASE at = "rehouse"
    <3>1. /\ Cardinality(Left) \in Nat /\ old.slots \in Nat
          /\ old.slots >= 2 /\ slots = 2 * old.slots
          /\ 4 * (len + Cardinality(Left)) <= 3 * old.slots
      BY <2>1, LeftFinite DEF GrowthInv
    <3> QED
      BY <1>4, <1>9, <2>1, <3>1
  <2>2. CASE at = "probe" /\ call.op = "set"
    BY <1>4, <1>7, <2>2 DEF LoadInv
  <2> QED
    BY <2>1, <2>2 DEF Inserting
<1> QED
  BY <1>6, <1>9, <1>10, MapStored

LEMMA MapRemove ==
    ASSUME MapInv, Remove
    PROVE  MapInv'
<1> USE DEF MapInv, Remove, Return, Done
<1>1. slots \in Nat /\ len \in Nat /\ dead \in Nat
  BY CountsNat
<1>2. /\ state \in [Slots(slots) -> States] /\ i \in Slots(slots)
      /\ state[i] = Used /\ state' = [state EXCEPT ![i] = Dead]
  BY DEF TableInv, ProbeInv, Here, Buried
<1>3. Count(state', slots, Used) = len - 1 /\ Count(state', slots, Dead) = dead + 1
  <2>1. Dead \in States /\ Dead # Used
    BY DEF States, Dead, Used
  <2>2. /\ Count(state', slots, Dead) = Count(state, slots, Dead) + 1
        /\ Count(state', slots, Used) = Count(state, slots, Used) - 1
    <3> HIDE DEF MapInv, Remove
    <3> QED
      BY <1>1, <1>2, <2>1, CountUpdate
  <2> QED
    BY <2>2 DEF TableInv
<1>4. TableInv'
  <2>1. state' \in [Slots(slots) -> States]
    BY <1>2 DEF States
  <2>2. \A s \in Slots(slots) : state'[s] = Used => state[s] = Used
    BY <1>2
  <2> QED
    BY <1>3, <2>1, <2>2 DEF TableInv
<1>5. ProbeInv' /\ GrowthInv' /\ LoadInv'
  BY <1>1 DEF ProbeInv, GrowthInv, LoadInv, Slots
<1> QED
  BY <1>4, <1>5

-----------------------------------------------------------------------------
(* The remaining steps, and the theorems.                                  *)

LEMMA MapClear ==
    ASSUME MapInv, Clear
    PROVE  MapInv'
<1> USE DEF MapInv, Clear, Ready
<1>1. slots \in Nat
  BY CountsNat
<1>2. \A s \in Slots(slots) : state'[s] = Empty
  BY DEF TableInv
<1>3. Count(state', slots, Used) = 0 /\ Count(state', slots, Dead) = 0
  BY <1>1, <1>2, NoneCounted DEF Empty, Used, Dead
<1>4. TableInv'
  BY <1>2, <1>3 DEF TableInv, States, Empty, Used
<1>5. ProbeInv' /\ GrowthInv' /\ LoadInv'
  BY <1>1 DEF ProbeInv, GrowthInv, LoadInv
<1> QED
  BY <1>4, <1>5

\* Steps that leave the table and the probe alone, or end the probe.
LEMMA MapQuiet ==
    ASSUME MapInv, UNCHANGED table,
           each' = [at |-> each'.at, i |-> each'.i],
           each'.at \in {"none", "scan", "body"},
           \/ UNCHANGED <<call, at, i, reuse, old>>
           \/ at' \in {"idle", "faulted"} /\ Done
           \/ at' = "faulted" /\ at = "idle" /\ UNCHANGED <<i, reuse>>
    PROVE  MapInv'
<1> USE DEF MapInv, table
<1>1. TableInv'
  BY DEF TableInv
<1>2. CASE UNCHANGED <<call, at, i, reuse, old>>
  <2>1. Left' = Left
    BY <1>2 DEF Left
  <2>2. ProbeInv' /\ GrowthInv' /\ LoadInv'
    BY <1>2, <2>1 DEF ProbeInv, GrowthInv, LoadInv
  <2> QED
    BY <1>1, <2>2
<1>3. CASE at' \in {"idle", "faulted"} /\ Done
  <2>1. ProbeInv' /\ GrowthInv' /\ LoadInv'
    BY <1>3, CountsNat DEF ProbeInv, GrowthInv, LoadInv, Done, Slots
  <2> QED
    BY <1>1, <2>1
<1>4. CASE at' = "faulted" /\ at = "idle" /\ UNCHANGED <<i, reuse>>
  <2>1. ProbeInv' /\ GrowthInv' /\ LoadInv'
    BY <1>4 DEF ProbeInv, GrowthInv, LoadInv
  <2> QED
    BY <1>1, <2>1
<1> QED
  BY <1>2, <1>3, <1>4

LEMMA MapOther ==
    ASSUME MapInv,
           \/ CallSetFail \/ ListKeys \/ BeginEach \/ EachNext
           \/ Get \/ RemoveNothing \/ EachBody \/ EachSkip \/ EachEnd
           \/ UNCHANGED vars
    PROVE  MapInv'
<1>1. each = [at |-> each.at, i |-> each.i] /\ each.at \in {"none", "scan", "body"}
  BY DEF MapInv, TableInv
<1>2. CASE CallSetFail
  BY <1>1, <1>2, MapQuiet DEF CallSetFail, Ready, loops
<1>3. CASE ListKeys \/ UNCHANGED vars
  BY <1>1, <1>3, MapQuiet DEF ListKeys, loops, vars
<1>4. CASE BeginEach \/ EachNext \/ EachBody \/ EachSkip \/ EachEnd
  <2>1. each' = [at |-> each'.at, i |-> each'.i]
        /\ each'.at \in {"none", "scan", "body"}
    BY <1>1, <1>4 DEF BeginEach, EachNext, EachBody, EachSkip, EachEnd, NoEach
  <2>2. UNCHANGED table /\ UNCHANGED <<call, at, i, reuse, old>>
    BY <1>4 DEF BeginEach, EachNext, EachBody, EachSkip, EachEnd
  <2> QED
    BY <2>1, <2>2, MapQuiet
<1>5. CASE Get \/ RemoveNothing
  BY <1>1, <1>5, MapQuiet DEF Get, RemoveNothing, Return, loops
<1> QED
  BY <1>2, <1>3, <1>4, <1>5

LEMMA MapNext == MapInv /\ [Next]_vars => MapInv'
<1> SUFFICES ASSUME MapInv, [Next]_vars PROVE MapInv'
    OBVIOUS
<1>1. CASE Call
  <2>1. CASE \E k \in Keys : CallFind("get", k) \/ CallFind("remove", k)
    BY <2>1, MapCalls
  <2>2. CASE \E k \in Keys, v \in Values : CallSet(k, v) \/ CallSetGrow(k, v)
    BY <2>2, MapCalls, MapGrow
  <2> QED
    BY <1>1, <2>1, <2>2, MapOther, MapClear DEF Call
<1>2. CASE Work
  BY <1>2, MapSkipOld, MapRehouseOld, MapGrown, MapStep, MapReplace, MapInsert,
     MapRemove, MapOther DEF Work
<1>3. CASE Over \/ UNCHANGED vars
  BY <1>3, MapOther DEF Over
<1> QED
  BY <1>1, <1>2, <1>3 DEF Next

LEMMA SlotsCounted ==
    ASSUME TableInv, NEW w
    PROVE  In(w) = Among(state, slots, w)
BY DEF TableInv, In, Among

LEMMA EmptySlot ==
    ASSUME MapInv
    PROVE  \E s \in Slots(slots) : state[s] = Empty
<1>1. SUFFICES ASSUME Among(state, slots, Empty) = {} PROVE FALSE
  BY DEF Among
<1>2. /\ slots \in Nat /\ slots >= 2 /\ len \in Nat /\ dead \in Nat
      /\ state \in [Slots(slots) -> States]
  BY CountsNat DEF MapInv, TableInv
<1>3. len + dead = slots
  BY <1>1, <1>2, FullCount DEF MapInv, TableInv
<1> QED
  BY <1>2, <1>3 DEF MapInv, LoadInv

\* len and dead are the numbers of entries and of tombstones, for every hash,
\* every table and every sequence of calls, also in the middle of a growth.
THEOREM CountsCorrect == Spec => []CountsExact
<1>1. MapInv => CountsExact
  BY SlotsCounted DEF MapInv, TableInv, CountsExact, Count
<1> QED
  BY <1>1, MapInit, MapNext, PTL DEF Spec

\* Every index is within its array, and what a used slot holds is a key and
\* its value.
THEOREM MapTypes == Spec => []TypeOK
<1>1. ASSUME MapInv PROVE TypeOK
  <2>1. len \in 0 .. slots /\ dead \in 0 .. slots
    BY <1>1, CountsNat DEF MapInv, LoadInv
  <2>2. /\ state \in [Slots(slots) -> {Empty, Used, Dead}]
        /\ \A s \in In(Used) : keys[s] \in Keys /\ values[s] \in Values
    BY <1>1 DEF MapInv, TableInv, States, In
  <2> QED
    BY <1>1, <2>1, <2>2 DEF MapInv, TableInv, ProbeInv, TypeOK
<1> QED
  BY <1>1, MapInit, MapNext, PTL DEF Spec

\* There is always an empty slot to stop a probe, and a table being filled by a
\* growth never has to grow itself.
THEOREM EmptySlotRemains == Spec => []AlwaysAnEmptySlot
<1>1. ASSUME MapInv PROVE In(Empty) # {}
  BY <1>1, EmptySlot DEF In, MapInv, TableInv
<1>2. ASSUME MapInv, at \in {"grow", "rehouse"} PROVE ~Overloaded
  <2>1. /\ len \in Nat /\ Cardinality(Left) \in Nat /\ old.slots \in Nat
        /\ dead = 0 /\ old.slots >= 2 /\ slots = 2 * old.slots
        /\ 4 * (len + Cardinality(Left)) <= 3 * old.slots
    BY <1>2, CountsNat, LeftFinite DEF MapInv, GrowthInv
  <2> QED
    BY <2>1 DEF Overloaded
<1>3. MapInv => AlwaysAnEmptySlot
  BY <1>1, <1>2 DEF AlwaysAnEmptySlot
<1> QED
  BY <1>3, MapInit, MapNext, PTL DEF Spec

-----------------------------------------------------------------------------
(* No probe comes round.                                                   *)

\* The slots a probe has passed on its way from h to slot i.
Behind(h) == {s \in Slots(slots) : IF h <= i THEN h <= s /\ s < i
                                             ELSE h <= s \/ s < i}

\* None of them was empty.
PathInv ==
    at \in {"probe", "rehouse"} =>
        \A s \in Behind(Home(Key, slots)) : state[s] # Empty

LEMMA AfterSlot ==
    ASSUME TableInv, ProbeInv
    PROVE  After(i) = IF i = slots - 1 THEN 0 ELSE i + 1
<1>1. i \in Nat /\ slots \in Nat /\ slots > 0 /\ i <= slots - 1
  BY CountsNat DEF ProbeInv, Slots
<1>2. CASE i = slots - 1
  BY <1>1, <1>2 DEF After
<1>3. CASE i # slots - 1
  BY <1>1, <1>3 DEF After
<1> QED
  BY <1>2, <1>3

LEMMA KeyHome ==
    ASSUME MapInv, at \in {"probe", "rehouse"}
    PROVE  Home(Key, slots) \in Slots(slots)
<1>1. Key \in Keys
  BY DEF MapInv, Key, ProbeInv, GrowthInv, Slots
<1> QED
  BY <1>1, HomeSlot DEF MapInv

\* Were the next slot where the probe began, the probe would have passed every
\* slot there is, the empty one included.
LEMMA StepAway ==
    ASSUME MapInv, PathInv, Step
    PROVE  i' # Home(Key, slots)
<1> DEFINE h == Home(Key, slots)
<1>1. h \in Slots(slots) /\ i \in Slots(slots) /\ slots \in Nat
  BY KeyHome, CountsNat DEF Step, MapInv, ProbeInv
<1>2. i' = IF i = slots - 1 THEN 0 ELSE i + 1
  BY AfterSlot DEF Step, MapInv
<1>3. \A s \in Behind(h) : state[s] # Empty
  BY DEF PathInv, Step
<1>4. state[i] # Empty
  BY DEF Step, Absent
<1> HIDE DEF h
<1>5. SUFFICES ASSUME i' = h PROVE FALSE
  BY DEF h
<1>6. \A s \in Slots(slots) : s = i \/ s \in Behind(h)
  BY <1>1, <1>2, <1>5 DEF Behind, Slots
<1> QED
  BY <1>3, <1>4, <1>6, EmptySlot

LEMMA PathStep ==
    ASSUME MapInv, PathInv, Step
    PROVE  PathInv'
<1> DEFINE h == Home(Key, slots)
<1>1. h \in Slots(slots) /\ i \in Slots(slots) /\ slots \in Nat
  BY KeyHome, CountsNat DEF Step, MapInv, ProbeInv
<1>2. i' = IF i = slots - 1 THEN 0 ELSE i + 1
  BY AfterSlot DEF Step, MapInv
<1>3. i' # h
  BY StepAway
<1>4. (\A s \in Behind(h) : state[s] # Empty) /\ state[i] # Empty
  BY DEF PathInv, Step, Absent
<1>5. h' = h /\ state' = state /\ slots' = slots
  BY DEF Step, Home, Key, table
<1> HIDE DEF h
<1>6. Behind(h)' \subseteq Behind(h) \cup {i}
  BY <1>1, <1>2, <1>3, <1>5 DEF Behind, Slots
<1> QED
  BY <1>4, <1>5, <1>6 DEF PathInv, h

\* A probe that begins has passed nothing.
Begun == i = Home(Key, slots)

LEMMA PathStart == MapInv /\ Begun => PathInv
<1> SUFFICES ASSUME MapInv, Begun, at \in {"probe", "rehouse"} PROVE PathInv
  BY DEF PathInv
<1>1. Home(Key, slots) \in Slots(slots) /\ slots \in Nat
  BY KeyHome, CountsNat DEF MapInv
<1>2. Behind(Home(Key, slots)) = {}
  BY <1>1 DEF Behind, Slots, Begun
<1> QED
  BY <1>2 DEF PathInv

LEMMA PathNext == MapInv /\ PathInv /\ [Next]_vars => PathInv'
<1> SUFFICES ASSUME MapInv, PathInv, [Next]_vars PROVE PathInv'
    OBVIOUS
<1>0. MapInv'
  BY MapNext
<1>1. CASE Step
  BY <1>1, PathStep
<1>2. ASSUME NEW k \in Keys,
             \/ CallFind("get", k) \/ CallFind("remove", k)
             \/ \E v \in Values : CallSet(k, v)
      PROVE  PathInv'
  <2>1. Begun'
    BY <1>2 DEF CallFind, CallSet, Probing, Key, Home, table, Begun
  <2> QED
    BY <1>0, <2>1, PathStart, PTL
<1>3. CASE RehouseOld \/ Grown
  <2>1. Begun'
    BY <1>3 DEF RehouseOld, Grown, Probing, Key, Home, table, Begun
  <2> QED
    BY <1>0, <2>1, PathStart, PTL
<1>4. ASSUME at' \notin {"probe", "rehouse"} PROVE PathInv'
  BY <1>4 DEF PathInv
<1>5. CASE UNCHANGED vars
  <2>1. Behind(Home(Key, slots))' = Behind(Home(Key, slots))
    BY <1>5 DEF vars, table, Behind, Home, Key
  <2> QED
    BY <1>5, <2>1 DEF PathInv, vars, table
<1>6. CASE Call
  BY <1>2, <1>4, <1>6 DEF Call, CallSetGrow, CallSetFail, Clear, ListKeys,
     BeginEach, EachNext, Ready
<1>7. CASE Work
  BY <1>1, <1>3, <1>4, <1>7 DEF Work, SkipOld, Growing, Replace, Insert, Stored,
     Get, Remove, RemoveNothing, Return, EachBody, EachSkip, EachEnd, Scanning
<1> QED
  BY <1>5, <1>6, <1>7 DEF Next, Over

\* For every hash, table and history, a probe ends before it is back where it
\* began: map_slot_of and map_set return.
THEOREM ProbesReturn == Spec => ProbesEnd
<1>1. Init => PathInv
  BY DEF Init, PathInv
<1>2. MapInv /\ PathInv /\ [Next]_vars =>
        [(at \in {"probe", "rehouse"} /\ at' = at) => i' # Home(Key, slots)]_vars
  <2> SUFFICES ASSUME MapInv, PathInv, Next, at \in {"probe", "rehouse"}, at' = at
               PROVE  i' # Home(Key, slots) \/ UNCHANGED vars
    OBVIOUS
  <2>1. Step \/ UNCHANGED vars
    BY DEF Next, Over, Call, Work, CallFind, CallSet, CallSetGrow, CallSetFail,
       Clear, ListKeys, BeginEach, EachNext, Ready, SkipOld, RehouseOld, Grown,
       Growing, Replace, Insert, Stored, Get, Remove, RemoveNothing, Return,
       EachBody, EachSkip, EachEnd, Scanning
  <2> QED
    BY <2>1, StepAway
<1> QED
  BY <1>1, <1>2, MapInit, MapNext, PathNext, PTL DEF Spec, ProbesEnd

=============================================================================
