-------------------------- MODULE HashMapRefinement --------------------------
(***************************************************************************)
(* The table implements FiniteMap: for every hash, every size and every    *)
(* sequence of calls, each call is one step of a finite map, however many  *)
(* probes, tombstones and growths it took.                                 *)
(* And an iteration meets each entry once.                                 *)
(***************************************************************************)
EXTENDS HashMapProofs

-----------------------------------------------------------------------------
(* A set of pairs as a map.                                                *)

AsMap(P)  == [k \in {p[1] : p \in P} |-> (CHOOSE p \in P : p[1] = k)[2]]
Unique(P) == \A p, q \in P : p[1] = q[1] => p = q

LEMMA AsMapAt ==
    ASSUME NEW P, Unique(P), NEW p \in P
    PROVE  AsMap(P)[p[1]] = p[2]
<1>1. \E q \in P : q[1] = p[1]
  OBVIOUS
<1>2. (CHOOSE q \in P : q[1] = p[1]) = p
  BY <1>1 DEF Unique
<1> QED
  BY <1>2 DEF AsMap

\* Two unique sets of pairs that agree are one map.
LEMMA AsMapIs ==
    ASSUME NEW P, Unique(P), NEW f, f = [k \in DOMAIN f |-> f[k]],
           DOMAIN f = {p[1] : p \in P},
           \A p \in P : f[p[1]] = p[2]
    PROVE  AsMap(P) = f
<1>1. DOMAIN AsMap(P) = DOMAIN f
  BY DEF AsMap
<1>2. \A k \in DOMAIN f : AsMap(P)[k] = f[k]
  BY AsMapAt
<1>3. AsMap(P) = [k \in DOMAIN AsMap(P) |-> AsMap(P)[k]]
  BY DEF AsMap
<1> QED
  BY <1>1, <1>2, <1>3

\* A pair that takes the place of every other with its key.
LEMMA AsMapWith ==
    ASSUME NEW P, Unique(P), NEW k, NEW v
    PROVE  LET Q == {p \in P : p[1] # k} \cup {<<k, v>>}
               m == AsMap(P)
           IN  /\ Unique(Q)
               /\ AsMap(Q) = [j \in DOMAIN m \cup {k} |-> IF j = k THEN v ELSE m[j]]
<1> DEFINE Q == {p \in P : p[1] # k} \cup {<<k, v>>}
           m == AsMap(P)
           f == [j \in DOMAIN m \cup {k} |-> IF j = k THEN v ELSE m[j]]
<1>1. Unique(Q)
  BY DEF Unique
<1>2. DOMAIN m = {p[1] : p \in P}
  BY DEF AsMap
<1>3. \A p \in P : m[p[1]] = p[2]
  BY AsMapAt
<1> HIDE DEF m
<1>4. DOMAIN f = {q[1] : q \in Q}
  <2>1. <<k, v>> \in Q /\ <<k, v>>[1] = k
    OBVIOUS
  <2>2. {q[1] : q \in Q} = {p[1] : p \in P} \cup {k}
    BY <2>1
  <2> QED
    BY <1>2, <2>2
<1>5. ASSUME NEW q \in Q PROVE f[q[1]] = q[2]
  <2>1. CASE q = <<k, v>>
    BY <2>1
  <2>2. CASE q \in P /\ q[1] # k
    <3>1. q[1] \in DOMAIN m
      BY <1>2, <2>2
    <3> QED
      BY <1>3, <2>2, <3>1
  <2> QED
    BY <2>1, <2>2
<1>6. f = [j \in DOMAIN f |-> f[j]]
  OBVIOUS
<1> HIDE DEF f, Q
<1>7. AsMap(Q) = f
  BY <1>1, <1>4, <1>5, <1>6, AsMapIs
<1> QED
  BY <1>1, <1>7 DEF f, Q, m

\* The pairs of all keys but one.
LEMMA AsMapWithout ==
    ASSUME NEW P, Unique(P), NEW k
    PROVE  LET Q == {p \in P : p[1] # k}
               m == AsMap(P)
           IN  /\ Unique(Q)
               /\ AsMap(Q) = [j \in DOMAIN m \ {k} |-> m[j]]
<1> DEFINE Q == {p \in P : p[1] # k}
           m == AsMap(P)
           f == [j \in DOMAIN m \ {k} |-> m[j]]
<1>1. Unique(Q)
  BY DEF Unique
<1>2. DOMAIN m = {p[1] : p \in P}
  BY DEF AsMap
<1>3. \A p \in P : m[p[1]] = p[2]
  BY AsMapAt
<1> HIDE DEF m
<1>4. DOMAIN f = {q[1] : q \in Q}
  BY <1>2
<1>5. \A q \in Q : f[q[1]] = q[2]
  BY <1>2, <1>3
<1>6. f = [j \in DOMAIN f |-> f[j]]
  OBVIOUS
<1> HIDE DEF f, Q
<1>7. AsMap(Q) = f
  BY <1>1, <1>4, <1>5, <1>6, AsMapIs
<1> QED
  BY <1>1, <1>7 DEF f, Q, m

LEMMA NoPairs == AsMap({}) = <<>>
BY DEF AsMap

-----------------------------------------------------------------------------
(* Where a key is, and is not.                                             *)

\* The slots a probe from h passes before slot j.
Between(h, j) == {s \in Slots(slots) : IF h <= j THEN h <= s /\ s < j
                                                 ELSE h <= s \/ s < j}

\* An entry's chain: no slot between its home and its own is empty.
Unbroken ==
    \A s \in Slots(slots) : state[s] = Used =>
        \A t \in Between(Home(keys[s], slots), s) : state[t] # Empty

OnceEach ==
    \A s, t \in Slots(slots) :
        state[s] = Used /\ state[t] = Used /\ keys[s] = keys[t] => s = t

\* What is left to rehouse is in the new table neither twice nor already.
WaitingOnce ==
    at \in {"grow", "rehouse"} =>
        /\ \A s, t \in Left : old.keys[s] = old.keys[t] => s = t
        /\ \A s \in Left, t \in Slots(slots) :
              state[t] = Used => keys[t] # old.keys[s]

\* A probe has not passed what it looks for, and has passed the tombstone it
\* remembers.
Missed ==
    at \in {"probe", "rehouse"} =>
        /\ \A s \in Behind(Home(Key, slots)) : ~(state[s] = Used /\ keys[s] = Key)
        /\ reuse # NoSlot => reuse \in Behind(Home(Key, slots))

\* A call is in progress exactly while there is work to do for it, and has no
\* answer yet.
CallInv ==
    /\ at \in {"probe", "grow", "rehouse"} => answer = <<>>
    /\ at \notin {"grow", "rehouse"} => old = NoGrowth
    /\ at \in {"idle", "faulted"} => call = NoCall
    /\ at = "probe" => call.op \in {"get", "set", "remove"}

DictInv == Unbroken /\ OnceEach /\ WaitingOnce /\ Missed /\ CallInv
AllInv  == MapInv /\ PathInv /\ DictInv

\* Were the key in the table, its chain would pass the empty slot the probe
\* has come to.
LEMMA NotPassed ==
    ASSUME AllInv, at \in {"probe", "rehouse"}, Absent,
           NEW s \in Slots(slots), state[s] = Used
    PROVE  keys[s] # Key
<1> DEFINE h == Home(Key, slots)
<1>1. SUFFICES ASSUME keys[s] = Key PROVE FALSE
  OBVIOUS
<1>2. h \in Slots(slots) /\ i \in Slots(slots) /\ slots \in Nat
  BY KeyHome, CountsNat DEF AllInv, MapInv, ProbeInv
<1>3. s \notin Behind(h)
  BY <1>1 DEF AllInv, DictInv, Missed
<1>4. state[i] = Empty /\ s # i
  BY DEF Absent, Empty, Used
<1>5. \A t \in Between(h, s) : state[t] # Empty
  BY <1>1 DEF AllInv, DictInv, Unbroken
<1> HIDE DEF h
<1>6. i \in Between(h, s)
  BY <1>2, <1>3, <1>4 DEF Behind, Between, Slots
<1> QED
  BY <1>4, <1>5, <1>6

\* An entry a growth has yet to rehouse is not in the new table.
LEMMA RehousesNew ==
    ASSUME AllInv, at = "rehouse"
    PROVE  ~Here
<1>1. old.next \in Left
  BY DEF AllInv, MapInv, GrowthInv, Left, Slots
<1>2. i \in Slots(slots)
  BY DEF AllInv, MapInv, ProbeInv
<1> QED
  BY <1>1, <1>2 DEF AllInv, DictInv, WaitingOnce, Here, Key

LEMMA MissedStart == MapInv /\ Begun /\ reuse = NoSlot => Missed
<1> SUFFICES ASSUME MapInv, Begun, reuse = NoSlot, at \in {"probe", "rehouse"}
             PROVE  Missed
  BY DEF Missed
<1>1. Home(Key, slots) \in Slots(slots) /\ slots \in Nat
  BY KeyHome, CountsNat DEF MapInv
<1>2. Behind(Home(Key, slots)) = {}
  BY <1>1 DEF Behind, Slots, Begun
<1> QED
  BY <1>2 DEF Missed

\* A table no entry of which moves or changes its key.
LEMMA SameTable ==
    ASSUME Unbroken, OnceEach, UNCHANGED <<hash, slots, state, keys>>
    PROVE  Unbroken' /\ OnceEach'
BY DEF Unbroken, OnceEach, Home, Between

LEMMA DictBegins ==
    ASSUME AllInv, MapInv', NEW k \in Keys,
           \/ CallFind("get", k) \/ CallFind("remove", k)
           \/ \E v \in Values : CallSet(k, v)
    PROVE  DictInv'
<1> USE DEF AllInv, DictInv, Ready
<1>1. /\ UNCHANGED table /\ at = "idle" /\ at' = "probe" /\ old' = old
      /\ i' = Home(k, slots) /\ reuse' = NoSlot
      /\ call'.key = k /\ call'.op \in {"get", "set", "remove"}
      /\ answer' = <<>>
  BY DEF CallFind, CallSet, Probing
<1>2. Unbroken' /\ OnceEach'
  BY <1>1, SameTable DEF table
<1>3. Missed'
  <2>1. Begun'
    BY <1>1 DEF Key, Home, table, Begun
  <2>2. (MapInv /\ Begun /\ reuse = NoSlot)'
    BY <1>1, <2>1
  <2> QED
    BY <2>2, MissedStart, PTL
<1>4. WaitingOnce' /\ CallInv'
  BY <1>1 DEF WaitingOnce, CallInv
<1> QED
  BY <1>2, <1>3, <1>4

\* Every entry of the old table is left, and none is in the new one.
LEMMA DictGrows ==
    ASSUME AllInv, NEW k \in Keys, NEW v \in Values, CallSetGrow(k, v)
    PROVE  DictInv'
<1> USE DEF AllInv, DictInv, CallSetGrow
<1>1. \A s \in Slots(slots') : state'[s] # Used
  BY DEF Empty, Used
<1>2. Unbroken' /\ OnceEach'
  BY <1>1 DEF Unbroken, OnceEach
<1>3. WaitingOnce'
  <2>1. old' = [slots |-> slots, state |-> state, keys |-> keys,
                values |-> values, next |-> 0]
    OBVIOUS
  <2>2. \A s \in Left' : s \in Slots(slots) /\ state[s] = Used
    BY <2>1 DEF Left
  <2> QED
    BY <1>1, <2>1, <2>2 DEF WaitingOnce, OnceEach
<1>4. Missed' /\ CallInv'
  BY DEF Missed, CallInv
<1> QED
  BY <1>2, <1>3, <1>4

LEMMA LeftShrinks ==
    ASSUME MapInv, at \in {"grow", "rehouse"}, old.next < old.slots,
           old' = [old EXCEPT !.next = @ + 1]
    PROVE  /\ UNCHANGED <<old.slots, old.state, old.keys, old.values>>
           /\ Left' = Left \ {old.next}
<1>1. /\ old' = [slots |-> old.slots, state |-> old.state, keys |-> old.keys,
                 values |-> old.values, next |-> old.next + 1]
  BY LeftNext DEF MapInv
<1>2. old.next \in 0 .. old.slots /\ old.slots \in Nat
  BY DEF MapInv, GrowthInv
<1> QED
  BY <1>1, <1>2 DEF Left, Slots

LEMMA DictGrowing ==
    ASSUME AllInv, MapInv', SkipOld \/ RehouseOld \/ Grown
    PROVE  DictInv'
<1> USE DEF AllInv, DictInv, Growing
<1>1. at = "grow" /\ UNCHANGED table /\ call' = call /\ answer' = answer
  BY DEF SkipOld, RehouseOld, Grown
<1>2. Unbroken' /\ OnceEach'
  BY <1>1, SameTable DEF table
<1>3. CASE SkipOld
  <2>1. /\ UNCHANGED <<old.slots, old.state, old.keys, old.values>>
        /\ Left' = Left \ {old.next} /\ at' = at
    BY <1>3, LeftShrinks DEF SkipOld
  <2>2. WaitingOnce'
    BY <1>1, <2>1 DEF WaitingOnce, table
  <2>3. Missed' /\ CallInv'
    BY <1>1, <2>1 DEF Missed, CallInv
  <2> QED
    BY <1>2, <2>2, <2>3
<1>4. CASE RehouseOld
  <2>1. old' = old /\ at' = "rehouse" /\ reuse' = NoSlot
    BY <1>4 DEF RehouseOld
  <2>2. Left' = Left
    BY <2>1 DEF Left
  <2>3. WaitingOnce' /\ CallInv'
    BY <1>1, <2>1, <2>2 DEF WaitingOnce, CallInv, table
  <2>4. Begun'
    BY <1>4 DEF RehouseOld, Key, Home, table, Begun
  <2>5. Missed'
    <3>1. (MapInv /\ Begun /\ reuse = NoSlot)'
      BY <2>1, <2>4
    <3> QED
      BY <3>1, MissedStart, PTL
  <2> QED
    BY <1>2, <2>3, <2>5
<1>5. CASE Grown
  <2>1. old' = NoGrowth /\ at' = "probe" /\ reuse' = NoSlot
    BY <1>5 DEF Grown, Probing
  <2>2. call.op = "set"
    BY <1>1 DEF MapInv, ProbeInv
  <2>3. WaitingOnce' /\ CallInv'
    BY <1>1, <2>1, <2>2 DEF WaitingOnce, CallInv
  <2>4. Begun'
    BY <1>5 DEF Grown, Probing, Key, Home, table, Begun
  <2>5. Missed'
    <3>1. (MapInv /\ Begun /\ reuse = NoSlot)'
      BY <2>1, <2>4
    <3> QED
      BY <3>1, MissedStart, PTL
  <2> QED
    BY <1>2, <2>3, <2>5
<1> QED
  BY <1>3, <1>4, <1>5

LEMMA DictSteps ==
    ASSUME AllInv, Step
    PROVE  DictInv'
<1> USE DEF AllInv, DictInv
<1> DEFINE h == Home(Key, slots)
<1>1. UNCHANGED <<table, call, at, old, answer>> /\ at \in {"probe", "rehouse"}
  BY DEF Step
<1>2. Unbroken' /\ OnceEach'
  BY <1>1, SameTable DEF table
<1>3. WaitingOnce' /\ CallInv'
  <2>1. Left' = Left
    BY <1>1 DEF Left
  <2> QED
    BY <1>1, <2>1 DEF WaitingOnce, CallInv, table
<1>4. Missed'
  <2>1. h \in Slots(slots) /\ i \in Slots(slots) /\ slots \in Nat
    BY <1>1, KeyHome, CountsNat DEF MapInv, ProbeInv
  <2>2. i' = IF i = slots - 1 THEN 0 ELSE i + 1
    BY AfterSlot DEF Step, MapInv
  <2>3. i' # h
    BY StepAway
  <2>4. h' = h /\ Key' = Key /\ UNCHANGED <<state, keys, slots>>
    BY <1>1 DEF Home, Key, table
  <2>5. /\ \A s \in Behind(h) : ~(state[s] = Used /\ keys[s] = Key)
        /\ reuse # NoSlot => reuse \in Behind(h)
    BY <1>1 DEF Missed
  <2>6. ~(state[i] = Used /\ keys[i] = Key) /\ reuse' \in {reuse, i}
    BY DEF Step, Here
  <2> HIDE DEF h
  <2>7. Behind(h)' = Behind(h) \cup {i}
    BY <2>1, <2>2, <2>3, <2>4 DEF Behind, Slots
  <2>8. \A s \in Behind(h)' : ~(state[s] = Used /\ keys[s] = Key)
    BY <2>5, <2>6, <2>7
  <2>9. reuse' # NoSlot => reuse' \in Behind(h)'
    BY <2>5, <2>6, <2>7
  <2> QED
    BY <2>4, <2>8, <2>9 DEF Missed, h
<1> QED
  BY <1>2, <1>3, <1>4

LEMMA DictReplaces ==
    ASSUME AllInv, Replace
    PROVE  DictInv'
<1> USE DEF AllInv, DictInv
<1>1. at # "rehouse"
  BY RehousesNew DEF Replace
<1>2. /\ UNCHANGED <<hash, slots, state, keys>> /\ at' = "idle" /\ old' = old
      /\ call' = NoCall /\ at = "probe"
  BY <1>1 DEF Replace, Stored, Inserting
<1>3. Unbroken' /\ OnceEach'
  BY <1>2, SameTable
<1>4. WaitingOnce' /\ Missed' /\ CallInv'
  BY <1>2 DEF WaitingOnce, Missed, CallInv
<1> QED
  BY <1>3, <1>4

LEMMA DictRemoves ==
    ASSUME AllInv, Remove
    PROVE  DictInv'
<1> USE DEF AllInv, DictInv
<1>1. /\ UNCHANGED <<hash, slots, keys>> /\ at' = "idle" /\ old' = old
      /\ call' = NoCall /\ at = "probe" /\ state' = [state EXCEPT ![i] = Dead]
  BY DEF Remove, Return, Finding, Buried
<1>2. state \in [Slots(slots) -> States]
  BY DEF MapInv, TableInv
<1>3. \A s \in Slots(slots) :
         /\ state'[s] = Used => state[s] = Used
         /\ state[s] # Empty => state'[s] # Empty
  BY <1>1, <1>2 DEF Empty, Used, Dead
<1>4. Unbroken'
  <2>1. \A k : Home(k, slots)' = Home(k, slots)
    BY <1>1 DEF Home
  <2>2. \A g, j : Between(g, j)' = Between(g, j) /\ Between(g, j) \subseteq Slots(slots)
    BY <1>1 DEF Between
  <2> QED
    BY <1>1, <1>3 DEF Unbroken, Home, Between
<1>5. OnceEach'
  BY <1>1, <1>3 DEF OnceEach
<1>6. WaitingOnce' /\ Missed' /\ CallInv'
  BY <1>1 DEF WaitingOnce, Missed, CallInv
<1> QED
  BY <1>4, <1>5, <1>6

LEMMA DictClears ==
    ASSUME AllInv, Clear
    PROVE  DictInv'
<1> USE DEF AllInv, DictInv
<1>1. /\ at = "idle" /\ at' = at /\ call' = call /\ old' = old
      /\ slots' = slots
  BY DEF Clear, Ready
<1>2. \A s \in Slots(slots) : state'[s] # Used
  BY DEF Clear, MapInv, TableInv, Empty, Used
<1>3. Unbroken' /\ OnceEach'
  BY <1>1, <1>2 DEF Unbroken, OnceEach
<1>4. WaitingOnce' /\ Missed' /\ CallInv'
  BY <1>1 DEF WaitingOnce, Missed, CallInv
<1> QED
  BY <1>3, <1>4

\* The new entry's chain is what the probe has passed.
LEMMA DictInserts ==
    ASSUME AllInv, Insert
    PROVE  DictInv'
<1> USE DEF AllInv, DictInv
<1> DEFINE h == Home(Key, slots)
           s == IF reuse = NoSlot THEN i ELSE reuse
<1>1. /\ at \in {"probe", "rehouse"} /\ Absent /\ state[i] = Empty
      /\ state' = [state EXCEPT ![s] = Used]
      /\ keys' = [keys EXCEPT ![s] = Key]
      /\ slots' = slots /\ hash' = hash
  BY DEF Insert, Inserting, Absent
<1>2. /\ state \in [Slots(slots) -> States] /\ slots \in Nat
      /\ DOMAIN keys = Slots(slots) /\ i \in Slots(slots)
  BY CountsNat DEF MapInv, TableInv, ProbeInv
<1>3. s \in {i} \cup Behind(h) /\ h \in Slots(slots)
  BY <1>1, KeyHome DEF Missed
<1>4. s \in Slots(slots)
  BY <1>2, <1>3 DEF Behind
<1>5. state[s] # Used
  BY <1>1 DEF MapInv, ProbeInv, Used, Dead, Empty
<1>6. \A t \in Behind(h) : state[t] # Empty
  BY <1>1 DEF PathInv
<1>7. \A t \in Slots(slots) : state[t] = Used => keys[t] # Key
  BY <1>1, NotPassed
<1>8. \A t \in Slots(slots) :
         /\ state'[t] = IF t = s THEN Used ELSE state[t]
         /\ keys'[t] = IF t = s THEN Key ELSE keys[t]
  <2> HIDE DEF s
  <2> QED
    BY <1>1, <1>2, <1>4
<1>9. /\ \A k : Home(k, slots)' = Home(k, slots)
      /\ \A g, j : Between(g, j)' = Between(g, j)
  BY <1>1 DEF Home, Between
<1>10. Unbroken'
  <2> HIDE DEF h, s
  <2>1. Between(h, s) \subseteq Behind(h)
    BY <1>2, <1>3, <1>4 DEF Between, Behind, Slots, h
  <2>2. ASSUME NEW r \in Slots(slots), state'[r] = Used,
               NEW t \in Between(Home(keys'[r], slots), r)
        PROVE  state'[t] # Empty
    <3>1. t \in Slots(slots)
      BY DEF Between
    <3>2. CASE r = s
      <4>1. keys'[r] = Key
        BY <1>8, <3>2
      <4>2. state[t] # Empty
        BY <1>6, <2>1, <2>2, <3>2, <4>1 DEF h
      <4> QED
        BY <1>8, <3>1, <4>2 DEF Empty, Used
    <3>3. CASE r # s
      <4>1. state[t] # Empty
        BY <1>8, <2>2, <3>3 DEF Unbroken
      <4> QED
        BY <1>8, <3>1, <4>1 DEF Empty, Used
    <3> QED
      BY <3>2, <3>3
  <2> QED
    BY <1>1, <1>9, <2>2 DEF Unbroken, Home, Between
<1>11. OnceEach'
  <2> HIDE DEF h, s
  <2> QED
    BY <1>1, <1>7, <1>8 DEF OnceEach
<1>12. WaitingOnce'
  <2>1. CASE at = "rehouse"
    <3>1. /\ old.next < old.slots /\ old' = [old EXCEPT !.next = @ + 1]
          /\ old.next \in Left
      BY <2>1 DEF Insert, Stored, MapInv, GrowthInv, Left, Slots
    <3>2. /\ UNCHANGED <<old.slots, old.state, old.keys, old.values>>
          /\ Left' = Left \ {old.next}
      BY <2>1, <3>1, LeftShrinks
    <3>3. Key = old.keys[old.next]
      BY <2>1 DEF Key
    <3> HIDE DEF s
    <3> QED
      BY <1>1, <1>8, <2>1, <3>1, <3>2, <3>3 DEF WaitingOnce
  <2>2. CASE at # "rehouse"
    BY <2>2 DEF Insert, Stored, WaitingOnce
  <2> QED
    BY <2>1, <2>2
<1>13. Missed' /\ CallInv'
  <2>1. CASE at = "rehouse"
    BY <2>1 DEF Insert, Stored, Missed, CallInv
  <2>2. CASE at # "rehouse"
    BY <1>1, <2>2 DEF Insert, Stored, Missed, CallInv
  <2> QED
    BY <2>1, <2>2
<1> QED
  BY <1>10, <1>11, <1>12, <1>13

LEMMA DictQuiet ==
    ASSUME AllInv,
           \/ CallSetFail \/ ListKeys \/ BeginEach \/ EachNext
           \/ Get \/ RemoveNothing \/ EachBody \/ EachSkip \/ EachEnd
           \/ UNCHANGED vars
    PROVE  DictInv'
<1> USE DEF AllInv, DictInv
<1>1. UNCHANGED <<table, old>>
  BY DEF CallSetFail, ListKeys, BeginEach, EachNext, Get, RemoveNothing,
     EachBody, EachSkip, EachEnd, vars
<1>2. Unbroken' /\ OnceEach'
  BY <1>1, SameTable DEF table
<1>3. CASE UNCHANGED vars
  <2>1. Left' = Left /\ Behind(Home(Key, slots))' = Behind(Home(Key, slots))
        /\ Key' = Key
    BY <1>3 DEF vars, table, Left, Behind, Home, Key
  <2> QED
    BY <1>2, <1>3, <2>1 DEF vars, table, WaitingOnce, Missed, CallInv
<1>4. CASE ~UNCHANGED vars
  <2>1. /\ at \in {"idle", "probe"} /\ at' \in {"idle", "faulted"}
        /\ call' = NoCall
    BY <1>4 DEF CallSetFail, ListKeys, BeginEach, EachNext, Get, RemoveNothing,
       EachBody, EachSkip, EachEnd, Ready, Scanning, Finding, Return, CallInv
  <2> QED
    BY <1>1, <1>2, <2>1 DEF WaitingOnce, Missed, CallInv
<1> QED
  BY <1>3, <1>4

LEMMA DictInit == Init => AllInv
<1> SUFFICES ASSUME Init PROVE AllInv
    OBVIOUS
<1>1. MapInv
  BY MapInit
<1>2. \A s \in Slots(slots) : state[s] # Used
  BY DEF Init, Empty, Used
<1> QED
  BY <1>1, <1>2 DEF Init, AllInv, PathInv, DictInv, Unbroken, OnceEach,
     WaitingOnce, Missed, CallInv

LEMMA AllNext == AllInv /\ [Next]_vars => AllInv'
<1> SUFFICES ASSUME AllInv, [Next]_vars PROVE AllInv'
    OBVIOUS
<1>1. MapInv' /\ PathInv'
  BY MapNext, PathNext DEF AllInv
<1>2. DictInv'
  <2>1. CASE Call
    BY <1>1, <2>1, DictBegins, DictGrows, DictClears, DictQuiet DEF Call
  <2>2. CASE Work
    BY <1>1, <2>2, DictGrowing, DictSteps, DictReplaces, DictInserts,
       DictRemoves, DictQuiet DEF Work
  <2>3. CASE Over \/ UNCHANGED vars
    BY <2>3, DictQuiet DEF Over
  <2> QED
    BY <2>1, <2>2, <2>3 DEF Next
<1> QED
  BY <1>1, <1>2 DEF AllInv

-----------------------------------------------------------------------------
(* What the table stands for.                                              *)

Held    == {s \in Slots(slots) : state[s] = Used}
Unmoved == IF at \in {"grow", "rehouse"} THEN Left ELSE {}
Pairs   == {<<keys[s], values[s]>> : s \in Held}
             \cup {<<old.keys[s], old.values[s]>> : s \in Unmoved}

LEMMA WaitingUnmoved == ASSUME AllInv PROVE Waiting = Unmoved
<1>1. CASE at \in {"grow", "rehouse"}
  <2>1. /\ old.slots \in Nat /\ old.slots >= 2 /\ old.next \in 0 .. old.slots
    BY <1>1 DEF AllInv, MapInv, GrowthInv
  <2>2. old # NoGrowth
    BY <2>1 DEF NoGrowth
  <2> QED
    BY <1>1, <2>1, <2>2 DEF Waiting, Unmoved, Left, Slots
<1>2. CASE at \notin {"grow", "rehouse"}
  BY <1>2 DEF Waiting, Unmoved, AllInv, DictInv, CallInv
<1> QED
  BY <1>1, <1>2

LEMMA PairsUnique == ASSUME AllInv PROVE Unique(Pairs)
<1> USE DEF AllInv, DictInv
<1>1. SUFFICES ASSUME NEW p \in Pairs, NEW q \in Pairs, p[1] = q[1] PROVE p = q
  BY DEF Unique
<1>2. \A s, t \in Held : keys[s] = keys[t] => s = t
  BY DEF OnceEach, Held
<1>3. \A s, t \in Unmoved : old.keys[s] = old.keys[t] => s = t
  BY DEF WaitingOnce, Unmoved
<1>4. \A s \in Unmoved, t \in Held : keys[t] # old.keys[s]
  BY DEF WaitingOnce, Unmoved, Held
<1>5. \/ \E s \in Held : p = <<keys[s], values[s]>>
      \/ \E s \in Unmoved : p = <<old.keys[s], old.values[s]>>
  BY DEF Pairs
<1>6. \/ \E s \in Held : q = <<keys[s], values[s]>>
      \/ \E s \in Unmoved : q = <<old.keys[s], old.values[s]>>
  BY DEF Pairs
<1> QED
  BY <1>1, <1>2, <1>3, <1>4, <1>5, <1>6

\* Contents is these pairs as a map.
LEMMA ContentsAre == AllInv => Contents = AsMap(Pairs) /\ Unique(Pairs)
<1> SUFFICES ASSUME AllInv PROVE Contents = AsMap(Pairs) /\ Unique(Pairs)
    OBVIOUS
<1>1. In(Used) = Held
  BY DEF AllInv, MapInv, TableInv, In, Held
<1>2. Waiting = Unmoved
  BY WaitingUnmoved
<1>3. Contents = AsMap(Pairs)
  BY <1>1, <1>2 DEF Contents, AsMap, Pairs
<1> QED
  BY <1>3, PairsUnique

\* Steps that leave the pairs alone leave the map alone.
LEMMA SamePairs ==
    ASSUME AllInv, AllInv', Pairs' = Pairs
    PROVE  Contents' = Contents
<1>1. (Contents = AsMap(Pairs))'
  <2>1. AllInv'
    OBVIOUS
  <2> QED
    BY <2>1, ContentsAre, PTL
<1> QED
  BY <1>1, ContentsAre DEF AsMap

LEMMA ContentsFunction ==
    ASSUME AllInv
    PROVE  /\ Contents = [k \in DOMAIN Contents |-> Contents[k]]
           /\ DOMAIN Contents = {p[1] : p \in Pairs}
           /\ \A p \in Pairs : Contents[p[1]] = p[2]
BY ContentsAre, AsMapAt DEF AsMap

\* Between growths the keys are those of the used slots.
LEMMA Domain ==
    ASSUME AllInv, at \notin {"grow", "rehouse"}
    PROVE  DOMAIN Contents = {keys[s] : s \in Held}
<1>1. Pairs = {<<keys[s], values[s]>> : s \in Held}
  BY DEF Pairs, Unmoved
<1>2. {p[1] : p \in Pairs} = {keys[s] : s \in Held}
  <2>1. ASSUME NEW p \in Pairs PROVE p[1] \in {keys[s] : s \in Held}
    BY <1>1
  <2>2. ASSUME NEW s \in Held PROVE keys[s] \in {p[1] : p \in Pairs}
    <3>1. <<keys[s], values[s]>> \in Pairs /\ <<keys[s], values[s]>>[1] = keys[s]
      BY <1>1
    <3> QED
      BY <3>1
  <2> QED
    BY <2>1, <2>2
<1> QED
  BY <1>2, ContentsFunction

\* A probe of the program's that ends has found the key, or it is not there.
LEMMA Found ==
    ASSUME AllInv, at = "probe", Here
    PROVE  Key \in DOMAIN Contents /\ Contents[Key] = values[i]
<1>1. i \in Held
  BY DEF AllInv, MapInv, ProbeInv, Here, Held
<1>2. <<Key, values[i]>> \in Pairs
  BY <1>1 DEF Here, Pairs
<1>3. <<Key, values[i]>>[1] = Key /\ <<Key, values[i]>>[2] = values[i]
  OBVIOUS
<1> QED
  BY <1>2, <1>3, ContentsFunction

LEMMA NotFound ==
    ASSUME AllInv, at = "probe", Absent
    PROVE  Key \notin DOMAIN Contents
BY Domain, NotPassed DEF Held

-----------------------------------------------------------------------------
(* Each step is one of FiniteMap's, or none.                               *)

Refines == [Abstract!Next]_<<Contents, call, answer, at = "faulted">>

\* The library at work on a call that is not over.
LEMMA WorkUnseen ==
    ASSUME AllInv, AllInv', Pairs' = Pairs, UNCHANGED <<call, answer>>,
           at # "faulted", at' # "faulted"
    PROVE  Refines
BY SamePairs DEF Refines

LEMMA BeginsMake ==
    ASSUME AllInv, AllInv', NEW k \in Keys,
           \/ CallFind("get", k) \/ CallFind("remove", k)
           \/ \E v \in Values : CallSet(k, v) \/ CallSetGrow(k, v)
    PROVE  Refines
<1>1. at = "idle" /\ at' # "faulted" /\ answer' = <<>> /\ call = NoCall
  BY DEF CallFind, CallSet, CallSetGrow, Ready, Probing, AllInv, DictInv, CallInv
<1>2. Pairs' = Pairs
  <2>1. CASE UNCHANGED table /\ at' = "probe"
    <3>1. Held' = Held /\ Unmoved' = {} /\ Unmoved = {}
      BY <1>1, <2>1 DEF Held, Unmoved, table
    <3> QED
      BY <2>1, <3>1 DEF Pairs, table
  <2>2. ASSUME NEW v \in Values, CallSetGrow(k, v) PROVE Pairs' = Pairs
    <3>1. old' = [slots |-> slots, state |-> state, keys |-> keys,
                  values |-> values, next |-> 0] /\ at' = "grow"
      BY <2>2 DEF CallSetGrow
    <3>2. slots \in Nat
      BY CountsNat DEF AllInv, MapInv
    <3>3. Unmoved' = Held
      BY <3>1, <3>2 DEF Unmoved, Left, Held, Slots
    <3>4. Held' = {}
      BY <2>2 DEF CallSetGrow, Held, Used, Empty
    <3>5. Unmoved = {}
      BY <1>1 DEF Unmoved
    <3> QED
      BY <3>1, <3>3, <3>4, <3>5 DEF Pairs
  <2> QED
    BY <2>1, <2>2 DEF CallFind, CallSet, Probing
<1>3. \/ call' \in {[op |-> "get", key |-> k], [op |-> "remove", key |-> k]}
      \/ \E v \in Values : call' = [op |-> "set", key |-> k, value |-> v]
  BY DEF CallFind, CallSet, CallSetGrow
<1>4. Contents' = Contents
  BY <1>2, SamePairs
<1>5. Abstract!Make
  BY <1>1, <1>3, <1>4 DEF Abstract!Make, Abstract!NoCall, NoCall
<1> QED
  BY <1>1, <1>5 DEF Refines, Abstract!Next

\* A growth moves entries from the old table to the new one.
LEMMA GrowingUnseen ==
    ASSUME AllInv, AllInv', SkipOld \/ RehouseOld \/ Grown
    PROVE  Refines
<1>1. /\ at = "grow" /\ UNCHANGED <<table, call, answer>>
      /\ at' \in {"grow", "rehouse", "probe"}
  BY DEF SkipOld, RehouseOld, Grown, Growing, Probing
<1>2. MapInv
  BY DEF AllInv
<1>3. \/ UNCHANGED <<old.keys, old.values>> /\ Unmoved' = Unmoved
      \/ Unmoved \cup Unmoved' = {}
  <2>1. CASE SkipOld
    <3>1. /\ UNCHANGED <<old.keys, old.values>> /\ Left' = Left \ {old.next}
          /\ at' = "grow"
      BY <1>1, <1>2, <2>1, LeftShrinks DEF SkipOld
    <3>2. old.next \notin Left
      BY <2>1 DEF SkipOld, Left
    <3> QED
      BY <1>1, <3>1, <3>2 DEF Unmoved
  <2>2. CASE RehouseOld
    BY <2>2, <1>1 DEF RehouseOld, Unmoved, Left
  <2>3. CASE Grown
    <3>1. Left = {}
      BY <1>1, <1>2, <2>3 DEF Grown, Left, Slots, MapInv, GrowthInv
    <3> QED
      BY <1>1, <2>3, <3>1 DEF Grown, Probing, Unmoved
  <2> QED
    BY <2>1, <2>2, <2>3
<1>4. Held' = Held
  BY <1>1 DEF Held, table
<1>5. Pairs' = Pairs
  BY <1>1, <1>3, <1>4 DEF Pairs, table
<1> QED
  BY <1>1, <1>5, WorkUnseen

LEMMA StepUnseen ==
    ASSUME AllInv, AllInv', Step
    PROVE  Refines
<1>1. UNCHANGED <<table, call, at, old, answer>> /\ at \in {"probe", "rehouse"}
  BY DEF Step
<1>2. Pairs' = Pairs
  BY <1>1 DEF Pairs, Held, Unmoved, Left, table
<1> QED
  BY <1>1, <1>2, WorkUnseen

\* The pairs after an insertion.
LEMMA InsertPairs ==
    ASSUME AllInv, Insert \/ Replace, at = "probe"
    PROVE  Pairs' = {p \in Pairs : p[1] # Key} \cup {<<Key, Value>>}
<1> DEFINE s == IF Replace THEN i ELSE IF reuse = NoSlot THEN i ELSE reuse
<1> USE DEF AllInv, DictInv, MapInv
<1>1. /\ s \in Slots(slots) /\ slots' = slots /\ at' = "idle"
      /\ values' = [values EXCEPT ![s] = Value]
  BY DEF Insert, Replace, Stored, ProbeInv
<1>2. \A t \in Slots(slots) :
         /\ state'[t] = IF t = s THEN Used ELSE state[t]
         /\ keys'[t] = IF t = s THEN Key ELSE keys[t]
         /\ values'[t] = IF t = s THEN Value ELSE values[t]
  <2>1. /\ state \in [Slots(slots) -> States]
        /\ DOMAIN keys = Slots(slots) /\ DOMAIN values = Slots(slots)
    BY DEF TableInv
  <2>2. ASSUME NEW t \in Slots(slots)
        PROVE  values'[t] = IF t = s THEN Value ELSE values[t]
    <3> HIDE DEF s
    <3> QED
      BY <1>1, <2>1
  <2>3. CASE Replace
    <3>1. state[s] = Used /\ keys[s] = Key /\ UNCHANGED <<state, keys>>
      BY <2>3 DEF Replace, Here
    <3> QED
      BY <2>2, <3>1
  <2>4. CASE ~Replace
    <3>1. /\ state' = [state EXCEPT ![s] = Used]
          /\ keys' = [keys EXCEPT ![s] = Key]
      BY <2>4 DEF Insert
    <3> HIDE DEF s
    <3> QED
      BY <1>1, <2>1, <2>2, <3>1
  <2> QED
    BY <2>3, <2>4
<1>3. \A t \in Slots(slots) : t # s /\ state[t] = Used => keys[t] # Key
  <2>1. CASE Replace
    BY <1>1, <2>1 DEF Replace, Here, OnceEach
  <2>2. CASE ~Replace
    BY <2>2, NotPassed DEF Insert
  <2> QED
    BY <2>1, <2>2
<1> HIDE DEF s
<1>4. state[s] = Used => keys[s] = Key
  <2>1. CASE Replace
    BY <2>1 DEF s, Replace, Here
  <2>2. CASE ~Replace
    BY <2>2 DEF s, Insert, Absent, ProbeInv, Used, Dead, Empty
  <2> QED
    BY <2>1, <2>2
<1>5. Held' = Held \cup {s}
  BY <1>1, <1>2 DEF Held
<1>6. Unmoved = {} /\ Unmoved' = {}
  BY <1>1 DEF Unmoved
<1>7. Pairs = {<<keys[t], values[t]>> : t \in Held}
  BY <1>6 DEF Pairs
<1>8. {p \in Pairs : p[1] # Key} = {<<keys[t], values[t]>> : t \in Held \ {s}}
  <2>1. \A t \in Held : <<keys[t], values[t]>>[1] = keys[t]
    OBVIOUS
  <2>2. \A t \in Held : keys[t] # Key <=> t # s
    BY <1>3, <1>4 DEF Held
  <2> QED
    BY <1>7, <2>1, <2>2
<1>9. Pairs' = {<<keys'[t], values'[t]>> : t \in Held'}
  BY <1>6 DEF Pairs
<1>10. \A t \in Held' : <<keys'[t], values'[t]>>
                          = IF t = s THEN <<Key, Value>> ELSE <<keys[t], values[t]>>
  BY <1>1, <1>2, <1>5 DEF Held
<1>11. {<<keys'[t], values'[t]>> : t \in Held'}
         = {<<keys[t], values[t]>> : t \in Held \ {s}} \cup {<<Key, Value>>}
  BY <1>5, <1>10
<1> QED
  BY <1>8, <1>9, <1>11

LEMMA StoresSet ==
    ASSUME AllInv, AllInv', Insert \/ Replace, at = "probe"
    PROVE  Refines
<1>1. /\ call.op = "set" /\ call' = NoCall /\ answer' = answer /\ at' = "idle"
      /\ Key = call.key /\ Value = call.value /\ answer = <<>>
  BY DEF Insert, Replace, Stored, Inserting, Key, Value, AllInv, DictInv, CallInv
<1>2. Contents' = Abstract!With(Key, Value)
  <2>1. (Contents = AsMap(Pairs))'
    <3>1. AllInv'
      OBVIOUS
    <3> QED
      BY <3>1, ContentsAre, PTL
  <2>2. Contents' = AsMap(Pairs')
    BY <2>1 DEF AsMap
  <2>3. Contents = AsMap(Pairs) /\ Unique(Pairs)
    BY ContentsAre
  <2>4. AsMap({p \in Pairs : p[1] # Key} \cup {<<Key, Value>>})
          = [j \in DOMAIN AsMap(Pairs) \cup {Key} |->
                IF j = Key THEN Value ELSE AsMap(Pairs)[j]]
    BY <2>3, AsMapWith
  <2> QED
    BY <2>2, <2>3, <2>4, InsertPairs DEF Abstract!With
<1>3. Abstract!Set
  BY <1>1, <1>2 DEF Abstract!Set, Abstract!Wants, Abstract!Answer,
     Abstract!NoCall, NoCall
<1> QED
  BY <1>1, <1>3 DEF Refines, Abstract!Next

\* The entry that is rehoused was the next to be.
LEMMA RehouseUnseen ==
    ASSUME AllInv, AllInv', Insert \/ Replace, at = "rehouse"
    PROVE  Refines
<1> DEFINE s == IF reuse = NoSlot THEN i ELSE reuse
<1> USE DEF AllInv, MapInv
<1>1. /\ Insert /\ at' = "grow" /\ UNCHANGED <<call, answer, slots>>
      /\ old' = [old EXCEPT !.next = @ + 1]
      /\ state' = [state EXCEPT ![s] = Used]
      /\ keys' = [keys EXCEPT ![s] = Key]
      /\ values' = [values EXCEPT ![s] = Value]
  BY RehousesNew DEF Insert, Replace, Stored
<1>2. /\ s \in Slots(slots) /\ state \in [Slots(slots) -> States]
      /\ DOMAIN keys = Slots(slots) /\ DOMAIN values = Slots(slots)
      /\ state[s] # Used
  BY <1>1 DEF TableInv, ProbeInv, Insert, Absent, Used, Dead, Empty
<1>3. old.next \in Left /\ old.next < old.slots
  BY DEF GrowthInv, Left, Slots
<1>4. UNCHANGED <<old.keys, old.values>> /\ Left' = Left \ {old.next}
  BY <1>1, <1>3, LeftShrinks
<1>5. Key = old.keys[old.next] /\ Value = old.values[old.next]
  BY DEF Key, Value
<1> HIDE DEF s
<1>6. \A t \in Slots(slots) :
         /\ state'[t] = IF t = s THEN Used ELSE state[t]
         /\ keys'[t] = IF t = s THEN Key ELSE keys[t]
         /\ values'[t] = IF t = s THEN Value ELSE values[t]
  BY <1>1, <1>2
<1>7. Held' = Held \cup {s} /\ s \notin Held
  BY <1>1, <1>2, <1>6 DEF Held
<1>8. {<<keys'[t], values'[t]>> : t \in Held'}
        = {<<keys[t], values[t]>> : t \in Held} \cup {<<Key, Value>>}
  <2>1. \A t \in Held' : <<keys'[t], values'[t]>>
                          = IF t = s THEN <<Key, Value>> ELSE <<keys[t], values[t]>>
    BY <1>1, <1>6 DEF Held
  <2> QED
    BY <1>7, <2>1
<1>9. Unmoved = Left /\ Unmoved' = Left \ {old.next}
  BY <1>1, <1>4 DEF Unmoved
<1>10. {<<old.keys[t], old.values[t]>> : t \in Unmoved}
         = {<<old.keys[t], old.values[t]>> : t \in Unmoved'} \cup {<<Key, Value>>}
  BY <1>3, <1>5, <1>9
<1>11. Pairs' = Pairs
  <2>1. Pairs' = {<<keys'[t], values'[t]>> : t \in Held'}
                   \cup {<<old.keys[t], old.values[t]>> : t \in Unmoved'}
    BY <1>4 DEF Pairs
  <2> QED
    BY <1>8, <1>10, <2>1 DEF Pairs
<1> QED
  BY <1>1, <1>11, WorkUnseen

\* A call that finds its key, or finds it is not there.
LEMMA GetAnswers ==
    ASSUME AllInv, AllInv', Get
    PROVE  Refines
<1>1. /\ at = "probe" /\ call.op = "get" /\ call # NoCall
      /\ at' = "idle" /\ call' = NoCall /\ UNCHANGED <<table, old>>
      /\ answer' = IF Here THEN <<values[i]>> ELSE <<>>
      /\ Here \/ Absent
      /\ Key = call.key
  BY DEF Get, Finding, Return, Key, NoCall
<1>2. Pairs' = Pairs
  BY <1>1 DEF Pairs, Held, Unmoved, table
<1>3. Contents' = Contents
  BY <1>2, SamePairs
<1>4. answer' = Abstract!Find(call.key, <<Contents[call.key]>>)
  <2>1. CASE Here
    BY <1>1, <2>1, Found DEF Abstract!Find
  <2>2. CASE ~Here
    BY <1>1, <2>2, NotFound DEF Abstract!Find
  <2> QED
    BY <2>1, <2>2
<1>5. Abstract!Get
  BY <1>1, <1>3, <1>4 DEF Abstract!Get, Abstract!Wants, Abstract!Answer,
     Abstract!NoCall, NoCall
<1> QED
  BY <1>1, <1>5 DEF Refines, Abstract!Next

\* The pairs after a removal.
LEMMA RemovePairs ==
    ASSUME AllInv, Remove
    PROVE  Pairs' = {p \in Pairs : p[1] # Key}
<1> USE DEF AllInv, DictInv, MapInv
<1>1. /\ at = "probe" /\ at' = "idle" /\ UNCHANGED <<slots, keys, values>>
      /\ state' = [state EXCEPT ![i] = Dead] /\ i \in Held /\ keys[i] = Key
  BY DEF Remove, Finding, Return, Buried, Here, Held, ProbeInv
<1>2. Held' = Held \ {i}
  BY <1>1 DEF Held, TableInv, Used, Dead
<1>3. Unmoved = {} /\ Unmoved' = {}
  BY <1>1 DEF Unmoved
<1>4. \A t \in Held : <<keys[t], values[t]>>[1] = keys[t] /\ (keys[t] # Key <=> t # i)
  BY <1>1 DEF OnceEach, Held
<1>5. Pairs = {<<keys[t], values[t]>> : t \in Held}
  BY <1>3 DEF Pairs
<1>6. Pairs' = {<<keys[t], values[t]>> : t \in Held \ {i}}
  BY <1>1, <1>2, <1>3 DEF Pairs
<1> QED
  BY <1>4, <1>5, <1>6

LEMMA RemoveRemoves ==
    ASSUME AllInv, AllInv', Remove
    PROVE  Refines
<1>1. /\ at = "probe" /\ call.op = "remove" /\ call # NoCall /\ Here
      /\ at' = "idle" /\ call' = NoCall /\ answer' = <<Key>>
      /\ Key = call.key
  BY DEF Remove, Finding, Return, Key, NoCall
<1>2. answer' = Abstract!Find(call.key, <<call.key>>)
  BY <1>1, Found DEF Abstract!Find
<1>3. Contents' = Abstract!Without(call.key)
  <2>1. (Contents = AsMap(Pairs))'
    <3>1. AllInv'
      OBVIOUS
    <3> QED
      BY <3>1, ContentsAre, PTL
  <2>2. Contents' = AsMap(Pairs')
    BY <2>1 DEF AsMap
  <2>3. Contents = AsMap(Pairs) /\ Unique(Pairs)
    BY ContentsAre
  <2>4. AsMap({p \in Pairs : p[1] # Key})
          = [j \in DOMAIN AsMap(Pairs) \ {Key} |-> AsMap(Pairs)[j]]
    BY <2>3, AsMapWithout
  <2> QED
    BY <1>1, <2>2, <2>3, <2>4, RemovePairs DEF Abstract!Without
<1>4. Abstract!Remove
  BY <1>1, <1>2, <1>3 DEF Abstract!Remove, Abstract!Wants, Abstract!Answer,
     Abstract!NoCall, NoCall
<1> QED
  BY <1>1, <1>4 DEF Refines, Abstract!Next

LEMMA RemovesNothing ==
    ASSUME AllInv, AllInv', RemoveNothing
    PROVE  Refines
<1>1. /\ at = "probe" /\ call.op = "remove" /\ call # NoCall /\ Absent
      /\ at' = "idle" /\ call' = NoCall /\ answer' = <<>>
      /\ UNCHANGED <<table, old>> /\ Key = call.key
  BY DEF RemoveNothing, Finding, Return, Key, NoCall
<1>2. Pairs' = Pairs
  BY <1>1 DEF Pairs, Held, Unmoved, table
<1>3. Contents' = Contents
  BY <1>2, SamePairs
<1>4. call.key \notin DOMAIN Contents
  BY <1>1, NotFound
<1>5. Contents' = Abstract!Without(call.key)
  <2>1. DOMAIN Contents \ {call.key} = DOMAIN Contents
    BY <1>4
  <2> QED
    BY <1>3, <2>1, ContentsFunction DEF Abstract!Without
<1>6. Abstract!Remove
  BY <1>1, <1>4, <1>5 DEF Abstract!Remove, Abstract!Find, Abstract!Wants,
     Abstract!Answer, Abstract!NoCall, NoCall
<1> QED
  BY <1>1, <1>6 DEF Refines, Abstract!Next

LEMMA ClearEmpties ==
    ASSUME AllInv, AllInv', Clear
    PROVE  Refines
<1>1. /\ at = "idle" /\ at' = "idle" /\ call = NoCall /\ call' = NoCall
      /\ answer' = <<>> /\ slots' = slots
  BY DEF Clear, Ready, AllInv, DictInv, CallInv
<1>2. Pairs' = {}
  <2>1. Held' = {} /\ Unmoved' = {}
    BY <1>1 DEF Held, Unmoved, Clear, AllInv, MapInv, TableInv, Empty, Used
  <2> QED
    BY <2>1 DEF Pairs
<1>3. (Contents = AsMap(Pairs))'
  <2>1. AllInv'
    OBVIOUS
  <2> QED
    BY <2>1, ContentsAre, PTL
<1>4. Contents' = <<>>
  BY <1>2, <1>3, NoPairs DEF AsMap
<1>5. Abstract!Clear
  BY <1>1, <1>4 DEF Abstract!Clear, Abstract!Answer, Abstract!NoCall, NoCall
<1> QED
  BY <1>1, <1>5 DEF Refines, Abstract!Next

LEMMA GrowthFails ==
    ASSUME AllInv, AllInv', CallSetFail
    PROVE  Refines
<1>1. /\ at = "idle" /\ at' = "faulted" /\ call = NoCall
      /\ UNCHANGED <<table, call, old, answer>>
  BY DEF CallSetFail, Ready, AllInv, DictInv, CallInv
<1>2. Pairs' = Pairs
  BY <1>1 DEF Pairs, Held, Unmoved, table
<1>3. Contents' = Contents
  BY <1>2, SamePairs
<1>4. Abstract!Fail
  BY <1>1, <1>3 DEF Abstract!Fail, Abstract!NoCall, NoCall
<1> QED
  BY <1>1, <1>4 DEF Refines, Abstract!Next

\* A foreach, between its body's calls, changes nothing a caller sees.
LEMMA EachUnseen ==
    ASSUME AllInv, AllInv',
           \/ BeginEach \/ EachNext \/ EachBody \/ EachSkip \/ EachEnd
           \/ Over \/ UNCHANGED vars
    PROVE  Refines
<1>1. UNCHANGED <<table, call, at, old, answer>>
  BY DEF BeginEach, EachNext, EachBody, EachSkip, EachEnd, Over, vars
<1>2. Pairs' = Pairs
  BY <1>1 DEF Pairs, Held, Unmoved, Left, table
<1> QED
  BY <1>1, <1>2, SamePairs DEF Refines

-----------------------------------------------------------------------------
(* The keys in slot order.                                                 *)

Before(s) == {r \in Held : r < s}
Rank(s)   == Cardinality(Before(s)) + 1

LEMMA HeldCounted ==
    ASSUME AllInv
    PROVE  /\ In(Used) = Held /\ Held \subseteq Nat /\ IsFiniteSet(Held)
           /\ Cardinality(Held) = len /\ len \in Nat
<1> USE DEF AllInv, MapInv
<1>1. slots \in Nat /\ len \in Nat
  BY CountsNat
<1>2. Held = Among(state, slots, Used)
  BY DEF Held, Among
<1>3. In(Used) = Held
  BY DEF Held, In, TableInv
<1>4. Held \subseteq Nat
  BY <1>1 DEF Held, Slots
<1>5. IsFiniteSet(Among(state, slots, Used))
  BY <1>1, AmongFinite
<1>6. Cardinality(Among(state, slots, Used)) = len
  BY DEF TableInv, Count
<1> QED
  BY <1>1, <1>2, <1>3, <1>4, <1>5, <1>6

LEMMA RankType ==
    ASSUME NEW H \in SUBSET Nat, IsFiniteSet(H), NEW s \in H
    PROVE  LET B == {r \in H : r < s}
           IN  /\ IsFiniteSet(B) /\ Cardinality(B) \in Nat
               /\ Cardinality(B) + 1 <= Cardinality(H)
<1> DEFINE B == {r \in H : r < s}
<1>1. B \in SUBSET H /\ s \notin B /\ B \cup {s} \in SUBSET H
  OBVIOUS
<1> HIDE DEF B
<1>2. IsFiniteSet(B) /\ Cardinality(B) \in Nat
  BY <1>1, FS_Subset, FS_CardinalityType
<1>3. Cardinality(B \cup {s}) = Cardinality(B) + 1
  BY <1>1, <1>2, FS_AddElement
<1>4. Cardinality(B \cup {s}) <= Cardinality(H)
  BY <1>1, FS_Subset
<1> QED
  BY <1>2, <1>3, <1>4 DEF B

LEMMA RankRises ==
    ASSUME NEW H \in SUBSET Nat, IsFiniteSet(H), NEW s \in H, NEW t \in H, s < t
    PROVE  Cardinality({r \in H : r < s}) < Cardinality({r \in H : r < t})
<1> DEFINE T == {r \in H : r < t}
<1>1. T \in SUBSET Nat /\ s \in T
  OBVIOUS
<1>2. {r \in H : r < s} = {r \in T : r < s}
  <2>1. ASSUME NEW r \in H, r < s PROVE r < t
    <3>1. r \in Nat /\ s \in Nat /\ t \in Nat
      OBVIOUS
    <3> QED
      BY <2>1, <3>1
  <2> QED
    BY <2>1
<1>3. IsFiniteSet(T) /\ Cardinality(T) \in Nat
  BY RankType
<1> HIDE DEF T
<1>4. /\ Cardinality({r \in T : r < s}) \in Nat
      /\ Cardinality({r \in T : r < s}) + 1 <= Cardinality(T)
  BY <1>1, <1>3, RankType
<1>5. Cardinality({r \in T : r < s}) < Cardinality(T)
  <2> DEFINE n == Cardinality({r \in T : r < s})
             m == Cardinality(T)
  <2>1. n \in Nat /\ m \in Nat /\ n + 1 <= m
    BY <1>3, <1>4
  <2> HIDE DEF n, m
  <2>2. n < m
    BY <2>1
  <2> QED
    BY <2>2 DEF n, m
<1> QED
  BY <1>2, <1>5 DEF T

LEMMA RankInjection ==
    ASSUME AllInv
    PROVE  [s \in Held |-> Rank(s)] \in Injection(Held, 1 .. len)
<1>1. /\ Held \in SUBSET Nat /\ IsFiniteSet(Held)
      /\ Cardinality(Held) = len /\ len \in Nat
  BY HeldCounted
<1>2. ASSUME NEW s \in Held PROVE Rank(s) \in 1 .. len
  BY <1>1, RankType DEF Rank, Before
<1>3. ASSUME NEW s \in Held, NEW t \in Held, Rank(s) = Rank(t) PROVE s = t
  <2>1. /\ Cardinality(Before(s)) \in Nat /\ Cardinality(Before(t)) \in Nat
        /\ s \in Nat /\ t \in Nat
    BY <1>1, RankType DEF Before
  <2>2. Cardinality(Before(s)) = Cardinality(Before(t))
    BY <1>3, <2>1 DEF Rank
  <2>3. ~(s < t) /\ ~(t < s)
    BY <1>1, <2>1, <2>2, RankRises DEF Before
  <2> QED
    BY <2>1, <2>3
<1> QED
  BY <1>2, <1>3 DEF Injection, IsInjective

\* Each number is a used slot's rank, and that slot is the NthUsed.
LEMMA EachNth ==
    ASSUME AllInv
    PROVE  {NthUsed(n) : n \in 1 .. len} = Held
<1> DEFINE f == [s \in Held |-> Rank(s)]
<1>1. /\ In(Used) = Held /\ IsFiniteSet(Held)
      /\ Cardinality(Held) = len /\ len \in Nat
  BY HeldCounted
<1>2. f \in Injection(Held, 1 .. len)
  BY RankInjection
<1>3. IsFiniteSet(1 .. len) /\ Cardinality(1 .. len) = len
  BY <1>1, FS_Interval
<1>4. f \in Surjection(Held, 1 .. len)
  <2> HIDE DEF f
  <2> QED
    BY <1>1, <1>2, <1>3, FS_Injection
<1>5. \A s \in Held : Cardinality(Before(s)) \in Nat
  BY HeldCounted, FS_Subset, FS_CardinalityType DEF Before
<1>6. ASSUME NEW n \in 1 .. len PROVE NthUsed(n) \in Held /\ Rank(NthUsed(n)) = n
  <2>1. PICK s \in Held : Rank(s) = n
    BY <1>4 DEF Surjection
  <2>2. Cardinality({r \in In(Used) : r < s}) = n - 1
    BY <1>1, <1>5, <2>1 DEF Rank, Before
  <2>3. \E t \in In(Used) : Cardinality({r \in In(Used) : r < t}) = n - 1
    BY <1>1, <2>2
  <2>4. /\ NthUsed(n) \in In(Used)
        /\ Cardinality({r \in In(Used) : r < NthUsed(n)}) = n - 1
    BY <2>3 DEF NthUsed
  <2> QED
    BY <1>1, <2>4 DEF Rank, Before
<1>7. ASSUME NEW s \in Held PROVE \E n \in 1 .. len : NthUsed(n) = s
  <2>1. Rank(s) \in 1 .. len
    BY <1>2 DEF Injection
  <2>2. NthUsed(Rank(s)) \in Held /\ Rank(NthUsed(Rank(s))) = Rank(s)
    BY <1>6, <2>1
  <2>3. NthUsed(Rank(s)) = s
    BY <1>2, <2>2 DEF Injection, IsInjective
  <2> QED
    BY <2>1, <2>3
<1> QED
  BY <1>6, <1>7

LEMMA KeysCounted ==
    ASSUME AllInv, at \notin {"grow", "rehouse"}
    PROVE  Cardinality(DOMAIN Contents) = len
<1> DEFINE g == [s \in Held |-> keys[s]]
<1>1. IsFiniteSet(Held) /\ Cardinality(Held) = len
  BY HeldCounted
<1>2. DOMAIN Contents = {keys[s] : s \in Held}
  BY Domain
<1>3. \A s, t \in Held : keys[s] = keys[t] => s = t
  BY DEF AllInv, DictInv, OnceEach, Held
<1>4. g \in Bijection(Held, DOMAIN Contents)
  <2> HIDE DEF Held
  <2>1. g \in [Held -> DOMAIN Contents] /\ IsInjective(g)
    BY <1>2, <1>3 DEF IsInjective
  <2>2. \A k \in DOMAIN Contents : \E s \in Held : g[s] = k
    BY <1>2
  <2> QED
    BY <2>1, <2>2 DEF Bijection, Injection, Surjection
<1>5. ExistsBijection(Held, DOMAIN Contents)
  BY <1>4 DEF ExistsBijection
<1> QED
  BY <1>1, <1>5, FS_Bijection

LEMMA ListsKeys ==
    ASSUME AllInv, AllInv', ListKeys
    PROVE  Refines
<1>1. /\ at = "idle" /\ call = NoCall /\ UNCHANGED <<table, call, at, old>>
      /\ answer' = [n \in 1 .. len |-> keys[NthUsed(n)]]
  BY DEF ListKeys, Ready, AllInv, DictInv, CallInv
<1>2. Pairs' = Pairs
  BY <1>1 DEF Pairs, Held, Unmoved, Left, table
<1>3. Contents' = Contents
  BY <1>2, SamePairs
<1>4. Cardinality(DOMAIN Contents) = len
  BY <1>1, KeysCounted
<1>5. len \in Nat
  BY HeldCounted
<1>6. DOMAIN answer' = 1 .. len /\ Len(answer') = len
  BY <1>1, <1>5
<1>7. {answer'[n] : n \in DOMAIN answer'} = DOMAIN Contents
  <2>1. DOMAIN Contents = {keys[s] : s \in Held}
    BY <1>1, Domain
  <2>2. \A n \in 1 .. len : answer'[n] = keys[NthUsed(n)]
    BY <1>1
  <2>3. {NthUsed(n) : n \in 1 .. len} = Held
    BY EachNth
  <2> QED
    BY <1>6, <2>1, <2>2, <2>3
<1>8. /\ Len(answer') = Cardinality(DOMAIN Contents)
      /\ UNCHANGED <<Contents, call, at = "faulted">>
  BY <1>1, <1>3, <1>4, <1>6
<1>9. Abstract!ListKeys
  <2>1. call = Abstract!NoCall /\ call' = Abstract!NoCall
    BY <1>1 DEF Abstract!NoCall, NoCall
  <2>2. Abstract!Cardinality(DOMAIN Contents) = Cardinality(DOMAIN Contents)
    BY DEF Abstract!Cardinality, Cardinality
  <2> QED
    BY <1>7, <1>8, <2>1, <2>2 DEF Abstract!ListKeys
<1> QED
  BY <1>1, <1>9 DEF Refines, Abstract!Next

-----------------------------------------------------------------------------
LEMMA InitRefines == Init => Abstract!Init
<1> SUFFICES ASSUME Init PROVE Abstract!Init
    OBVIOUS
<1>1. AllInv
  BY DictInit
<1>2. Held = {} /\ Unmoved = {}
  BY DEF Init, Held, Unmoved, Empty, Used
<1>3. Pairs = {}
  BY <1>2 DEF Pairs
<1>4. Contents = <<>>
  BY <1>1, <1>3, ContentsAre, NoPairs
<1> QED
  BY <1>4 DEF Init, Abstract!Init, Abstract!NoCall, NoCall

LEMMA NextRefines ==
    AllInv /\ AllInv' /\ [Next]_vars => Refines
<1> SUFFICES ASSUME AllInv, AllInv', [Next]_vars PROVE Refines
    OBVIOUS
<1>1. CASE Call
  BY <1>1, BeginsMake, GrowthFails, ClearEmpties, ListsKeys, EachUnseen DEF Call
<1>2. CASE Work
  <2>1. CASE Insert \/ Replace
    <3>1. at \in {"probe", "rehouse"}
      BY <2>1 DEF Insert, Replace, Inserting
    <3> QED
      BY <2>1, <3>1, StoresSet, RehouseUnseen
  <2> QED
    BY <1>2, <2>1, GrowingUnseen, StepUnseen, GetAnswers, RemoveRemoves,
       RemovesNothing, EachUnseen DEF Work
<1>3. CASE Over \/ UNCHANGED vars
  BY <1>3, EachUnseen
<1> QED
  BY <1>1, <1>2, <1>3 DEF Next

\* std/map.ql is a finite map: whatever the hash, the table's size and the
\* calls, what was set is found, what was removed is gone, a growth loses
\* nothing and repeats nothing, and map_keys lists each key once.
THEOREM ImplementsFiniteMap == Spec => FiniteMapSpec
<1>1. Spec => []AllInv
  <2>1. AllInv /\ [Next]_vars => AllInv'
    BY AllNext
  <2> QED
    BY DictInit, <2>1, PTL DEF Spec
<1>2. Init => Abstract!Init
  BY InitRefines
<1>3. AllInv /\ AllInv' /\ [Next]_vars => [Abstract!Next]_(Abstract!vars)
  BY NextRefines DEF Refines, Abstract!vars
<1> QED
  BY <1>1, <1>2, <1>3, PTL DEF Spec, FiniteMapSpec, Abstract!Spec

-----------------------------------------------------------------------------
(* What an iteration has met.                                              *)

Visited(s) == s < each.i \/ (s = each.i /\ each.at = "body")

\* A key that has been in this table since the iteration began is in a used
\* slot, and has been met once if the iteration has come by that slot.
MetInv ==
    /\ each.i \in Nat
    /\ \A k \in DOMAIN met : \E s \in Held :
          keys[s] = k /\ met[k] = IF Visited(s) THEN 1 ELSE 0

LEMMA MetInit == Init => MetInv
BY DEF Init, MetInv, NoEach

\* Where the iteration stays, what it has met stays while its slots do.
LEMMA MetKept ==
    ASSUME MetInv, each' = each, DOMAIN met' \subseteq DOMAIN met,
           \A k \in DOMAIN met' : met'[k] = met[k],
           \A s \in Held : keys[s] \in DOMAIN met' => s \in Held' /\ keys'[s] = keys[s]
    PROVE  MetInv'
<1>1. ASSUME NEW k \in DOMAIN met'
      PROVE  \E s \in Held' : keys'[s] = k /\ met'[k] = IF Visited(s)' THEN 1 ELSE 0
  <2>1. PICK s \in Held : keys[s] = k /\ met[k] = IF Visited(s) THEN 1 ELSE 0
    BY DEF MetInv
  <2> QED
    BY <2>1 DEF Visited
<1> QED
  BY <1>1 DEF MetInv

LEMMA MetEmpty == ASSUME MetInv, each' = each, met' = <<>> PROVE MetInv'
BY DEF MetInv

LEMMA MetInserts ==
    ASSUME AllInv, MetInv, Insert \/ Replace
    PROVE  MetInv'
<1> USE DEF AllInv, DictInv, MapInv
<1> DEFINE s == IF reuse = NoSlot THEN i ELSE reuse
<1>1. each' = each /\ met' = met /\ slots' = slots
  BY DEF Insert, Replace, loops
<1>2. CASE Replace
  BY <1>1, <1>2, MetKept DEF Replace, Held
<1>3. CASE Insert
  <2>1. /\ state' = [state EXCEPT ![s] = Used] /\ keys' = [keys EXCEPT ![s] = Key]
        /\ state[s] # Used
        /\ state \in [Slots(slots) -> States] /\ DOMAIN keys = Slots(slots)
    BY <1>3 DEF Insert, Absent, ProbeInv, TableInv, Used, Dead, Empty
  <2> HIDE DEF s
  <2>2. \A t \in Held : t \in Held' /\ keys'[t] = keys[t]
    BY <1>1, <2>1 DEF Held
  <2> QED
    BY <1>1, <2>2, MetKept
<1> QED
  BY <1>2, <1>3

LEMMA MetRemoves ==
    ASSUME AllInv, MetInv, Remove
    PROVE  MetInv'
<1> USE DEF AllInv, DictInv, MapInv
<1>1. /\ each' = each /\ slots' = slots /\ keys' = keys
      /\ met' = [k \in DOMAIN met \ {Key} |-> met[k]]
      /\ state' = [state EXCEPT ![i] = Dead] /\ keys[i] = Key
      /\ state \in [Slots(slots) -> States]
  BY DEF Remove, Here, Buried, TableInv
<1>2. \A s \in Held : s # i => s \in Held'
  BY <1>1 DEF Held
<1> QED
  BY <1>1, <1>2, MetKept

LEMMA MetBegins ==
    ASSUME AllInv, BeginEach
    PROVE  MetInv'
<1>1. /\ each' = [at |-> "scan", i |-> 0] /\ UNCHANGED table
      /\ met' = [k \in {keys[s] : s \in In(Used)} |-> 0]
  BY DEF BeginEach
<1>2. In(Used) = Held /\ Held \subseteq Nat
  BY HeldCounted
<1>3. \A s \in Held : ~Visited(s)'
  <2>1. ASSUME NEW s \in Held PROVE ~(s < 0)
    <3>1. s \in Nat
      BY <1>2
    <3> QED
      BY <3>1
  <2> QED
    BY <1>1, <2>1 DEF Visited
<1>4. Held' = Held /\ keys' = keys
  BY <1>1 DEF Held, table
<1>5. ASSUME NEW k \in DOMAIN met'
      PROVE  \E s \in Held' : keys'[s] = k /\ met'[k] = IF Visited(s)' THEN 1 ELSE 0
  <2>1. PICK s \in Held : keys[s] = k
    BY <1>1, <1>2
  <2>2. met'[k] = 0
    BY <1>1
  <2> QED
    BY <1>3, <1>4, <2>1, <2>2
<1>6. each'.i \in Nat
  BY <1>1
<1> QED
  BY <1>5, <1>6 DEF MetInv

LEMMA MetGoesOn ==
    ASSUME AllInv, MetInv, EachBody \/ EachSkip \/ EachNext
    PROVE  MetInv'
<1> USE DEF AllInv, DictInv, MapInv
<1>1. /\ UNCHANGED table /\ each = [at |-> each.at, i |-> each.i] /\ each.i \in Nat
      /\ Held' = Held /\ Held \subseteq Nat /\ keys' = keys
      /\ DOMAIN met' = DOMAIN met
  BY HeldCounted DEF EachBody, EachSkip, EachNext, TableInv, MetInv, Held, table
<1>2. each'.i \in Nat
  BY <1>1 DEF EachBody, EachSkip, EachNext
<1>3. ASSUME NEW k \in DOMAIN met
      PROVE  \E s \in Held' : keys'[s] = k /\ met'[k] = IF Visited(s)' THEN 1 ELSE 0
  <2>1. PICK s \in Held : keys[s] = k /\ met[k] = IF Visited(s) THEN 1 ELSE 0
    BY DEF MetInv
  <2>2. s \in Nat
    BY <1>1
  <2>3. CASE EachBody
    <3>1. /\ each.at = "scan" /\ each' = [at |-> "body", i |-> each.i]
          /\ met' = [j \in DOMAIN met |-> IF j = keys[each.i] THEN met[j] + 1 ELSE met[j]]
          /\ state[each.i] = Used /\ each.i < slots /\ slots \in Nat
      BY <1>1, <2>3, CountsNat DEF EachBody, Scanning, Live
    <3>2. k = keys[each.i] <=> s = each.i
      <4>1. each.i \in Slots(slots)
        BY <1>1, <3>1 DEF Slots
      <4> QED
        BY <2>1, <3>1, <4>1 DEF OnceEach, Held
    <3>3. Visited(s)' <=> Visited(s) \/ s = each.i
      BY <1>1, <3>1 DEF Visited
    <3>4. s = each.i => ~Visited(s)
      BY <1>1, <3>1 DEF Visited
    <3>5. met'[k] = IF s = each.i THEN met[k] + 1 ELSE met[k]
      BY <3>1, <3>2
    <3> QED
      BY <1>1, <2>1, <3>3, <3>4, <3>5
  <2>4. CASE EachSkip
    <3>1. /\ each.at = "scan" /\ each' = [at |-> "scan", i |-> each.i + 1]
          /\ met' = met /\ s # each.i
      BY <1>1, <2>1, <2>4 DEF EachSkip, Scanning, Live, Held
    <3>2. Visited(s)' <=> Visited(s)
      BY <1>1, <2>2, <3>1 DEF Visited
    <3> QED
      BY <1>1, <2>1, <3>1, <3>2
  <2>5. CASE EachNext
    <3>1. /\ each.at = "body" /\ each' = [at |-> "scan", i |-> each.i + 1]
          /\ met' = met
      BY <2>5 DEF EachNext
    <3>2. Visited(s)' <=> Visited(s)
      BY <1>1, <2>2, <3>1 DEF Visited
    <3> QED
      BY <1>1, <2>1, <3>1, <3>2
  <2> QED
    BY <2>3, <2>4, <2>5
<1> QED
  BY <1>1, <1>2, <1>3 DEF MetInv

LEMMA MetEnds ==
    ASSUME AllInv, MetInv, EachEnd
    PROVE  MetInv' /\ \A k \in DOMAIN met : met[k] = 1
<1>1. MetInv'
  BY DEF EachEnd, MetInv, NoEach
<1>2. ASSUME NEW k \in DOMAIN met PROVE met[k] = 1
  <2>1. PICK s \in Held : met[k] = IF Visited(s) THEN 1 ELSE 0
    BY DEF MetInv
  <2>2. s \in Nat /\ s < slots /\ slots \in Nat
    BY CountsNat DEF Held, Slots, AllInv, MapInv
  <2>3. Visited(s)
    BY <2>2 DEF Visited, EachEnd, MetInv
  <2> QED
    BY <2>1, <2>3
<1> QED
  BY <1>1, <1>2

LEMMA MetQuiet ==
    ASSUME MetInv,
           \/ \E k \in Keys : CallFind("get", k) \/ CallFind("remove", k)
           \/ \E k \in Keys, v \in Values : CallSet(k, v)
           \/ CallSetFail \/ ListKeys \/ SkipOld \/ RehouseOld \/ Grown
           \/ Step \/ Get \/ RemoveNothing \/ Over \/ UNCHANGED vars
    PROVE  MetInv'
<1>1. UNCHANGED <<table, loops>>
  BY DEF CallFind, CallSet, CallSetFail, ListKeys, SkipOld, RehouseOld, Grown,
     Step, Get, RemoveNothing, Over, vars
<1> QED
  BY <1>1 DEF MetInv, Visited, Held, table, loops

LEMMA MetNext == AllInv /\ MetInv /\ [Next]_vars => MetInv'
<1> SUFFICES ASSUME AllInv, MetInv, [Next]_vars PROVE MetInv'
    OBVIOUS
<1>1. CASE Clear \/ \E k \in Keys, v \in Values : CallSetGrow(k, v)
  BY <1>1, MetEmpty DEF Clear, CallSetGrow
<1>2. CASE Call
  BY <1>1, <1>2, MetQuiet, MetBegins, MetGoesOn DEF Call
<1>3. CASE Work
  BY <1>3, MetQuiet, MetInserts, MetRemoves, MetGoesOn, MetEnds DEF Work
<1>4. CASE Over \/ UNCHANGED vars
  BY <1>4, MetQuiet
<1> QED
  BY <1>2, <1>3, <1>4 DEF Next

\* Only the end of an iteration ends it.
LEMMA OnlyEndEnds ==
    ASSUME AllInv, Next, each.at = "scan", each'.at = "none"
    PROVE  EachEnd
<1>1. CASE Call
  <2>1. ~BeginEach /\ ~EachNext
    BY DEF BeginEach, EachNext
  <2> QED
    BY <1>1, <2>1 DEF Call, CallFind, CallSet, CallSetGrow, CallSetFail, Clear,
       ListKeys, loops
<1>2. CASE Work
  <2>1. ~EachBody
    <3>1. each = [at |-> each.at, i |-> each.i]
      BY DEF AllInv, MapInv, TableInv
    <3>2. EachBody => each'.at = "body"
      BY <3>1 DEF EachBody
    <3> QED
      BY <3>2
  <2>2. ~EachSkip
    <3>1. EachSkip => each'.at = each.at
      BY DEF EachSkip
    <3> QED
      BY <3>1
  <2>3. CASE SkipOld \/ RehouseOld \/ Grown \/ Step
    BY <2>3 DEF SkipOld, RehouseOld, Grown, Step, loops
  <2>4. CASE Replace \/ Insert \/ Get \/ Remove \/ RemoveNothing
    BY <2>4 DEF Replace, Insert, Get, Remove, RemoveNothing, loops
  <2> QED
    BY <1>2, <2>1, <2>2, <2>3, <2>4 DEF Work
<1>3. CASE Over
  BY <1>3 DEF Over, vars, loops
<1> QED
  BY <1>1, <1>2, <1>3 DEF Next

\* An iteration that ends in the table it began in has met each key that was
\* there throughout exactly once, whatever its body inserted and removed.
THEOREM EachMeetsOnce == Spec => EachEntryOnce
<1>1. Init => AllInv /\ MetInv
  BY DictInit, MetInit
<1>2. AllInv /\ MetInv /\ [Next]_vars => (AllInv /\ MetInv)'
  BY AllNext, MetNext
<1>3. AllInv /\ MetInv /\ [Next]_vars =>
        [(each.at = "scan" /\ each'.at = "none") => \A k \in DOMAIN met : met[k] = 1]_vars
  BY OnlyEndEnds, MetEnds
<1> QED
  BY <1>1, <1>2, <1>3, PTL DEF Spec, EachEntryOnce

=============================================================================
