------------------------------- MODULE HashMap -------------------------------
(***************************************************************************)
(* Map<K, V> (std/map.ql): open addressing with linear probing over three  *)
(* parallel arrays, tombstones, and growth by rehousing.                   *)
(*                                                                         *)
(* A call is one step per slot its probe looks at; a growth is one step    *)
(* per old slot, and one per slot probed to rehouse an entry.  The hash is *)
(* any function: the map's caller supplies it.  Another call may be made   *)
(* only between calls, or by the body of a map_foreach.                    *)
(*                                                                         *)
(* Overfull, LiveLoad, Emptied, ... are used nowhere: each is a mistake    *)
(* the definition after it could have been.                                *)
(***************************************************************************)
EXTENDS Naturals, Sequences, FiniteSets

CONSTANTS
    Keys,
    Values,
    Hashes,     \* the hash functions a map may be built with
    Capacities, \* what map_new is asked for
    Smallest,   \* slots of the smallest table, a power of two: 8 in map_round_up
    Largest     \* no larger table fits the heap

ASSUME HashAssumption == Hashes \subseteq [Keys -> Nat]
ASSUME SlotsAssumption ==
    /\ Smallest \in Nat /\ Smallest >= 2
    /\ Largest \in Nat /\ Largest >= Smallest

VARIABLES
    hash,       \* m.hash
    slots,      \* m.mask + 1
    state,      \* m.state: slot -> Empty, Used or Dead
    keys,       \* m.keys
    values,     \* m.values
    len,        \* m.len
    dead,       \* m.dead
    call,       \* the call being served, or NoCall
    at,         \* idle, probe, grow (between old slots), rehouse, or faulted
    i,          \* the probe's slot
    reuse,      \* map_set's reuse: a tombstone's slot, or NoSlot
    old,        \* the arrays map_grow empties, and how far it is
    answer,     \* what the last call returned: <<>>, one value, or an array
    each,       \* map_foreach: [at, i]
    met         \* ghost: how often the iteration has met each key that has
                \*   been in this same table since it began

table == <<hash, slots, state, keys, values, len, dead>>
loops == <<each, met>>
vars  == <<table, call, at, i, reuse, old, answer, loops>>

Empty == 0                          \* map_empty_slot
Used  == 1                          \* map_used_slot
Dead  == 2                          \* map_dead_slot

NoCall == [op |-> "none"]
NoSlot == Largest                   \* 0 - 1
NoGrowth == [slots |-> 0]

Slots(n) == 0 .. n - 1
In(what) == {s \in DOMAIN state : state[s] = what}

\* m.hash(key) & m.mask, and (i + 1) & m.mask: the table is a power of two.
Home(k, n)    == hash[k] % n
Unmasked(s)   == s + 1
After(s)      == (s + 1) % slots

\* The load at which map_set grows the table before it inserts.
Overfull   == (len + dead + 1) * 4 > slots * 4
LiveLoad   == (len + 1) * 4 > slots * 3
Overloaded == (len + dead + 1) * 4 > slots * 3

-----------------------------------------------------------------------------
(* Calls.                                                                  *)

\* A call may be made between calls; inside map_foreach, only by its body.
Ready == at = "idle" /\ each.at # "scan"

Probing(k) ==
    /\ at' = "probe"
    /\ i' = Home(k, slots)
    /\ reuse' = NoSlot

\* map_get and map_has are map_slot_of; so is the first half of map_remove.
CallFind(op, k) ==
    /\ Ready
    /\ call' = [op |-> op, key |-> k]
    /\ answer' = <<>>
    /\ Probing(k)
    /\ UNCHANGED <<table, old, loops>>

CallSet(k, v) ==
    /\ Ready
    /\ ~Overloaded
    /\ call' = [op |-> "set", key |-> k, value |-> v]
    /\ answer' = <<>>
    /\ Probing(k)
    /\ UNCHANGED <<table, old, loops>>

\* map_grow: twice the slots, all of them empty.
CallSetGrow(k, v) ==
    /\ Ready
    /\ Overloaded
    /\ 2 * slots <= Largest
    /\ call' = [op |-> "set", key |-> k, value |-> v]
    /\ answer' = <<>>
    /\ at' = "grow"
    /\ old' = [slots |-> slots, state |-> state, keys |-> keys,
               values |-> values, next |-> 0]
    /\ slots' = 2 * slots
    /\ state' = [s \in Slots(2 * slots) |-> Empty]
    /\ keys' = [s \in Slots(2 * slots) |-> 0]
    /\ values' = [s \in Slots(2 * slots) |-> 0]
    /\ len' = 0
    /\ dead' = 0
    /\ met' = <<>>
    /\ UNCHANGED <<hash, i, reuse, each>>

\* array_new has no room, which depends on what else the heap holds: the
\* program ends.
CallSetFail ==
    /\ Ready
    /\ Overloaded
    /\ at' = "faulted"
    /\ UNCHANGED <<table, call, i, reuse, old, answer, loops>>

-----------------------------------------------------------------------------
(* map_grow's loop.                                                        *)

Growing == at = "grow"

SkipOld ==
    /\ Growing
    /\ old.next < old.slots
    /\ old.state[old.next] # Used
    /\ old' = [old EXCEPT !.next = @ + 1]
    /\ UNCHANGED <<table, call, at, i, reuse, answer, loops>>

\* map_set within map_grow; were the load too high it would grow again.
RehouseOld ==
    /\ Growing
    /\ old.next < old.slots
    /\ old.state[old.next] = Used
    /\ ~Overloaded
    /\ at' = "rehouse"
    /\ i' = Home(old.keys[old.next], slots)
    /\ reuse' = NoSlot
    /\ UNCHANGED <<table, call, old, answer, loops>>

\* The insertion the table grew for goes on; the load is not looked at again.
Grown ==
    /\ Growing
    /\ old.next = old.slots
    /\ old' = NoGrowth
    /\ Probing(call.key)
    /\ UNCHANGED <<table, call, answer, loops>>

-----------------------------------------------------------------------------
(* A probe: map_slot_of's loop, or map_set's.                              *)

Inserting == at = "rehouse" \/ (at = "probe" /\ call.op = "set")
Finding(op) == at = "probe" /\ call.op = op

Key   == IF at = "rehouse" THEN old.keys[old.next] ELSE call.key
Value == IF at = "rehouse" THEN old.values[old.next] ELSE call.value

Here   == state[i] = Used /\ keys[i] = Key
Absent == state[i] = Empty

Step ==
    /\ at \in {"probe", "rehouse"}
    /\ ~Here /\ ~Absent
    /\ i' = After(i)
    /\ reuse' = IF Inserting /\ state[i] = Dead /\ reuse = NoSlot THEN i ELSE reuse
    /\ UNCHANGED <<table, call, at, old, answer, loops>>

Done == i' = 0 /\ reuse' = NoSlot

\* Back from map_set: to the next old slot, or to the program.
Stored ==
    /\ Done
    /\ IF at = "rehouse"
       THEN /\ at' = "grow"
            /\ old' = [old EXCEPT !.next = @ + 1]
            /\ UNCHANGED call
       ELSE /\ at' = "idle"
            /\ call' = NoCall
            /\ UNCHANGED old
    /\ UNCHANGED answer

Replace ==
    /\ Inserting
    /\ Here
    /\ values' = [values EXCEPT ![i] = Value]
    /\ Stored
    /\ UNCHANGED <<hash, slots, state, keys, len, dead, loops>>

Kept       == dead
ReuseCount == IF reuse = NoSlot THEN dead ELSE dead - 1

\* A new key goes to the first tombstone the probe met, if it met one.
Insert ==
    /\ Inserting
    /\ Absent
    /\ LET s == IF reuse = NoSlot THEN i ELSE reuse
       IN  /\ state' = [state EXCEPT ![s] = Used]
           /\ keys' = [keys EXCEPT ![s] = Key]
           /\ values' = [values EXCEPT ![s] = Value]
    /\ dead' = ReuseCount
    /\ len' = len + 1
    /\ Stored
    /\ UNCHANGED <<hash, slots, loops>>

Return(a) == Done /\ at' = "idle" /\ call' = NoCall /\ answer' = a

Get ==
    /\ Finding("get")
    /\ Here \/ Absent
    /\ Return(IF Here THEN <<values[i]>> ELSE <<>>)
    /\ UNCHANGED <<table, old, loops>>

Emptied == Empty
Buried  == Dead

Remove ==
    /\ Finding("remove")
    /\ Here
    /\ state' = [state EXCEPT ![i] = Buried]
    /\ len' = len - 1
    /\ dead' = dead + 1
    /\ Return(<<Key>>)
    /\ met' = [k \in DOMAIN met \ {Key} |-> met[k]]
    /\ UNCHANGED <<hash, slots, keys, values, old, each>>

RemoveNothing ==
    /\ Finding("remove")
    /\ Absent
    /\ Return(<<>>)
    /\ UNCHANGED <<table, old, loops>>

-----------------------------------------------------------------------------
(* Calls that look at every slot.                                          *)

Clear ==
    /\ Ready
    /\ state' = [s \in DOMAIN state |-> Empty]
    /\ len' = 0
    /\ dead' = 0
    /\ answer' = <<>>
    /\ met' = <<>>
    /\ UNCHANGED <<hash, slots, keys, values, call, at, i, reuse, old, each>>

\* The used slot with n - 1 used slots before it.
NthUsed(n) == CHOOSE s \in In(Used) :
                 Cardinality({r \in In(Used) : r < s}) = n - 1

\* map_keys sizes its array by m.len and fills it in slot order.
ListKeys ==
    /\ Ready
    /\ answer' = [n \in 1 .. len |-> keys[NthUsed(n)]]
    /\ UNCHANGED <<table, call, at, i, reuse, old, loops>>

\* map_foreach.
NoEach == [at |-> "none", i |-> 0]

BeginEach ==
    /\ at = "idle" /\ each.at = "none"
    /\ each' = [at |-> "scan", i |-> 0]
    /\ met' = [k \in {keys[s] : s \in In(Used)} |-> 0]
    /\ UNCHANGED <<table, call, at, i, reuse, old, answer>>

NotEmpty(s) == state[s] # Empty
Live(s)     == state[s] = Used

\* The loop reads m.state and its length afresh each time round.
Scanning == at = "idle" /\ each.at = "scan" /\ each.i < slots

EachBody ==
    /\ Scanning
    /\ Live(each.i)
    /\ each' = [each EXCEPT !.at = "body"]
    /\ met' = [k \in DOMAIN met |-> IF k = keys[each.i] THEN met[k] + 1 ELSE met[k]]
    /\ UNCHANGED <<table, call, at, i, reuse, old, answer>>

EachSkip ==
    /\ Scanning
    /\ ~Live(each.i)
    /\ each' = [each EXCEPT !.i = @ + 1]
    /\ UNCHANGED <<table, call, at, i, reuse, old, answer, met>>

\* The body returns.
EachNext ==
    /\ at = "idle" /\ each.at = "body"
    /\ each' = [at |-> "scan", i |-> each.i + 1]
    /\ UNCHANGED <<table, call, at, i, reuse, old, answer, met>>

EachEnd ==
    /\ at = "idle" /\ each.at = "scan"
    /\ each.i >= slots
    /\ each' = NoEach
    /\ met' = <<>>
    /\ UNCHANGED <<table, call, at, i, reuse, old, answer>>

-----------------------------------------------------------------------------
\* map_round_up.
RoundUp(n) ==
    LET double[size \in Nat] == IF size < n THEN double[2 * size] ELSE size
    IN  double[Smallest]

\* map_new.
Init ==
    /\ hash \in Hashes
    /\ slots \in Smallest .. Largest
    /\ \E n \in Capacities : slots = RoundUp(n)
    /\ state = [s \in Slots(slots) |-> Empty]
    /\ keys = [s \in Slots(slots) |-> 0]
    /\ values = [s \in Slots(slots) |-> 0]
    /\ len = 0
    /\ dead = 0
    /\ call = NoCall
    /\ at = "idle"
    /\ i = 0
    /\ reuse = NoSlot
    /\ old = NoGrowth
    /\ answer = <<>>
    /\ each = NoEach
    /\ met = <<>>

Call ==
    \/ \E k \in Keys : CallFind("get", k) \/ CallFind("remove", k)
    \/ \E k \in Keys, v \in Values : CallSet(k, v) \/ CallSetGrow(k, v)
    \/ CallSetFail
    \/ Clear \/ ListKeys
    \/ BeginEach \/ EachNext

\* What the library does of its own accord.
Work ==
    \/ SkipOld \/ RehouseOld \/ Grown
    \/ Step \/ Replace \/ Insert \/ Get \/ Remove \/ RemoveNothing
    \/ EachBody \/ EachSkip \/ EachEnd

Over == at = "faulted" /\ UNCHANGED vars

Next == Call \/ Work \/ Over

Spec == Init /\ [][Next]_vars

-----------------------------------------------------------------------------
(* Properties.                                                             *)

Waiting == IF old = NoGrowth THEN {}
           ELSE {s \in old.next .. old.slots - 1 : old.state[s] = Used}

\* The three arrays have one length, and every index is within it.
TypeOK ==
    /\ hash \in Hashes
    /\ slots \in Smallest .. Largest
    /\ state \in [Slots(slots) -> {Empty, Used, Dead}]
    /\ DOMAIN keys = Slots(slots) /\ DOMAIN values = Slots(slots)
    /\ \A s \in In(Used) : keys[s] \in Keys /\ values[s] \in Values
    /\ len \in 0 .. slots /\ dead \in 0 .. slots
    /\ at \in {"idle", "probe", "grow", "rehouse", "faulted"}
    /\ i \in Slots(slots)
    /\ reuse \in Slots(slots) \cup {NoSlot}
    /\ each.at \in {"none", "scan", "body"}

\* "Grown before inserting, so there is always an empty slot to stop a probe",
\* in every state a probe or a rehousing can meet, however often entries came
\* and went; and a rehousing never finds the new table too full.
AlwaysAnEmptySlot ==
    /\ In(Empty) # {}
    /\ at \in {"grow", "rehouse"} => ~Overloaded

\* len and dead are what they say: the load the growth is decided by.
CountsExact ==
    /\ len = Cardinality(In(Used))
    /\ dead = Cardinality(In(Dead))

\* map_foreach "promises contents": if the table was not replaced meanwhile, a
\* key that was there throughout has been met exactly once, whatever the body
\* inserted and removed.
EachEntryOnce ==
    [][each.at = "scan" /\ each'.at = "none"
          => \A k \in DOMAIN met : met[k] = 1]_vars

\* A call returns: no probe, of the program's or of a rehousing, comes round to
\* the slot it began at.
ProbesEnd ==
    [][(at \in {"probe", "rehouse"} /\ at' = at) => i' # Home(Key, slots)]_vars

\* The map the table stands for, even half-way through a growth.
Contents ==
    LET pairs == {<<keys[s], values[s]>> : s \in In(Used)}
                   \cup {<<old.keys[s], old.values[s]>> : s \in Waiting}
    IN  [k \in {p[1] : p \in pairs} |-> (CHOOSE p \in pairs : p[1] = k)[2]]

\* With the slots forgotten, every call is one step of a finite map: what was
\* set is found, what was removed is gone, nothing is lost when the table
\* grows or an insertion reuses a tombstone, and map_keys lists each key once.
Abstract == INSTANCE FiniteMap WITH
    dict <- Contents,
    failed <- at = "faulted"
FiniteMapSpec == Abstract!Spec
=============================================================================
