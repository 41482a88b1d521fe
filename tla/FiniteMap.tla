------------------------------ MODULE FiniteMap ------------------------------
(***************************************************************************)
(* What std/map.ql promises: a finite map.  A call is made, and answered   *)
(* once, at a moment of its own; an answer is what the map held then.      *)
(* There are no slots, no hashes, no growth, and no order of the keys.     *)
(***************************************************************************)
EXTENDS Naturals, Sequences, FiniteSets

CONSTANTS
    Keys,
    Values

VARIABLES
    dict,       \* the map
    call,       \* the call being served, or NoCall: [op, key, value]
    answer,     \* what the last call returned: <<>>, one value, or an array
    failed      \* the heap had no room

vars == <<dict, call, answer, failed>>

NoCall == [op |-> "none"]
Wants(op) == call # NoCall /\ call.op = op

With(k, v)  == [j \in DOMAIN dict \cup {k} |-> IF j = k THEN v ELSE dict[j]]
Without(k)  == [j \in DOMAIN dict \ {k} |-> dict[j]]
Find(k, s)  == IF k \in DOMAIN dict THEN s ELSE <<>>

Init ==
    /\ dict = <<>>
    /\ call = NoCall
    /\ answer = <<>>
    /\ ~failed

Make ==
    /\ call = NoCall
    /\ \E k \in Keys :
          \/ call' \in {[op |-> "get", key |-> k], [op |-> "remove", key |-> k]}
          \/ \E v \in Values : call' = [op |-> "set", key |-> k, value |-> v]
    /\ answer' = <<>>
    /\ UNCHANGED <<dict, failed>>

Answer(a) == call' = NoCall /\ answer' = a /\ UNCHANGED failed

Set ==
    /\ Wants("set")
    /\ Answer(<<>>)
    /\ dict' = With(call.key, call.value)

Get ==
    /\ Wants("get")
    /\ Answer(Find(call.key, <<dict[call.key]>>))
    /\ UNCHANGED dict

Remove ==
    /\ Wants("remove")
    /\ Answer(Find(call.key, <<call.key>>))
    /\ dict' = Without(call.key)

\* Short calls are made and answered at once.
Clear ==
    /\ call = NoCall
    /\ Answer(<<>>)
    /\ dict' = <<>>

\* Every key, once, in an order nothing promises.
ListKeys ==
    /\ call = NoCall
    /\ call' = NoCall
    /\ Len(answer') = Cardinality(DOMAIN dict)
    /\ {answer'[n] : n \in DOMAIN answer'} = DOMAIN dict
    /\ UNCHANGED <<dict, failed>>

\* Only an insertion needs memory.
Fail ==
    /\ call = NoCall
    /\ failed'
    /\ UNCHANGED <<dict, call, answer>>

Next == ~failed /\ (Make \/ Set \/ Get \/ Remove \/ Clear \/ ListKeys \/ Fail)

Spec == Init /\ [][Next]_vars
=============================================================================
