------------------------------ MODULE MCHashMap ------------------------------
(***************************************************************************)
(* Four keys and small tables.  All keys share a slot of the smaller       *)
(* table, its last one, so that probes wrap; in the larger one they may    *)
(* share it or not.                                                        *)
(***************************************************************************)
EXTENDS HashMap, TLC

CONSTANTS k1, k2, k3, k4

FourKeys == {k1, k2, k3, k4}
TwoValues == {1, 2}
Colliding == {[k \in FourKeys |-> 3],
              [k \in FourKeys |-> IF k = k4 THEN 3 ELSE 7],
              [k \in FourKeys |-> IF k = k4 THEN 0 ELSE 7]}

\* Requests for the smaller table and for the larger.
Asked == {1, 5}

\* No hash tells these keys apart, and nothing else does.
Alike == Permutations({k1, k2, k3})

\* What the last call returned, and what lies in a slot not in use, has no
\* influence on what happens next.
WithoutRests ==
    <<hash, slots, state, [s \in In(Used) |-> <<keys[s], values[s]>>], len, dead,
      call, at, i, reuse, old, each, met>>
=============================================================================
