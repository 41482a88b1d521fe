-------------------------- MODULE ClientLifecycle --------------------------
(***************************************************************************)
(* What the adapter promises a debug client about one program: the order   *)
(* of the events that say where the program is.                            *)
(*                                                                         *)
(* A program that is not stopped may stop; a stop is followed by the       *)
(* client's own resume before there is another; a program that faulted is  *)
(* never resumed, and its end carries the fault's exit code; the end is    *)
(* reported once, the exit code before it, and nothing stops after it.     *)
(***************************************************************************)
EXTENDS Naturals, Sequences

CONSTANTS StopReasons, None

VARIABLES
    stop,       \* the reason of the stop the client is looking at, or None
    final       \* the end as reported so far

Init == stop = None /\ final = <<>>

Stopped(reason) ==
    /\ stop = None
    /\ final = <<>>
    /\ stop' = reason
    /\ UNCHANGED final

Resumed ==
    /\ stop \notin {None, "FAULT"}
    /\ stop' = None
    /\ UNCHANGED final

Exited(code) ==
    /\ final = <<>>
    /\ stop = "FAULT" => code = "fault"
    /\ final' = <<code>>
    /\ UNCHANGED stop

Terminated ==
    /\ final \in {<<>>, <<"ok">>, <<"fault">>}
    /\ stop = "FAULT" => final = <<"fault">>
    /\ final' = Append(final, "terminated")
    /\ UNCHANGED stop

Next ==
    \/ \E reason \in StopReasons : Stopped(reason)
    \/ Resumed
    \/ \E code \in {"ok", "fault"} : Exited(code)
    \/ Terminated

Spec == Init /\ [][Next]_<<stop, final>>
=============================================================================
