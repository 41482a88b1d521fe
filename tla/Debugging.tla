----------------------------- MODULE Debugging -----------------------------
(***************************************************************************)
(* A program under the debugger, behind either front end: the command      *)
(* line's prompt on the program's own thread, or the debug adapter's       *)
(* request loop on another.                                                *)
(***************************************************************************)
EXTENDS CommandLine, AdapterBreakpoints

VARIABLE front      \* the front end of this session

vars == <<front, control, prompt, session>>

Init ==
    /\ front \in {"prompt", "adapter"}
    /\ InitDebugger /\ InitPrompt /\ InitSession

AtPrompt ==
    /\ front = "prompt"
    /\ (RunProgram /\ UNCHANGED prompt) \/ PromptOnStop \/ Prompt
    /\ UNCHANGED <<front, session>>

AtAdapter ==
    /\ front = "adapter"
    /\ \/ \E request \in Requests : SetBreakpoints(request)
       \/ \E p \in Programs : Launch(p)
       \/ \E m \in {"RUN", "STEP_OVER", "STEP_IN", "FINISH"} : ResumeRequest(m)
       \/ ConfigurationDone \/ Pause \/ Disconnect
       \/ RebuildClear \/ RebuildForget \/ RebuildResolve \/ RebuildNote \/ Report
       \/ SessionOnStop \/ Program
    /\ UNCHANGED <<front, prompt>>

Begin == /\ front = "prompt" /\ \E p \in Programs : StartSession(p)
         /\ UNCHANGED <<front, session>>

Next == Begin \/ AtPrompt \/ AtAdapter

\* Nothing is left to do, or the program calls deeper than this model follows it.
Finished == Over /\ UNCHANGED vars

Spec == Init /\ [][Next \/ Finished]_vars

\* What a step is relative to is read only while one is being carried out, and
\* chosen anew by the next resume; how the session was set up, only until the
\* program has begun; what was announced is looked at when it is.
Steps  == mode \in {"STEP_IN", "STEP_OVER", "FINISH"} \/ at = "stopping"
Begins == at = "none" \/ mode = "ENTRY" \/ stop.reason = "ENTRY"
Seen == <<front, Len(prog.code), at, pc, stack, stop, tables, paused, prompt, mode,
          IF Steps THEN <<from_line, from_depth, asked, low>> ELSE <<>>,
          IF Begins THEN <<launches, configured, stop_on_entry>> ELSE <<>>,
          stop.reason = "BREAKPOINT" /\ at = "stopping" /\ calm,
          <<adapter, records, sources, next_record, hit_ids, requests, told, placed, owed>> >>

-----------------------------------------------------------------------------
(* What the client, or the user, was told is set and would stop.            *)
ToldPlace(r) ==
    IF r.source = "" THEN FunctionPlace(prog, r.want)
    ELSE Place(Min({q \in MarkedIn(prog, {r.source}) : LineAt(prog, q) = r.reported.line}),
               r.reported.line)
ToldSet == {id \in DOMAIN records : records[id].reported.verified}
Promised ==
    IF front = "prompt" THEN {breakpoints[i].pc : i \in {j \in DOMAIN breakpoints :
                                                            breakpoints[j].enabled}}
    ELSE {ToldPlace(records[id]).pc : id \in ToldSet}

\* Nobody is changing the tables, and a Debugger has seen every record.
Settled == front = "prompt" \/ (Idle /\ Launched)

TypeOK ==
    /\ at \in {"none", "hook", "pauseClear", "table", "stopping", "stopped", "exec", "ended"}
    /\ pc \in Pcs(prog) /\ \A i \in 1 .. Depth : stack[i] \in Pcs(prog)
    /\ Depth <= MaxDepth /\ low \in 0 .. Depth
    /\ mode \in {"RUN", "ENTRY", "STEP_IN", "STEP_OVER", "FINISH", None}
    /\ mode = None <=> (at \in {"stopping", "stopped"} \/ outcome # None
                         \/ (at = "ended" /\ stop # NoStop))
    /\ stop.bp # NoId => stop.reason = "BREAKPOINT"

(* The two tables are each other's inverse (debugger.py _add, remove,        *)
(* clear_breakpoints).                                                       *)
TablesInverse ==
    /\ \A q \in DOMAIN by_pc :
          by_pc[q] \in DOMAIN breakpoints /\ breakpoints[by_pc[q]].pc = q
    /\ \A i \in DOMAIN breakpoints :
          /\ i < next_id
          /\ breakpoints[i].pc \in DOMAIN by_pc /\ by_pc[breakpoints[i].pc] = i

(* When nobody is changing them, the adapter's are exactly what its client   *)
(* was told: each record verified where it stops, each hit attributed to the *)
(* records that are there (session.py _rebuild_breakpoints,                  *)
(* ClientBreakpoint.body).                                                   *)
TablesAgree ==
    /\ TablesInverse
    /\ (front = "adapter" /\ Settled) =>
           /\ told = [id \in DOMAIN records |-> Body(records[id])]
           /\ Promised = DOMAIN by_pc
           /\ DOMAIN hit_ids = DOMAIN breakpoints
           /\ \A i \in DOMAIN hit_ids :
                 hit_ids[i] = {id \in ToldSet : ToldPlace(records[id]).pc = breakpoints[i].pc}

(* No instruction with an enabled breakpoint the client knows of is executed *)
(* without a stop, unless the hook's lookup fell into a rebuild              *)
(* (debugger.py _on_instruction; session.py:618-622).                        *)
BreakpointsHonoured ==
    [][(at = "table" /\ at' = "exec" /\ Settled) => pc \notin Promised]_vars

(* A step ends where the user asked: next and finish never in a call made    *)
(* from the chosen activation, finish at the first instruction after that    *)
(* activation has returned, and none of them runs on past that place         *)
(* (debugger.py _on_instruction, resume; debug.py _resume).                  *)
StillThere == low >= asked.depth         \* the chosen activation has not returned
JustLeft   == Depth = asked.depth - 1 /\ low = Depth
NewLine    == LineAt(prog, pc) # asked.line
StepsEndWhereAsked ==
    /\ (at = "stopping" /\ stop.reason = "STEP") =>
          /\ asked.mode \in {"FINISH", "STEP_OVER", "STEP_IN"}
          /\ asked.mode = "FINISH" => JustLeft
          /\ asked.mode = "STEP_OVER" =>
                JustLeft \/ (Depth = asked.depth /\ StillThere /\ NewLine)
          /\ asked.mode = "STEP_IN" =>
                \/ JustLeft \/ Depth = asked.depth + 1
                \/ Depth = asked.depth /\ StillThere /\ NewLine
    /\ at = "exec" =>
          /\ asked.mode \in {"FINISH", "STEP_OVER"} => StillThere
          /\ asked.mode = "STEP_OVER" => (Depth > asked.depth \/ ~NewLine)
          /\ asked.mode = "STEP_IN" => (Depth = asked.depth /\ ~NewLine)

(* A stop says truly what it is for: the ids it names are of records at that *)
(* place, and all of them if no rebuild came between; and every pause is of  *)
(* a request that no pause has answered (session.py _stopped_body;           *)
(* debugger.py pause, _on_instruction).                                      *)
StopIsTrue ==
    /\ (front = "adapter" /\ at = "stopping" /\ at' = "stopped") =>
          /\ \A id \in announced' : placed[id] = pc
          /\ (calm /\ stop.reason = "BREAKPOINT") =>
                announced' = {id \in ToldSet : ToldPlace(records[id]).pc = pc}
    /\ (front = "adapter" /\ at = "pauseClear") => owed
StopsAreTrue == [][StopIsTrue]_vars

(* At a fault the innermost frame is shown where the machine's own backtrace *)
(* puts it (debugger.py:414-419: frames is "built the way VMError's          *)
(* backtrace is").                                                           *)
FaultShownWhereItIs ==
    (at = "stopped" /\ stop.reason = "FAULT") => FrameLines = BacktraceLines
=============================================================================
