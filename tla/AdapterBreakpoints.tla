------------------------- MODULE AdapterBreakpoints -------------------------
(***************************************************************************)
(* Breakpoints as the debug adapter keeps them (dap/session.py): what the  *)
(* client asked for, in records that outlive every resolution, and the     *)
(* debugger's table rebuilt from them on the request thread, one record at *)
(* a time, while the program's thread may be running.                      *)
(*                                                                         *)
(* How the two threads hand a stop over is in DapSession; here a resume is *)
(* one step.                                                               *)
(***************************************************************************)
EXTENDS Debugger

CONSTANTS
    Requests,           \* the setBreakpoints and setFunctionBreakpoints there
                        \* are: a source ("" for functions), a name or line each
    MaxRequests,        \* bound on those requests in one session
    MaxLaunches         \* bound on the launch requests before the start

ASSUME RequestsAssumption ==
    /\ MaxRequests \in Nat /\ MaxLaunches \in Nat
    /\ \A request \in Requests : Len(request.wants) \in Nat

VARIABLES
    adapter,            \* the request loop: where it is, and its locals
    records,            \* the ClientBreakpoints, by id
    sources,            \* the keys of DebugSession._source_breakpoints, in order
    next_record,        \* DebugSession._next_breakpoint_id
    hit_ids,            \* DebugSession._hit_ids
    requests,           \* how many of those requests have been served
    launches,           \* launches so far; the last one's Debugger is in place
    configured,         \* DebugSession._configuration_done
    stop_on_entry,      \* DebugSession._stop_on_entry
    told,               \* the client: the last body it has for each id
    announced,          \* the client: hitBreakpointIds of the last stop
    placed,             \* history: where each record was last resolved to
    calm,               \* history: no change since the table was looked up
    owed                \* history: a pause asked for and not answered by a stop

session == <<adapter, records, sources, next_record, hit_ids, requests, launches,
             configured, stop_on_entry, told, announced, placed, calm, owed>>

Launched == launches > 0
Alive    == at \notin {"none", "ended"}
Idle     == adapter.at = "idle"

Unreported == [why |-> "unreported"]
Record(request, i) ==
    [source |-> request.source, want |-> request.wants[i], line |-> NoLine, why |-> "",
     reported |-> Unreported]

\* ClientBreakpoint.body: is it verified, where, and if not, why.
Body(r) == [verified |-> r.line # NoLine, why |-> r.why,
            line |-> IF r.line # NoLine \/ r.source = "" THEN r.line ELSE r.want]

\* ClientBreakpoint.resolve, up to the table.
PlaceOfRecord(r) ==
    IF r.source = "" THEN FunctionPlace(prog, r.want)
    ELSE LinePlace(prog, r.want, {r.source})

\* _breakpoint_records: the functions' first, then each source's, in the order
\* they were asked for.
NextRecord(todo) ==
    LET first == Min({i \in DOMAIN sources : \E id \in todo : records[id].source = sources[i]})
    IN  Min({id \in todo : records[id].source = sources[first]})

AdapterGoes(point) == adapter' = [adapter EXCEPT !.at = point]

-----------------------------------------------------------------------------
(* Requests.                                                               *)

\* The records of one source are replaced; the others stay.
SetBreakpoints(request) ==
    LET n    == Len(request.wants)
        kept == {id \in DOMAIN records : records[id].source # request.source}
        new  == next_record .. next_record + n - 1
    IN  /\ Idle
        /\ requests < MaxRequests /\ requests' = requests + 1
        /\ records' = [id \in kept \cup new |->
                          IF id \in kept THEN records[id]
                          ELSE Record(request, id - next_record + 1)]
        /\ next_record' = next_record + n
        /\ adapter' = [at |-> IF Launched THEN "clear" ELSE "report", todo |-> {},
                       id |-> NoId, reply |-> new]
        /\ sources' = IF request.source \in Range(sources) THEN sources
                      ELSE Append(sources, request.source)
        /\ calm' = FALSE
        /\ UNCHANGED <<control, hit_ids, launches, configured, stop_on_entry, told,
                       announced, placed, owed>>

\* launch, when the program compiles and none is running: a Debugger of its own.
Launch(p) ==
    /\ Idle /\ at = "none" /\ launches < MaxLaunches
    /\ launches' = launches + 1
    /\ stop_on_entry' \in BOOLEAN
    /\ DebuggerFor(p)
    /\ adapter' = [at |-> "clear", todo |-> {}, id |-> NoId, reply |-> {}]
    /\ UNCHANGED <<at, records,
                   sources, next_record, hit_ids, requests, configured, told, announced, placed, calm, owed>>

\* The program starts with whichever of launch and configurationDone is second.
StartIf(ready) == at' = IF ready /\ at = "none" THEN "hook" ELSE at
ConfigurationDone ==
    /\ Idle /\ ~configured
    /\ configured' = TRUE
    /\ StartIf(Launched)
    /\ UNCHANGED <<prog, machine, stop, tables, stepping, paused, adapter, records,
                   sources, next_record, hit_ids, requests, launches, stop_on_entry, told, announced,
                   placed, calm, owed>>

Pause ==
    /\ Idle /\ Alive
    /\ paused' = TRUE /\ owed' = TRUE
    /\ UNCHANGED <<prog, at, machine, stop, tables, stepping, adapter, records,
                   sources, next_record, hit_ids, requests, launches, configured, stop_on_entry, told,
                   announced, placed, calm>>

ResumeRequest(m) ==
    /\ Idle /\ at = "stopped" /\ stop.reason # "FAULT"
    /\ Resume(m, 0, 0)
    /\ announced' = {}
    /\ UNCHANGED <<adapter, records, sources, next_record, hit_ids, requests, launches, configured,
                   stop_on_entry, told, placed, calm, owed>>

Disconnect ==
    /\ Idle /\ at = "stopped"
    /\ at' = "ended"
    /\ UNCHANGED <<prog, machine, stop, tables, stepping, paused, session>>

-----------------------------------------------------------------------------
(* _rebuild_breakpoints, a step for each thing the other thread can see.    *)

RebuildClear ==
    /\ adapter.at = "clear"
    /\ ClearBreakpoints
    /\ AdapterGoes("forget")
    /\ UNCHANGED <<prog, at, machine, stop, stepping, paused, records, sources, next_record,
                   hit_ids, requests, launches, configured, stop_on_entry, told, announced,
                   placed, calm, owed>>

RebuildForget ==
    /\ adapter.at = "forget"
    /\ hit_ids' = Nothing
    /\ adapter' = [adapter EXCEPT !.at = "resolve", !.todo = DOMAIN records]
    /\ UNCHANGED <<control, records, sources, next_record, requests, launches, configured, stop_on_entry,
                   told, announced, placed, calm, owed>>

RebuildResolve ==
    /\ adapter.at = "resolve"
    /\ IF adapter.todo = {}
       THEN AdapterGoes("report") /\ UNCHANGED <<tables, records, placed>>
       ELSE LET id == NextRecord(adapter.todo)
                place == PlaceOfRecord(records[id])
            IN  /\ records' = [records EXCEPT ![id].line = place.line, ![id].why = place.why]
                /\ placed' = With(placed, id, place.pc)
                /\ adapter' = [adapter EXCEPT !.todo = @ \ {id},
                                  !.at = IF Found(place) THEN "note" ELSE "resolve",
                                  !.id = IF Found(place) THEN id ELSE NoId]
                /\ IF Found(place) THEN Add(place) ELSE UNCHANGED tables
    /\ UNCHANGED <<prog, at, machine, stop, stepping, paused, sources, next_record, hit_ids,
                   requests, launches, configured, stop_on_entry, told, announced, calm, owed>>

\* _hit_ids.setdefault(bp.id, []).append(record.id), of the breakpoint returned.
RebuildNote ==
    /\ adapter.at = "note"
    /\ LET bp    == by_pc[placed[adapter.id]]
           found == IF bp \in DOMAIN hit_ids THEN hit_ids[bp] ELSE {}
       IN  hit_ids' = With(hit_ids, bp, found \cup {adapter.id})
    /\ adapter' = [adapter EXCEPT !.at = "resolve", !.id = NoId]
    /\ UNCHANGED <<control, records, sources, next_record, requests, launches, configured, stop_on_entry,
                   told, announced, placed, calm, owed>>

\* Only news is worth an event, and only of a record the client has a body for.
News == {id \in DOMAIN records : /\ records[id].reported # Unreported
                                 /\ records[id].reported # Body(records[id])}

\* The events, then the response (a launch was answered before the rebuild).
Report ==
    /\ adapter.at = "report"
    /\ records' = [id \in DOMAIN records |->
                      [records[id] EXCEPT !.reported = Body(records[id])]]
    /\ told' = [id \in DOMAIN records |->
                   IF id \in News \cup adapter.reply THEN Body(records[id]) ELSE told[id]]
    /\ adapter' = [at |-> "idle", todo |-> {}, id |-> NoId, reply |-> {}]
    /\ StartIf(Launched /\ configured)
    /\ UNCHANGED <<prog, machine, stop, tables, stepping, paused, sources, next_record, hit_ids,
                   requests, launches, configured, stop_on_entry, announced, placed, calm, owed>>

-----------------------------------------------------------------------------
(* The program's thread.                                                   *)

\* _on_stop: an entry nobody asked to stop at is passed over; any other stop is
\* announced, with the client's ids of the breakpoint it is for.
SessionOnStop ==
    /\ at = "stopping"
    /\ IF stop.reason = "ENTRY" /\ ~stop_on_entry
       THEN Resume("RUN", 0, 0) /\ UNCHANGED announced
       ELSE /\ at' = "stopped"
            /\ announced' = IF stop.bp \in DOMAIN hit_ids THEN hit_ids[stop.bp] ELSE {}
            /\ UNCHANGED <<prog, machine, stop, tables, stepping, paused>>
    /\ UNCHANGED <<adapter, records, sources, next_record, hit_ids, requests, launches, configured,
                   stop_on_entry, told, placed, calm, owed>>

Program ==
    /\ RunProgram
    /\ calm' = IF at = "table" THEN Idle ELSE calm
    /\ owed' = (owed /\ at # "pauseClear")
    /\ UNCHANGED <<adapter, records, sources, next_record, hit_ids, requests, launches, configured,
                   stop_on_entry, told, announced, placed>>

InitSession ==
    /\ adapter = [at |-> "idle", todo |-> {}, id |-> NoId, reply |-> {}]
    /\ records = Nothing /\ sources = <<"">> /\ next_record = 1 /\ hit_ids = Nothing
    /\ requests = 0 /\ launches = 0 /\ configured = FALSE /\ stop_on_entry = FALSE
    /\ told = Nothing /\ announced = {} /\ placed = Nothing
    /\ calm = FALSE /\ owed = FALSE
=============================================================================
