--------------------------- MODULE AdapterProofs ---------------------------
(***************************************************************************)
(* Whatever the program, the requests and the steps the program takes      *)
(* while the debug adapter rebuilds its breakpoints: once the rebuild is   *)
(* done the debugger's tables are what the client was told, no breakpoint  *)
(* the client knows of is run past, and a stop names the records it is for.*)
(***************************************************************************)
EXTENDS DebuggerProofs, WellFoundedInduction

-----------------------------------------------------------------------------
(* Places.                                                                 *)

LEMMA MinOfNats ==
    ASSUME NEW S, S \subseteq Nat, S # {}
    PROVE  Min(S) \in S /\ \A y \in S : Min(S) <= y
<1> DEFINE R == {ss \in Nat \X Nat : ss[1] < ss[2]}
<1>1. IsWellFoundedOn(R, Nat)
  BY NatLessThanWellFounded DEF OpToRel
<1> HIDE DEF R
<1>2. \E x \in S : \A y \in S : ~ (<<y, x>> \in R)
  BY <1>1, WFMin
<1>3. \A x, y \in S : x <= y \/ <<y, x>> \in R
  BY DEF R
<1>4. \E x \in S : \A y \in S : x <= y
  BY <1>2, <1>3
<1> QED
  BY <1>4, Zenon DEF Min

\* Every instruction has a line, and functions and markers are where one is.
LaidOut(p) ==
    /\ \A q \in Pcs(p) : LineAt(p, q) \in Nat
    /\ \A f \in DOMAIN p.functions : f \in Nat /\ p.functions[f].entry_pc \in Pcs(p)
    /\ \A m \in Range(p.source_map) : m.pc \in Pcs(p)
ProgramInv == LaidOut(prog)

LEMMA LookupLine ==
    ASSUME NEW p, Mapped(p), NEW q \in Pcs(p)
    PROVE  Lookup(p, q) \in Nat
<1> DEFINE marked == {i \in DOMAIN p.source_map : p.source_map[i].pc <= q}
           top == Max(marked)
<1>1. CASE marked = {}
  BY <1>1 DEF Lookup
<1>2. CASE marked # {}
  <2>1. PICK n \in Nat : DOMAIN p.source_map = 1 .. n
    BY DEF Mapped
  <2>2. marked \subseteq 1 .. n
    BY <2>1
  <2>3. \E i \in marked : \A j \in marked : i >= j
    <3> DEFINE rest == {n - i : i \in marked}
    <3> HIDE DEF marked
    <3>0. \A i \in marked : i \in Nat /\ n - i \in Nat
      BY <2>2
    <3>1. rest \subseteq Nat /\ rest # {}
      BY <1>2, <3>0
    <3>2. Min(rest) \in rest /\ \A y \in rest : Min(rest) <= y
      <4> HIDE DEF rest
      <4> QED  BY <3>1, MinOfNats
    <3>3. PICK i \in marked : Min(rest) = n - i
      BY <3>2
    <3>4. \A j \in marked : n - i <= n - j
      BY <3>2, <3>3
    <3> QED
      BY <2>2, <3>4
  <2>4. top \in marked
    <3> HIDE DEF marked
    <3> QED  BY <2>3, Zenon DEF Max
  <2>5. p.source_map[top].line \in Nat
    <3> HIDE DEF top
    <3> QED  BY <2>4 DEF Mapped
  <2> QED
    BY <1>2, <2>5 DEF Lookup
<1> QED
  BY <1>1, <1>2

LEMMA LaidMapped ==
    ASSUME NEW p \in Programs
    PROVE  LaidOut(Laid(p))
<1> DEFINE laid == Laid(p)
<1>1. Mapped(p) /\ "code" \in DOMAIN p
  BY ProgramsAssumption DEF StaysInside
<1>2. /\ laid.code = p.code /\ laid.functions = p.functions
      /\ laid.source_map = p.source_map
      /\ laid.lines = [q \in Pcs(p) |-> Lookup(p, q)]
  BY <1>1 DEF Laid, With, Mapped
<1> HIDE DEF laid
<1>3. Pcs(laid) = Pcs(p)
  BY <1>2 DEF Pcs
<1>4. \A q \in Pcs(laid) : LineAt(laid, q) \in Nat
  BY <1>1, <1>2, <1>3, LookupLine DEF LineAt
<1>5. \A f \in DOMAIN laid.functions : f \in Nat /\ laid.functions[f].entry_pc \in Pcs(laid)
  BY <1>1, <1>2, <1>3 DEF Mapped
<1>6. \A m \in Range(laid.source_map) : m.pc \in Pcs(laid)
  BY <1>1, <1>2, <1>3 DEF Mapped, Range
<1>7. LaidOut(laid)
  BY <1>4, <1>5, <1>6 DEF LaidOut
<1> QED
  BY <1>7 DEF laid

Reasons == {"no function", "no file", "no code"}

LEMMA PlaceFields ==
    ASSUME NEW q, NEW line
    PROVE  Place(q, line).pc = q /\ Place(q, line).line = line /\ Found(Place(q, line))
BY DEF Place, Found

LEMMA NoPlaceFields ==
    ASSUME NEW why \in Reasons
    PROVE  NoPlace(why).line = NoLine /\ ~Found(NoPlace(why))
BY DEF NoPlace, Found, Reasons

\* Where a line breakpoint lands is the first instruction marked with its line.
FirstOn(files, line) == Min({q \in MarkedIn(prog, files) : LineAt(prog, q) = line})

LEMMA FunctionPlaces ==
    ASSUME ProgramInv, NEW name
    PROVE  \/ \E why \in Reasons : FunctionPlace(prog, name) = NoPlace(why)
           \/ \E q : \E l \in Nat : FunctionPlace(prog, name) = Place(q, l)
<1> DEFINE named == {f \in DOMAIN prog.functions : prog.functions[f].name = name}
           entry == prog.functions[Min(named)].entry_pc
<1>1. CASE named = {}
  BY <1>1 DEF FunctionPlace, Reasons
<1>2. CASE named # {}
  <2>1. named \subseteq Nat
    BY DEF ProgramInv, LaidOut
  <2>2. Min(named) \in named
    <3> HIDE DEF named
    <3> QED  BY <1>2, <2>1, MinOfNats
  <2>3. LineAt(prog, entry) \in Nat
    BY <2>2 DEF ProgramInv, LaidOut
  <2>4. FunctionPlace(prog, name) = Place(entry, LineAt(prog, entry))
    BY <1>2 DEF FunctionPlace
  <2> HIDE DEF entry
  <2> QED
    BY <2>3, <2>4
<1> QED
  BY <1>1, <1>2

LEMMA LinePlaces ==
    ASSUME ProgramInv, NEW line, NEW files
    PROVE  \/ \E why \in Reasons : LinePlace(prog, line, files) = NoPlace(why)
           \/ \E l \in Nat : LinePlace(prog, line, files) = Place(FirstOn(files, l), l)
<1> DEFINE marked == MarkedIn(prog, files)
           on(l)  == {q \in marked : LineAt(prog, q) = l}
           later  == {LineAt(prog, q) : q \in marked} \ (0 .. line)
           place  == LinePlace(prog, line, files)
<1>1. \A q \in marked : LineAt(prog, q) \in Nat
  BY DEF MarkedIn, ProgramInv, LaidOut
<1>2. \A l : FirstOn(files, l) = Min(on(l))
  BY DEF FirstOn
<1>3. \/ place = NoPlace("no file") \/ place = NoPlace("no code")
      \/ on(line) # {} /\ place = Place(Min(on(line)), line)
      \/ later # {} /\ place = Place(Min(on(Min(later))), Min(later))
  <2> DEFINE noFile == \A f \in DOMAIN prog.functions :
                          prog.functions[f].source_file \notin files
             here  == Place(Min(on(line)), line)
             after == Place(Min(on(Min(later))), Min(later))
             marks == on(line) # {}
             other == IF later = {} THEN NoPlace("no code") ELSE after
             none  == NoPlace("no file")
  <2>1. place = CASE noFile -> none [] marks -> here [] OTHER -> other
    BY DEF LinePlace, LineAt
  <2>2. /\ later = {} => other = NoPlace("no code")
        /\ later # {} => other = after
    OBVIOUS
  <2> HIDE DEF noFile, marks, here, other, none, place
  <2>3. place = none \/ (marks /\ place = here) \/ place = other
    BY <2>1
  <2> HIDE DEF later, after
  <2>4. place = NoPlace("no file") \/ place = NoPlace("no code")
        \/ (marks /\ place = here) \/ (later # {} /\ place = after)
    BY <2>2, <2>3 DEF none
  <2> QED
    BY <2>4 DEF here, after, marks
<1>4. on(line) # {} => line \in Nat
  BY <1>1
<1>5. later # {} => Min(later) \in Nat
  <2>1. later \subseteq Nat
    BY <1>1
  <2> HIDE DEF later
  <2> QED
    BY <2>1, MinOfNats
<1> DEFINE onIt   == on(line)
           onNext == on(Min(later))
<1>6. Min(onIt) = FirstOn(files, line) /\ Min(onNext) = FirstOn(files, Min(later))
  BY <1>2
<1> HIDE DEF place, on, later
<1>7. place = NoPlace("no file") \/ place = NoPlace("no code") => \E why \in Reasons : place = NoPlace(why)
  BY DEF Reasons
<1> QED
  BY <1>3, <1>4, <1>5, <1>6, <1>7, Zenon DEF place

\* A record's place has a line and no reason against it, or a reason and no
\* line; and where the client takes it to be is where it was put.
LEMMA RecordPlace ==
    ASSUME ProgramInv, NEW r
    PROVE  /\ Found(PlaceOfRecord(r)) <=> PlaceOfRecord(r).line # NoLine
           /\ (Found(PlaceOfRecord(r)) /\ r.reported.line = PlaceOfRecord(r).line)
                  => ToldPlace(r).pc = PlaceOfRecord(r).pc
<1> DEFINE place == PlaceOfRecord(r)
<1>1. \A l \in Nat : l # NoLine
  BY DEF NoLine
<1>2. CASE r.source = ""
  <2>1. place = FunctionPlace(prog, r.want) /\ ToldPlace(r) = FunctionPlace(prog, r.want)
    BY <1>2 DEF PlaceOfRecord, ToldPlace
  <2>2. \/ \E why \in Reasons : place = NoPlace(why)
        \/ \E q : \E l \in Nat : place = Place(q, l)
    BY <2>1, FunctionPlaces
  <2> HIDE DEF place
  <2>3. Found(place) <=> place.line # NoLine
    BY <1>1, <2>2, PlaceFields, NoPlaceFields
  <2>4. ToldPlace(r) = place
    BY <2>1
  <2> QED
    BY <2>3, <2>4 DEF place
<1>3. CASE r.source # ""
  <2>1. /\ place = LinePlace(prog, r.want, {r.source})
        /\ ToldPlace(r) = Place(FirstOn({r.source}, r.reported.line), r.reported.line)
    BY <1>3 DEF PlaceOfRecord, ToldPlace, FirstOn
  <2>2. \/ \E why \in Reasons : place = NoPlace(why)
        \/ \E l \in Nat : place = Place(FirstOn({r.source}, l), l)
    BY <2>1, LinePlaces
  <2>3. ToldPlace(r).pc = FirstOn({r.source}, r.reported.line)
    BY <2>1, PlaceFields
  <2> HIDE DEF place
  <2>4. CASE \E why \in Reasons : place = NoPlace(why)
    BY <2>4, NoPlaceFields DEF place
  <2>5. ASSUME NEW l \in Nat, place = Place(FirstOn({r.source}, l), l)
        PROVE  /\ Found(place) /\ place.line = l /\ l # NoLine
               /\ place.pc = FirstOn({r.source}, l)
    BY <1>1, <2>5, PlaceFields
  <2> QED
    BY <2>2, <2>3, <2>4, <2>5 DEF place
<1> QED
  BY <1>2, <1>3

-----------------------------------------------------------------------------
(* The rebuild.                                                            *)

\* Where the program in place puts each record.
Places == [id \in DOMAIN records |-> PlaceOfRecord(records[id])]

\* The records that have been resolved since the tables were cleared, the tables
\* that should come of them, and the rebuild's progress.
Busy     == {"clear", "forget", "resolve", "note"}
UpToDate == adapter.at \in {"resolve", "note"} \/ (adapter.at \in {"idle", "report"} /\ Launched)
Handled  == DOMAIN records \ adapter.todo
Landed   == {id \in Handled : Places[id].why = ""}

LoopInv ==
    /\ adapter = [at |-> adapter.at, todo |-> adapter.todo, id |-> adapter.id,
                  reply |-> adapter.reply]
    /\ adapter.at \in Busy \cup {"idle", "report"}
    /\ adapter.at \in {"idle", "report"} => adapter.todo = {}
    /\ adapter.at = "note" => adapter.id \in Landed
    /\ adapter.at # "note" => adapter.id = NoId
    /\ adapter.at \in Busy \/ at # "none" => Launched
    /\ launches \in Nat

IsRecord(r) == r = [source |-> r.source, want |-> r.want, line |-> r.line, why |-> r.why,
                    reported |-> r.reported]
SourceNames == {""} \cup {request.source : request \in Requests}
RecordsInv ==
    /\ next_record \in Nat \ {0} /\ sources \in Seq(SourceNames)
    /\ adapter.todo \subseteq DOMAIN records
    /\ \A id \in DOMAIN records :
          /\ id \in Nat /\ 0 < id /\ id < next_record
          /\ IsRecord(records[id]) /\ records[id].source \in Range(sources)

\* The tables are of the records resolved so far, and of no other.
BuiltInv ==
    /\ adapter.at = "forget" => DOMAIN breakpoints = {}
    /\ UpToDate =>
          /\ \A id \in Handled :
                /\ records[id].line = Places[id].line /\ records[id].why = Places[id].why
                /\ id \in DOMAIN placed /\ placed[id] = Places[id].pc
          /\ DOMAIN by_pc = {Places[id].pc : id \in Landed}
          /\ DOMAIN hit_ids \subseteq DOMAIN breakpoints
          /\ \A i \in DOMAIN breakpoints :
                {id \in Landed \ {adapter.id} : Places[id].pc = breakpoints[i].pc}
                    = IF i \in DOMAIN hit_ids THEN hit_ids[i] ELSE {}

\* Also of tables that are about to be cleared.
IdsInv ==
    /\ 0 < next_id /\ NoId \notin DOMAIN breakpoints /\ NoId \notin DOMAIN hit_ids
    /\ \A i \in DOMAIN breakpoints : breakpoints[i].enabled
    /\ \A i \in DOMAIN breakpoints \cap DOMAIN hit_ids :
          \A id \in hit_ids[i] : placed[id] = breakpoints[i].pc

\* `reported` is what the client was told, until a response brings the rest.
ToldInv ==
    /\ \A id \in DOMAIN records \ adapter.reply :
          /\ id \in DOMAIN told
          /\ records[id].reported = told[id] /\ told[id] # Unreported
    /\ Idle => /\ adapter.reply = {}
               /\ told = [id \in DOMAIN records |-> Body(records[id])]

\* A stop keeps its breakpoint while the tables are rebuilt: its id is not used
\* again, and its hits are forgotten with it or are still of its place.
StopInv ==
    /\ at = "stopping" =>
          /\ stop.bp \in Nat /\ stop.bp < next_id
          /\ stop.bp \in DOMAIN breakpoints => breakpoints[stop.bp].pc = pc
          /\ stop.bp \in DOMAIN hit_ids => \A id \in hit_ids[stop.bp] : placed[id] = pc
          /\ (calm /\ stop.reason = "BREAKPOINT") => Idle /\ stop.bp \in DOMAIN breakpoints
    /\ paused \/ at = "pauseClear" => owed

SessionInv == LoopInv /\ RecordsInv /\ BuiltInv /\ IdsInv /\ ToldInv
AdapterInv == ProgramInv /\ TablesInv /\ (front = "adapter" => SessionInv /\ StopInv)

\* All but where the program is and how it stopped.
Kept == <<prog, tables, adapter, records, sources, next_record, hit_ids, launches, told, placed>>

LEMMA SessionKept ==
    ASSUME SessionInv, UNCHANGED Kept, at' # "none" => Launched
    PROVE  SessionInv'
<1> USE DEF SessionInv, Kept, tables
<1>1. LoopInv'
  BY DEF LoopInv, Launched, Landed, Handled, Places, PlaceOfRecord
<1>2. RecordsInv'
  BY DEF RecordsInv
<1>3. BuiltInv'
  <2>1. UNCHANGED Places
    BY DEF Places, PlaceOfRecord
  <2>2. UNCHANGED <<Handled, Landed>> /\ (UpToDate' <=> UpToDate)
    BY <2>1 DEF UpToDate, Launched, Landed, Handled
  <2> QED
    BY <2>1, <2>2 DEF BuiltInv
<1>4. IdsInv'
  BY DEF IdsInv
<1>5. ToldInv'
  BY DEF ToldInv, Idle, Body
<1> QED
  BY <1>1, <1>2, <1>3, <1>4, <1>5

\* What the program does, and what only resumes, pauses or ends it.
LEMMA ProgramSession ==
    ASSUME TablesInv, SessionInv, StopInv, Program
    PROVE  SessionInv' /\ StopInv'
<1>1. at # "none" /\ UNCHANGED Kept
  BY DEF Program, RunProgram, HookPause, PauseClear, HookTable, Exec, Kept, Goto, StopFor
<1>2. SessionInv'
  BY <1>1, SessionKept DEF SessionInv, LoopInv
<1>3. /\ UNCHANGED <<breakpoints, next_id, hit_ids, placed>> /\ (Idle' <=> Idle)
      /\ next_id \in Nat /\ 0 < next_id /\ NoId \notin DOMAIN breakpoints
      /\ NoId \notin DOMAIN hit_ids
  BY <1>1 DEF Kept, tables, Idle, TablesInv, TableShape, SessionInv, IdsInv
<1>4. CASE HookPause
  <2>1. /\ at = "hook" /\ at' \in {"pauseClear", "table"} /\ (at' = "pauseClear" => paused)
        /\ paused' = paused /\ (owed => owed')
    BY <1>4 DEF HookPause, Program
  <2> QED
    BY <1>2, <2>1 DEF StopInv
<1>5. CASE PauseClear
  <2>1. at' = "stopping" /\ stop'.bp = NoId /\ stop'.reason = "PAUSE" /\ ~paused'
    BY <1>5 DEF PauseClear, StopFor
  <2> QED
    BY <1>2, <1>3, <2>1 DEF StopInv, NoId
<1>6. CASE HookTable
  <2>1. /\ at = "table" /\ UNCHANGED <<pc, paused>> /\ (owed => owed') /\ (calm' => Idle)
        /\ \/ at' = "exec"
           \/ Hit /\ StopFor("BREAKPOINT", by_pc[pc])
           \/ StopFor("ENTRY", NoId) \/ StopFor("STEP", NoId)
    BY <1>6 DEF HookTable, Program, machine
  <2>2. \/ at' = "exec"
        \/ at' = "stopping" /\ Hit /\ stop' = [reason |-> "BREAKPOINT", bp |-> by_pc[pc]]
        \/ at' = "stopping" /\ stop'.bp = NoId /\ stop'.reason \in {"ENTRY", "STEP"}
    BY <2>1 DEF StopFor
  <2>3. CASE at' = "stopping" /\ Hit /\ stop' = [reason |-> "BREAKPOINT", bp |-> by_pc[pc]]
    <3>1. /\ stop'.bp \in DOMAIN breakpoints /\ breakpoints[stop'.bp].pc = pc
          /\ stop'.bp \in Nat /\ stop'.bp < next_id
      BY <2>3 DEF Hit, TablesInv, TablesInverse, TableShape
    <3>2. stop'.bp \in DOMAIN hit_ids => \A id \in hit_ids[stop'.bp] : placed[id] = pc
      BY <3>1 DEF SessionInv, IdsInv
    <3> QED
      BY <1>2, <1>3, <2>1, <2>3, <3>1, <3>2 DEF StopInv
  <2>4. CASE at' = "exec" \/ (at' = "stopping" /\ stop'.bp = NoId /\ stop'.reason \in {"ENTRY", "STEP"})
    BY <1>2, <1>3, <2>1, <2>4 DEF StopInv, NoId
  <2> QED
    BY <2>1, <2>2, <2>3, <2>4
<1>7. CASE Exec
  <2>1. /\ at = "exec" /\ UNCHANGED paused /\ (owed => owed') /\ at' \in {"hook", "ended", "stopping"}
        /\ at' = "stopping" => stop'.bp = NoId /\ stop'.reason = "FAULT"
    <3>1. at' \in {"hook", "ended"} \/ StopFor("FAULT", NoId)
      BY <1>7 DEF Exec, Goto
    <3>2. at = "exec" /\ UNCHANGED paused /\ (owed => owed')
      BY <1>7 DEF Exec, Program
    <3> QED
      BY <3>1, <3>2 DEF StopFor
  <2> QED
    BY <1>2, <1>3, <2>1 DEF StopInv, NoId
<1> QED
  BY <1>2, <1>4, <1>5, <1>6, <1>7 DEF Program, RunProgram

LEMMA QuietSession ==
    ASSUME SessionInv, StopInv,
           \/ ConfigurationDone \/ Pause \/ Disconnect \/ SessionOnStop
           \/ \E m \in {"RUN", "STEP_OVER", "STEP_IN", "FINISH"} : ResumeRequest(m)
    PROVE  SessionInv' /\ StopInv'
<1>1. /\ UNCHANGED Kept
      /\ at' # "none" => Launched
      /\ at' = "stopping" => /\ UNCHANGED <<at, pc, stop, calm>>
      /\ at' = "pauseClear" => UNCHANGED at
      /\ UNCHANGED <<paused, owed>> \/ owed'
  BY DEF ConfigurationDone, Pause, Disconnect, SessionOnStop, ResumeRequest, Resume, StartIf,
         Kept, control, session, machine, SessionInv, LoopInv
<1>2. SessionInv'
  BY <1>1, SessionKept
<1>3. UNCHANGED <<breakpoints, next_id, hit_ids, placed>> /\ (Idle' <=> Idle)
  BY <1>1 DEF Kept, tables, Idle
<1> QED
  BY <1>1, <1>2, <1>3 DEF StopInv

-----------------------------------------------------------------------------
(* Requests that change what there is to resolve.                          *)

LEMMA SetBreakpointsSession ==
    ASSUME SessionInv, StopInv, NEW request \in Requests, SetBreakpoints(request)
    PROVE  SessionInv' /\ StopInv'
<1> DEFINE n    == Len(request.wants)
           kept == {id \in DOMAIN records : records[id].source # request.source}
           new  == next_record .. next_record + n - 1
<1>1. /\ Idle /\ UNCHANGED <<at, pc, stop, tables, paused, hit_ids, launches, told, placed, owed>>
      /\ next_record' = next_record + n /\ calm' = FALSE
      /\ adapter' = [at |-> IF Launched THEN "clear" ELSE "report", todo |-> {},
                     id |-> NoId, reply |-> new]
      /\ sources' = IF request.source \in Range(sources) THEN sources
                    ELSE Append(sources, request.source)
  BY DEF SetBreakpoints, control, machine
<1>2. n \in Nat /\ next_record \in Nat \ {0} /\ launches \in Nat
  BY RequestsAssumption DEF SessionInv, RecordsInv, LoopInv
<1>3. /\ DOMAIN records' = kept \cup new
      /\ \A id \in kept : records'[id] = records[id]
      /\ \A id \in new \ kept : records'[id] = Record(request, id - next_record + 1)
  BY DEF SetBreakpoints
<1>4. \A id \in new \ kept : IsRecord(records'[id]) /\ records'[id].source = request.source
  <2>1. \A i : IsRecord(Record(request, i)) /\ Record(request, i).source = request.source
    BY DEF IsRecord, Record
  <2> QED
    BY <1>3, <2>1
<1>5. /\ sources' \in Seq(SourceNames) /\ request.source \in Range(sources')
      /\ Range(sources) \subseteq Range(sources')
  <2>1. request.source \in SourceNames /\ sources \in Seq(SourceNames)
    BY DEF SourceNames, SessionInv, RecordsInv
  <2>2. CASE request.source \in Range(sources)
    BY <1>1, <2>1, <2>2
  <2>3. CASE request.source \notin Range(sources)
    <3> DEFINE s == Append(sources, request.source)
    <3>1. /\ s \in Seq(SourceNames) /\ DOMAIN s = 1 .. (Len(sources) + 1)
          /\ s[Len(sources) + 1] = request.source
          /\ \A i \in DOMAIN sources : i \in DOMAIN s /\ s[i] = sources[i]
          /\ Len(sources) + 1 \in DOMAIN s
      BY <2>1
    <3>2. sources' = s
      BY <1>1, <2>3
    <3> HIDE DEF s
    <3> QED
      BY <3>1, <3>2 DEF Range
  <2> QED
    BY <2>2, <2>3
<1>6. LoopInv'
  BY <1>1, <1>2 DEF SessionInv, LoopInv, Busy, Launched
<1>7. RecordsInv'
  <2>1. \A id \in kept : /\ id \in Nat /\ 0 < id /\ id < next_record
                         /\ IsRecord(records'[id]) /\ records'[id].source \in Range(sources)
    BY <1>3 DEF SessionInv, RecordsInv
  <2>2. \A id \in new : id \in Nat /\ 0 < id /\ id < next_record'
    BY <1>1, <1>2
  <2>3. next_record <= next_record' /\ next_record' \in Nat \ {0} /\ adapter'.todo = {}
    BY <1>1, <1>2
  <2> HIDE DEF kept, new, n
  <2>4. \A id \in DOMAIN records' :
          /\ id \in Nat /\ 0 < id /\ id < next_record'
          /\ IsRecord(records'[id]) /\ records'[id].source \in Range(sources')
    BY <1>2, <1>3, <1>4, <1>5, <2>1, <2>2, <2>3
  <2> QED
    BY <1>5, <2>3, <2>4 DEF RecordsInv
<1>8. BuiltInv'
  BY <1>1 DEF BuiltInv, UpToDate, Launched
<1>9. IdsInv'
  BY <1>1 DEF SessionInv, IdsInv, tables
<1>10. ToldInv'
  <2>1. adapter'.reply = new /\ adapter'.at # "idle" /\ told' = told /\ adapter.reply = {}
    BY <1>1 DEF SessionInv, ToldInv
  <2> HIDE DEF new
  <2>2. \A id \in DOMAIN records' \ new : id \in DOMAIN records /\ records'[id] = records[id]
    BY <1>3
  <2> QED
    BY <2>1, <2>2 DEF SessionInv, ToldInv, Idle
<1>11. StopInv'
  BY <1>1 DEF StopInv, tables
<1> QED
  BY <1>6, <1>7, <1>8, <1>9, <1>10, <1>11 DEF SessionInv

LEMMA LaunchSession ==
    ASSUME SessionInv, StopInv, NEW p \in Programs, Launch(p)
    PROVE  SessionInv' /\ StopInv'
<1>1. /\ Idle /\ at = "none" /\ launches' = launches + 1
      /\ breakpoints' = Nothing /\ next_id' = 1
      /\ adapter' = [at |-> "clear", todo |-> {}, id |-> NoId, reply |-> {}]
      /\ UNCHANGED <<at, records, sources, next_record, hit_ids, told, placed, paused, owed>>
  BY DEF Launch, DebuggerFor
<1>2. LoopInv'
  BY <1>1 DEF SessionInv, LoopInv, Busy, Launched
<1>3. RecordsInv'
  BY <1>1 DEF SessionInv, RecordsInv
<1>4. BuiltInv'
  BY <1>1 DEF BuiltInv, UpToDate
<1>5. IdsInv'
  BY <1>1 DEF SessionInv, IdsInv, Nothing
<1>6. ToldInv'
  BY <1>1 DEF SessionInv, ToldInv, Idle
<1>7. StopInv'
  BY <1>1 DEF StopInv
<1> QED
  BY <1>2, <1>3, <1>4, <1>5, <1>6, <1>7 DEF SessionInv

-----------------------------------------------------------------------------
(* The steps of the rebuild.                                               *)

LEMMA ClearSession ==
    ASSUME SessionInv, StopInv, RebuildClear
    PROVE  SessionInv' /\ StopInv'
<1>1. /\ adapter.at = "clear" /\ breakpoints' = Nothing /\ next_id' = next_id
      /\ adapter' = [adapter EXCEPT !.at = "forget"]
      /\ UNCHANGED <<prog, at, pc, stop, records, sources, next_record, hit_ids, launches, told,
                     placed, calm, owed, paused>>
  BY DEF RebuildClear, ClearBreakpoints, AdapterGoes, machine
<1>2. adapter' = [at |-> "forget", todo |-> adapter.todo, id |-> adapter.id, reply |-> adapter.reply]
  BY <1>1 DEF SessionInv, LoopInv
<1>3. LoopInv'
  BY <1>1, <1>2 DEF SessionInv, LoopInv, Busy, Launched
<1>4. RecordsInv'
  BY <1>1, <1>2 DEF SessionInv, RecordsInv
<1>5. BuiltInv'
  BY <1>1, <1>2 DEF BuiltInv, UpToDate, Nothing
<1>6. IdsInv'
  BY <1>1 DEF SessionInv, IdsInv, Nothing
<1>7. ToldInv'
  BY <1>1, <1>2 DEF SessionInv, ToldInv, Idle
<1>8. StopInv'
  BY <1>1 DEF StopInv, Nothing, Idle
<1> QED
  BY <1>3, <1>4, <1>5, <1>6, <1>7, <1>8 DEF SessionInv

LEMMA ForgetSession ==
    ASSUME TablesInv, SessionInv, StopInv, RebuildForget
    PROVE  SessionInv' /\ StopInv'
<1>1. /\ adapter.at = "forget" /\ hit_ids' = Nothing
      /\ adapter' = [adapter EXCEPT !.at = "resolve", !.todo = DOMAIN records]
      /\ UNCHANGED <<prog, at, pc, stop, tables, records, sources, next_record, launches, told,
                     placed, calm, owed, paused>>
  BY DEF RebuildForget, control, machine
<1>2. adapter' = [at |-> "resolve", todo |-> DOMAIN records, id |-> adapter.id,
                  reply |-> adapter.reply]
  BY <1>1 DEF SessionInv, LoopInv
<1>3. LoopInv'
  BY <1>1, <1>2 DEF SessionInv, LoopInv, Busy, Launched
<1>4. RecordsInv'
  BY <1>1, <1>2 DEF SessionInv, RecordsInv
<1>5. BuiltInv'
  <2>1. Handled' = {} /\ Landed' = {}
    BY <1>1, <1>2 DEF Handled, Landed
  <2>2. DOMAIN breakpoints = {} /\ DOMAIN by_pc = {}
    BY <1>1 DEF SessionInv, BuiltInv, TablesInv, TablesInverse
  <2>3. DOMAIN Nothing = {}
    BY DEF Nothing
  <2> QED
    BY <1>1, <1>2, <2>1, <2>2, <2>3 DEF BuiltInv, tables
<1>6. IdsInv'
  BY <1>1 DEF SessionInv, IdsInv, Nothing, tables
<1>7. ToldInv'
  BY <1>1, <1>2 DEF SessionInv, ToldInv, Idle
<1>8. StopInv'
  BY <1>1 DEF StopInv, Nothing, Idle, tables
<1> QED
  BY <1>3, <1>4, <1>5, <1>6, <1>7, <1>8 DEF SessionInv

LEMMA NextIsOne ==
    ASSUME RecordsInv, NEW todo, todo \subseteq DOMAIN records, todo # {}
    PROVE  NextRecord(todo) \in todo
<1> DEFINE asked_in == {i \in DOMAIN sources : \E id \in todo : records[id].source = sources[i]}
           first    == Min(asked_in)
           there    == {id \in todo : records[id].source = sources[first]}
<1>1. asked_in \subseteq Nat /\ asked_in # {}
  <2>1. DOMAIN sources \subseteq Nat
    BY DEF RecordsInv
  <2>2. PICK id \in todo : records[id].source \in Range(sources)
    BY DEF RecordsInv
  <2>3. PICK i \in DOMAIN sources : records[id].source = sources[i]
    BY <2>2 DEF Range
  <2> QED
    BY <2>1, <2>2, <2>3
<1>2. first \in asked_in
  <2> HIDE DEF asked_in
  <2> QED  BY <1>1, MinOfNats
<1>3. there \subseteq Nat /\ there # {}
  <2> HIDE DEF first
  <2> QED  BY <1>2 DEF RecordsInv
<1>4. Min(there) \in there
  <2> HIDE DEF there
  <2> QED  BY <1>3, MinOfNats
<1>5. NextRecord(todo) = Min(there)
  BY DEF NextRecord
<1> HIDE DEF first
<1> QED
  BY <1>4, <1>5

LEMMA SamePlace ==
    ASSUME UNCHANGED prog, NEW x, records'[x].source = records[x].source,
           records'[x].want = records[x].want
    PROVE  PlaceOfRecord(records[x])' = PlaceOfRecord(records[x])
<1>1. FunctionPlace(prog, records[x].want)' = FunctionPlace(prog, records[x].want)
  OBVIOUS
<1>2. LinePlace(prog, records[x].want, {records[x].source})'
          = LinePlace(prog, records[x].want, {records[x].source})
  OBVIOUS
<1> QED
  BY <1>1, <1>2 DEF PlaceOfRecord

\* Resolving a record leaves what it asks for, and so every record's place.
LEMMA RecordResolved ==
    ASSUME RecordsInv, UNCHANGED prog, NEW id \in DOMAIN records, NEW line, NEW why,
           records' = [records EXCEPT ![id].line = line, ![id].why = why]
    PROVE  /\ DOMAIN records' = DOMAIN records
           /\ \A x \in DOMAIN records : x # id => records'[x] = records[x]
           /\ records'[id] = [source |-> records[id].source, want |-> records[id].want,
                              line |-> line, why |-> why, reported |-> records[id].reported]
           /\ UNCHANGED Places
<1>1. /\ DOMAIN records' = DOMAIN records
      /\ \A x \in DOMAIN records : x # id => records'[x] = records[x]
      /\ records'[id] = [[records[id] EXCEPT !.line = line] EXCEPT !.why = why]
  OBVIOUS
<1>2. records[id] = [source |-> records[id].source, want |-> records[id].want,
                     line |-> records[id].line, why |-> records[id].why,
                     reported |-> records[id].reported]
  BY DEF RecordsInv, IsRecord
<1>3. records'[id] = [source |-> records[id].source, want |-> records[id].want,
                      line |-> line, why |-> why, reported |-> records[id].reported]
  BY <1>1, <1>2
<1>4. \A x \in DOMAIN records : /\ records'[x].source = records[x].source
                                /\ records'[x].want = records[x].want
  BY <1>1, <1>3
<1>5. \A x \in DOMAIN records : PlaceOfRecord(records[x])' = PlaceOfRecord(records[x])
  BY <1>4, SamePlace
<1> QED
  BY <1>1, <1>3, <1>5 DEF Places

\* The table: as it was, or with one breakpoint more, at a place of its own.
LEMMA AddedTo ==
    ASSUME TablesInv, NEW place, Add(place)
    PROVE  /\ next_id' \in Nat /\ next_id <= next_id'
           /\ DOMAIN breakpoints \subseteq DOMAIN breakpoints'
           /\ \A i \in DOMAIN breakpoints : breakpoints'[i] = breakpoints[i]
           /\ \A i \in DOMAIN breakpoints' : i \notin DOMAIN breakpoints =>
                 /\ i = next_id /\ place.pc \notin DOMAIN by_pc
                 /\ breakpoints'[i].pc = place.pc /\ breakpoints'[i].enabled
           /\ DOMAIN by_pc' = DOMAIN by_pc \cup {place.pc}
<1>1. next_id \in Nat /\ next_id \notin DOMAIN breakpoints
  BY DEF TablesInv, TableShape, TablesInverse
<1>2. CASE place.pc \in DOMAIN by_pc
  <2>1. UNCHANGED <<breakpoints, by_pc, next_id>>
    BY <1>2 DEF Add, tables
  <2> QED
    BY <1>1, <1>2, <2>1
<1>3. CASE place.pc \notin DOMAIN by_pc
  <2> DEFINE bp == [pc |-> place.pc, line |-> place.line, enabled |-> TRUE]
  <2>1. /\ breakpoints' = With(breakpoints, next_id, bp)
        /\ by_pc' = With(by_pc, place.pc, next_id) /\ next_id' = next_id + 1
    BY <1>3 DEF Add
  <2>2. bp.pc = place.pc /\ bp.enabled
    OBVIOUS
  <2> HIDE DEF bp
  <2>3. /\ DOMAIN breakpoints' = DOMAIN breakpoints \cup {next_id} /\ breakpoints'[next_id] = bp
        /\ \A i \in DOMAIN breakpoints : breakpoints'[i] = breakpoints[i]
    BY <1>1, <2>1 DEF With
  <2>4. DOMAIN by_pc' = DOMAIN by_pc \cup {place.pc}
    BY <2>1 DEF With
  <2> QED
    BY <1>1, <1>3, <2>1, <2>2, <2>3, <2>4
<1> QED
  BY <1>2, <1>3

LEMMA ResolveSession ==
    ASSUME TablesInv, SessionInv, StopInv, RebuildResolve, adapter.todo # {}
    PROVE  SessionInv' /\ StopInv'
<1> DEFINE id     == NextRecord(adapter.todo)
           place  == PlaceOfRecord(records[id])
           landed == place.why = ""
<1>1. id \in adapter.todo /\ id \in DOMAIN records
  BY NextIsOne DEF SessionInv, RecordsInv
<1>2. /\ adapter.at = "resolve"
      /\ records' = [records EXCEPT ![id].line = place.line, ![id].why = place.why]
      /\ placed' = With(placed, id, place.pc)
      /\ adapter' = [adapter EXCEPT !.todo = @ \ {id},
                        !.at = IF landed THEN "note" ELSE "resolve",
                        !.id = IF landed THEN id ELSE NoId]
      /\ UNCHANGED <<prog, at, pc, stop, paused, sources, next_record, hit_ids, launches, told,
                     calm, owed>>
  BY DEF RebuildResolve, machine, Found
<1>3. IF landed THEN Add(place) ELSE UNCHANGED tables
  BY DEF RebuildResolve, Found
<1>4. Places[id] = place
  BY <1>1 DEF Places
<1> HIDE DEF id, place, landed
<1>5. adapter' = [at |-> IF landed THEN "note" ELSE "resolve", todo |-> adapter.todo \ {id},
                  id |-> IF landed THEN id ELSE NoId, reply |-> adapter.reply]
  BY <1>2 DEF SessionInv, LoopInv
<1>6. /\ adapter'.todo = adapter.todo \ {id} /\ adapter'.reply = adapter.reply
      /\ adapter'.at # "idle" /\ adapter'.at \in {"resolve", "note"}
      /\ adapter'.id = IF landed THEN id ELSE NoId
  <2>1. CASE landed
    BY <1>5, <2>1
  <2>2. CASE ~landed
    BY <1>5, <2>2
  <2> QED
    BY <2>1, <2>2
<1>7. /\ DOMAIN records' = DOMAIN records
      /\ \A x \in DOMAIN records : x # id => records'[x] = records[x]
      /\ records'[id] = [source |-> records[id].source, want |-> records[id].want,
                         line |-> place.line, why |-> place.why, reported |-> records[id].reported]
  BY <1>1, <1>2, RecordResolved DEF SessionInv
<1>8. Places' = Places
  BY <1>1, <1>2, RecordResolved DEF SessionInv
<1>9. \A x \in DOMAIN records : /\ IsRecord(records'[x]) /\ records'[x].source = records[x].source
                                /\ records'[x].reported = records[x].reported
  <2>1. /\ IsRecord(records'[id]) /\ records'[id].source = records[id].source
        /\ records'[id].reported = records[id].reported
    BY <1>7 DEF IsRecord
  <2> QED
    BY <1>7, <2>1 DEF SessionInv, RecordsInv
<1>10. /\ DOMAIN placed' = DOMAIN placed \cup {id} /\ placed'[id] = Places[id].pc
       /\ \A x \in DOMAIN placed : x # id => placed'[x] = placed[x]
  BY <1>2, <1>4 DEF With
<1>11. id \notin Handled /\ Handled' = Handled \cup {id}
  BY <1>1, <1>6, <1>7 DEF Handled
<1>12. Landed' = IF landed THEN Landed \cup {id} ELSE Landed
  <2>1. landed <=> Places[id].why = ""
    BY <1>4 DEF landed
  <2> QED
    BY <1>8, <1>11, <2>1 DEF Landed
<1>13. Handled \subseteq DOMAIN records /\ Landed \subseteq Handled /\ NoId \notin Landed
  <2>1. \A x \in DOMAIN records : x # NoId
    BY DEF SessionInv, RecordsInv, NoId
  <2> QED
    BY <2>1 DEF Handled, Landed
<1>14. UpToDate /\ Landed \ {adapter.id} = Landed
  <2>1. adapter.id = NoId
    BY <1>2 DEF SessionInv, LoopInv
  <2> QED
    BY <1>2, <1>13, <2>1 DEF UpToDate
<1>15. \A x \in Handled : /\ x \in DOMAIN placed /\ placed[x] = Places[x].pc
                          /\ records[x].line = Places[x].line /\ records[x].why = Places[x].why
  BY <1>14 DEF SessionInv, BuiltInv
<1>16. DOMAIN by_pc = {Places[x].pc : x \in Landed}
  BY <1>14 DEF SessionInv, BuiltInv
<1>17. DOMAIN hit_ids \subseteq DOMAIN breakpoints
  BY <1>14 DEF SessionInv, BuiltInv
<1>18. \A i \in DOMAIN breakpoints :
          {x \in Landed : Places[x].pc = breakpoints[i].pc}
              = IF i \in DOMAIN hit_ids THEN hit_ids[i] ELSE {}
  BY <1>14 DEF SessionInv, BuiltInv
\* The table.
<1>19. next_id \in Nat /\ \A i \in DOMAIN breakpoints : i < next_id
  BY DEF TablesInv, TableShape, TablesInverse
<1>20. next_id' \in Nat /\ next_id <= next_id'
  <2>1. CASE landed
    BY <1>3, <2>1, AddedTo
  <2>2. CASE ~landed
    <3>1. next_id' = next_id
      BY <1>3, <2>2 DEF tables
    <3> QED
      BY <1>19, <3>1
  <2> QED
    BY <2>1, <2>2
<1>21. /\ DOMAIN breakpoints \subseteq DOMAIN breakpoints'
       /\ \A i \in DOMAIN breakpoints : breakpoints'[i] = breakpoints[i]
  BY <1>3, AddedTo DEF tables
<1>22. \A i \in DOMAIN breakpoints' : i \notin DOMAIN breakpoints =>
          /\ i = next_id /\ place.pc \notin DOMAIN by_pc
          /\ breakpoints'[i].pc = place.pc /\ breakpoints'[i].enabled
  BY <1>3, AddedTo DEF tables
<1>23. DOMAIN by_pc' = IF landed THEN DOMAIN by_pc \cup {place.pc} ELSE DOMAIN by_pc
  BY <1>3, AddedTo DEF tables
<1>24. LoopInv'
  <2>1. landed => id \in Landed'
    BY <1>12
  <2>2. /\ adapter' = [at |-> adapter'.at, todo |-> adapter'.todo, id |-> adapter'.id,
                       reply |-> adapter'.reply]
        /\ adapter'.at = "note" <=> landed
    <3>1. CASE landed
      BY <1>5, <3>1
    <3>2. CASE ~landed
      BY <1>5, <3>2
    <3> QED
      BY <3>1, <3>2
  <2>3. Launched /\ launches \in Nat
    BY <1>2 DEF SessionInv, LoopInv, Busy
  <2>4. UNCHANGED <<launches, at>>
    BY <1>2
  <2> QED
    BY <1>6, <2>1, <2>2, <2>3, <2>4 DEF LoopInv, Busy, Launched
<1>25. RecordsInv'
  <2>1. UNCHANGED <<next_record, sources>>
    BY <1>2
  <2> QED
    BY <1>6, <1>7, <1>9, <2>1 DEF SessionInv, RecordsInv
<1>26. BuiltInv'
  <2>1. \A x \in Handled' :
           /\ records'[x].line = Places[x].line /\ records'[x].why = Places[x].why
           /\ x \in DOMAIN placed' /\ placed'[x] = Places[x].pc
    <3>1. records'[id].line = Places[id].line /\ records'[id].why = Places[id].why
      BY <1>4, <1>7
    <3> QED
      BY <1>7, <1>10, <1>11, <1>13, <1>15, <3>1
  <2>2. Landed' \ {adapter'.id} = Landed
    <3>1. id \notin Landed
      BY <1>11, <1>13
    <3> QED
      BY <1>6, <1>12, <1>13, <3>1
  <2>3. DOMAIN by_pc' = {Places[x].pc : x \in Landed'}
    <3>1. CASE landed
      BY <1>4, <1>12, <1>16, <1>23, <3>1
    <3>2. CASE ~landed
      BY <1>12, <1>16, <1>23, <3>2
    <3> QED
      BY <3>1, <3>2
  <2>4. hit_ids' = hit_ids /\ DOMAIN hit_ids \subseteq DOMAIN breakpoints'
    BY <1>2, <1>17, <1>21
  <2>5. ASSUME NEW i \in DOMAIN breakpoints'
        PROVE  {x \in Landed : Places[x].pc = breakpoints'[i].pc}
                   = IF i \in DOMAIN hit_ids THEN hit_ids[i] ELSE {}
    <3>1. CASE i \in DOMAIN breakpoints
      BY <1>18, <1>21, <3>1
    <3>2. CASE i \notin DOMAIN breakpoints
      <4>1. i \notin DOMAIN hit_ids
        BY <1>17, <3>2
      <4>2. breakpoints'[i].pc \notin {Places[x].pc : x \in Landed}
        BY <1>16, <1>22, <3>2
      <4> QED
        BY <4>1, <4>2
    <3> QED
      BY <3>1, <3>2
  <2> QED
    BY <1>6, <1>8, <2>1, <2>2, <2>3, <2>4, <2>5 DEF BuiltInv
\* What the hits already noted are at has been resolved, and is not touched.
<1>27. ASSUME NEW i \in DOMAIN hit_ids, NEW x \in hit_ids[i]
       PROVE  placed'[x] = placed[x]
  <2>1. i \in DOMAIN breakpoints /\ x \in Landed
    BY <1>17, <1>18
  <2> QED
    BY <1>10, <1>11, <1>13, <1>15, <2>1
<1>28. IdsInv'
  <2>1. /\ 0 < next_id /\ NoId \notin DOMAIN breakpoints /\ NoId \notin DOMAIN hit_ids
        /\ \A i \in DOMAIN breakpoints : breakpoints[i].enabled
        /\ \A i \in DOMAIN breakpoints \cap DOMAIN hit_ids :
              \A x \in hit_ids[i] : placed[x] = breakpoints[i].pc
    BY DEF SessionInv, IdsInv
  <2>2. 0 < next_id' /\ NoId # next_id
    BY <1>19, <1>20, <2>1 DEF NoId
  <2>3. hit_ids' = hit_ids /\ NoId \notin DOMAIN breakpoints'
    BY <1>2, <1>22, <2>1, <2>2
  <2>4. \A i \in DOMAIN breakpoints' : breakpoints'[i].enabled
    BY <1>21, <1>22, <2>1
  <2>5. \A i \in DOMAIN breakpoints' \cap DOMAIN hit_ids :
           \A x \in hit_ids[i] : placed'[x] = breakpoints'[i].pc
    BY <1>17, <1>21, <1>27, <2>1
  <2> QED
    BY <2>1, <2>2, <2>3, <2>4, <2>5 DEF IdsInv
<1>29. ToldInv'
  <2>1. told' = told /\ adapter'.reply = adapter.reply /\ ~Idle'
    BY <1>2, <1>6 DEF Idle
  <2>2. \A x \in DOMAIN records \ adapter.reply :
           /\ x \in DOMAIN told /\ records'[x].reported = told[x] /\ told[x] # Unreported
    BY <1>9 DEF SessionInv, ToldInv
  <2> QED
    BY <1>7, <2>1, <2>2 DEF ToldInv
<1>30. StopInv'
  <2>1. UNCHANGED <<at, pc, stop, hit_ids, calm, paused, owed>> /\ ~Idle
    BY <1>2 DEF Idle
  <2>2. CASE at = "stopping"
    <3>1. stop.bp \in Nat /\ stop.bp < next_id /\ stop.bp # next_id /\ stop.bp < next_id'
      BY <1>19, <1>20, <2>2 DEF StopInv
    <3>2. stop.bp \in DOMAIN breakpoints' => breakpoints'[stop.bp].pc = pc
      BY <1>21, <1>22, <2>2, <3>1 DEF StopInv
    <3>3. stop.bp \in DOMAIN hit_ids => \A x \in hit_ids[stop.bp] : placed'[x] = pc
      BY <1>27, <2>2 DEF StopInv
    <3>4. ~(calm /\ stop.reason = "BREAKPOINT")
      BY <2>1, <2>2 DEF StopInv
    <3> QED
      BY <2>1, <2>2, <3>1, <3>2, <3>3, <3>4 DEF StopInv
  <2>3. CASE at # "stopping"
    BY <2>1, <2>3 DEF StopInv
  <2> QED
    BY <2>2, <2>3
<1> QED
  BY <1>24, <1>25, <1>26, <1>28, <1>29, <1>30 DEF SessionInv

\* Nothing is left to resolve.
LEMMA ResolvedSession ==
    ASSUME SessionInv, StopInv, RebuildResolve, adapter.todo = {}
    PROVE  SessionInv' /\ StopInv'
<1>1. /\ adapter.at = "resolve" /\ adapter' = [adapter EXCEPT !.at = "report"]
      /\ UNCHANGED <<prog, at, pc, stop, tables, records, sources, next_record, hit_ids, launches,
                     told, placed, calm, owed, paused>>
  BY DEF RebuildResolve, AdapterGoes, machine
<1>2. adapter' = [at |-> "report", todo |-> {}, id |-> NoId, reply |-> adapter.reply]
  BY <1>1 DEF SessionInv, LoopInv
<1>3. Places' = Places
  BY <1>1 DEF Places, PlaceOfRecord
<1>4. Handled' = Handled /\ Landed' = Landed /\ adapter'.id = adapter.id
  BY <1>1, <1>2, <1>3 DEF Handled, Landed, SessionInv, LoopInv
<1>5. LoopInv'
  BY <1>1, <1>2 DEF SessionInv, LoopInv, Busy, Launched
<1>6. RecordsInv'
  BY <1>1, <1>2 DEF SessionInv, RecordsInv
<1>7. BuiltInv'
  <2>1. adapter'.at # "forget" /\ UpToDate
    BY <1>1, <1>2 DEF UpToDate
  <2> QED
    BY <1>1, <1>3, <1>4, <2>1 DEF SessionInv, BuiltInv, tables
<1>8. IdsInv'
  BY <1>1 DEF SessionInv, IdsInv, tables
<1>9. ToldInv'
  BY <1>1, <1>2 DEF SessionInv, ToldInv, Idle
<1>10. StopInv'
  <2>1. UNCHANGED <<breakpoints, next_id>> /\ ~Idle
    BY <1>1 DEF tables, Idle
  <2> QED
    BY <1>1, <2>1 DEF StopInv
<1> QED
  BY <1>5, <1>6, <1>7, <1>8, <1>9, <1>10 DEF SessionInv

\* The record just resolved is noted as one of its breakpoint's.
LEMMA NoteSession ==
    ASSUME TablesInv, SessionInv, StopInv, RebuildNote
    PROVE  SessionInv' /\ StopInv'
<1> DEFINE id    == adapter.id
           bp    == by_pc[placed[id]]
           found == IF bp \in DOMAIN hit_ids THEN hit_ids[bp] ELSE {}
<1>1. /\ adapter.at = "note" /\ hit_ids' = With(hit_ids, bp, found \cup {id})
      /\ adapter' = [adapter EXCEPT !.at = "resolve", !.id = NoId]
      /\ UNCHANGED <<prog, at, pc, stop, tables, records, sources, next_record, launches,
                     told, placed, calm, owed, paused>>
  BY DEF RebuildNote, control, machine
<1>2. /\ adapter' = [at |-> "resolve", todo |-> adapter.todo, id |-> NoId, reply |-> adapter.reply]
      /\ id \in Landed /\ Launched
  BY <1>1 DEF SessionInv, LoopInv, Busy
<1>3. Places' = Places
  BY <1>1 DEF Places, PlaceOfRecord
<1>4. Handled' = Handled /\ Landed' = Landed
  BY <1>1, <1>2, <1>3 DEF Handled, Landed
<1>5. NoId \notin Landed
  <2>1. \A x \in DOMAIN records : x # NoId
    BY DEF SessionInv, RecordsInv, NoId
  <2> QED
    BY <2>1 DEF Handled, Landed
<1>6. /\ \A x \in Handled : /\ x \in DOMAIN placed /\ placed[x] = Places[x].pc
                            /\ records[x].line = Places[x].line /\ records[x].why = Places[x].why
      /\ DOMAIN by_pc = {Places[x].pc : x \in Landed}
      /\ DOMAIN hit_ids \subseteq DOMAIN breakpoints
  BY <1>1 DEF SessionInv, BuiltInv, UpToDate
<1>7. \A i \in DOMAIN breakpoints :
          {x \in Landed \ {id} : Places[x].pc = breakpoints[i].pc}
              = IF i \in DOMAIN hit_ids THEN hit_ids[i] ELSE {}
  BY <1>1 DEF SessionInv, BuiltInv, UpToDate
<1>8. placed[id] = Places[id].pc /\ Places[id].pc \in DOMAIN by_pc
  BY <1>2, <1>6 DEF Landed
<1>9. /\ bp \in DOMAIN breakpoints /\ breakpoints[bp].pc = Places[id].pc
      /\ \A i \in DOMAIN breakpoints : breakpoints[i].pc = Places[id].pc => i = bp
  BY <1>8 DEF TablesInv, TablesInverse
<1> HIDE DEF id, bp, found
<1>10. /\ DOMAIN hit_ids' = DOMAIN hit_ids \cup {bp} /\ hit_ids'[bp] = found \cup {id}
       /\ \A i \in DOMAIN hit_ids : i # bp => hit_ids'[i] = hit_ids[i]
  BY <1>1 DEF With
<1>11. LoopInv'
  BY <1>1, <1>2 DEF SessionInv, LoopInv, Busy, Launched
<1>12. RecordsInv'
  BY <1>1, <1>2 DEF SessionInv, RecordsInv
<1>13. UNCHANGED <<breakpoints, by_pc, next_id>>
  BY <1>1 DEF tables
<1>14. BuiltInv'
  <2>1. Landed' \ {adapter'.id} = Landed
    BY <1>2, <1>4, <1>5
  <2>2. ASSUME NEW i \in DOMAIN breakpoints
        PROVE  {x \in Landed : Places[x].pc = breakpoints[i].pc}
                   = IF i \in DOMAIN hit_ids' THEN hit_ids'[i] ELSE {}
    <3>1. CASE i = bp
      <4>1. found = {x \in Landed \ {id} : Places[x].pc = breakpoints[bp].pc}
        BY <1>7, <1>9 DEF found
      <4>2. {x \in Landed : Places[x].pc = breakpoints[bp].pc} = found \cup {id}
        BY <1>2, <1>9, <4>1
      <4> QED
        BY <1>10, <3>1, <4>2
    <3>2. CASE i # bp
      <4>1. Places[id].pc # breakpoints[i].pc
        BY <1>9, <3>2
      <4>2. {x \in Landed : Places[x].pc = breakpoints[i].pc}
                = {x \in Landed \ {id} : Places[x].pc = breakpoints[i].pc}
        BY <4>1
      <4>3. {x \in Landed : Places[x].pc = breakpoints[i].pc}
                = IF i \in DOMAIN hit_ids THEN hit_ids[i] ELSE {}
        BY <1>7, <4>2
      <4> QED
        BY <1>10, <3>2, <4>3
    <3> QED
      BY <3>1, <3>2
  <2>3. DOMAIN hit_ids' \subseteq DOMAIN breakpoints /\ adapter'.at # "forget"
    BY <1>2, <1>6, <1>9, <1>10
  <2>4. UNCHANGED <<records, placed>>
    BY <1>1
  <2> QED
    BY <1>3, <1>4, <1>6, <1>13, <2>1, <2>2, <2>3, <2>4 DEF BuiltInv
<1>15. \A i \in DOMAIN hit_ids' : \A x \in hit_ids'[i] : placed[x] = breakpoints[i].pc
  <2>1. \A i \in DOMAIN hit_ids : \A x \in hit_ids[i] : placed[x] = breakpoints[i].pc
    BY <1>6 DEF SessionInv, IdsInv
  <2>2. \A x \in found : placed[x] = breakpoints[bp].pc
    BY <2>1 DEF found
  <2>3. placed[id] = breakpoints[bp].pc
    BY <1>8, <1>9
  <2>4. \A x \in hit_ids'[bp] : placed[x] = breakpoints[bp].pc
    BY <1>10, <2>2, <2>3
  <2> QED
    BY <1>10, <2>1, <2>4
<1>16. IdsInv'
  <2>1. /\ 0 < next_id /\ NoId \notin DOMAIN breakpoints /\ NoId \notin DOMAIN hit_ids
        /\ \A i \in DOMAIN breakpoints : breakpoints[i].enabled
    BY DEF SessionInv, IdsInv
  <2>2. NoId \notin DOMAIN hit_ids' /\ placed' = placed
    BY <1>1, <1>9, <1>10, <2>1
  <2> QED
    BY <1>13, <1>15, <2>1, <2>2 DEF IdsInv
<1>17. ToldInv'
  BY <1>1, <1>2 DEF SessionInv, ToldInv, Idle
<1>18. StopInv'
  <2>1. UNCHANGED <<at, pc, stop, calm, paused, owed, placed>> /\ ~Idle
    BY <1>1 DEF Idle
  <2>2. CASE at = "stopping"
    <3>1. /\ stop.bp \in Nat /\ stop.bp < next_id
          /\ stop.bp \in DOMAIN breakpoints => breakpoints[stop.bp].pc = pc
      BY <2>2 DEF StopInv
    <3>2. stop.bp \in DOMAIN hit_ids' => \A x \in hit_ids'[stop.bp] : placed[x] = pc
      <4>1. DOMAIN hit_ids' \subseteq DOMAIN breakpoints
        BY <1>6, <1>9, <1>10
      <4> QED
        BY <1>15, <3>1, <4>1
    <3>3. ~(calm /\ stop.reason = "BREAKPOINT")
      BY <2>1, <2>2 DEF StopInv
    <3> QED
      BY <1>13, <2>1, <2>2, <3>1, <3>2, <3>3 DEF StopInv
  <2>3. CASE at # "stopping"
    BY <2>1, <2>3 DEF StopInv
  <2> QED
    BY <2>2, <2>3
<1> QED
  BY <1>11, <1>12, <1>14, <1>16, <1>17, <1>18 DEF SessionInv

\* What a record says to the client is what it says already.
LEMMA BodyOfReported ==
    ASSUME NEW r, IsRecord(r), NEW new, new = [r EXCEPT !.reported = Body(r)]
    PROVE  /\ IsRecord(new) /\ Body(new) = Body(r) /\ new.reported = Body(r)
           /\ new.source = r.source /\ new.want = r.want
           /\ new.line = r.line /\ new.why = r.why
<1> DEFINE body == Body(r)
<1>0. new = [r EXCEPT !.reported = body]
  OBVIOUS
<1>1. new = [source |-> r.source, want |-> r.want, line |-> r.line, why |-> r.why,
             reported |-> body]
  <2> HIDE DEF body
  <2> QED  BY <1>0 DEF IsRecord
<1>2. /\ new.reported = body /\ new.source = r.source /\ new.want = r.want
      /\ new.line = r.line /\ new.why = r.why /\ IsRecord(new)
  <2> HIDE DEF body
  <2> QED  BY <1>1 DEF IsRecord
<1>3. Body(new) = Body(r)
  <2> HIDE DEF body
  <2> QED  BY <1>2 DEF Body
<1> QED
  BY <1>2, <1>3

LEMMA ReportSession ==
    ASSUME SessionInv, StopInv, Report
    PROVE  SessionInv' /\ StopInv'
<1>1. /\ adapter.at = "report"
      /\ adapter' = [at |-> "idle", todo |-> {}, id |-> NoId, reply |-> {}]
      /\ records' = [id \in DOMAIN records |-> [records[id] EXCEPT !.reported = Body(records[id])]]
      /\ told' = [id \in DOMAIN records |->
                     IF id \in News \cup adapter.reply THEN Body(records[id]) ELSE told[id]]
      /\ at' = IF Launched /\ configured /\ at = "none" THEN "hook" ELSE at
      /\ UNCHANGED <<prog, pc, stop, tables, sources, next_record, hit_ids, launches, placed, calm,
                     owed, paused>>
  BY DEF Report, StartIf, machine
<1>2. adapter.todo = {} /\ adapter.id = NoId /\ launches \in Nat
  BY <1>1 DEF SessionInv, LoopInv
<1>3. /\ DOMAIN records' = DOMAIN records
      /\ \A id \in DOMAIN records :
            /\ IsRecord(records'[id]) /\ Body(records'[id]) = Body(records[id])
            /\ records'[id].reported = Body(records[id])
            /\ records'[id].source = records[id].source /\ records'[id].want = records[id].want
            /\ records'[id].line = records[id].line /\ records'[id].why = records[id].why
  <2>1. \A id \in DOMAIN records : IsRecord(records[id])
    BY DEF SessionInv, RecordsInv
  <2>2. DOMAIN records' = DOMAIN records
    BY <1>1
  <2>3. \A id \in DOMAIN records : records'[id] = [records[id] EXCEPT !.reported = Body(records[id])]
    BY <1>1
  <2> QED
    BY <2>1, <2>2, <2>3, BodyOfReported
<1>4. Places' = Places
  <2>1. \A x \in DOMAIN records : PlaceOfRecord(records[x])' = PlaceOfRecord(records[x])
    BY <1>1, <1>3, SamePlace
  <2> QED
    BY <1>3, <2>1 DEF Places
<1>5. Handled' = Handled /\ Landed' = Landed /\ (UpToDate' <=> UpToDate)
  BY <1>1, <1>2, <1>3, <1>4 DEF Handled, Landed, UpToDate, Launched
<1>6. told' = [id \in DOMAIN records |-> Body(records[id])]
  <2>1. ASSUME NEW id \in DOMAIN records, id \notin News \cup adapter.reply
        PROVE  told[id] = Body(records[id])
    BY <2>1 DEF SessionInv, ToldInv, News
  <2> DEFINE told_ == [id \in DOMAIN records |->
                         IF id \in News \cup adapter.reply THEN Body(records[id]) ELSE told[id]]
  <2>2. \A id \in DOMAIN records : told_[id] = Body(records[id])
    BY <2>1
  <2> QED
    BY <1>1, <2>2
<1>7. \A id \in DOMAIN records : Body(records[id]) # Unreported
  <2>1. \A r : "verified" \in DOMAIN Body(r) /\ "verified" \notin DOMAIN Unreported
    BY DEF Body, Unreported
  <2> QED
    BY <2>1
<1>8. LoopInv'
  <2>1. at' # "none" => Launched
    BY <1>1 DEF SessionInv, LoopInv
  <2> QED
    BY <1>1, <1>2, <2>1 DEF LoopInv, Busy, Launched
<1>9. RecordsInv'
  <2>1. UNCHANGED <<sources, next_record>> /\ adapter'.todo = {}
    BY <1>1
  <2> QED
    BY <1>3, <2>1 DEF SessionInv, RecordsInv
<1>10. BuiltInv'
  <2>1. UNCHANGED <<breakpoints, by_pc, hit_ids, placed>> /\ adapter'.id = adapter.id
        /\ adapter'.at # "forget"
    BY <1>1, <1>2 DEF tables
  <2>2. \A id \in Handled : records'[id].line = records[id].line /\ records'[id].why = records[id].why
    BY <1>3 DEF Handled
  <2> QED
    BY <1>4, <1>5, <2>1, <2>2 DEF SessionInv, BuiltInv
<1>11. IdsInv'
  BY <1>1 DEF SessionInv, IdsInv, tables
<1>12. ToldInv'
  <2>1. \A id \in DOMAIN records : /\ told'[id] = Body(records[id]) /\ id \in DOMAIN told'
                                   /\ records'[id].reported = told'[id] /\ told'[id] # Unreported
    BY <1>3, <1>6, <1>7
  <2>2. told' = [id \in DOMAIN records' |-> Body(records'[id])]
    BY <1>3, <1>6
  <2>3. adapter'.reply = {}
    BY <1>1
  <2> QED
    BY <1>3, <2>1, <2>2, <2>3 DEF ToldInv, Idle, Body
<1>13. StopInv'
  <2>1. /\ UNCHANGED <<pc, stop, breakpoints, next_id, hit_ids, placed, calm, paused, owed>>
        /\ at' = at \/ at' = "hook"
    BY <1>1 DEF tables
  <2>2. ~Idle
    BY <1>1 DEF Idle
  <2> QED
    BY <2>1, <2>2 DEF StopInv
<1> QED
  BY <1>8, <1>9, <1>10, <1>11, <1>12, <1>13 DEF SessionInv

-----------------------------------------------------------------------------
(* The inductive invariant.                                                *)

LEMMA AdapterInit == Init => AdapterInv
<1> SUFFICES ASSUME Init
             PROVE  AdapterInv
  OBVIOUS
<1>1. /\ \E p \in Programs : prog = Laid(p)
      /\ at = "none" /\ ~paused
      /\ breakpoints = Nothing /\ by_pc = Nothing /\ next_id = 1
      /\ adapter = [at |-> "idle", todo |-> {}, id |-> NoId, reply |-> {}]
      /\ records = Nothing /\ sources = <<"">> /\ next_record = 1 /\ hit_ids = Nothing
      /\ launches = 0 /\ told = Nothing
  BY DEF Init, InitDebugger, InitSession
<1>2. DOMAIN Nothing = {}
  BY DEF Nothing
<1>3. ProgramInv
  BY <1>1, LaidMapped DEF ProgramInv
<1>4. TablesInv
  BY <1>1, <1>2 DEF TablesInv, TableShape, TablesInverse
<1>5. LoopInv
  BY <1>1 DEF LoopInv, Busy
<1>6. RecordsInv
  <2>1. "" \in SourceNames
    BY DEF SourceNames
  <2>2. \A e : e \in SourceNames => <<e>> \in Seq(SourceNames)
    OBVIOUS
  <2>3. sources \in Seq(SourceNames)
    BY <1>1, <2>1, <2>2
  <2>4. next_record \in Nat \ {0}
    <3>1. next_record = 1
      BY <1>1
    <3> QED
      BY <3>1
  <2>5. adapter.todo = {} /\ DOMAIN records = {}
    BY <1>1, <1>2
  <2> QED
    BY <2>3, <2>4, <2>5 DEF RecordsInv
<1>7. BuiltInv
  <2>1. launches = 0 /\ adapter.at = "idle"
    BY <1>1
  <2>2. ~Launched
    BY <2>1 DEF Launched
  <2> QED
    BY <2>1, <2>2 DEF BuiltInv, UpToDate
<1>8. IdsInv
  <2>1. DOMAIN breakpoints = {} /\ DOMAIN hit_ids = {} /\ next_id = 1
    BY <1>1, <1>2
  <2> QED
    BY <2>1 DEF IdsInv
<1>9. ToldInv
  <2>1. Nothing = [id \in DOMAIN Nothing |-> Body(Nothing[id])]
    BY DEF Nothing
  <2>2. told = [id \in DOMAIN records |-> Body(records[id])]
    BY <1>1, <2>1
  <2>3. adapter.reply = {} /\ DOMAIN records = {}
    BY <1>1, <1>2
  <2> QED
    BY <2>2, <2>3 DEF ToldInv
<1>10. StopInv
  BY <1>1 DEF StopInv
<1> QED
  BY <1>3, <1>4, <1>5, <1>6, <1>7, <1>8, <1>9, <1>10 DEF AdapterInv, SessionInv

LEMMA ProgramKept ==
    ASSUME ProgramInv, [Next \/ Finished]_vars
    PROVE  ProgramInv'
<1>1. UNCHANGED prog \/ \E p \in Programs : prog' = Laid(p)
  <2>1. CASE Begin
    BY <2>1 DEF Begin, StartSession, DebuggerFor
  <2>2. CASE AtPrompt
    <3>1. CASE RunProgram
      BY <3>1 DEF RunProgram, HookPause, PauseClear, HookTable, Exec
    <3>2. ASSUME NEW c, Dispatch(c)
          PROVE  prog' = prog
      BY <3>2 DEF Dispatch, Resumes, Resume, Break, Delete, Enable, SelectFrame, Answer, Quit, Stays
    <3>3. CASE PromptOnStop \/ Prompt
      BY <3>2, <3>3 DEF PromptOnStop, Prompt, Quit
    <3> QED
      BY <2>2, <3>1, <3>3 DEF AtPrompt
  <2>3. CASE AtAdapter
    <3>1. CASE \E p \in Programs : Launch(p)
      BY <3>1 DEF Launch, DebuggerFor
    <3>2. CASE Program
      BY <3>2 DEF Program, RunProgram, HookPause, PauseClear, HookTable, Exec
    <3>3. CASE ~(\E p \in Programs : Launch(p)) /\ ~Program
      BY <2>3, <3>3 DEF AtAdapter, SetBreakpoints, ResumeRequest, ConfigurationDone, Pause, Disconnect,
         RebuildClear, RebuildForget, RebuildResolve, RebuildNote, Report, SessionOnStop, Resume,
         control
    <3> QED
      BY <3>1, <3>2, <3>3
  <2>4. CASE UNCHANGED vars
    BY <2>4 DEF vars, control
  <2> QED
    BY <2>1, <2>2, <2>3, <2>4 DEF Next, Finished
<1>2. CASE UNCHANGED prog
  BY <1>2 DEF ProgramInv, LaidOut, LineAt, Pcs
<1>3. CASE \E p \in Programs : prog' = Laid(p)
  BY <1>3, LaidMapped DEF ProgramInv
<1> QED
  BY <1>1, <1>2, <1>3

LEMMA AdapterStep == AdapterInv /\ [Next \/ Finished]_vars => AdapterInv'
<1> SUFFICES ASSUME AdapterInv, [Next \/ Finished]_vars
             PROVE  AdapterInv'
  OBVIOUS
<1>1. ProgramInv' /\ TablesInv'
  BY ProgramKept, TablesStep DEF AdapterInv
<1>2. CASE front' = "adapter" /\ AtAdapter
  <2> SUFFICES SessionInv' /\ StopInv'
    BY <1>1 DEF AdapterInv
  <2>1. TablesInv /\ SessionInv /\ StopInv
    BY <1>2 DEF AdapterInv, AtAdapter
  <2>2. CASE \E request \in Requests : SetBreakpoints(request)
    <3>1. PICK request \in Requests : SetBreakpoints(request)
      BY <2>2
    <3> QED
      BY <2>1, <3>1, SetBreakpointsSession
  <2>3. CASE \E p \in Programs : Launch(p)
    <3>1. PICK p \in Programs : Launch(p)
      BY <2>3
    <3> QED
      BY <2>1, <3>1, LaunchSession
  <2>4. CASE \/ ConfigurationDone \/ Pause \/ Disconnect \/ SessionOnStop
             \/ \E m \in {"RUN", "STEP_OVER", "STEP_IN", "FINISH"} : ResumeRequest(m)
    BY <2>1, <2>4, QuietSession
  <2>5. CASE RebuildClear \/ RebuildForget \/ RebuildResolve \/ RebuildNote \/ Report
    BY <2>1, <2>5, ClearSession, ForgetSession, ResolveSession, ResolvedSession, NoteSession,
       ReportSession
  <2>6. CASE Program
    BY <2>1, <2>6, ProgramSession
  <2> QED
    BY <1>2, <2>2, <2>3, <2>4, <2>5, <2>6 DEF AtAdapter
<1>3. CASE front' = "adapter" /\ UNCHANGED vars
  <2>1. SessionInv /\ StopInv /\ UNCHANGED Kept /\ UNCHANGED <<at, pc, stop, calm, paused, owed>>
    BY <1>3 DEF vars, control, session, machine, Kept, AdapterInv
  <2>2. SessionInv'
    BY <2>1, SessionKept DEF SessionInv, LoopInv
  <2>3. StopInv'
    BY <2>1 DEF StopInv, Kept, tables, Idle
  <2> QED
    BY <1>1, <2>2, <2>3 DEF AdapterInv
<1>4. CASE front' # "adapter"
  BY <1>1, <1>4 DEF AdapterInv
<1>5. front' = "adapter" => AtAdapter \/ UNCHANGED vars
  BY DEF Next, Begin, AtPrompt, Finished
<1> QED
  BY <1>2, <1>3, <1>4, <1>5

LEMMA AdapterAlways == Spec => []AdapterInv
BY AdapterInit, AdapterStep, PTL DEF Spec

-----------------------------------------------------------------------------
(* What the client knows when nobody is changing the tables.               *)

LEMMA BodySays ==
    ASSUME NEW r
    PROVE  /\ Body(r).verified <=> r.line # NoLine
           /\ r.line # NoLine => Body(r).line = r.line
BY DEF Body

LEMMA Settles ==
    ASSUME AdapterInv, front = "adapter", Settled
    PROVE  /\ ToldSet = Landed /\ Landed \subseteq DOMAIN records
           /\ \A id \in Landed : ToldPlace(records[id]).pc = Places[id].pc
           /\ DOMAIN by_pc = {Places[id].pc : id \in Landed}
           /\ DOMAIN hit_ids = DOMAIN breakpoints
           /\ \A i \in DOMAIN breakpoints :
                 hit_ids[i] = {id \in Landed : Places[id].pc = breakpoints[i].pc}
<1>1. SessionInv /\ ProgramInv /\ TablesInv /\ Idle /\ Launched
  BY DEF AdapterInv, Settled
<1>2. Handled = DOMAIN records /\ UpToDate /\ adapter.id = NoId /\ adapter.reply = {}
  BY <1>1 DEF SessionInv, LoopInv, ToldInv, Handled, UpToDate, Idle
<1>3. Landed \subseteq DOMAIN records /\ Landed \ {NoId} = Landed
  <2>1. \A x \in DOMAIN records : x # NoId
    BY <1>1 DEF SessionInv, RecordsInv, NoId
  <2> QED
    BY <1>2, <2>1 DEF Landed
<1>4. /\ DOMAIN by_pc = {Places[id].pc : id \in Landed}
      /\ DOMAIN hit_ids \subseteq DOMAIN breakpoints
      /\ \A i \in DOMAIN breakpoints :
            {id \in Landed : Places[id].pc = breakpoints[i].pc}
                = IF i \in DOMAIN hit_ids THEN hit_ids[i] ELSE {}
  BY <1>1, <1>2, <1>3 DEF SessionInv, BuiltInv
<1>5. ASSUME NEW i \in DOMAIN breakpoints
      PROVE  i \in DOMAIN hit_ids
  <2>1. breakpoints[i].pc \in {Places[id].pc : id \in Landed}
    BY <1>1, <1>4 DEF TablesInv, TablesInverse
  <2>2. {id \in Landed : Places[id].pc = breakpoints[i].pc} # {}
    BY <2>1
  <2> QED
    BY <1>4, <2>2
<1>6. ASSUME NEW id \in DOMAIN records
      PROVE  /\ records[id].reported.verified <=> id \in Landed
             /\ id \in Landed => ToldPlace(records[id]).pc = Places[id].pc
  <2> DEFINE r == records[id]
  <2>1. r.reported = Body(r) /\ r.line = Places[id].line
    BY <1>1, <1>2 DEF SessionInv, ToldInv, BuiltInv
  <2>2. Places[id] = PlaceOfRecord(r)
    BY DEF Places
  <2>3. id \in Landed <=> Found(PlaceOfRecord(r))
    BY <1>2, <2>2 DEF Landed, Found
  <2>4. /\ Found(PlaceOfRecord(r)) <=> PlaceOfRecord(r).line # NoLine
        /\ (Found(PlaceOfRecord(r)) /\ r.reported.line = PlaceOfRecord(r).line)
               => ToldPlace(r).pc = PlaceOfRecord(r).pc
    BY <1>1, RecordPlace
  <2> HIDE DEF r
  <2>5. (r.reported.verified <=> r.line # NoLine) /\ (r.line # NoLine => r.reported.line = r.line)
    BY <2>1, BodySays
  <2>6. (r.reported.verified <=> id \in Landed) /\ (id \in Landed => ToldPlace(r).pc = Places[id].pc)
    BY <2>1, <2>2, <2>3, <2>4, <2>5
  <2> QED
    BY <2>6 DEF r
<1>7. ToldSet = Landed
  BY <1>3, <1>6 DEF ToldSet
<1> QED
  BY <1>3, <1>4, <1>5, <1>6, <1>7

(* Once a rebuild is done, the debugger's tables are what the client was told: *)
(* each record verified where it stops, each breakpoint's hits the records     *)
(* that are there, and no breakpoint that no record asked for (session.py      *)
(* _rebuild_breakpoints, ClientBreakpoint.resolve and body; debugger.py _add). *)
THEOREM TablesAgreed == Spec => []TablesAgree
<1>1. AdapterInv => TablesAgree
  <2> SUFFICES ASSUME AdapterInv
               PROVE  TablesAgree
    OBVIOUS
  <2>1. TablesInverse
    BY DEF AdapterInv, TablesInv
  <2>2. ASSUME front = "adapter", Settled
        PROVE  /\ told = [id \in DOMAIN records |-> Body(records[id])]
               /\ Promised = DOMAIN by_pc
               /\ DOMAIN hit_ids = DOMAIN breakpoints
               /\ \A i \in DOMAIN hit_ids :
                     hit_ids[i] = {id \in ToldSet : ToldPlace(records[id]).pc = breakpoints[i].pc}
    <3>1. told = [id \in DOMAIN records |-> Body(records[id])]
      BY <2>2 DEF AdapterInv, SessionInv, ToldInv, Settled
    <3>2. Promised = {ToldPlace(records[id]).pc : id \in ToldSet}
      BY <2>2 DEF Promised
    <3> QED
      BY <2>2, <3>1, <3>2, Settles
  <2> QED
    BY <2>1, <2>2 DEF TablesAgree
<1> QED
  BY <1>1, AdapterAlways, PTL

(* No instruction is executed past a breakpoint that the client, or the user,  *)
(* knows to be set, however often the hook is entered, whatever changed the    *)
(* tables before it, unless its lookup falls into a rebuild (debugger.py       *)
(* _on_instruction, _add, remove; session.py _rebuild_breakpoints).            *)
THEOREM BreakpointsKept == Spec => BreakpointsHonoured
<1> DEFINE Honoured == (at = "table" /\ at' = "exec" /\ Settled) => pc \notin Promised
<1>1. AdapterInv /\ [Next \/ Finished]_vars => [Honoured]_vars
  <2> SUFFICES ASSUME AdapterInv, Next \/ Finished, at = "table", at' = "exec", Settled
               PROVE  pc \notin Promised
    OBVIOUS
  <2>1. HookTable /\ front \in {"prompt", "adapter"}
    <3>1. Next
      BY DEF Finished, vars, control
    <3>2. CASE AtPrompt
      BY <3>2 DEF AtPrompt, RunProgram, PromptOnStop, Prompt, HookPause, PauseClear, Exec, StopFor
    <3>3. CASE AtAdapter
      <4>1. CASE Program
        <5>1. HookTable
          BY <4>1 DEF Program, RunProgram, HookPause, PauseClear, Exec
        <5> QED
          BY <3>3, <5>1 DEF AtAdapter
      <4>2. CASE ~Program
        BY <3>3, <4>2 DEF AtAdapter, SetBreakpoints, Launch, ResumeRequest, ConfigurationDone, Pause,
           Disconnect, RebuildClear, RebuildForget, RebuildResolve, RebuildNote, Report,
           SessionOnStop, StartIf, control
      <4> QED
        BY <4>1, <4>2
    <3> QED
      BY <3>1, <3>2, <3>3 DEF Next, Begin, StartSession
  <2>2. ~Hit
    BY <2>1 DEF HookTable, StopFor
  <2>3. CASE front = "prompt"
    <3>1. Promised = {breakpoints[i].pc : i \in {j \in DOMAIN breakpoints : breakpoints[j].enabled}}
      BY <2>3 DEF Promised
    <3> QED
      BY <2>2, <3>1 DEF Hit, AdapterInv, TablesInv, TablesInverse
  <2>4. CASE front = "adapter"
    <3>1. Promised = {ToldPlace(records[id]).pc : id \in ToldSet}
      BY <2>4 DEF Promised
    <3>2. Promised = DOMAIN by_pc
      BY <2>4, <3>1, Settles
    <3>3. \A q \in DOMAIN by_pc : breakpoints[by_pc[q]].enabled
      BY <2>4 DEF AdapterInv, SessionInv, IdsInv, TablesInv, TablesInverse
    <3> QED
      BY <2>2, <3>2, <3>3 DEF Hit
  <2> QED
    BY <2>1, <2>3, <2>4
<1> QED
  BY <1>1, AdapterAlways, PTL DEF Spec, BreakpointsHonoured

(* A stop is announced for records of the place it is at, and for all of them  *)
(* if no rebuild came between the lookup and the announcement; and a pause is  *)
(* one that was asked for and not answered (session.py _on_stop, _stopped_body;*)
(* debugger.py pause, _on_instruction).                                        *)
THEOREM StopsTrue == Spec => StopsAreTrue
<1>1. AdapterInv /\ [Next \/ Finished]_vars => [StopIsTrue]_vars
  <2> SUFFICES ASSUME AdapterInv, Next \/ Finished, front = "adapter"
               PROVE  StopIsTrue
    BY DEF StopIsTrue
  <2>1. SessionInv /\ StopInv
    BY DEF AdapterInv
  <2>2. at = "pauseClear" => owed
    BY <2>1 DEF StopInv
  <2>3. ASSUME at = "stopping", at' = "stopped"
        PROVE  /\ \A id \in announced' : placed[id] = pc
               /\ (calm /\ stop.reason = "BREAKPOINT") =>
                     announced' = {id \in ToldSet : ToldPlace(records[id]).pc = pc}
    <3>1. announced' = IF stop.bp \in DOMAIN hit_ids THEN hit_ids[stop.bp] ELSE {}
      <4>1. AtAdapter
        BY <2>3 DEF Next, Begin, AtPrompt, Finished, vars, control
      <4>2. CASE Program
        BY <2>3, <4>2 DEF Program, RunProgram, HookPause, PauseClear, HookTable, Exec
      <4>3. CASE SessionOnStop
        BY <2>3, <4>3 DEF SessionOnStop, Resume
      <4>4. CASE ~Program /\ ~SessionOnStop
        BY <2>3, <4>1, <4>4 DEF AtAdapter, SetBreakpoints, Launch, ResumeRequest, ConfigurationDone, Pause,
           Disconnect, RebuildClear, RebuildForget, RebuildResolve, RebuildNote, Report, StartIf,
           control
      <4> QED
        BY <4>2, <4>3, <4>4
    <3>2. \A id \in announced' : placed[id] = pc
      BY <2>1, <2>3, <3>1 DEF StopInv
    <3>3. ASSUME calm, stop.reason = "BREAKPOINT"
          PROVE  announced' = {id \in ToldSet : ToldPlace(records[id]).pc = pc}
      <4>1. Idle /\ stop.bp \in DOMAIN breakpoints /\ breakpoints[stop.bp].pc = pc /\ at # "none"
        BY <2>1, <2>3, <3>3 DEF StopInv
      <4>2. Settled
        BY <2>1, <4>1 DEF Settled, SessionInv, LoopInv
      <4>3. announced' = {id \in Landed : Places[id].pc = pc}
        BY <3>1, <4>1, <4>2, Settles
      <4> QED
        BY <4>2, <4>3, Settles
    <3> QED
      BY <3>2, <3>3
  <2> QED
    BY <2>2, <2>3 DEF StopIsTrue
<1> QED
  BY <1>1, AdapterAlways, PTL DEF Spec, StopsAreTrue
=============================================================================
