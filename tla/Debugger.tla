------------------------------ MODULE Debugger ------------------------------
(***************************************************************************)
(* Execution control over a running program (runtime/debugger.py): the     *)
(* table of breakpoints, the hook the machine calls before each            *)
(* instruction, and stepping.                                              *)
(*                                                                         *)
(* Of the program's instructions only what they do to control is looked    *)
(* at: a JZ may go either way, and some instructions may fault.            *)
(*                                                                         *)
(* The hook is three steps, because another thread may set the pause flag  *)
(* and change the tables while it runs.  A front end extends this module   *)
(* with what happens between "stopping" and the resume.                    *)
(***************************************************************************)
EXTENDS Integers, Sequences, FiniteSetsExt, Functions, TLC

CONSTANTS
    Programs,       \* the compiled programs there are
    CanFault,       \* the opcodes whose instructions may fault
    MaxDepth        \* bound on the calls in progress

ASSUME DepthAssumption == MaxDepth \in Nat
ASSUME FaultAssumption == CanFault \cap {"JMP", "RET"} = {}

VARIABLES
    prog,           \* Debugger.program, and its layout
    at,             \* where the program's thread is
    pc,             \* QuinVM.pc, counted from 0
    stack,          \* QuinVM.call_stack: the return_pc of each suspended caller
    stop,           \* the Stop handed to the front end
    breakpoints,    \* Debugger.breakpoints
    by_pc,          \* Debugger._by_pc
    next_id,        \* Debugger._next_id
    mode,           \* Debugger._mode
    from_line,      \* Debugger._from_line, 0 for None
    from_depth,     \* Debugger._from_depth
    paused,         \* Debugger._pause_requested
    asked,          \* history: the resume that is being carried out
    low             \* history: the fewest calls in progress since then

tables   == <<breakpoints, by_pc, next_id>>
machine  == <<pc, stack, low>>
stepping == <<mode, from_line, from_depth, asked>>
control  == <<prog, at, machine, stop, tables, stepping, paused>>

None     == "None"
NoId     == 0
NoStop   == [reason |-> None, bp |-> NoId]
Nothing  == <<>>                     \* the empty table
Depth    == Len(stack)

\* The table f with f[x] = v.
With(f, x, v) == [y \in DOMAIN f \cup {x} |-> IF y = x THEN v ELSE f[y]]

-----------------------------------------------------------------------------
(* The program's layout.                                                   *)

Pcs(p) == 0 .. (Len(p.code) - 1)

\* Functions lie back to back: each runs until the next one starts.
FunctionAt(p, q) ==
    CHOOSE f \in DOMAIN p.functions :
        /\ p.functions[f].entry_pc <= q
        /\ \A g \in DOMAIN p.functions :
              p.functions[g].entry_pc <= q => p.functions[g].entry_pc <= p.functions[f].entry_pc

\* SourceMap.lookup: the line of the last marker at or before q, or 0.
Lookup(p, q) ==
    LET marked == {i \in DOMAIN p.source_map : p.source_map[i].pc <= q}
    IN  IF marked = {} THEN 0 ELSE p.source_map[Max(marked)].line

\* A program with both worked out for every instruction.
Laid(p) ==
    With(With(p, "lines", [q \in Pcs(p) |-> Lookup(p, q)]),
         "files", [q \in Pcs(p) |-> p.functions[FunctionAt(p, q)].source_file])

Instr        == prog.code[pc + 1]
LineAt(p, q) == p.lines[q]

\* The places where code of the files begins a line.
MarkedIn(p, files) == {m.pc : m \in {n \in Range(p.source_map) : p.files[n.pc] \in files}}

NoLine            == -1              \* 0 is the line of code no statement produced
Place(q, line)    == [pc |-> q, line |-> line, why |-> ""]
NoPlace(why)      == [pc |-> -1, line |-> NoLine, why |-> why]
Found(place)      == place.why = ""

FunctionPlace(p, name) ==
    LET named == {f \in DOMAIN p.functions : p.functions[f].name = name}
    IN  IF named = {} THEN NoPlace("no function")
        ELSE LET entry == p.functions[Min(named)].entry_pc
             IN  Place(entry, LineAt(p, entry))

\* The lowest instruction marked with the line, in the first function that has
\* one; a line without code moves to the next one that has some.
LinePlace(p, line, files) ==
    LET marked  == MarkedIn(p, files)
        on(l)   == {q \in marked : p.lines[q] = l}
        later   == {p.lines[q] : q \in marked} \ (0 .. line)
    IN  CASE \A f \in DOMAIN p.functions : p.functions[f].source_file \notin files ->
                NoPlace("no file")
          [] on(line) # {} -> Place(Min(on(line)), line)
          [] OTHER -> IF later = {} THEN NoPlace("no code")
                      ELSE Place(Min(on(Min(later))), Min(later))

-----------------------------------------------------------------------------
(* The table of breakpoints.                                               *)

\* What _add returns: one place has one breakpoint, however often it is asked for.
BreakpointFor(place) == IF place.pc \in DOMAIN by_pc THEN by_pc[place.pc] ELSE next_id

Add(place) ==
    IF place.pc \in DOMAIN by_pc THEN UNCHANGED tables
    ELSE /\ breakpoints' = With(breakpoints, next_id, [pc |-> place.pc, line |-> place.line,
                                                       enabled |-> TRUE])
         /\ by_pc' = With(by_pc, place.pc, next_id)
         /\ next_id' = next_id + 1

\* a mistake: see the README
ClearAndRenumber ==
    /\ breakpoints' = Nothing /\ by_pc' = Nothing
    /\ next_id' = 1

ClearBreakpoints ==
    /\ breakpoints' = Nothing /\ by_pc' = Nothing
    /\ UNCHANGED next_id

\* a mistake: see the README
RemoveListed(ids) ==
    /\ breakpoints' = Restrict(breakpoints, DOMAIN breakpoints \ ids)
    /\ UNCHANGED <<by_pc, next_id>>

RemoveBreakpoints(ids) ==
    /\ breakpoints' = Restrict(breakpoints, DOMAIN breakpoints \ ids)
    /\ by_pc' = Restrict(by_pc, DOMAIN by_pc \ {breakpoints[i].pc : i \in ids})
    /\ UNCHANGED next_id

SetEnabled(id, enabled) ==
    /\ breakpoints' = [breakpoints EXCEPT ![id].enabled = enabled]
    /\ UNCHANGED <<by_pc, next_id>>

-----------------------------------------------------------------------------
(* Inspection: the line of each activation, innermost first, as the debugger *)
(* shows it and as the machine's own backtrace (QuinVM._call_frames) does.   *)
CallersLines   == [i \in 1 .. Depth |-> LineAt(prog, stack[Depth + 1 - i] - 1)]
FrameLines     == <<LineAt(prog, pc)>> \o CallersLines
BacktraceLines == <<LineAt(prog, pc - 1)>> \o CallersLines

-----------------------------------------------------------------------------
(* Running.                                                                *)

\* A front end resumes: m relative to the frame `depth` up, which it believes
\* is the one `chosen` up.
Resume(m, depth, chosen) ==
    /\ mode' = m
    /\ from_depth' = Depth - depth
    /\ from_line' = LineAt(prog, pc)
    /\ asked' = [mode |-> m, depth |-> Depth - chosen, line |-> LineAt(prog, pc)]
    /\ low' = Depth
    /\ at' = "exec"
    /\ stop' = NoStop
    /\ UNCHANGED <<prog, pc, stack, tables, paused>>

\* a mistake: see the README
StopInMode(reason, id) ==
    /\ at' = "stopping"
    /\ stop' = [reason |-> reason, bp |-> id]
    /\ UNCHANGED stepping

\* _stop: the mode is forgotten, so that the front end has to choose one.
StopFor(reason, id) ==
    /\ at' = "stopping"
    /\ stop' = [reason |-> reason, bp |-> id]
    /\ mode' = None
    /\ UNCHANGED <<from_line, from_depth, asked>>

HookPause ==
    /\ at = "hook"
    /\ at' = IF paused THEN "pauseClear" ELSE "table"
    /\ UNCHANGED <<prog, machine, stop, tables, stepping, paused>>

PauseClear ==
    /\ at = "pauseClear"
    /\ paused' = FALSE
    /\ StopFor("PAUSE", NoId)
    /\ UNCHANGED <<prog, machine, tables>>

Hit == pc \in DOMAIN by_pc /\ breakpoints[by_pc[pc]].enabled

StepDone ==
    \/ mode = "FINISH" /\ Depth < from_depth
    \/ /\ mode = "STEP_OVER"
       /\ Depth < from_depth \/ (Depth = from_depth /\ LineAt(prog, pc) # from_line)
    \/ mode = "STEP_IN" /\ (Depth # from_depth \/ LineAt(prog, pc) # from_line)

\* a mistake: see the README
HookStepsFirst ==
    /\ at = "table"
    /\ CASE mode = "RUN"   -> IF Hit THEN StopFor("BREAKPOINT", by_pc[pc])
                             ELSE at' = "exec" /\ UNCHANGED <<stop, stepping>>
         [] mode = "ENTRY" -> StopFor("ENTRY", NoId)
         [] mode \notin {"RUN", "ENTRY"} ->
                IF StepDone THEN StopFor("STEP", NoId)
                ELSE at' = "exec" /\ UNCHANGED <<stop, stepping>>
    /\ UNCHANGED <<prog, machine, tables, paused>>

HookTable ==
    /\ at = "table"
    /\ CASE Hit                       -> StopFor("BREAKPOINT", by_pc[pc])
         [] ~Hit /\ mode = "RUN"      -> at' = "exec" /\ UNCHANGED <<stop, stepping>>
         [] ~Hit /\ mode = "ENTRY"    -> StopFor("ENTRY", NoId)
         [] ~Hit /\ mode \notin {"RUN", "ENTRY"} ->
                IF StepDone THEN StopFor("STEP", NoId)
                ELSE at' = "exec" /\ UNCHANGED <<stop, stepping>>
    /\ UNCHANGED <<prog, machine, tables, paused>>

\* One instruction: where control goes.
Goto(q, callers) ==
    /\ pc' = q /\ stack' = callers
    /\ low' = Min({low, Len(callers)})
    /\ at' = "hook"
    /\ UNCHANGED <<stop, stepping>>

Exec ==
    /\ at = "exec"
    /\ \/ Instr.op \notin {"JMP", "CALL", "RET"} /\ Goto(pc + 1, stack)
       \/ Instr.op \in {"JMP", "JZ"} /\ Goto(Instr.arg, stack)
       \/ /\ Instr.op = "CALL" /\ Depth < MaxDepth
          /\ Goto(prog.functions[Instr.arg + 1].entry_pc, Append(stack, pc + 1))
       \/ /\ Instr.op = "RET" /\ stack # <<>>
          /\ Goto(stack[Depth], SubSeq(stack, 1, Depth - 1))
       \/ /\ Instr.op = "RET" /\ stack = <<>>
          /\ at' = "ended"
          /\ UNCHANGED <<machine, stop, stepping>>
       \/ /\ Instr.op \in CanFault       \* with the pc moved past it
          /\ StopFor("FAULT", NoId)
          /\ pc' = pc + 1 /\ UNCHANGED <<stack, low>>
    /\ UNCHANGED <<prog, tables, paused>>

RunProgram == HookPause \/ PauseClear \/ HookTable \/ Exec

\* The program is over, or has called as deep as this model follows it.
Over == at = "ended" \/ (at = "exec" /\ Instr.op = "CALL" /\ Depth = MaxDepth)

MainEntry(p) ==
    p.functions[Min({f \in DOMAIN p.functions : p.functions[f].name = "main"})].entry_pc

\* What the code generator sees to: control stays inside the code.
StaysInside(p) ==
    /\ {"code", "functions"} \subseteq DOMAIN p
    /\ Len(p.code) \in Nat /\ MainEntry(p) \in Pcs(p)
    /\ \A q \in Pcs(p) :
          /\ p.code[q + 1].op \notin {"JMP", "RET"} => q + 1 \in Pcs(p)
          /\ p.code[q + 1].op \in {"JMP", "JZ"} => p.code[q + 1].arg \in Pcs(p)
          /\ p.code[q + 1].op = "CALL" =>
                p.functions[p.code[q + 1].arg + 1].entry_pc \in Pcs(p)

\* What the code generator and the reader of .qlc files see to: functions begin at
\* an instruction, and so does what a marker gives a line to.
Mapped(p) ==
    /\ {"functions", "source_map"} \subseteq DOMAIN p
    /\ p.functions \in Seq(Range(p.functions)) /\ p.source_map \in Seq(Range(p.source_map))
    /\ \A f \in DOMAIN p.functions : p.functions[f].entry_pc \in Pcs(p)
    /\ \A i \in DOMAIN p.source_map :
          p.source_map[i].pc \in Pcs(p) /\ p.source_map[i].line \in Nat

ASSUME ProgramsAssumption == \A p \in Programs : StaysInside(p) /\ Mapped(p)

\* A Debugger made for the program, with the machine at main's first instruction.
DebuggerFor(p) ==
    /\ prog' = Laid(p) /\ pc' = MainEntry(p)
    /\ breakpoints' = Nothing /\ by_pc' = Nothing /\ next_id' = 1
    /\ UNCHANGED <<stack, low, stop, stepping, paused>>

InitDebugger ==
    /\ \E p \in Programs : prog = Laid(p) /\ pc = MainEntry(p)
    /\ at = "none"
    /\ stack = <<>> /\ low = 0
    /\ stop = NoStop
    /\ breakpoints = Nothing /\ by_pc = Nothing /\ next_id = 1
    /\ mode = "ENTRY" /\ from_line = 0 /\ from_depth = 0
    /\ asked = [mode |-> "ENTRY", depth |-> 0, line |-> 0]
    /\ paused = FALSE
=============================================================================
