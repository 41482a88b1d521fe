--------------------------- MODULE DebuggerProofs ---------------------------
(***************************************************************************)
(* Whatever the program, the breakpoints and the commands, the debugger's  *)
(* two tables are each other's inverse and a step ends where it was asked  *)
(* to.                                                                     *)
(***************************************************************************)
EXTENDS Debugging, TLAPS

Running == {"hook", "pauseClear", "table", "exec"}
Points  == Running \cup {"none", "stopping", "stopped", "ended"}
Steps3  == {"STEP_IN", "STEP_OVER", "FINISH"}
Modes   == Steps3 \cup {"RUN", "ENTRY"}

-----------------------------------------------------------------------------
(* The tables.                                                             *)

\* A Breakpoint has just these fields, and ids are numbers.
IsBreakpoint(bp) == bp = [pc |-> bp.pc, line |-> bp.line, enabled |-> bp.enabled]
TableShape ==
    /\ next_id \in Nat
    /\ \A i \in DOMAIN breakpoints : i \in Nat /\ IsBreakpoint(breakpoints[i])

TablesInv == TableShape /\ TablesInverse

LEMMA TablesKept == TablesInv /\ UNCHANGED tables => TablesInv'
BY DEF TablesInv, TableShape, TablesInverse, tables

LEMMA EmptyTables ==
    ASSUME breakpoints' = Nothing, by_pc' = Nothing, next_id' \in Nat
    PROVE  TablesInv'
<1>1. DOMAIN Nothing = {}
  BY DEF Nothing
<1> QED
  BY <1>1 DEF TablesInv, TableShape, TablesInverse

LEMMA AddKeeps ==
    ASSUME TablesInv, NEW place, Add(place)
    PROVE  TablesInv'
<1>1. CASE place.pc \in DOMAIN by_pc
  BY <1>1, TablesKept DEF Add
<1>2. CASE place.pc \notin DOMAIN by_pc
  <2> DEFINE bp == [pc |-> place.pc, line |-> place.line, enabled |-> TRUE]
  <2>1. /\ breakpoints' = With(breakpoints, next_id, bp)
        /\ by_pc' = With(by_pc, place.pc, next_id)
        /\ next_id' = next_id + 1
    BY <1>2 DEF Add
  <2>2. next_id \notin DOMAIN breakpoints /\ next_id \in Nat
    BY DEF TablesInv, TableShape, TablesInverse
  <2>3. /\ DOMAIN breakpoints' = DOMAIN breakpoints \cup {next_id}
        /\ breakpoints'[next_id] = bp
        /\ \A i \in DOMAIN breakpoints : breakpoints'[i] = breakpoints[i]
    <3> HIDE DEF bp
    <3> QED  BY <2>1, <2>2 DEF With
  <2>4. /\ DOMAIN by_pc' = DOMAIN by_pc \cup {place.pc}
        /\ by_pc'[place.pc] = next_id
        /\ \A q \in DOMAIN by_pc : by_pc'[q] = by_pc[q]
    BY <2>1, <1>2 DEF With
  <2>5. bp.pc = place.pc /\ IsBreakpoint(bp)
    BY DEF IsBreakpoint
  <2> HIDE DEF bp
  <2>6. TableShape'
    BY <2>1, <2>2, <2>3, <2>5 DEF TablesInv, TableShape
  <2>7. TablesInverse'
    BY <1>2, <2>1, <2>2, <2>3, <2>4, <2>5 DEF TablesInv, TableShape, TablesInverse
  <2> QED
    BY <2>6, <2>7 DEF TablesInv
<1> QED
  BY <1>1, <1>2

LEMMA RemoveKeeps ==
    ASSUME TablesInv, NEW ids, ids \subseteq DOMAIN breakpoints, RemoveBreakpoints(ids)
    PROVE  TablesInv'
<1> DEFINE gone == {breakpoints[i].pc : i \in ids}
<1>1. /\ DOMAIN breakpoints' = DOMAIN breakpoints \ ids
      /\ \A i \in DOMAIN breakpoints' : breakpoints'[i] = breakpoints[i]
  BY DEF RemoveBreakpoints, Restrict
<1>2. /\ DOMAIN by_pc' = DOMAIN by_pc \ gone
      /\ \A q \in DOMAIN by_pc' : by_pc'[q] = by_pc[q]
  BY DEF RemoveBreakpoints, Restrict
<1>3. next_id' = next_id
  BY DEF RemoveBreakpoints
<1>4. ASSUME NEW q \in DOMAIN by_pc'
      PROVE  by_pc[q] \notin ids
  BY <1>2, <1>4 DEF TablesInv, TablesInverse
<1>5. ASSUME NEW i \in DOMAIN breakpoints'
      PROVE  breakpoints[i].pc \notin gone
  BY <1>1, <1>5 DEF TablesInv, TablesInverse
<1> QED
  BY <1>1, <1>2, <1>3, <1>4, <1>5 DEF TablesInv, TableShape, TablesInverse

LEMMA FieldSet ==
    ASSUME NEW bp, IsBreakpoint(bp), NEW enabled
    PROVE  LET new == [bp EXCEPT !.enabled = enabled]
           IN  IsBreakpoint(new) /\ new.pc = bp.pc
<1>1. [bp EXCEPT !.enabled = enabled] = [pc |-> bp.pc, line |-> bp.line, enabled |-> enabled]
  BY DEF IsBreakpoint
<1> QED
  BY <1>1 DEF IsBreakpoint

LEMMA EnabledKeeps ==
    ASSUME TablesInv, NEW id \in DOMAIN breakpoints, NEW enabled, SetEnabled(id, enabled)
    PROVE  TablesInv'
<1> DEFINE new == [breakpoints[id] EXCEPT !.enabled = enabled]
<1>1. breakpoints' = [breakpoints EXCEPT ![id] = new]
  BY DEF SetEnabled
<1>2. by_pc' = by_pc /\ next_id' = next_id
  BY DEF SetEnabled
<1>3. IsBreakpoint(new) /\ new.pc = breakpoints[id].pc
  BY FieldSet DEF TablesInv, TableShape
<1> HIDE DEF new
<1>4. /\ DOMAIN breakpoints' = DOMAIN breakpoints
      /\ breakpoints'[id] = new
      /\ \A i \in DOMAIN breakpoints : i # id => breakpoints'[i] = breakpoints[i]
  BY <1>1
<1>5. \A i \in DOMAIN breakpoints : breakpoints'[i].pc = breakpoints[i].pc
  BY <1>3, <1>4
<1> QED
  BY <1>2, <1>3, <1>4, <1>5 DEF TablesInv, TableShape, TablesInverse

LEMMA DispatchTables ==
    ASSUME TablesInv, NEW c, Dispatch(c)
    PROVE  TablesInv'
<1> USE DEF Answer, Stays
<1>1. CASE c \in ResumeCommands /\ Resumes(ModeOf(c.word))
  BY <1>1, TablesKept DEF Resumes, Resume
<1>2. CASE Break(c.want)
  BY <1>2, TablesKept, AddKeeps DEF Break
<1>3. ASSUME NEW ids, Delete(ids)
      PROVE  TablesInv'
  BY <1>3, TablesKept, RemoveKeeps DEF Delete
<1>4. ASSUME NEW enabled, Enable(c.id, enabled)
      PROVE  TablesInv'
  BY <1>4, TablesKept, EnabledKeeps DEF Enable
<1>5. CASE SelectFrame(c.n)
  BY <1>5, TablesKept DEF SelectFrame
<1>6. CASE Answer
  BY <1>6, TablesKept
<1>7. CASE Quit
  BY <1>7, TablesKept DEF Quit
<1> QED
  BY <1>1, <1>2, <1>3, <1>4, <1>5, <1>6, <1>7 DEF Dispatch

LEMMA ProgramTables ==
    ASSUME TablesInv, RunProgram
    PROVE  TablesInv'
BY TablesKept DEF RunProgram, HookPause, PauseClear, HookTable, Exec

LEMMA AdapterTables ==
    ASSUME TablesInv, AtAdapter
    PROVE  TablesInv'
<1>1. CASE \E p \in Programs : Launch(p)
  BY <1>1, EmptyTables DEF Launch, DebuggerFor
<1>2. CASE RebuildClear
  BY <1>2, EmptyTables DEF RebuildClear, ClearBreakpoints, TablesInv, TableShape
<1>3. CASE RebuildResolve
  BY <1>3, TablesKept, AddKeeps DEF RebuildResolve
<1>4. CASE Program
  BY <1>4, ProgramTables DEF Program
<1>5. CASE SessionOnStop
  BY <1>5, TablesKept DEF SessionOnStop, Resume
<1>6. CASE \E m \in {"RUN", "STEP_OVER", "STEP_IN", "FINISH"} : ResumeRequest(m)
  BY <1>6, TablesKept DEF ResumeRequest, Resume
<1>7. CASE UNCHANGED tables
  BY <1>7, TablesKept
<1> QED
  BY <1>1, <1>2, <1>3, <1>4, <1>5, <1>6, <1>7
     DEF AtAdapter, SetBreakpoints, ConfigurationDone, Pause, Disconnect, RebuildForget,
         RebuildNote, Report, control

LEMMA TablesStep == TablesInv /\ [Next \/ Finished]_vars => TablesInv'
<1> SUFFICES ASSUME TablesInv, [Next \/ Finished]_vars
             PROVE  TablesInv'
  OBVIOUS
<1>1. CASE Begin
  BY <1>1, EmptyTables DEF Begin, StartSession, DebuggerFor
<1>2. CASE AtPrompt
  <2>1. CASE PromptOnStop
    BY <2>1, TablesKept DEF PromptOnStop
  <2>2. CASE Prompt
    BY <2>2, DispatchTables, TablesKept DEF Prompt, Quit
  <2> QED
    BY <1>2, <2>1, <2>2, ProgramTables DEF AtPrompt
<1>3. CASE AtAdapter
  BY <1>3, AdapterTables
<1>4. CASE UNCHANGED vars
  BY <1>4, TablesKept DEF vars, control
<1> QED
  BY <1>1, <1>2, <1>3, <1>4 DEF Next, Finished

\* The two tables stay each other's inverse, whatever the program, the
\* commands and the requests, and however the adapter's rebuild runs beside
\* the program.
THEOREM TablesCorrect == Spec => []TablesInverse
<1>1. Init => TablesInv
  BY DEF Init, InitDebugger, Nothing, TablesInv, TableShape, TablesInverse
<1>2. TablesInv /\ [Next \/ Finished]_vars => TablesInv'
  BY TablesStep
<1>3. TablesInv => TablesInverse
  BY DEF TablesInv
<1> QED
  BY <1>1, <1>2, <1>3, PTL DEF Spec

-----------------------------------------------------------------------------
(* The machine and the hook.                                               *)

MachineInv ==
    /\ StaysInside(prog) /\ pc \in Pcs(prog)
    /\ stack \in Seq(Pcs(prog)) /\ Depth <= MaxDepth
    /\ low \in 0 .. Depth
    /\ at = "none" => stack = <<>>

\* Who may stop the program has no mode to run on with, and who runs has one.
ControlInv ==
    /\ at \in Points /\ mode \in Modes \cup {None}
    /\ at = "none" => mode = "ENTRY"
    /\ at \in Running \cup {"none"} => stop = NoStop /\ mode \in Modes /\ outcome = None
    /\ at \in {"stopping", "stopped"} => stop.reason # None /\ mode = None /\ outcome = None
    /\ at = "ended" => (mode = None <=> outcome # None \/ stop # NoStop)
    /\ stop.bp # NoId => stop.reason = "BREAKPOINT"

\* What the debugger compares with is what the user asked for, and the program
\* has not gone past the place where a step is to end.
InStep ==
    /\ asked.mode \in Steps3 => StillThere
    /\ asked.mode = "STEP_OVER" => (Depth > asked.depth \/ ~NewLine)
    /\ asked.mode = "STEP_IN" => (Depth = asked.depth /\ ~NewLine)
JustStepped ==
    /\ asked.mode \in Steps3 => StillThere \/ JustLeft
    /\ asked.mode = "STEP_IN" => Depth \in (asked.depth - 1) .. (asked.depth + 1)

AskedInv ==
    /\ asked.depth \in Int /\ from_depth = asked.depth /\ from_line = asked.line
    /\ selected \in Nat /\ frame_index = selected
    /\ last_command \in Commands \cup {NoCommand}
    /\ at \in Running \cup {"none"} => asked.mode = mode

StepInv ==
    /\ at = "exec" => InStep
    /\ at \in {"hook", "pauseClear", "table"} => JustStepped
    /\ StepsEndWhereAsked

Inv == MachineInv /\ ControlInv /\ AskedInv /\ StepInv

Core == <<prog, at, machine, stop, stepping, prompt>>

LEMMA QuietKeeps == Inv /\ UNCHANGED Core => Inv'
<1> SUFFICES ASSUME Inv, UNCHANGED Core
             PROVE  Inv'
  OBVIOUS
<1> USE DEF Inv, Core, machine, stepping, prompt
<1>1. MachineInv'
  BY DEF MachineInv, Depth
<1>2. ControlInv'
  BY DEF ControlInv
<1>3. AskedInv'
  BY DEF AskedInv
<1>4. StepInv'
  BY DEF StepInv, InStep, JustStepped, StepsEndWhereAsked, StillThere, JustLeft, NewLine,
         LineAt, Depth
<1> QED
  BY <1>1, <1>2, <1>3, <1>4

LEMMA MinOfTwo ==
    ASSUME NEW a \in Int, NEW b \in Int
    PROVE  Min({a, b}) = IF a <= b THEN a ELSE b
<1>1. \E x \in {a, b} : \A y \in {a, b} : x <= y
  OBVIOUS
<1>2. Min({a, b}) \in {a, b} /\ \A y \in {a, b} : Min({a, b}) <= y
  BY <1>1, Zenon DEF Min
<1> QED
  BY <1>2

LEMMA LaidInside ==
    ASSUME NEW p \in Programs
    PROVE  StaysInside(Laid(p)) /\ MainEntry(p) \in Pcs(Laid(p))
<1>1. StaysInside(p)
  BY ProgramsAssumption
<1>2. Laid(p).code = p.code /\ Laid(p).functions = p.functions
  BY <1>1 DEF Laid, With, StaysInside
<1>3. {"code", "functions"} \subseteq DOMAIN Laid(p)
  BY <1>1 DEF Laid, With, StaysInside
<1> HIDE DEF Laid
<1> QED
  BY <1>1, <1>2, <1>3 DEF StaysInside, MainEntry, Pcs

LEMMA HookKeeps ==
    ASSUME Inv, HookPause \/ PauseClear \/ HookTable, UNCHANGED prompt
    PROVE  Inv'
<1>1. UNCHANGED <<prog, pc, stack, low, asked, from_line, from_depth, frame_index, selected,
                  last_command, outcome>>
  BY DEF HookPause, PauseClear, HookTable, StopFor, machine, stepping, prompt
<1>2. MachineInv'
  BY <1>1 DEF Inv, MachineInv, Depth, HookPause, PauseClear, HookTable, StopFor
<1>3. CASE HookPause
  <2>1. /\ at = "hook" /\ at' \in {"pauseClear", "table"}
        /\ UNCHANGED <<stop, mode>>
    BY <1>3 DEF HookPause, stepping
  <2>2. ControlInv'
    BY <1>1, <2>1 DEF Inv, ControlInv, Running, Points
  <2>3. AskedInv'
    BY <1>1, <2>1 DEF Inv, AskedInv, Running
  <2>4. StepInv'
    BY <1>1, <1>3 DEF Inv, StepInv, HookPause, InStep, JustStepped, StepsEndWhereAsked,
       StillThere, JustLeft, NewLine, LineAt, Depth
  <2> QED
    BY <1>2, <2>2, <2>3, <2>4 DEF Inv
<1>4. CASE PauseClear
  <2>1. ControlInv' /\ AskedInv'
    BY <1>1, <1>4 DEF Inv, ControlInv, AskedInv, PauseClear, StopFor, Running, Points, None, NoId
  <2>2. StepInv'
    BY <1>1, <1>4 DEF StepInv, PauseClear, StopFor, StepsEndWhereAsked
  <2> QED
    BY <1>2, <2>1, <2>2 DEF Inv
<1>5. CASE HookTable
  <2>1. mode \in Modes /\ stop = NoStop /\ outcome = None /\ asked.mode = mode
    BY <1>5 DEF HookTable, Inv, ControlInv, AskedInv, Running
  <2>2. \/ at' = "exec" /\ UNCHANGED <<stop, mode>> /\ (mode \in Steps3 => ~StepDone)
        \/ \E reason \in {"BREAKPOINT", "ENTRY"} : \E id :
              StopFor(reason, id) /\ (id # NoId => reason = "BREAKPOINT")
        \/ StopFor("STEP", NoId) /\ mode \in Steps3 /\ StepDone
    BY <1>5, <2>1 DEF HookTable, Modes, Steps3, stepping
  <2>3. ControlInv' /\ AskedInv'
    BY <1>1, <2>1, <2>2 DEF Inv, ControlInv, AskedInv, StopFor, Running, Points, None, NoId
  <2>4. JustStepped /\ asked.depth \in Int /\ Depth \in Nat /\ low \in 0 .. Depth
    BY <1>5 DEF Inv, StepInv, AskedInv, MachineInv, HookTable, Depth
  <2>5. from_depth = asked.depth /\ from_line = asked.line
    BY DEF Inv, AskedInv
  <2>6. CASE at' = "exec" /\ (mode \in Steps3 => ~StepDone)
    <3>1. InStep
      BY <2>1, <2>4, <2>5, <2>6 DEF InStep, JustStepped, StepDone, Steps3, StillThere, JustLeft, NewLine
    <3>2. StepInv'
      BY <1>1, <2>6, <3>1 DEF StepInv, InStep, StepsEndWhereAsked, Steps3, StillThere, NewLine,
         LineAt, Depth
    <3> QED
      BY <1>2, <2>3, <3>2 DEF Inv
  <2>7. CASE mode \in Steps3 /\ StepDone /\ at' = "stopping"
    <3>1. StepsEndWhereAsked'
      BY <1>1, <2>1, <2>4, <2>5, <2>7 DEF StepDone, JustStepped, Steps3, StepsEndWhereAsked,
         StillThere, JustLeft, NewLine, LineAt, Depth
    <3>2. StepInv'
      BY <2>7, <3>1 DEF StepInv
    <3> QED
      BY <1>2, <2>3, <3>2 DEF Inv
  <2>8. CASE \E reason \in {"BREAKPOINT", "ENTRY"} : \E id : StopFor(reason, id)
    <3>1. StepInv'
      BY <2>8 DEF StopFor, StepInv, StepsEndWhereAsked
    <3> QED
      BY <1>2, <2>3, <3>1 DEF Inv
  <2> QED
    BY <2>2, <2>6, <2>7, <2>8 DEF StopFor
<1> QED
  BY <1>3, <1>4, <1>5

LEMMA GotoKeeps ==
    ASSUME Inv, at = "exec", UNCHANGED prompt, UNCHANGED prog,
           NEW q \in Pcs(prog), NEW callers \in Seq(Pcs(prog)), Len(callers) <= MaxDepth,
           Len(callers) \in (Depth - 1) .. (Depth + 1), Goto(q, callers)
    PROVE  Inv'
<1>1. /\ pc' = q /\ stack' = callers /\ at' = "hook"
      /\ UNCHANGED <<prog, stop, mode, from_line, from_depth, asked, frame_index, selected,
                     last_command, outcome>>
  BY DEF Goto, stepping, prompt
<1>2. Depth \in Nat /\ Depth' \in Nat /\ low \in 0 .. Depth
  BY <1>1 DEF Inv, MachineInv, Depth
<1>3. low' = IF low <= Depth' THEN low ELSE Depth'
  BY <1>1, <1>2, MinOfTwo DEF Goto, Depth
<1>4. MachineInv'
  BY <1>1, <1>2, <1>3 DEF Inv, MachineInv, Depth
<1>5. ControlInv'
  BY <1>1 DEF Inv, ControlInv, Running, Points
<1>6. AskedInv'
  BY <1>1 DEF Inv, AskedInv, Running
<1>7. StepInv'
  <2>1. InStep /\ asked.depth \in Int
    BY DEF Inv, StepInv, AskedInv
  <2>2. JustStepped'
    BY <1>1, <1>2, <1>3, <2>1 DEF InStep, JustStepped, Steps3, StillThere, JustLeft, Depth
  <2> QED
    BY <1>1, <2>2 DEF StepInv, StepsEndWhereAsked
<1> QED
  BY <1>4, <1>5, <1>6, <1>7 DEF Inv

LEMMA ExecKeeps ==
    ASSUME Inv, Exec, UNCHANGED prompt
    PROVE  Inv'
<1>1. /\ at = "exec" /\ UNCHANGED prog
      /\ pc \in Pcs(prog) /\ stack \in Seq(Pcs(prog)) /\ StaysInside(prog)
      /\ Depth \in Nat /\ Depth <= MaxDepth /\ Depth = Len(stack)
  BY DEF Exec, Inv, MachineInv, Depth
<1>2. /\ Instr.op \notin {"JMP", "RET"} => pc + 1 \in Pcs(prog)
      /\ Instr.op \in {"JMP", "JZ"} => Instr.arg \in Pcs(prog)
      /\ Instr.op = "CALL" => prog.functions[Instr.arg + 1].entry_pc \in Pcs(prog)
  BY <1>1 DEF StaysInside, Instr
<1>3. CASE Instr.op \notin {"JMP", "CALL", "RET"} /\ Goto(pc + 1, stack)
  BY <1>1, <1>2, <1>3, GotoKeeps
<1>4. CASE Instr.op \in {"JMP", "JZ"} /\ Goto(Instr.arg, stack)
  BY <1>1, <1>2, <1>4, GotoKeeps
<1>5. CASE /\ Instr.op = "CALL" /\ Depth < MaxDepth
           /\ Goto(prog.functions[Instr.arg + 1].entry_pc, Append(stack, pc + 1))
  <2> DEFINE entry   == prog.functions[Instr.arg + 1].entry_pc
             callers == Append(stack, pc + 1)
  <2>1. entry \in Pcs(prog) /\ Goto(entry, callers)
    BY <1>2, <1>5
  <2>2. callers \in Seq(Pcs(prog)) /\ Len(callers) = Depth + 1
    BY <1>1, <1>2, <1>5
  <2> HIDE DEF entry, callers
  <2>3. Len(callers) <= MaxDepth /\ Len(callers) \in (Depth - 1) .. (Depth + 1)
    BY <1>1, <1>5, <2>2, DepthAssumption
  <2> QED
    BY <1>1, <2>1, <2>2, <2>3, GotoKeeps
<1>6. CASE /\ Instr.op = "RET" /\ stack # <<>>
           /\ Goto(stack[Depth], SubSeq(stack, 1, Depth - 1))
  <2> DEFINE caller  == stack[Depth]
             callers == SubSeq(stack, 1, Depth - 1)
  <2>1. Depth \in 1 .. Len(stack)
    BY <1>1, <1>6
  <2>2. caller \in Pcs(prog) /\ callers \in Seq(Pcs(prog))
    BY <1>1, <2>1
  <2>3. Len(callers) = Depth - 1 /\ Goto(caller, callers)
    BY <1>1, <1>6, <2>1
  <2> HIDE DEF caller, callers
  <2>4. Len(callers) <= MaxDepth /\ Len(callers) \in (Depth - 1) .. (Depth + 1)
    BY <1>1, <2>3, DepthAssumption
  <2> QED
    BY <1>1, <2>2, <2>3, <2>4, GotoKeeps
<1>7. CASE at' = "ended" /\ UNCHANGED <<machine, stop, stepping>>
  <2>1. MachineInv'
    BY <1>1, <1>7 DEF Inv, MachineInv, Depth, machine
  <2>2. ControlInv'
    BY <1>1, <1>7 DEF Inv, ControlInv, Running, Points, stepping, prompt, Modes, Steps3, None
  <2>3. AskedInv'
    BY <1>7 DEF Inv, AskedInv, Running, stepping, prompt
  <2>4. StepInv'
    BY <1>7 DEF StepInv, StepsEndWhereAsked
  <2> QED
    BY <2>1, <2>2, <2>3, <2>4 DEF Inv
<1>8. CASE /\ Instr.op \in CanFault /\ StopFor("FAULT", NoId)
           /\ pc' = pc + 1 /\ UNCHANGED <<stack, low>>
  <2>1. MachineInv'
    BY <1>1, <1>2, <1>8, FaultAssumption DEF Inv, MachineInv, Depth, StopFor
  <2>2. ControlInv'
    BY <1>1, <1>8 DEF Inv, ControlInv, Running, Points, prompt, StopFor, None, NoId
  <2>3. AskedInv'
    BY <1>8 DEF Inv, AskedInv, Running, prompt, StopFor
  <2>4. StepInv'
    BY <1>8 DEF StepInv, StepsEndWhereAsked, StopFor
  <2> QED
    BY <2>1, <2>2, <2>3, <2>4 DEF Inv
<1> QED
  BY <1>3, <1>4, <1>5, <1>6, <1>7, <1>8 DEF Exec

\* The program's own steps.
LEMMA RunKeeps ==
    ASSUME Inv, RunProgram, UNCHANGED prompt
    PROVE  Inv'
BY HookKeeps, ExecKeeps DEF RunProgram

-----------------------------------------------------------------------------
(* The front ends.                                                         *)

LEMMA ResumeKeeps ==
    ASSUME Inv, at \in {"stopping", "stopped"}, NEW m \in Modes \ {"ENTRY"}, NEW d \in Nat,
           m = "STEP_IN" => d = 0, Resume(m, d, d),
           UNCHANGED <<frame_index, outcome, selected>>,
           last_command' \in Commands \cup {NoCommand}
    PROVE  Inv'
<1>1. /\ at' = "exec" /\ stop' = NoStop /\ mode' = m /\ low' = Depth
      /\ from_depth' = Depth - d /\ from_line' = LineAt(prog, pc)
      /\ asked'.mode = m /\ asked'.depth = Depth - d /\ asked'.line = LineAt(prog, pc)
      /\ UNCHANGED <<prog, pc, stack>>
  BY DEF Resume
<1>2. Depth \in Nat /\ UNCHANGED Depth
  BY <1>1 DEF Inv, MachineInv, Depth
<1>3. MachineInv'
  BY <1>1, <1>2 DEF Inv, MachineInv, Depth
<1>4. ControlInv'
  BY <1>1 DEF Inv, ControlInv, Running, Points, Modes, NoStop
<1>5. AskedInv'
  BY <1>1, <1>2 DEF Inv, AskedInv
<1>6. StepInv'
  BY <1>1, <1>2 DEF StepInv, InStep, StepsEndWhereAsked, StillThere, NewLine, LineAt
<1> QED
  BY <1>3, <1>4, <1>5, <1>6 DEF Inv

\* Whatever leaves the program where it is, and selects a frame or none.
LEMMA AnswerKeeps ==
    ASSUME Inv, UNCHANGED <<prog, at, machine, stop, stepping, outcome>>,
           selected' \in Nat, frame_index' = selected',
           last_command' \in Commands \cup {NoCommand}
    PROVE  Inv'
<1> USE DEF Inv, machine, stepping
<1>1. MachineInv'
  BY DEF MachineInv, Depth
<1>2. ControlInv'
  BY DEF ControlInv
<1>3. AskedInv'
  BY DEF AskedInv
<1>4. StepInv'
  BY DEF StepInv, InStep, JustStepped, StepsEndWhereAsked, StillThere, JustLeft, NewLine,
         LineAt, Depth
<1> QED
  BY <1>1, <1>2, <1>3, <1>4

LEMMA StopShown ==
    ASSUME Inv, at = "stopping", at' = "stopped", UNCHANGED <<prog, machine, stop, stepping, outcome>>,
           selected' \in Nat, frame_index' = selected', UNCHANGED last_command
    PROVE  Inv'
<1> USE DEF machine, stepping
<1>1. MachineInv'
  BY DEF Inv, MachineInv, Depth
<1>2. ControlInv'
  BY DEF Inv, ControlInv, Running, Points
<1>3. AskedInv'
  BY DEF Inv, AskedInv, Running
<1>4. StepInv'
  BY DEF StepInv, StepsEndWhereAsked
<1> QED
  BY <1>1, <1>2, <1>3, <1>4 DEF Inv

LEMMA EndKeeps ==
    ASSUME Inv, at = "stopped", at' = "ended", UNCHANGED <<prog, machine, stop, stepping>>,
           UNCHANGED <<frame_index, selected>>, last_command' \in Commands \cup {NoCommand}
    PROVE  Inv'
<1> USE DEF machine, stepping
<1>1. MachineInv'
  BY DEF Inv, MachineInv, Depth
<1>2. ControlInv'
  BY DEF Inv, ControlInv, Running, Points, NoStop
<1>3. AskedInv'
  BY DEF Inv, AskedInv, Running
<1>4. StepInv'
  BY DEF StepInv, StepsEndWhereAsked
<1> QED
  BY <1>1, <1>2, <1>3, <1>4 DEF Inv

LEMMA StartKeeps ==
    ASSUME Inv, at = "none", at' \in {"none", "hook"}, StaysInside(prog)', pc' \in Pcs(prog)',
           UNCHANGED <<stack, low, stop, stepping, prompt>>
    PROVE  Inv'
<1> USE DEF stepping, prompt
<1>1. MachineInv'
  BY DEF Inv, MachineInv, Depth
<1>2. ControlInv'
  BY DEF Inv, ControlInv, Running, Points
<1>3. AskedInv'
  BY DEF Inv, AskedInv, Running
<1>4. StepInv'
  BY DEF Inv, ControlInv, AskedInv, StepInv, JustStepped, Steps3, StepsEndWhereAsked
<1> QED
  BY <1>1, <1>2, <1>3, <1>4 DEF Inv

LEMMA DispatchKeeps ==
    ASSUME Inv, at = "stopped", NEW c \in Commands, Dispatch(c),
           last_command' \in Commands \cup {NoCommand}
    PROVE  Inv'
<1>1. selected \in Nat /\ frame_index = selected /\ MaxDepth \in Nat
  BY DepthAssumption DEF Inv, AskedInv
<1>2. CASE Stays /\ UNCHANGED <<frame_index, selected>>
  BY <1>1, <1>2, AnswerKeeps DEF Stays
<1>3. CASE c \in ResumeCommands /\ Resumes(ModeOf(c.word)) /\ stop.reason # "FAULT"
  <2>1. c.word \in {"continue", "step", "next", "finish"}
    BY <1>3 DEF ResumeCommands
  <2>2. ModeOf(c.word) \in Modes \ {"ENTRY"}
    BY <2>1 DEF ModeOf, Modes, Steps3
  <2>3. PICK d \in {0, frame_index} : /\ Resume(ModeOf(c.word), d, d)
                                      /\ ModeOf(c.word) # "FINISH" => d = 0
    BY <1>1, <1>3 DEF Resumes
  <2>4. UNCHANGED <<frame_index, outcome, selected>>
    BY <1>3 DEF Resumes
  <2> QED
    BY <1>1, <2>2, <2>3, <2>4, ResumeKeeps
<1>4. CASE c.word = "frame" /\ SelectFrame(c.n)
  <2>1. c.n \in Nat
    <3>1. c \notin ResumeCommands /\ c \notin [word : {"quit", "delete all", "look"}]
      BY <1>4 DEF ResumeCommands
    <3>2. c \notin [word : {"break"}, want : Wants]
      BY <1>4
    <3>3. c \notin [word : {"delete", "enable", "disable"}, id : 1 .. MaxBreakpoints]
      BY <1>4
    <3>4. c \in [word : {"frame"}, n : 0 .. MaxDepth]
      BY <3>1, <3>2, <3>3 DEF Commands
    <3> QED
      BY <1>1, <3>4
  <2> DEFINE n == c.n
  <2>2. \/ Stays /\ UNCHANGED <<frame_index, selected>>
        \/ Stays /\ frame_index' = n /\ selected' = n
    BY <1>4 DEF SelectFrame, Answer
  <2> HIDE DEF n
  <2>3. CASE Stays /\ frame_index' = n /\ selected' = n
    BY <2>1, <2>3, AnswerKeeps DEF Stays, n
  <2> QED
    BY <1>2, <2>2, <2>3
<1>5. CASE Quit
  BY <1>5, EndKeeps DEF Quit
<1> QED
  BY <1>2, <1>3, <1>4, <1>5 DEF Dispatch, Resumes, Break, Delete, Enable, Answer

LEMMA PromptKeeps ==
    ASSUME Inv, AtPrompt
    PROVE  Inv'
<1>1. CASE RunProgram /\ UNCHANGED prompt
  BY <1>1, RunKeeps
<1>2. CASE PromptOnStop
  BY <1>2, StopShown DEF PromptOnStop
<1>3. CASE Prompt
  <2>1. last_command \in Commands \cup {NoCommand} /\ at = "stopped"
    BY <1>3 DEF Inv, AskedInv, Prompt
  <2>2. CASE \E c \in Commands : Dispatch(c) /\ last_command' = c
    BY <2>1, <2>2, DispatchKeeps
  <2>3. CASE last_command # NoCommand /\ Dispatch(last_command) /\ UNCHANGED last_command
    BY <2>1, <2>3, DispatchKeeps
  <2>4. CASE Quit /\ UNCHANGED last_command
    BY <2>1, <2>4, EndKeeps DEF Quit
  <2> QED
    BY <1>3, <2>2, <2>3, <2>4 DEF Prompt
<1> QED
  BY <1>1, <1>2, <1>3 DEF AtPrompt

LEMMA AdapterKeeps ==
    ASSUME Inv, AtAdapter
    PROVE  Inv'
<1>0. UNCHANGED prompt
  BY DEF AtAdapter
<1>1. frame_index = selected /\ selected \in Nat /\ last_command \in Commands \cup {NoCommand}
  BY DEF Inv, AskedInv
<1>2. CASE \E p \in Programs : Launch(p)
  <2>1. PICK p \in Programs : Launch(p)
    BY <1>2
  <2>2. StaysInside(prog)' /\ pc' \in Pcs(prog)'
    BY <2>1, LaidInside DEF Launch, DebuggerFor
  <2> QED
    BY <1>0, <2>1, <2>2, StartKeeps DEF Launch, DebuggerFor
<1>3. CASE ConfigurationDone \/ Report
  <2>1. /\ UNCHANGED <<prog, machine, stop, stepping>>
        /\ UNCHANGED at \/ (at = "none" /\ at' = "hook")
    BY <1>3 DEF ConfigurationDone, Report, StartIf
  <2>2. CASE UNCHANGED at
    BY <1>0, <2>1, <2>2, QuietKeeps DEF Core
  <2>3. CASE at = "none" /\ at' = "hook"
    <3>1. StaysInside(prog)' /\ pc' \in Pcs(prog)'
      BY <2>1 DEF Inv, MachineInv, machine
    <3> QED
      BY <1>0, <2>1, <2>3, <3>1, StartKeeps DEF machine
  <2> QED
    BY <2>1, <2>2, <2>3
<1>4. CASE \E m \in {"RUN", "STEP_OVER", "STEP_IN", "FINISH"} : ResumeRequest(m)
  BY <1>0, <1>1, <1>4, ResumeKeeps DEF ResumeRequest, Modes, Steps3, prompt
<1>5. CASE SessionOnStop
  <2>1. CASE Resume("RUN", 0, 0)
    BY <1>0, <1>1, <1>5, <2>1, ResumeKeeps DEF SessionOnStop, Modes, Steps3, prompt
  <2>2. CASE at' = "stopped" /\ UNCHANGED <<prog, machine, stop, stepping>>
    BY <1>0, <1>1, <1>5, <2>2, StopShown DEF SessionOnStop, prompt
  <2> QED
    BY <1>5, <2>1, <2>2 DEF SessionOnStop
<1>6. CASE Program
  BY <1>0, <1>6, RunKeeps DEF Program
<1>7. CASE Disconnect
  BY <1>0, <1>1, <1>7, EndKeeps DEF Disconnect, prompt
<1>8. CASE UNCHANGED Core
  BY <1>8, QuietKeeps
<1> QED
  BY <1>0, <1>2, <1>3, <1>4, <1>5, <1>6, <1>7, <1>8
     DEF AtAdapter, SetBreakpoints, Pause, RebuildClear, RebuildForget, RebuildResolve,
         RebuildNote, control, Core

LEMMA InvInit == Init => Inv
<1> SUFFICES ASSUME Init
             PROVE  Inv
  OBVIOUS
<1>1. StaysInside(prog) /\ pc \in Pcs(prog)
  BY LaidInside DEF Init, InitDebugger
<1>2. MachineInv
  BY <1>1, DepthAssumption DEF Init, InitDebugger, MachineInv, Depth
<1>3. ControlInv
  BY DEF Init, InitDebugger, InitPrompt, ControlInv, Running, Points, Modes, NoStop
<1>4. AskedInv
  BY DEF Init, InitDebugger, InitPrompt, AskedInv
<1>5. StepInv
  BY DEF Init, InitDebugger, StepInv, StepsEndWhereAsked
<1> QED
  BY <1>2, <1>3, <1>4, <1>5 DEF Inv

LEMMA InvStep == Inv /\ [Next \/ Finished]_vars => Inv'
<1> SUFFICES ASSUME Inv, [Next \/ Finished]_vars
             PROVE  Inv'
  OBVIOUS
<1>1. CASE Begin
  <2>1. PICK p \in Programs : StartSession(p)
    BY <1>1 DEF Begin
  <2>2. StaysInside(prog)' /\ pc' \in Pcs(prog)'
    BY <2>1, LaidInside DEF StartSession, DebuggerFor
  <2> QED
    BY <2>1, <2>2, StartKeeps DEF StartSession, DebuggerFor
<1>2. CASE UNCHANGED vars
  BY <1>2, QuietKeeps DEF vars, control, Core
<1> QED
  BY <1>1, <1>2, PromptKeeps, AdapterKeeps DEF Next, Finished

\* What TypeOK says, whatever the program, however deep its calls go: control
\* stays inside the code, and there is a mode exactly while the program may run,
\* so that every stop waits for a front end to choose the next (debugger.py _stop).
THEOREM Types == Spec => []TypeOK
<1>1. Inv => TypeOK
  <2> SUFFICES ASSUME Inv
               PROVE  TypeOK
    OBVIOUS
  <2>1. pc \in Pcs(prog) /\ (\A i \in 1 .. Depth : stack[i] \in Pcs(prog))
        /\ Depth <= MaxDepth /\ low \in 0 .. Depth
    BY DEF Inv, MachineInv, Depth
  <2>2. at \in Points /\ mode \in Modes \cup {None} /\ (stop.bp # NoId => stop.reason = "BREAKPOINT")
    BY DEF Inv, ControlInv
  <2>3. mode = None <=> (at \in {"stopping", "stopped"} \/ outcome # None
                           \/ (at = "ended" /\ stop # NoStop))
    BY <2>2 DEF Inv, ControlInv, Points, Running, Modes, Steps3, None
  <2> QED
    BY <2>1, <2>2, <2>3 DEF TypeOK, Points, Running, Modes, Steps3
<1> QED
  BY <1>1, InvInit, InvStep, PTL DEF Spec

\* Every step ends where it was asked to, and none runs on past that place:
\* the hook compares positions before each instruction, and each instruction
\* enters or leaves at most one call.
THEOREM StepsEnd == Spec => []StepsEndWhereAsked
<1>1. Inv => StepsEndWhereAsked
  BY DEF Inv, StepInv
<1> QED
  BY <1>1, InvInit, InvStep, PTL DEF Spec
=============================================================================
