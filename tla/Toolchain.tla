----------------------------- MODULE Toolchain -----------------------------
(***************************************************************************)
(* The command (compiler/driver_vm.py, compiler/pipeline.py) over a disk   *)
(* of source and bytecode files: what it compiles, loads, writes, runs or  *)
(* debugs, and the status it exits with.  `--debug` is the session of      *)
(* Debugging behind the prompt, on the program that was compiled or loaded.*)
(*                                                                         *)
(* A write may be cut off at any byte, by the disk or by a kill.           *)
(***************************************************************************)
EXTENDS Debugging, Resolver, BytecodeFile

CONSTANTS
    Disks,              \* what may be on the disk to begin with
    Compiled(_),        \* what the checker and the code generator make of a
                        \* merged program, and why not
    Named,              \* the files the command is given
    Outputs,            \* the files -o is given
    Results,            \* what main may return
    MaxCommands,        \* bound on the commands; a debug session is the last
    MaxWrites           \* bound on the files -o writes, those on the disk included

ASSUME CommandsAssumption == MaxCommands \in Nat /\ MaxWrites \in Nat

VARIABLES
    disk,               \* path -> file
    tool,               \* the command: how many have ended, and what the last did
    emitted             \* history: the program each whole .qlc on the disk stands for

toolVars == <<disk, tool, emitted>>
allVars  == <<vars, toolVars>>

EXIT_COMPILE_ERROR == 2
EXIT_RUNTIME_ERROR == 3
Killed             == -1           \* or an OSError nobody catches
NoProgram          == Nothing

-----------------------------------------------------------------------------
(* pipeline.program_for: by the file's first bytes, not its name.           *)

HoldsBytecode(path) ==
    path \in DOMAIN disk /\ disk[path].kind = "bytes" /\ IsBytecode(disk[path].bytes)

CompilePath(source) ==
    LET merged == Resolved(disk, source)
    IN  IF Resolves(merged) THEN Compiled(merged) ELSE [why |-> merged.why]

ReadProgram(path) ==
    LET read == Loads(disk[path].bytes)
    IN  IF IsStuck(read) THEN [why |-> read.why] ELSE [why |-> "", program |-> read.v]

ProgramFor(source) ==
    IF HoldsBytecode(source) THEN ReadProgram(source) ELSE CompilePath(source)

-----------------------------------------------------------------------------
process_exit_code(value) == value % 256

\* The command is over: what it ran, from which file, and its status.
Exits(source, program, status) ==
    tool' = [tool EXCEPT !.at = "idle", !.commands = @ + 1,
                         !.source = source, !.program = program, !.status = status]

Refuse(source) == Exits(source, NoProgram, EXIT_COMPILE_ERROR) /\ UNCHANGED <<disk, emitted>>

\* write_bytes: the file is emptied, then filled.
WriteProgram(source, program, path, debug) ==
    LET bytes == Dumps(program, debug)
    IN  /\ tool.writes < MaxWrites
        /\ \E n \in 0 .. Len(bytes) :
              /\ disk' = (path :> Bytes(SubSeq(bytes, 1, n))) @@ disk
              /\ tool' = [tool EXCEPT !.commands = @ + 1, !.writes = @ + 1, !.source = source,
                                      !.program = NoProgram,
                                      !.status = IF n = Len(bytes) THEN 0 ELSE Killed]
              /\ emitted' =
                    IF n = Len(bytes)
                    THEN (path :> IF debug THEN program ELSE Stripped(program)) @@ emitted
                    ELSE Restrict(emitted, DOMAIN emitted \ {path})

\* On its own a program returns a value or faults.
RunMain(source, program) ==
    /\ \/ \E value \in Results : Exits(source, program, process_exit_code(value))
       \/ Exits(source, program, EXIT_RUNTIME_ERROR)
    /\ UNCHANGED <<disk, emitted>>

Debug(source, program) ==
    /\ StartSession(program)
    /\ tool' = [tool EXCEPT !.at = "debugging", !.source = source, !.program = program,
                            !.status = 0]
    /\ UNCHANGED <<disk, emitted, front, session>>

\* -o comes before --debug, and --debug before a plain run.
Command ==
    /\ front = "prompt" /\ at = "none"
    /\ tool.at = "idle" /\ tool.commands < MaxCommands
    /\ \E source \in Named : \E got \in {ProgramFor(source)} :
          \/ got.why # "" /\ Refuse(source) /\ UNCHANGED vars
          \/ /\ got.why = ""
             /\ \/ /\ \E path \in Outputs, debug \in BOOLEAN :
                          WriteProgram(source, got.program, path, debug)
                   /\ UNCHANGED vars
                \/ got.program.source_map = <<>> /\ Refuse(source) /\ UNCHANGED vars
                \/ got.program.source_map # <<>> /\ Debug(source, got.program)
                \/ RunMain(source, got.program) /\ UNCHANGED vars

\* DebugSession.run is back: the fault it re-raises, None, or main's value.
DebugEnds ==
    /\ tool.at = "debugging" /\ at = "ended"
    /\ CASE outcome = "fault"     -> Exits(tool.source, tool.program, EXIT_RUNTIME_ERROR)
         [] outcome = "abandoned" -> Exits(tool.source, tool.program, 0)
         [] outcome = None        -> \E value \in Results :
                                        Exits(tool.source, tool.program,
                                              process_exit_code(value))
    /\ UNCHANGED <<vars, disk, emitted>>

ToolInit ==
    /\ Init
    /\ IF front = "prompt" THEN \E d \in Disks : disk = d.files /\ emitted = d.emitted
       ELSE disk = Nothing /\ emitted = Nothing
    /\ tool = [at |-> "idle", commands |-> 0, writes |-> Cardinality(DOMAIN emitted), source |-> <<>>,
               program |-> NoProgram, status |-> 0]

ToolNext ==
    \/ Command
    \/ DebugEnds
    \/ (AtPrompt \/ AtAdapter) /\ UNCHANGED toolVars

\* Nothing is left to do within the bounds.
Done == (Over \/ tool.commands = MaxCommands) /\ UNCHANGED allVars

ToolSpec == ToolInit /\ [][ToolNext \/ Done]_allVars

\* A session does not touch the disk, and nothing follows it; before it the
\* debugger is not there yet.
ToolSeen ==
    CASE front = "adapter" -> <<Seen>>
      [] front = "prompt" /\ at # "none" -> <<Seen, tool.at, tool.status>>
      [] front = "prompt" /\ at = "none" ->
            <<tool, IF tool.commands < MaxCommands THEN <<disk, emitted>> ELSE <<>> >>

-----------------------------------------------------------------------------
(* Whatever the includes look like, a program is resolved just when all the *)
(* files it can reach are there, can be read and define no name twice; and  *)
(* then it has each of their definitions once, an included file's before    *)
(* those of the file that includes it (resolver.py _resolve_file).          *)
ResolvedAsIncluded ==
    (front = "prompt" /\ at = "none" /\ tool.commands < MaxCommands) =>
        \A source \in Named : ResolvedAs(disk, source, Resolved(disk, source))

(* A program that comes from a file of bytes is, field for field, the one   *)
(* that was compiled when the whole of that file was written, less what     *)
(* --strip leaves out; a file cut off anywhere, or of another build, is not *)
(* run at all (serialize.py dumps, loads; pipeline.py program_for).         *)
RunIsCompiled ==
    LET source == tool'.source
    IN  (tool'.program # NoProgram /\ disk[source].kind = "bytes") =>
            source \in DOMAIN emitted /\ tool'.program = emitted[source]
RunsWhatWasCompiled == [][RunIsCompiled]_allVars

(* A debugged program of which an instruction faulted reports 3, however    *)
(* long the user then looked around and however the session was left; one   *)
(* that was quit at any other stop reports 0, and one that ended by itself  *)
(* the low byte of what main returned, which may be 3 as well (driver_vm.py *)
(* 11-13).  One that was not run at all never reports a value of its own    *)
(* (driver_vm.py main; debug.py run, _on_stop).                             *)
StatusIsTrue ==
    /\ (tool.at = "debugging" /\ tool'.at = "idle") =>
          tool'.status \in CASE stop.reason = "FAULT" -> {EXIT_RUNTIME_ERROR}
                             [] stop.reason \notin {"FAULT", None} -> {0}
                             [] stop.reason = None -> {v % 256 : v \in Results}
    /\ (tool'.at = "idle" /\ tool'.program = NoProgram /\ tool'.status # 0) =>
          tool'.status \in {EXIT_COMPILE_ERROR, Killed}
StatusTruthful == [][StatusIsTrue]_allVars
=============================================================================
