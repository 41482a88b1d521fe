---------------------------- MODULE CommandLine ----------------------------
(***************************************************************************)
(* The interactive front end of the debugger (compiler/debug.py): a prompt *)
(* that reads commands until one of them resumes the program.  It runs on  *)
(* the program's own thread, so the program stands still at the prompt.    *)
(***************************************************************************)
EXTENDS Debugger

CONSTANTS
    Wants,              \* what `break` may be given
    MaxBreakpoints      \* bound on the breakpoints made in one session

ASSUME BreakpointsAssumption == MaxBreakpoints \in Nat

VARIABLES
    frame_index,        \* DebugSession._frame_index
    last_command,       \* DebugSession._last_command
    outcome,            \* how DebugSession.run ended
    selected            \* history: the frame the user was last told is selected

prompt == <<frame_index, last_command, outcome, selected>>

ResumeCommands == [word : {"continue", "step", "next", "finish"}]
Commands ==
    ResumeCommands \cup [word : {"quit", "delete all", "look"}]
        \cup [word : {"break"}, want : Wants]
        \cup [word : {"delete", "enable", "disable"}, id : 1 .. MaxBreakpoints]
        \cup [word : {"frame"}, n : 0 .. MaxDepth]
NoCommand == [word |-> ""]

ModeOf(word) == CASE word = "continue" -> "RUN" [] word = "step" -> "STEP_IN"
                  [] word = "next" -> "STEP_OVER" [] word = "finish" -> "FINISH"

\* break_at_function, and break_at_line of a named file or of main's.
MainFile == prog.files[MainEntry(prog)]
PlaceOf(want) ==
    IF want.kind = "function" THEN FunctionPlace(prog, want.name)
    ELSE LinePlace(prog, want.line,
                   IF want.files = {} THEN {MainFile} ELSE want.files)

-----------------------------------------------------------------------------
\* debug(): a session of its own for the program.
StartSession(p) ==
    /\ at = "none"
    /\ DebuggerFor(p)
    /\ at' = "hook"
    /\ UNCHANGED prompt

\* a mistake: see the README
PromptKeepsFrame ==
    /\ at = "stopping"
    /\ at' = "stopped"
    /\ UNCHANGED frame_index
    /\ selected' = 0
    /\ UNCHANGED <<prog, machine, stop, tables, stepping, paused, last_command, outcome>>

PromptOnStop ==
    /\ at = "stopping"
    /\ at' = "stopped"
    /\ frame_index' = 0
    /\ selected' = 0
    /\ UNCHANGED <<prog, machine, stop, tables, stepping, paused, last_command, outcome>>

\* Every command but a resume leaves the program where it is.
Stays  == UNCHANGED <<prog, at, machine, stop, stepping, paused, outcome>>
Answer == UNCHANGED tables /\ Stays /\ UNCHANGED <<frame_index, selected>>

Resumes(m) ==
    IF stop.reason = "FAULT" THEN Answer
    ELSE /\ Resume(m, IF m = "FINISH" THEN frame_index ELSE 0,
                      IF m = "FINISH" THEN selected ELSE 0)
         /\ UNCHANGED <<frame_index, outcome, selected>>

Break(want) ==
    LET place == PlaceOf(want)
    IN  IF ~Found(place) THEN Answer
        ELSE /\ BreakpointFor(place) <= MaxBreakpoints
             /\ Add(place)
             /\ Stays /\ UNCHANGED <<frame_index, selected>>

Delete(ids) ==
    IF ids \subseteq DOMAIN breakpoints
    THEN RemoveBreakpoints(ids) /\ Stays /\ UNCHANGED <<frame_index, selected>>
    ELSE Answer

Enable(id, enabled) ==
    IF id \in DOMAIN breakpoints
    THEN SetEnabled(id, enabled) /\ Stays /\ UNCHANGED <<frame_index, selected>>
    ELSE Answer

SelectFrame(n) ==
    IF n > Depth THEN Answer
    ELSE /\ frame_index' = n /\ selected' = n
         /\ UNCHANGED tables /\ Stays

\* a mistake: see the README
QuitAbandons ==
    /\ at' = "ended"
    /\ outcome' = "abandoned"
    /\ UNCHANGED <<prog, machine, stop, tables, stepping, paused, frame_index, selected>>

\* Quit is raised out of the hook; a fault is still what the session ends with.
Quit ==
    /\ at' = "ended"
    /\ outcome' = IF stop.reason = "FAULT" THEN "fault" ELSE "abandoned"
    /\ UNCHANGED <<prog, machine, stop, tables, stepping, paused, frame_index, selected>>

Dispatch(c) ==
    \/ c \in ResumeCommands /\ Resumes(ModeOf(c.word))
    \/ c.word = "break" /\ Break(c.want)
    \/ c.word = "delete" /\ Delete({c.id})
    \/ c.word = "delete all" /\ Delete(DOMAIN breakpoints)
    \/ c.word = "enable" /\ Enable(c.id, TRUE)
    \/ c.word = "disable" /\ Enable(c.id, FALSE)
    \/ c.word = "frame" /\ SelectFrame(c.n)
    \/ c.word = "look" /\ Answer        \* print, locals, list, backtrace, ...
    \/ c.word = "quit" /\ Quit

Prompt ==
    /\ at = "stopped"
    /\ \/ \E c \in Commands : Dispatch(c) /\ last_command' = c
       \* an empty line repeats
       \/ last_command # NoCommand /\ Dispatch(last_command) /\ UNCHANGED last_command
       \* end of input
       \/ Quit /\ UNCHANGED last_command

InitPrompt ==
    /\ frame_index = 0 /\ selected = 0
    /\ last_command = NoCommand
    /\ outcome = None
=============================================================================
