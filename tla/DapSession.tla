----------------------------- MODULE DapSession -----------------------------
(***************************************************************************)
(* The debug adapter's session (dap/session.py): the request loop and the  *)
(* program's own thread, the condition they meet on, and what the client   *)
(* is told.                                                                *)
(*                                                                         *)
(* A block of code under `with self._condition` is one step, and so is     *)
(* every stretch that touches nothing the other thread can see.  A reply,  *)
(* an event, a read of a flag and an acquisition of the condition are      *)
(* steps of their own, so every interleaving the two threads can produce   *)
(* is a behaviour.  The debugged program is arbitrary: at each instruction *)
(* it may run on, meet a breakpoint, complete a step, fault, finish or     *)
(* never come back, and it may run for ever.                               *)
(*                                                                         *)
(* There is no bound on the number of requests, stops or instructions: the *)
(* client's side of the wire is summarised by what it was last told.       *)
(*                                                                         *)
(* A definition nothing uses (AliveUnlessEnded, KillJoinForever, ...) is a   *)
(* mistake the one after it could have been; the README names the property *)
(* that breaks when it takes its place.                                    *)
(***************************************************************************)
EXTENDS Naturals, Sequences

CONSTANTS
    MaxLaunches,    \* bound on the `launch` requests of one session
    Patient         \* TRUE: after a resume is accepted the client asks nothing
                    \* of the stopped program until the next `stopped` event

ASSUME LaunchAssumption == MaxLaunches \in Nat \ {0}
ASSUME PatientAssumption == Patient \in BOOLEAN

VARIABLES
    loop,           \* the request loop: where it is, and its locals
    vm,             \* the program's thread: where it is, and its locals
    suspension,     \* DebugSession._suspension
    disconnecting,  \* DebugSession._disconnecting
    ended,          \* DebugSession._ended
    running,        \* DebugSession._running
    started,        \* DebugSession._started
    configured,     \* DebugSession._configuration_done
    launches,       \* launch requests served (each success makes a Debugger)
    debugger,       \* DebugSession._debugger: 0 for None, else which launch's
    stopOnEntry,    \* DebugSession._stop_on_entry
    faulted,        \* DebugSession._faulted
    paused,         \* the Debuggers whose _pause_requested event is set
    handles,        \* what the entries of Handles name: the stop in place, or
                    \* a state the program has left
    open,           \* the transport still carries what the adapter writes
    shown,          \* the last `stopped` event no accepted resume has answered
    faultShown,     \* a `stopped` event with reason exception was sent
    final           \* the `exited` and `terminated` events sent, in order

control == <<loop, vm>>
handoff == <<suspension, disconnecting, ended>>
config  == <<started, configured, launches, debugger, stopOnEntry>>
wire    == <<shown, faultShown, final>>
vars    == <<loop, vm, suspension, disconnecting, ended, running, started,
             configured, launches, debugger, stopOnEntry, faulted, paused,
             handles, open, shown, faultShown, final>>

None        == "None"
StopReasons == {"ENTRY", "BREAKPOINT", "STEP", "PAUSE", "FAULT"}
ResumeModes == {"RUN", "STEP_OVER", "STEP_IN", "FINISH"}
StepModes   == ResumeModes \ {"RUN"}
ExitCodes   == {"ok", "fault"}       \* main's own value, EXIT_RUNTIME_ERROR
Suspensions == [reason : StopReasons, resume : ResumeModes \cup {None}]
Debuggers   == 1 .. MaxLaunches

LoopPoints == {"loop", "read", "start", "resumeReply", "release",
               "inspect", "inspectReply", "pauseSet", "kill", "killPause",
               "killJoin", "endSession", "end", "emitExited",
               "emitTerminated", "wait", "waitJoin", "waitAlive", "done"}
VmPoints   == {"none", "begin", "hook", "pauseClear", "exec", "stuck", "onStop",
               "park", "parked", "quit", "vmError", "broken", "finish",
               "end", "emitExited", "emitTerminated", "dead", "killed"}

Loops   == [at : LoopPoints, mode : ResumeModes \cup {None},
            code : {"fault", None},
            then : {"loop", "leave", "endSession", "done"},
            read : {"current", "stale", None}]
Threads == [at : VmPoints, stop : StopReasons \cup {None},
            mode : ResumeModes \cup {"ENTRY", None},
            code : ExitCodes \cup {None}, dbg : 0 .. MaxLaunches]

NoSuspension == [reason |-> None, resume |-> None]
Suspended    == suspension # NoSuspension

\* A thread object exists and is_alive().
AliveUnlessEnded == vm.at \notin {"dead", "killed"}
Alive            == vm.at \notin {"none", "dead", "killed"}

\* The exit code of a program given up on.
NoEndCode == None
EndCode   == IF faulted THEN "fault" ELSE None

\* _send: a message the transport cannot carry ends the request loop.
Sending == running' = (running /\ open)

Goto(point)   == loop' = [loop EXCEPT !.at = point]
VmGoto(point) == vm' = [vm EXCEPT !.at = point]

-----------------------------------------------------------------------------
Init ==
    /\ loop = [at |-> "loop", mode |-> None, code |-> None,
               then |-> "loop", read |-> None]
    /\ vm = [at |-> "none", stop |-> None, mode |-> "ENTRY",
             code |-> None, dbg |-> 0]
    /\ suspension = NoSuspension
    /\ disconnecting = FALSE /\ ended = FALSE
    /\ running = TRUE
    /\ started = FALSE /\ configured = FALSE
    /\ launches = 0 /\ debugger = 0 /\ stopOnEntry = FALSE
    /\ faulted = FALSE
    /\ paused = {}
    /\ handles = {}
    /\ open = TRUE
    /\ shown = None /\ faultShown = FALSE /\ final = <<>>

-----------------------------------------------------------------------------
(* The request loop.                                                       *)

\* `while self._running`: serve() reads again, or leaves for its `finally`.
Serve ==
    /\ loop.at = "loop"
    /\ Goto(IF running THEN "read" ELSE "wait")
    /\ UNCHANGED <<vm, handoff, running, config, faulted, paused, handles,
                   open, wire>>

\* End of stream, a stream that lost its framing, or a request whose arguments
\* a handler cannot convert: the loop is left for its `finally`, and _running
\* is not read again.
ReadEof ==
    /\ loop.at = "read"
    /\ Goto("wait")
    /\ UNCHANGED <<vm, handoff, running, config, faulted, paused, handles,
                   open, wire>>

\* A patient client has nothing to ask of a program it believes is running,
\* and sends nothing once it no longer hears the adapter.
ClientMayAsk == Patient => (open /\ shown # None)

\* Requests that touch nothing the program's thread reads, and the ones that
\* are refused outright: initialize, threads, an unknown command.
OnOther ==
    /\ loop.at = "read"
    /\ Sending
    /\ Goto("loop")
    /\ UNCHANGED <<vm, handoff, config, faulted, paused, handles, open, wire>>

\* launch, when compiling fails: nothing will run, and the session is over.
OnLaunchFailed ==
    /\ loop.at = "read"
    /\ launches < MaxLaunches
    /\ launches' = launches + 1
    /\ Sending
    /\ loop' = [loop EXCEPT !.at = "end", !.code = None, !.then = "loop"]
    /\ UNCHANGED <<vm, handoff, started, configured, debugger, stopOnEntry,
                   faulted, paused, handles, open, wire>>

\* launch, when the program compiles: a new Debugger replaces the old one.
OnLaunch ==
    /\ loop.at = "read"
    /\ launches < MaxLaunches
    /\ launches' = launches + 1
    /\ debugger' = launches + 1
    /\ stopOnEntry' \in BOOLEAN
    /\ Sending
    /\ Goto("start")
    /\ UNCHANGED <<vm, handoff, started, configured, faulted, paused, handles,
                   open, wire>>

OnConfigurationDone ==
    /\ loop.at = "read"
    /\ configured' = TRUE
    /\ Sending
    /\ Goto("start")
    /\ UNCHANGED <<vm, handoff, started, launches, debugger, stopOnEntry,
                   faulted, paused, handles, open, wire>>

\* _start_if_ready: whichever of launch and configurationDone is second.
StartIfReady ==
    /\ loop.at = "start"
    /\ Goto("loop")
    /\ IF started \/ debugger = 0 \/ ~configured
         THEN UNCHANGED <<started, vm>>
         ELSE started' = TRUE /\ VmGoto("begin")
    /\ UNCHANGED <<handoff, running, configured, launches, debugger,
                   stopOnEntry, faulted, paused, handles, open, wire>>

\* _refuse_resume, under the condition.
RefuseRunning == ~Suspended
RefuseResume  == ~Suspended \/ suspension.reason = "FAULT"

\* continue, next, stepIn, stepOut.
OnResume(mode) ==
    /\ loop.at = "read"
    /\ ClientMayAsk
    /\ IF RefuseResume
         THEN Goto("loop") /\ Sending
         ELSE /\ loop' = [loop EXCEPT !.at = "resumeReply", !.mode = mode]
              /\ UNCHANGED running
    /\ UNCHANGED <<vm, handoff, config, faulted, paused, handles, open, wire>>

ResumeUnanswered ==
    /\ loop.at = "resumeReply"
    /\ Goto("release")
    /\ UNCHANGED <<vm, handoff, running, config, faulted, paused, handles,
                   open, wire>>

\* _resume answers before it releases the program.
ResumeReply ==
    /\ loop.at = "resumeReply"
    /\ Sending
    /\ shown' = IF open THEN None ELSE shown
    /\ Goto("release")
    /\ UNCHANGED <<vm, handoff, config, faulted, paused, handles, open,
                   faultShown, final>>

ReleaseUnset ==
    /\ loop.at = "release"
    /\ loop' = [loop EXCEPT !.at = "loop", !.mode = None]
    /\ UNCHANGED <<vm, handoff, running, config, faulted, paused, handles,
                   open, wire>>

\* _release writes the mode into whatever suspension is there by now.
Release ==
    /\ loop.at = "release"
    /\ suspension' = IF Suspended THEN [suspension EXCEPT !.resume = loop.mode]
                                  ELSE suspension
    /\ loop' = [loop EXCEPT !.at = "loop", !.mode = None]
    /\ UNCHANGED <<vm, disconnecting, ended, running, config, faulted, paused,
                   handles, open, wire>>

\* stackTrace, scopes, variables, evaluate: _require_suspended, which gives
\* the condition back before anything of the program is read.
OnInspect ==
    /\ loop.at = "read"
    /\ ClientMayAsk
    /\ IF Suspended THEN Goto("inspect") /\ UNCHANGED running
                    ELSE Goto("loop") /\ Sending
    /\ UNCHANGED <<vm, handoff, config, faulted, paused, handles, open, wire>>

\* The program's frames and values are read: from the stop in place, or from
\* a program that is no longer there.
InspectRead ==
    /\ loop.at = "inspect"
    /\ loop' = [loop EXCEPT !.at = "inspectReply",
                            !.read = IF vm.at = "parked" THEN "current"
                                                         ELSE "stale"]
    /\ UNCHANGED <<vm, handoff, running, config, faulted, paused, handles,
                   open, wire>>

\* Each frame, scope and expandable value read is given a handle.
InspectReply ==
    /\ loop.at = "inspectReply"
    /\ handles' = handles \cup {loop.read}
    /\ Sending
    /\ loop' = [loop EXCEPT !.at = "loop", !.read = None]
    /\ UNCHANGED <<vm, handoff, config, faulted, paused, open, wire>>

\* pause: refused unless the thread is alive, answered before the flag is set.
OnPause ==
    /\ loop.at = "read"
    /\ Sending
    /\ Goto(IF Alive THEN "pauseSet" ELSE "loop")
    /\ UNCHANGED <<vm, handoff, config, faulted, paused, handles, open, wire>>

PauseSet ==
    /\ loop.at = "pauseSet"
    /\ paused' = paused \cup {debugger}
    /\ Goto("loop")
    /\ UNCHANGED <<vm, handoff, running, config, faulted, handles, open, wire>>

\* disconnect and terminate: answer, then _end_session.
OnDisconnect ==
    /\ loop.at = "read"
    /\ Sending
    /\ loop' = [loop EXCEPT !.at = "kill", !.then = "endSession"]
    /\ UNCHANGED <<vm, handoff, config, faulted, paused, handles, open, wire>>

KillUnannounced ==
    /\ loop.at = "kill"
    /\ Goto(IF Alive THEN "killPause" ELSE loop.then)
    /\ UNCHANGED <<vm, handoff, running, config, faulted, paused, handles,
                   open, wire>>

\* _kill_program: the flag a parked program waits on ...
Kill ==
    /\ loop.at = "kill"
    /\ IF Alive THEN disconnecting' = TRUE /\ Goto("killPause")
                ELSE UNCHANGED disconnecting /\ Goto(loop.then)
    /\ UNCHANGED <<vm, suspension, ended, running, config, faulted, paused,
                   handles, open, wire>>

KillParkedOnly ==
    /\ loop.at = "killPause"
    /\ Goto("killJoin")
    /\ UNCHANGED <<vm, handoff, running, config, faulted, paused, handles,
                   open, wire>>

\* ... then the flag a running one sees at its next instruction ...
KillPause ==
    /\ loop.at = "killPause"
    /\ paused' = paused \cup {debugger}
    /\ Goto("killJoin")
    /\ UNCHANGED <<vm, handoff, running, config, faulted, handles, open, wire>>

KillJoinForever ==
    /\ loop.at = "killJoin"
    /\ ~Alive
    /\ Goto(loop.then)
    /\ UNCHANGED <<vm, handoff, running, config, faulted, paused, handles,
                   open, wire>>

\* ... and a join that gives up after JOIN_TIMEOUT_SECONDS, which a slow
\* program can outlast.
KillJoin ==
    /\ loop.at = "killJoin"
    /\ Goto(loop.then)
    /\ UNCHANGED <<vm, handoff, running, config, faulted, paused, handles,
                   open, wire>>

\* The rest of _end_session; `leave` sets _running to False.
EndSession ==
    /\ loop.at = "endSession"
    /\ IF started
         THEN /\ loop' = [loop EXCEPT !.at = "end", !.then = "leave",
                                      !.code = EndCode]
              /\ UNCHANGED running
         ELSE running' = FALSE /\ Goto("loop")
    /\ UNCHANGED <<vm, handoff, config, faulted, paused, handles, open, wire>>

\* _wait_for_program, in serve()'s `finally`.
Wait ==
    /\ loop.at = "wait"
    /\ Goto(IF vm.at = "none" THEN "done"
            ELSE IF Suspended THEN "waitAlive" ELSE "waitJoin")
    /\ UNCHANGED <<vm, handoff, running, config, faulted, paused, handles,
                   open, wire>>

\* The first join, which also gives up after JOIN_TIMEOUT_SECONDS.
WaitJoin ==
    /\ loop.at = "waitJoin"
    /\ Goto("waitAlive")
    /\ UNCHANGED <<vm, handoff, running, config, faulted, paused, handles,
                   open, wire>>

WaitAlive ==
    /\ loop.at = "waitAlive"
    /\ loop' = [loop EXCEPT !.at = IF Alive THEN "kill" ELSE "done",
                            !.then = "done"]
    /\ UNCHANGED <<vm, handoff, running, config, faulted, paused, handles,
                   open, wire>>

-----------------------------------------------------------------------------
(* _end, which either thread may reach: the guard under the condition, the *)
(* events outside it.                                                      *)

AfterGuard(code) == IF code = None THEN "emitTerminated" ELSE "emitExited"

Report(e) == final' = IF open THEN Append(final, e) ELSE final

LoopEnd ==
    /\ loop.at = "end"
    /\ ended' = TRUE
    /\ IF ended THEN /\ Goto("loop")
                     /\ running' = (running /\ loop.then = "loop")
                ELSE /\ Goto(AfterGuard(loop.code))
                     /\ UNCHANGED running
    /\ UNCHANGED <<vm, suspension, disconnecting, config, faulted, paused,
                   handles, open, wire>>

LoopEmitExited ==
    /\ loop.at = "emitExited"
    /\ Report(loop.code)
    /\ Sending
    /\ Goto("emitTerminated")
    /\ UNCHANGED <<vm, handoff, config, faulted, paused, handles, open,
                   shown, faultShown>>

LoopEmitTerminated ==
    /\ loop.at = "emitTerminated"
    /\ Report("terminated")
    /\ Goto("loop")
    /\ running' = (running /\ open /\ loop.then = "loop")
    /\ UNCHANGED <<vm, handoff, config, faulted, paused, handles, open,
                   shown, faultShown>>

VmEndUnguarded ==
    /\ vm.at = "end"
    /\ VmGoto(AfterGuard(vm.code))
    /\ UNCHANGED <<loop, handoff, running, config, faulted, paused, handles,
                   open, wire>>

VmEnd ==
    /\ vm.at = "end"
    /\ ended' = TRUE
    /\ VmGoto(IF ended THEN "dead" ELSE AfterGuard(vm.code))
    /\ UNCHANGED <<loop, suspension, disconnecting, running, config, faulted,
                   paused, handles, open, wire>>

VmEmitExited ==
    /\ vm.at = "emitExited"
    /\ Report(vm.code)
    /\ Sending
    /\ VmGoto("emitTerminated")
    /\ UNCHANGED <<loop, handoff, config, faulted, paused, handles, open,
                   shown, faultShown>>

VmEmitTerminated ==
    /\ vm.at = "emitTerminated"
    /\ Report("terminated")
    /\ Sending
    /\ VmGoto("dead")
    /\ UNCHANGED <<loop, handoff, config, faulted, paused, handles, open,
                   shown, faultShown>>

-----------------------------------------------------------------------------
(* The program's thread.                                                   *)

\* _run_program reads self._debugger on its own thread.
Begin ==
    /\ vm.at = "begin"
    /\ vm' = [vm EXCEPT !.at = "hook", !.dbg = debugger]
    /\ UNCHANGED <<loop, handoff, running, config, faulted, paused, handles,
                   open, wire>>

\* Debugger._stop clears the mode and calls on_stop.
StopFor(reason) ==
    vm' = [vm EXCEPT !.at = "onStop", !.stop = reason, !.mode = None]

PauseSeenStepping == vm.dbg \in paused /\ vm.mode # "RUN"
PauseRequested    == vm.dbg \in paused

\* _on_instruction: a requested pause comes before everything else.
HookPause ==
    /\ vm.at = "hook"
    /\ PauseRequested
    /\ VmGoto("pauseClear")
    /\ UNCHANGED <<loop, handoff, running, config, faulted, paused, handles,
                   open, wire>>

HookPauseClear ==
    /\ vm.at = "pauseClear"
    /\ paused' = paused \ {vm.dbg}
    /\ StopFor("PAUSE")
    /\ UNCHANGED <<loop, handoff, running, config, faulted, handles, open,
                   wire>>

\* Then a breakpoint on this instruction, then the mode.
HookStop ==
    /\ vm.at = "hook"
    /\ ~PauseRequested
    /\ \/ StopFor("BREAKPOINT")
       \/ vm.mode = "ENTRY" /\ StopFor("ENTRY")
       \/ vm.mode \in StepModes /\ StopFor("STEP")
    /\ UNCHANGED <<loop, handoff, running, config, faulted, paused, handles,
                   open, wire>>

HookReturn ==
    /\ vm.at = "hook"
    /\ ~PauseRequested
    /\ vm.mode # "ENTRY"
    /\ VmGoto("exec")
    /\ UNCHANGED <<loop, handoff, running, config, faulted, paused, handles,
                   open, wire>>

\* The instruction itself, which may print.
Exec ==
    /\ vm.at = "exec"
    /\ Sending \/ UNCHANGED running
    /\ VmGoto("hook")
    /\ UNCHANGED <<loop, handoff, config, faulted, paused, handles, open, wire>>

\* It faults: Debugger.run stops one last time before re-raising.
ExecFault ==
    /\ vm.at = "exec"
    /\ StopFor("FAULT")
    /\ UNCHANGED <<loop, handoff, running, config, faulted, paused, handles,
                   open, wire>>

\* It never comes back: the thread is a daemon because it may be where no flag
\* reaches it.
ExecStuck ==
    /\ vm.at = "exec"
    /\ VmGoto("stuck")
    /\ UNCHANGED <<loop, handoff, running, config, faulted, paused, handles,
                   open, wire>>

\* It raises something that is not a VMError, or returns from main.
ExecLeave ==
    /\ vm.at = "exec"
    /\ \E point \in {"broken", "finish"} : VmGoto(point)
    /\ UNCHANGED <<loop, handoff, running, config, faulted, paused, handles,
                   open, wire>>

\* _on_stop, before the condition is taken.
OnStop ==
    /\ vm.at = "onStop"
    /\ IF vm.stop = "ENTRY" /\ ~stopOnEntry
         THEN vm' = [vm EXCEPT !.at = "exec", !.stop = None, !.mode = "RUN"]
         ELSE VmGoto("park")
    /\ IF vm.stop = "FAULT" THEN faulted' = TRUE /\ Sending
                            ELSE UNCHANGED <<faulted, running>>
    /\ UNCHANGED <<loop, handoff, config, paused, handles, open, wire>>

\* The condition is taken: give up, or announce the stop and wait.
ParkQuit ==
    /\ vm.at = "park"
    /\ disconnecting
    /\ vm' = [vm EXCEPT !.at = "quit", !.stop = None]
    /\ UNCHANGED <<loop, handoff, running, config, faulted, paused, handles,
                   open, wire>>

\* Handles.clear.
KeptHandles    == handles
ClearedHandles == {}

Park ==
    /\ vm.at = "park"
    /\ ~disconnecting
    /\ handles' = ClearedHandles
    /\ suspension' = [reason |-> vm.stop, resume |-> None]
    /\ shown' = IF open THEN vm.stop ELSE shown
    /\ faultShown' = (faultShown \/ (open /\ vm.stop = "FAULT"))
    /\ Sending
    /\ VmGoto("parked")
    /\ UNCHANGED <<loop, disconnecting, ended, config, faulted, paused, open,
                   final>>

\* What the adapter had read of the stop, or hung a handle on, is history
\* once the program leaves it.
Aged(kinds) == IF "current" \in kinds THEN (kinds \ {"current"}) \cup {"stale"}
                                      ELSE kinds

\* The loop around wait(): a bare wait() may also return for no reason.
WaitOnce == TRUE
WaitOver == suspension.resume # None \/ disconnecting

\* The wait is over: Quit, or Debugger.resume and back to the program.  A
\* fault that is resumed has only Debugger.run's `raise` to return to.
Wake ==
    /\ vm.at = "parked"
    /\ WaitOver
    /\ suspension' = NoSuspension
    /\ handles' = Aged(handles)
    /\ loop' = [loop EXCEPT !.read = IF @ = "current" THEN "stale" ELSE @]
    /\ vm' = IF disconnecting
               THEN [vm EXCEPT !.at = "quit", !.stop = None]
               ELSE [vm EXCEPT !.at = IF vm.stop = "FAULT" THEN "vmError"
                                                           ELSE "exec",
                               !.stop = None, !.mode = suspension.resume]
    /\ UNCHANGED <<disconnecting, ended, running, config, faulted, paused,
                   open, wire>>

\* The four ways out of _run_program's try, each on its way to _end.
RunQuit ==
    /\ vm.at = "quit"
    /\ vm' = [vm EXCEPT !.at = "end",
                        !.code = EndCode]
    /\ UNCHANGED <<loop, handoff, running, config, faulted, paused, handles,
                   open, wire>>

RunLeave(point, code) ==
    /\ vm.at = point
    /\ vm' = [vm EXCEPT !.at = "end", !.code = code]
    /\ Sending
    /\ UNCHANGED <<loop, handoff, config, faulted, paused, handles, open, wire>>

RunVmError == RunLeave("vmError", "fault")
RunBroken  == RunLeave("broken", None)
RunFinish  == RunLeave("finish", "ok")

-----------------------------------------------------------------------------
(* The environment.                                                        *)

\* The client closes its end: nothing written from here on arrives.
LoseTransport ==
    /\ open
    /\ open' = FALSE
    /\ UNCHANGED <<loop, vm, handoff, running, config, faulted, paused,
                   handles, wire>>

\* serve() returned and the process exits under a daemon thread.
ProcessExit ==
    /\ loop.at = "done"
    /\ Alive
    /\ VmGoto("killed")
    /\ UNCHANGED <<loop, handoff, running, config, faulted, paused, handles,
                   open, wire>>

Finished ==
    /\ loop.at = "done"
    /\ ~Alive
    /\ UNCHANGED vars

\* What the client does: send a request, or close.
ClientRequest ==
    \/ OnOther \/ OnLaunchFailed \/ OnLaunch \/ OnConfigurationDone
    \/ \E mode \in ResumeModes : OnResume(mode)
    \/ OnInspect \/ OnPause \/ OnDisconnect \/ ReadEof

\* What the request loop does once it holds a request.
LoopStep ==
    \/ Serve \/ StartIfReady \/ ResumeReply \/ Release
    \/ InspectRead \/ InspectReply \/ PauseSet
    \/ Kill \/ KillPause \/ KillJoin \/ EndSession
    \/ Wait \/ WaitJoin \/ WaitAlive
    \/ LoopEnd \/ LoopEmitExited \/ LoopEmitTerminated

VmStep ==
    \/ Begin \/ HookPause \/ HookPauseClear \/ HookStop \/ HookReturn
    \/ Exec \/ ExecFault \/ ExecStuck \/ ExecLeave
    \/ OnStop \/ ParkQuit \/ Park \/ Wake
    \/ RunQuit \/ RunVmError \/ RunBroken \/ RunFinish
    \/ VmEnd \/ VmEmitExited \/ VmEmitTerminated

Next == ClientRequest \/ LoopStep \/ VmStep \/ LoseTransport \/ ProcessExit
        \/ Finished

Spec == Init /\ [][Next]_vars

\* Each thread is scheduled: neither is starved between two of its own steps.
\* The client owes nothing, and neither does the process exit.
FairSpec == Spec /\ WF_vars(LoopStep) /\ WF_vars(VmStep)

-----------------------------------------------------------------------------
(* Properties.                                                             *)

\* The types of the session's fields, of the two threads' locals and of what
\* the client has been told.
TypeOK ==
    /\ loop \in Loops
    /\ vm \in Threads
    /\ suspension \in Suspensions \cup {NoSuspension}
    /\ disconnecting \in BOOLEAN /\ ended \in BOOLEAN /\ running \in BOOLEAN
    /\ started \in BOOLEAN /\ configured \in BOOLEAN
    /\ launches \in 0 .. MaxLaunches /\ debugger \in 0 .. MaxLaunches
    /\ stopOnEntry \in BOOLEAN /\ faulted \in BOOLEAN
    /\ paused \subseteq Debuggers
    /\ handles \subseteq {"current", "stale"}
    /\ open \in BOOLEAN
    /\ shown \in StopReasons \cup {None} /\ faultShown \in BOOLEAN
    /\ final \in Seq(ExitCodes \cup {"terminated"})

\* _end's promise ("Report that the program is over, once"): whichever thread
\* gets there, the client sees at most one `exited`, at most one `terminated`,
\* and the exit code never after the end.
EndReportedOnce ==
    final \in {<<>>, <<"terminated">>} \cup {<<c>> : c \in ExitCodes}
                \cup {<<c, "terminated">> : c \in ExitCodes}

\* A fault the client was shown is never reported as an abandoned program or
\* a clean exit: whoever ends the session, EXIT_RUNTIME_ERROR is sent first.
FaultExitCode ==
    (faultShown /\ final # <<>>) => Head(final) = "fault"

Announce == vm.at = "park" /\ vm'.at = "parked"

\* No `stopped` event follows the report that the program is over, although a
\* program that outlasts the join is still running then.
NoStopAfterEnd == [][Announce => final = <<>>]_vars

\* "Inspection is only ever answered while that handoff is parked": the
\* program's state is read only while its thread waits in _on_stop.
InspectionParked == loop.at \in {"inspect", "inspectReply"} => vm.at = "parked"

\* "A variablesReference is only valid for the suspended state that produced
\* it": at a stop, no handle names a state the program has left.
HandlesCurrent == vm.at = "parked" => "stale" \notin handles

\* "The program has faulted and cannot continue": a stop for a fault is never
\* given a mode to resume with.
FaultNotResumed == suspension.reason = "FAULT" => suspension.resume = None

\* What the client sees is a behaviour of the lifecycle it was promised.
Lifecycle == INSTANCE ClientLifecycle WITH stop <- shown
LifecycleSpec == Lifecycle!Spec

\* _kill_program, "stop the program now, wherever it is": parked, stopping or
\* running without end, its thread ends, without counting on the process to
\* exit under it.  Only an instruction that never comes back is out of reach.
DisconnectStopsProgram == disconnecting ~> (~Alive \/ vm.at = "stuck")

\* Once the client disconnects or goes away the request loop returns, however
\* long the program takes and even if it never reaches another instruction.
SessionEnds == (loop.at \in {"kill", "wait"}) ~> (loop.at = "done")

\* An accepted resume gets the program out of the stop it is in.
ResumeTakesEffect == (loop.at = "release") ~> (vm.at # "parked")

\* An accepted pause stops a running program, unless it ends first.
PauseStops ==
    (loop.at = "pauseSet") ~> (vm.at \in {"parked", "stuck"} \/ ~Alive)

=============================================================================
