-------------------------- MODULE DapSessionProofs --------------------------
(***************************************************************************)
(* What holds of the debug adapter's session for any number of launches,   *)
(* whatever its client does.                                               *)
(***************************************************************************)
EXTENDS DapSession, TLAPS

-----------------------------------------------------------------------------
(* Types.  A step that uses a local of one of the threads relies on an     *)
(* earlier step of the same thread having set it.                          *)

\* Whoever is about to set a pause flag has a Debugger to set it on.
DebuggerKnown ==
    /\ vm.at # "none" => debugger # 0
    /\ loop.at \in {"pauseSet", "killPause"} => debugger # 0

\* The request loop's locals, where it uses them.
LoopLocals ==
    /\ loop.at = "inspectReply" => loop.read # None
    /\ loop.at = "emitExited" => loop.code # None
    /\ loop.at \in {"kill", "killPause", "killJoin"} =>
           loop.then \in {"endSession", "done"}

\* The program thread's locals, where it uses them.
VmLocals ==
    /\ vm.at \in {"onStop", "park"} => vm.stop # None
    /\ vm.at = "emitExited" => vm.code # None

TypeInv == TypeOK /\ DebuggerKnown /\ LoopLocals /\ VmLocals

USE LaunchAssumption, PatientAssumption

LEMMA TypeInit == Init => TypeInv
<1> SUFFICES ASSUME Init PROVE TypeInv
    OBVIOUS
<1> USE DEF Init, None
<1>1. loop \in Loops
  BY DEF Loops, LoopPoints
<1>2. vm \in Threads
  BY DEF Threads, VmPoints
<1>3. suspension \in Suspensions \cup {NoSuspension}
  OBVIOUS
<1>4. final \in Seq(ExitCodes \cup {"terminated"})
  OBVIOUS
<1>5. TypeOK
  <2>1. /\ disconnecting \in BOOLEAN /\ ended \in BOOLEAN
        /\ running \in BOOLEAN /\ started \in BOOLEAN
        /\ configured \in BOOLEAN /\ stopOnEntry \in BOOLEAN
        /\ faulted \in BOOLEAN /\ open \in BOOLEAN /\ faultShown \in BOOLEAN
    OBVIOUS
  <2>2. /\ launches \in 0 .. MaxLaunches /\ debugger \in 0 .. MaxLaunches
        /\ paused \subseteq Debuggers
        /\ handles \subseteq {"current", "stale"}
        /\ shown \in StopReasons \cup {None}
    OBVIOUS
  <2> QED
    BY <1>1, <1>2, <1>3, <1>4, <2>1, <2>2 DEF TypeOK
<1>6. DebuggerKnown /\ LoopLocals /\ VmLocals
  BY DEF DebuggerKnown, LoopLocals, VmLocals
<1> QED
  BY <1>5, <1>6 DEF TypeInv

\* A request arrives.
LEMMA TypeClient == TypeInv /\ ClientRequest => TypeInv'
<1> SUFFICES ASSUME TypeInv, ClientRequest PROVE TypeInv'
    OBVIOUS
<1> USE DEF TypeInv, TypeOK, DebuggerKnown, LoopLocals, VmLocals,
            handoff, config, wire, Sending, Goto, VmGoto, None
<1>r. ASSUME NEW mode \in ResumeModes, OnResume(mode) PROVE TypeInv'
  <2>1. loop' \in Loops
    BY <1>r DEF OnResume, RefuseResume, Loops, LoopPoints
  <2>2. TypeOK'
    BY <1>r, <2>1 DEF OnResume, RefuseResume
  <2>3. (DebuggerKnown /\ LoopLocals /\ VmLocals)'
    BY <1>r DEF OnResume, RefuseResume, Loops, LoopPoints
  <2> QED
    BY <2>2, <2>3
<1>1. CASE OnOther
  BY <1>1 DEF OnOther, Loops, LoopPoints
<1>2. CASE OnLaunchFailed
  <2>1. loop' \in Loops
    BY <1>2 DEF OnLaunchFailed, Loops, LoopPoints
  <2>2. TypeOK'
    BY <1>2, <2>1 DEF OnLaunchFailed
  <2>3. (DebuggerKnown /\ LoopLocals /\ VmLocals)'
    BY <1>2 DEF OnLaunchFailed, Loops, LoopPoints
  <2> QED
    BY <2>2, <2>3
<1>3. CASE OnLaunch
  BY <1>3 DEF OnLaunch, Loops, LoopPoints
<1>4. CASE OnConfigurationDone
  BY <1>4 DEF OnConfigurationDone, Loops, LoopPoints
<1>5. CASE OnInspect
  BY <1>5 DEF OnInspect, Loops, LoopPoints
<1>6. CASE OnPause
  BY <1>6 DEF OnPause, Alive, Loops, LoopPoints
<1>7. CASE OnDisconnect
  <2>1. loop' \in Loops
    BY <1>7 DEF OnDisconnect, Loops, LoopPoints
  <2>2. TypeOK'
    BY <1>7, <2>1 DEF OnDisconnect
  <2>3. (DebuggerKnown /\ LoopLocals /\ VmLocals)'
    BY <1>7 DEF OnDisconnect, Loops, LoopPoints
  <2> QED
    BY <2>2, <2>3
<1>8. CASE ReadEof
  BY <1>8 DEF ReadEof, Loops, LoopPoints
<1> QED
  BY <1>r, <1>1, <1>2, <1>3, <1>4, <1>5, <1>6, <1>7, <1>8 DEF ClientRequest

\* The request loop takes a step.
LEMMA TypeLoop == TypeInv /\ LoopStep => TypeInv'
<1> SUFFICES ASSUME TypeInv, LoopStep PROVE TypeInv'
    OBVIOUS
<1> USE DEF TypeInv, TypeOK, DebuggerKnown, LoopLocals, VmLocals,
            handoff, config, wire, Sending, Goto, VmGoto, None
<1>1. CASE Serve
  BY <1>1 DEF Serve, Loops, LoopPoints
<1>2. CASE StartIfReady
  <2>1. loop' \in Loops
    BY <1>2 DEF StartIfReady, Loops, LoopPoints
  <2>2. vm' \in Threads
    BY <1>2 DEF StartIfReady, Threads, VmPoints
  <2>3. TypeOK'
    BY <1>2, <2>1, <2>2 DEF StartIfReady
  <2>4. (DebuggerKnown /\ LoopLocals /\ VmLocals)'
    BY <1>2 DEF StartIfReady, Loops, LoopPoints, Threads, VmPoints
  <2> QED
    BY <2>3, <2>4
<1>3. CASE ResumeReply
  BY <1>3 DEF ResumeReply, Loops, LoopPoints
<1>4. CASE Release
  <2>1. loop' \in Loops
    BY <1>4 DEF Release, Suspensions, NoSuspension, Suspended, Loops,
       LoopPoints
  <2>2. suspension' \in Suspensions \cup {NoSuspension}
    <3>1. loop.mode \in ResumeModes \cup {None}
      BY DEF Loops
    <3>2. CASE Suspended
      BY <1>4, <3>1, <3>2 DEF Release, Suspensions, Suspended
    <3> QED
      BY <1>4, <3>2 DEF Release
  <2>3. TypeOK'
    BY <1>4, <2>1, <2>2 DEF Release
  <2>4. (DebuggerKnown /\ LoopLocals /\ VmLocals)'
    BY <1>4 DEF Release, Suspensions, NoSuspension, Suspended, Loops,
       LoopPoints
  <2> QED
    BY <2>3, <2>4
<1>5. CASE InspectRead
  <2>1. loop' \in Loops
    BY <1>5 DEF InspectRead, Loops, LoopPoints
  <2>2. TypeOK'
    BY <1>5, <2>1 DEF InspectRead
  <2>3. (DebuggerKnown /\ LoopLocals /\ VmLocals)'
    BY <1>5 DEF InspectRead, Loops, LoopPoints
  <2> QED
    BY <2>2, <2>3
<1>6. CASE InspectReply
  <2>1. loop' \in Loops
    BY <1>6 DEF InspectReply, Loops, LoopPoints
  <2>2. loop.read \in {"current", "stale"}
    BY <1>6 DEF InspectReply, Loops
  <2>3. TypeOK'
    BY <1>6, <2>1, <2>2 DEF InspectReply
  <2>4. (DebuggerKnown /\ LoopLocals /\ VmLocals)'
    BY <1>6 DEF InspectReply, Loops, LoopPoints
  <2> QED
    BY <2>3, <2>4
<1>7. CASE PauseSet
  BY <1>7 DEF PauseSet, Debuggers, Loops, LoopPoints
<1>8. CASE Kill
  <2>1. loop' \in Loops
    BY <1>8 DEF Kill, Alive, Loops, LoopPoints
  <2>2. TypeOK'
    BY <1>8, <2>1 DEF Kill, Alive
  <2>3. (DebuggerKnown /\ LoopLocals /\ VmLocals)'
    BY <1>8 DEF Kill, Alive, Loops, LoopPoints
  <2> QED
    BY <2>2, <2>3
<1>9. CASE KillPause
  BY <1>9 DEF KillPause, Debuggers, Loops, LoopPoints
<1>10. CASE KillJoin
  BY <1>10 DEF KillJoin, Loops, LoopPoints
<1>11. CASE EndSession
  <2>1. loop' \in Loops
    BY <1>11 DEF EndSession, EndCode, Loops, LoopPoints
  <2>2. TypeOK'
    BY <1>11, <2>1 DEF EndSession, EndCode
  <2>3. (DebuggerKnown /\ LoopLocals /\ VmLocals)'
    BY <1>11 DEF EndSession, EndCode, Loops, LoopPoints
  <2> QED
    BY <2>2, <2>3
<1>12. CASE Wait
  BY <1>12 DEF Wait, Suspended, Loops, LoopPoints
<1>13. CASE WaitJoin
  BY <1>13 DEF WaitJoin, Loops, LoopPoints
<1>14. CASE WaitAlive
  <2>1. loop' \in Loops
    BY <1>14 DEF WaitAlive, Alive, Loops, LoopPoints
  <2>2. TypeOK'
    BY <1>14, <2>1 DEF WaitAlive, Alive
  <2>3. (DebuggerKnown /\ LoopLocals /\ VmLocals)'
    BY <1>14 DEF WaitAlive, Alive, Loops, LoopPoints
  <2> QED
    BY <2>2, <2>3
<1>15. CASE LoopEnd
  <2>1. loop' \in Loops
    BY <1>15 DEF LoopEnd, AfterGuard, Loops, LoopPoints
  <2>2. TypeOK'
    BY <1>15, <2>1 DEF LoopEnd, AfterGuard
  <2>3. (DebuggerKnown /\ LoopLocals /\ VmLocals)'
    BY <1>15 DEF LoopEnd, AfterGuard, Loops, LoopPoints
  <2> QED
    BY <2>2, <2>3
<1>16. CASE LoopEmitExited
  BY <1>16 DEF LoopEmitExited, Report, ExitCodes, Loops, LoopPoints
<1>17. CASE LoopEmitTerminated
  BY <1>17 DEF LoopEmitTerminated, Report, Loops, LoopPoints
<1> QED
  BY <1>1, <1>2, <1>3, <1>4, <1>5, <1>6, <1>7, <1>8, <1>9, <1>10, <1>11, <1>12,
     <1>13, <1>14, <1>15, <1>16, <1>17 DEF LoopStep

\* The program's thread takes a step.
LEMMA TypeVm == TypeInv /\ VmStep => TypeInv'
<1> SUFFICES ASSUME TypeInv, VmStep PROVE TypeInv'
    OBVIOUS
<1> USE DEF TypeInv, TypeOK, DebuggerKnown, LoopLocals, VmLocals,
            handoff, config, wire, Sending, Goto, VmGoto, None
<1>1. CASE Begin
  <2>1. vm' \in Threads
    BY <1>1 DEF Begin, Threads, VmPoints
  <2>2. TypeOK'
    BY <1>1, <2>1 DEF Begin
  <2>3. (DebuggerKnown /\ LoopLocals /\ VmLocals)'
    BY <1>1 DEF Begin, Threads, VmPoints
  <2> QED
    BY <2>2, <2>3
<1>2. CASE HookPause
  BY <1>2 DEF HookPause, Threads, VmPoints
<1>3. CASE HookPauseClear
  <2>1. vm' \in Threads
    BY <1>3 DEF HookPauseClear, StopFor, StopReasons, Threads, VmPoints
  <2>2. TypeOK'
    BY <1>3, <2>1 DEF HookPauseClear, StopFor, StopReasons
  <2>3. (DebuggerKnown /\ LoopLocals /\ VmLocals)'
    BY <1>3 DEF HookPauseClear, StopFor, StopReasons, Threads, VmPoints
  <2> QED
    BY <2>2, <2>3
<1>4. CASE HookStop
  <2>1. vm' \in Threads
    BY <1>4 DEF HookStop, StopFor, StopReasons, Threads, VmPoints
  <2>2. TypeOK'
    BY <1>4, <2>1 DEF HookStop, StopFor, StopReasons
  <2>3. (DebuggerKnown /\ LoopLocals /\ VmLocals)'
    BY <1>4 DEF HookStop, StopFor, StopReasons, Threads, VmPoints
  <2> QED
    BY <2>2, <2>3
<1>5. CASE HookReturn
  BY <1>5 DEF HookReturn, Threads, VmPoints
<1>6. CASE Exec
  BY <1>6 DEF Exec, Threads, VmPoints
<1>7. CASE ExecFault
  <2>1. vm' \in Threads
    BY <1>7 DEF ExecFault, StopFor, StopReasons, Threads, VmPoints
  <2>2. TypeOK'
    BY <1>7, <2>1 DEF ExecFault, StopFor, StopReasons
  <2>3. (DebuggerKnown /\ LoopLocals /\ VmLocals)'
    BY <1>7 DEF ExecFault, StopFor, StopReasons, Threads, VmPoints
  <2> QED
    BY <2>2, <2>3
<1>8. CASE ExecStuck
  BY <1>8 DEF ExecStuck, Threads, VmPoints
<1>9. CASE ExecLeave
  BY <1>9 DEF ExecLeave, Threads, VmPoints
<1>10. CASE OnStop
  <2>1. vm' \in Threads
    BY <1>10 DEF OnStop, ResumeModes, Threads, VmPoints
  <2>2. TypeOK'
    BY <1>10, <2>1 DEF OnStop, ResumeModes
  <2>3. (DebuggerKnown /\ LoopLocals /\ VmLocals)'
    BY <1>10 DEF OnStop, ResumeModes, Threads, VmPoints
  <2> QED
    BY <2>2, <2>3
<1>11. CASE ParkQuit
  <2>1. vm' \in Threads
    BY <1>11 DEF ParkQuit, Threads, VmPoints
  <2>2. TypeOK'
    BY <1>11, <2>1 DEF ParkQuit
  <2>3. (DebuggerKnown /\ LoopLocals /\ VmLocals)'
    BY <1>11 DEF ParkQuit, Threads, VmPoints
  <2> QED
    BY <2>2, <2>3
<1>12. CASE Park
  BY <1>12 DEF Park, ClearedHandles, Suspensions, Threads, VmPoints
<1>13. CASE Wake
  <2>1. loop' \in Loops
    BY <1>13 DEF Wake, Aged, WaitOver, NoSuspension, Loops, LoopPoints
  <2>2. vm' \in Threads
    <3>1. suspension.resume \in ResumeModes \cup {None}
      BY DEF Suspensions, NoSuspension
    <3> QED
      BY <1>13, <3>1 DEF Wake, Threads, VmPoints
  <2>3. TypeOK'
    BY <1>13, <2>1, <2>2 DEF Wake, Aged, WaitOver, NoSuspension
  <2>4. (DebuggerKnown /\ LoopLocals /\ VmLocals)'
    BY <1>13 DEF Wake, Aged, WaitOver, NoSuspension, Loops, LoopPoints,
       Threads, VmPoints
  <2> QED
    BY <2>3, <2>4
<1>14. CASE RunQuit
  <2>1. vm' \in Threads
    BY <1>14 DEF RunQuit, EndCode, ExitCodes, Threads, VmPoints
  <2>2. TypeOK'
    BY <1>14, <2>1 DEF RunQuit, EndCode, ExitCodes
  <2>3. (DebuggerKnown /\ LoopLocals /\ VmLocals)'
    BY <1>14 DEF RunQuit, EndCode, ExitCodes, Threads, VmPoints
  <2> QED
    BY <2>2, <2>3
<1>15. CASE RunVmError
  <2>1. vm' \in Threads
    BY <1>15 DEF RunVmError, RunLeave, ExitCodes, Threads, VmPoints
  <2>2. TypeOK'
    BY <1>15, <2>1 DEF RunVmError, RunLeave, ExitCodes
  <2>3. (DebuggerKnown /\ LoopLocals /\ VmLocals)'
    BY <1>15 DEF RunVmError, RunLeave, ExitCodes, Threads, VmPoints
  <2> QED
    BY <2>2, <2>3
<1>16. CASE RunBroken
  <2>1. vm' \in Threads
    BY <1>16 DEF RunBroken, RunLeave, Threads, VmPoints
  <2>2. TypeOK'
    BY <1>16, <2>1 DEF RunBroken, RunLeave
  <2>3. (DebuggerKnown /\ LoopLocals /\ VmLocals)'
    BY <1>16 DEF RunBroken, RunLeave, Threads, VmPoints
  <2> QED
    BY <2>2, <2>3
<1>17. CASE RunFinish
  <2>1. vm' \in Threads
    BY <1>17 DEF RunFinish, RunLeave, ExitCodes, Threads, VmPoints
  <2>2. TypeOK'
    BY <1>17, <2>1 DEF RunFinish, RunLeave, ExitCodes
  <2>3. (DebuggerKnown /\ LoopLocals /\ VmLocals)'
    BY <1>17 DEF RunFinish, RunLeave, ExitCodes, Threads, VmPoints
  <2> QED
    BY <2>2, <2>3
<1>18. CASE VmEnd
  BY <1>18 DEF VmEnd, AfterGuard, Threads, VmPoints
<1>19. CASE VmEmitExited
  <2>1. vm' \in Threads
    BY <1>19 DEF VmEmitExited, Threads, VmPoints
  <2>2. vm.code \in ExitCodes
    BY <1>19 DEF VmEmitExited, Threads
  <2>3. final' \in Seq(ExitCodes \cup {"terminated"})
    BY <1>19, <2>2 DEF VmEmitExited, Report
  <2>4. TypeOK'
    BY <1>19, <2>1, <2>3 DEF VmEmitExited
  <2>5. (DebuggerKnown /\ LoopLocals /\ VmLocals)'
    BY <1>19 DEF VmEmitExited, Threads, VmPoints
  <2> QED
    BY <2>4, <2>5
<1>20. CASE VmEmitTerminated
  BY <1>20 DEF VmEmitTerminated, Report, Threads, VmPoints
<1> QED
  BY <1>1, <1>2, <1>3, <1>4, <1>5, <1>6, <1>7, <1>8, <1>9, <1>10, <1>11, <1>12,
     <1>13, <1>14, <1>15, <1>16, <1>17, <1>18, <1>19, <1>20 DEF VmStep

LEMMA TypeStep == TypeInv /\ [Next]_vars => TypeInv'
<1> SUFFICES ASSUME TypeInv, [Next]_vars PROVE TypeInv'
    OBVIOUS
<1> USE DEF TypeInv, TypeOK, DebuggerKnown, LoopLocals, VmLocals
<1>1. CASE LoseTransport
  <2>1. UNCHANGED <<loop, vm, suspension, disconnecting, ended, running,
                    started, configured, launches, debugger, stopOnEntry,
                    faulted, paused, handles, shown, faultShown, final>>
    BY <1>1 DEF LoseTransport, handoff, config, wire
  <2>2. open' \in BOOLEAN
    BY <1>1 DEF LoseTransport
  <2> QED
    BY <2>1, <2>2
<1>2. CASE ProcessExit
  BY <1>2 DEF ProcessExit, handoff, config, wire, VmGoto, Threads, VmPoints,
     Alive
<1>3. CASE UNCHANGED vars
  BY <1>3 DEF vars
<1> QED
  BY <1>1, <1>2, <1>3, TypeClient, TypeLoop, TypeVm DEF Next, Finished

\* TypeOK, for any number of launches.
THEOREM TypeCorrect == Spec => []TypeOK
<1>1. Init => TypeInv
  BY TypeInit
<1>2. TypeInv /\ [Next]_vars => TypeInv'
  BY TypeStep
<1>3. TypeInv => TypeOK
  BY DEF TypeInv
<1> QED
  BY <1>1, <1>2, <1>3, PTL DEF Spec

-----------------------------------------------------------------------------
(* The end of the program is reported once.                                *)

Emitting == {"emitExited", "emitTerminated"}

\* Whoever passed the guard of _end holds the only licence to report: nothing
\* is reported before, the other thread is not reporting, and what has been
\* sent is what its own place in _end allows.
EndInv ==
    /\ ~ended => /\ final = <<>>
                 /\ loop.at \notin Emitting
                 /\ vm.at \notin Emitting
    /\ loop.at \in Emitting => vm.at \notin Emitting
    /\ "emitExited" \in {loop.at, vm.at} => final = <<>>
    /\ "emitTerminated" \in {loop.at, vm.at} =>
           final \in {<<>>} \cup {<<c>> : c \in ExitCodes}
    /\ EndReportedOnce

\* A step that has nothing to do with _end.
Quiet ==
    /\ UNCHANGED <<final, ended>>
    /\ loop'.at = loop.at \/ loop'.at \notin Emitting
    /\ vm'.at = vm.at \/ vm'.at \notin Emitting

LEMMA QuietKeepsEnd == EndInv /\ Quiet => EndInv'
BY DEF EndInv, Quiet, Emitting, EndReportedOnce

\* No request reports the end by itself.
LEMMA QuietClient == ASSUME TypeInv, ClientRequest PROVE Quiet
<1> USE DEF Quiet, Emitting, TypeInv, TypeOK, Loops, LoopPoints,
            handoff, config, wire, Sending, Goto, VmGoto, None
<1>r. ASSUME NEW mode \in ResumeModes, OnResume(mode) PROVE Quiet
  BY <1>r DEF OnResume
<1>1. CASE OnOther
  BY <1>1 DEF OnOther
<1>2. CASE OnLaunchFailed
  BY <1>2 DEF OnLaunchFailed
<1>3. CASE OnLaunch
  BY <1>3 DEF OnLaunch
<1>4. CASE OnConfigurationDone
  BY <1>4 DEF OnConfigurationDone
<1>5. CASE OnInspect
  BY <1>5 DEF OnInspect
<1>6. CASE OnPause
  BY <1>6 DEF OnPause, Alive
<1>7. CASE OnDisconnect
  BY <1>7 DEF OnDisconnect
<1>8. CASE ReadEof
  BY <1>8 DEF ReadEof
<1> QED
  BY <1>r, <1>1, <1>2, <1>3, <1>4, <1>5, <1>6, <1>7, <1>8 DEF ClientRequest

\* Nor does the rest of the request loop.
LEMMA QuietLoop ==
    ASSUME TypeInv, LoopStep,
           ~LoopEnd, ~LoopEmitExited, ~LoopEmitTerminated
    PROVE  Quiet
<1> USE DEF Quiet, Emitting, TypeInv, TypeOK, Loops, LoopPoints,
            handoff, config, wire, Sending, Goto, VmGoto, None
<1>1. CASE Serve
  BY <1>1 DEF Serve
<1>2. CASE StartIfReady
  BY <1>2 DEF StartIfReady, Threads, VmPoints
<1>3. CASE ResumeReply
  BY <1>3 DEF ResumeReply
<1>4. CASE Release
  BY <1>4 DEF Release
<1>5. CASE InspectRead
  BY <1>5 DEF InspectRead
<1>6. CASE InspectReply
  BY <1>6 DEF InspectReply
<1>7. CASE PauseSet
  BY <1>7 DEF PauseSet
<1>8. CASE Kill
  BY <1>8 DEF Kill, Alive, LoopLocals
<1>9. CASE KillPause
  BY <1>9 DEF KillPause
<1>10. CASE KillJoin
  BY <1>10 DEF KillJoin, LoopLocals
<1>11. CASE EndSession
  BY <1>11 DEF EndSession, EndCode
<1>12. CASE Wait
  BY <1>12 DEF Wait, Suspended
<1>13. CASE WaitJoin
  BY <1>13 DEF WaitJoin
<1>14. CASE WaitAlive
  BY <1>14 DEF WaitAlive, Alive
<1> QED
  BY <1>1, <1>2, <1>3, <1>4, <1>5, <1>6, <1>7, <1>8, <1>9, <1>10, <1>11, <1>12,
     <1>13, <1>14 DEF LoopStep

\* Nor the rest of the program's thread.
LEMMA QuietVm ==
    ASSUME TypeInv, VmStep, ~VmEnd, ~VmEmitExited, ~VmEmitTerminated PROVE Quiet
<1> USE DEF Quiet, Emitting, TypeInv, TypeOK, Threads, VmPoints,
            handoff, config, wire, Sending, Goto, VmGoto, None
<1>1. CASE Begin
  BY <1>1 DEF Begin
<1>2. CASE HookPause
  BY <1>2 DEF HookPause
<1>3. CASE HookPauseClear
  BY <1>3 DEF HookPauseClear, StopFor
<1>4. CASE HookStop
  BY <1>4 DEF HookStop, StopFor
<1>5. CASE HookReturn
  BY <1>5 DEF HookReturn
<1>6. CASE Exec
  BY <1>6 DEF Exec
<1>7. CASE ExecFault
  BY <1>7 DEF ExecFault, StopFor
<1>8. CASE ExecStuck
  BY <1>8 DEF ExecStuck
<1>9. CASE ExecLeave
  BY <1>9 DEF ExecLeave
<1>10. CASE OnStop
  BY <1>10 DEF OnStop, ResumeModes
<1>11. CASE ParkQuit
  BY <1>11 DEF ParkQuit
<1>12. CASE Park
  BY <1>12 DEF Park, ClearedHandles
<1>13. CASE Wake
  BY <1>13 DEF Wake, Aged, WaitOver, Threads, VmPoints
<1>14. CASE RunQuit
  BY <1>14 DEF RunQuit, EndCode
<1>15. CASE RunVmError
  BY <1>15 DEF RunVmError, RunLeave
<1>16. CASE RunBroken
  BY <1>16 DEF RunBroken, RunLeave
<1>17. CASE RunFinish
  BY <1>17 DEF RunFinish, RunLeave
<1> QED
  BY <1>1, <1>2, <1>3, <1>4, <1>5, <1>6, <1>7, <1>8, <1>9, <1>10, <1>11, <1>12,
     <1>13, <1>14, <1>15, <1>16, <1>17 DEF VmStep

\* Appending to what the place in _end allows keeps the report well formed.
LEMMA ReportGrows ==
    /\ \A c \in ExitCodes : Append(<<>>, c) = <<c>>
    /\ Append(<<>>, "terminated") = <<"terminated">>
    /\ \A c \in ExitCodes : Append(<<c>>, "terminated") = <<c, "terminated">>
<1>1. ASSUME NEW c \in ExitCodes
      PROVE  Append(<<c>>, "terminated") = <<c, "terminated">>
  <2> DEFINE s == Append(<<c>>, "terminated")
  <2>1. <<c>> \in Seq(ExitCodes \cup {"terminated"})
    OBVIOUS
  <2>2. /\ s \in Seq(ExitCodes \cup {"terminated"}) /\ Len(s) = 2
        /\ s[1] = c /\ s[2] = "terminated"
    BY <2>1
  <2> HIDE DEF s
  <2>3. s = <<c, "terminated">>
    BY <2>2
  <2> QED
    BY <2>3 DEF s
<1> QED
  BY <1>1

LEMMA EndStep == TypeInv /\ EndInv /\ [Next]_vars => EndInv'
<1> SUFFICES ASSUME TypeInv, EndInv, [Next]_vars PROVE EndInv'
    OBVIOUS
<1>1. CASE LoopEnd
  <2>1. loop'.at \in Emitting => ~ended
    BY <1>1 DEF LoopEnd, AfterGuard, Goto, VmGoto, Emitting, TypeInv, TypeOK,
       Loops
  <2>2. final' = final /\ ended' /\ vm' = vm
    BY <1>1 DEF LoopEnd, wire
  <2> QED
    BY <2>1, <2>2 DEF EndInv, Emitting, EndReportedOnce
<1>2. CASE LoopEmitExited
  <2>1. loop'.at = "emitTerminated" /\ vm' = vm /\ ended' = ended
    BY <1>2 DEF LoopEmitExited, handoff, Goto, VmGoto, TypeInv, TypeOK, Loops
  <2>2. loop.code \in ExitCodes
    BY <1>2 DEF LoopEmitExited, TypeInv, TypeOK, LoopLocals, Loops, ExitCodes
  <2>3. final = <<>> /\ ended /\ vm.at \notin Emitting
    BY <1>2 DEF LoopEmitExited, EndInv, Emitting
  <2>4. final' \in {<<>>} \cup {<<c>> : c \in ExitCodes}
    BY <1>2, <2>2, <2>3, ReportGrows DEF LoopEmitExited, Report
  <2> QED
    BY <2>1, <2>3, <2>4 DEF EndInv, Emitting, EndReportedOnce
<1>3. CASE LoopEmitTerminated
  <2>1. loop'.at \notin Emitting /\ vm' = vm /\ ended' = ended
    BY <1>3 DEF LoopEmitTerminated, handoff, Goto, VmGoto, Emitting, TypeInv,
       TypeOK, Loops
  <2>2. ended /\ vm.at \notin Emitting
    BY <1>3 DEF LoopEmitTerminated, EndInv, Emitting
  <2>3. final \in {<<>>} \cup {<<c>> : c \in ExitCodes}
    BY <1>3 DEF LoopEmitTerminated, EndInv
  <2>4. EndReportedOnce'
    BY <1>3, <2>3, ReportGrows DEF LoopEmitTerminated, Report, EndReportedOnce
  <2> QED
    BY <2>1, <2>2, <2>4 DEF EndInv, Emitting
<1>4. CASE VmEnd
  <2>1. vm'.at \in Emitting => ~ended
    BY <1>4 DEF VmEnd, AfterGuard, Goto, VmGoto, Emitting, TypeInv, TypeOK,
       Threads
  <2>2. final' = final /\ ended' /\ loop' = loop
    BY <1>4 DEF VmEnd, wire
  <2> QED
    BY <2>1, <2>2 DEF EndInv, Emitting, EndReportedOnce
<1>5. CASE VmEmitExited
  <2>1. vm'.at = "emitTerminated" /\ loop' = loop /\ ended' = ended
    BY <1>5 DEF VmEmitExited, handoff, Goto, VmGoto, TypeInv, TypeOK, Threads
  <2>2. vm.code \in ExitCodes
    BY <1>5 DEF VmEmitExited, TypeInv, TypeOK, VmLocals, Threads, ExitCodes
  <2>3. final = <<>> /\ ended /\ loop.at \notin Emitting
    BY <1>5 DEF VmEmitExited, EndInv, Emitting
  <2>4. final' \in {<<>>} \cup {<<c>> : c \in ExitCodes}
    BY <1>5, <2>2, <2>3, ReportGrows DEF VmEmitExited, Report
  <2> QED
    BY <2>1, <2>3, <2>4 DEF EndInv, Emitting, EndReportedOnce
<1>6. CASE VmEmitTerminated
  <2>1. vm'.at \notin Emitting /\ loop' = loop /\ ended' = ended
    BY <1>6 DEF VmEmitTerminated, handoff, Goto, VmGoto, Emitting, TypeInv,
       TypeOK, Threads
  <2>2. ended /\ loop.at \notin Emitting
    BY <1>6 DEF VmEmitTerminated, EndInv, Emitting
  <2>3. final \in {<<>>} \cup {<<c>> : c \in ExitCodes}
    BY <1>6 DEF VmEmitTerminated, EndInv
  <2>4. EndReportedOnce'
    BY <1>6, <2>3, ReportGrows DEF VmEmitTerminated, Report, EndReportedOnce
  <2> QED
    BY <2>1, <2>2, <2>4 DEF EndInv, Emitting
<1>7. CASE LoseTransport \/ UNCHANGED vars
  BY <1>7, QuietKeepsEnd DEF LoseTransport, vars, handoff, config, wire, Quiet
<1>8. CASE ProcessExit
  <2>1. Quiet
    BY <1>8 DEF ProcessExit, VmGoto, TypeInv, TypeOK, Threads, handoff, wire,
       Quiet, Emitting
  <2> QED
    BY <2>1, QuietKeepsEnd
<1> QED
  BY <1>1, <1>2, <1>3, <1>4, <1>5, <1>6, <1>7, <1>8, QuietKeepsEnd,
     QuietClient,
     QuietLoop, QuietVm DEF Next, Finished

\* EndReportedOnce, for any number of launches: _end's guard is enough however
\* the program's end, the client's disconnect and a failed launch race.
THEOREM EndOnce == Spec => []EndReportedOnce
<1>1. Init => TypeInv /\ EndInv
  BY TypeInit DEF Init, EndInv, Emitting, EndReportedOnce
<1>2. TypeInv /\ EndInv /\ [Next]_vars => TypeInv' /\ EndInv'
  BY TypeStep, EndStep
<1>3. TypeInv /\ EndInv => EndReportedOnce
  BY DEF EndInv
<1> QED
  BY <1>1, <1>2, <1>3, PTL DEF Spec

-----------------------------------------------------------------------------
(* What a session reports at its end: no stop follows it, and a fault that *)
(* was shown is reported as one, whichever thread gets to report.  Both    *)
(* hold of a session whose launches all compile or all fail, so of every   *)
(* session of one launch; the run DapSession_second_launch shows why more  *)
(* cannot be said.                                                         *)

\* No launch succeeds in a session in which another has failed.
LaunchesAgree == (OnLaunchFailed => debugger = 0)
                 /\ (OnLaunch => debugger = launches)

\* A program begins once, and only under a Debugger; the last launch made it,
\* or none did.
OneProgram ==
    /\ vm.at = "none" <=> ~started
    /\ started => debugger # 0
    /\ debugger \in {0, launches}

\* The program cannot announce a stop any more: it has been told to quit, it is
\* reporting or dead, or there will never be one.
Over        == vm.at \in {"dead", "killed"}
NeverRuns   == vm.at = "none" /\ debugger = 0 /\ launches # 0
NoMoreStops ==
    \/ disconnecting
    \/ vm.at \in {"end", "emitExited", "emitTerminated"} \/ Over
    \/ NeverRuns

\* The loop reports the end only when it has given the program up, or when
\* there is none.
GivenUp ==
    /\ loop.at \in {"killPause", "killJoin"} => disconnecting
    /\ loop.at = "endSession" => disconnecting \/ vm.at = "none" \/ Over
    /\ loop.at \in {"end"} \cup Emitting => disconnecting \/ Over \/ NeverRuns
    /\ ended => NoMoreStops

\* A fault is on its way to the report from the moment it is stopped for.
FaultComes ==
    \/ vm.at \in {"park", "parked"} /\ vm.stop = "FAULT"
    \/ vm.at \in {"vmError", "quit", "emitTerminated"} \/ Over
    \/ vm.at \in {"end", "emitExited"} /\ vm.code = "fault"

FaultInv ==
    /\ faultShown => faulted
    /\ faulted => FaultComes
    /\ vm.at \in {"park", "parked"} /\ vm.stop = "FAULT" => faulted
    /\ (loop.at \in {"end", "emitExited"} /\ faultShown) => loop.code = "fault"
    /\ ("emitTerminated" \in {loop.at, vm.at} /\ faultShown /\ open) =>
           final # <<>>
    /\ FaultExitCode

Reports == OneProgram /\ GivenUp /\ FaultInv

\* What was reported first.
LEMMA HeadFirst ==
    /\ \A c \in ExitCodes : Head(<<c>>) = c
    /\ \A c \in ExitCodes : Head(<<c, "terminated">>) = c
OBVIOUS

\* A request arrives.
LEMMA LastClient ==
    ASSUME Reports, ClientRequest, TypeInv, EndInv, LaunchesAgree
    PROVE  Reports'
<1> USE DEF Reports, LaunchesAgree, TypeInv, TypeOK, DebuggerKnown, LoopLocals, VmLocals,
            OneProgram, GivenUp, NoMoreStops, NeverRuns, Over, Emitting,
            FaultInv, FaultComes, FaultExitCode,
            Loops, LoopPoints, Threads, VmPoints,
            handoff, config, wire, Sending, Goto, VmGoto, None
<1>r. ASSUME NEW mode \in ResumeModes, OnResume(mode) PROVE Reports'
  <2>1. /\ loop'.at \in {"loop", "resumeReply"}
        /\ UNCHANGED <<vm, handoff, config, faulted, open, wire>>
    BY <1>r DEF OnResume
  <2> QED
    BY <2>1
<1>1. CASE OnOther
  BY <1>1 DEF OnOther
<1>2. CASE OnLaunchFailed
  BY <1>2 DEF OnLaunchFailed
<1>3. CASE OnLaunch
  BY <1>3 DEF OnLaunch
<1>4. CASE OnConfigurationDone
  BY <1>4 DEF OnConfigurationDone
<1>5. CASE OnInspect
  BY <1>5 DEF OnInspect, Suspended
<1>6. CASE OnPause
  BY <1>6 DEF OnPause, Alive
<1>7. CASE OnDisconnect
  BY <1>7 DEF OnDisconnect
<1>8. CASE ReadEof
  BY <1>8 DEF ReadEof
<1> QED
  BY <1>r, <1>1, <1>2, <1>3, <1>4, <1>5, <1>6, <1>7, <1>8 DEF ClientRequest

\* Where _end_session goes, and which exit code it brings.
LEMMA EndSessionDoes ==
    ASSUME EndSession, TypeOK
    PROVE  /\ loop.at = "endSession"
           /\ \/ ~started /\ loop'.at = "loop"
              \/ started /\ loop'.at = "end" /\ (faulted => loop'.code = "fault")
           /\ UNCHANGED <<vm, disconnecting, ended, faulted, faultShown, open, final,
                         started, debugger, launches>>
<1>1. loop \in Loops
  BY DEF TypeOK
<1>2. loop.at = "endSession" /\ UNCHANGED <<vm, handoff, config, faulted, open, wire>>
  BY DEF EndSession
<1>3. \/ started /\ loop' = [loop EXCEPT !.at = "end", !.then = "leave", !.code = EndCode]
      \/ ~started /\ Goto("loop")
  BY Zenon DEF EndSession
<1>4. ASSUME Goto("loop") PROVE loop'.at = "loop"
  BY <1>1, <1>4 DEF Goto, Loops
<1>5. ASSUME NEW c, loop' = [loop EXCEPT !.at = "end", !.then = "leave", !.code = c]
      PROVE  loop'.at = "end" /\ loop'.code = c
  BY <1>1, <1>5 DEF Loops
<1>6. faulted => EndCode = "fault"
  BY DEF EndCode
<1> QED
  BY <1>2, <1>3, <1>4, <1>5, <1>6 DEF handoff, config, wire

\* The request loop takes a step.
LEMMA LastLoop ==
    ASSUME Reports, LoopStep, TypeInv, EndInv
    PROVE  Reports'
<1> USE DEF Reports, LaunchesAgree, TypeInv, TypeOK, DebuggerKnown, LoopLocals, VmLocals,
            OneProgram, GivenUp, NoMoreStops, NeverRuns, Over, Emitting,
            FaultInv, FaultComes, FaultExitCode,
            Loops, LoopPoints, Threads, VmPoints,
            handoff, config, wire, Sending, Goto, VmGoto, None
<1>1. CASE Serve
  BY <1>1 DEF Serve
<1>2. CASE StartIfReady
  BY <1>2 DEF StartIfReady
<1>3. CASE ResumeReply
  BY <1>3 DEF ResumeReply
<1>4. CASE Release
  BY <1>4 DEF Release, Suspended
<1>5. CASE InspectRead
  BY <1>5 DEF InspectRead
<1>6. CASE InspectReply
  BY <1>6 DEF InspectReply
<1>7. CASE PauseSet
  BY <1>7 DEF PauseSet
<1>8. CASE Kill
  BY <1>8 DEF Kill, Alive
<1>9. CASE KillPause
  BY <1>9 DEF KillPause
<1>10. CASE KillJoin
  BY <1>10 DEF KillJoin
<1>11. CASE EndSession
  <2>1. /\ loop.at = "endSession"
        /\ \/ ~started /\ loop'.at = "loop"
           \/ started /\ loop'.at = "end" /\ (faulted => loop'.code = "fault")
        /\ UNCHANGED <<vm, disconnecting, ended, faulted, faultShown, open, final,
                      started, debugger, launches>>
    BY <1>11, EndSessionDoes
  <2>2. OneProgram' /\ GivenUp'
    BY <2>1
  <2>3. FaultInv'
    BY <2>1
  <2> QED
    BY <2>1, <2>2, <2>3
<1>12. CASE Wait
  BY <1>12 DEF Wait, Suspended
<1>13. CASE WaitJoin
  BY <1>13 DEF WaitJoin
<1>14. CASE WaitAlive
  BY <1>14 DEF WaitAlive, Alive
<1>15. CASE LoopEnd
  BY <1>15 DEF LoopEnd, AfterGuard
<1>16. CASE LoopEmitExited
  <2>1. OneProgram' /\ GivenUp'
    BY <1>16 DEF LoopEmitExited
  <2>2. final = <<>>
    BY <1>16 DEF LoopEmitExited, EndInv
  <2>3. final' = IF open THEN <<loop.code>> ELSE <<>>
    BY <1>16, <2>2 DEF LoopEmitExited, Report
  <2>4. FaultInv'
    BY <1>16, <2>3, HeadFirst DEF LoopEmitExited
  <2> QED
    BY <2>1, <2>4
<1>17. CASE LoopEmitTerminated
  <2>1. OneProgram' /\ GivenUp'
    BY <1>17 DEF LoopEmitTerminated
  <2>2. faultShown /\ open => final # <<>>
    BY <1>17 DEF LoopEmitTerminated
  <2>3. final \in {<<>>} \cup {<<c>> : c \in ExitCodes}
    BY <1>17 DEF LoopEmitTerminated, EndInv
  <2>4. final # <<>> => Head(Append(final, "terminated")) = Head(final)
    BY <2>3, ReportGrows, HeadFirst
  <2>5. FaultInv'
    BY <1>17, <2>2, <2>4 DEF LoopEmitTerminated, Report
  <2> QED
    BY <2>1, <2>5
<1> QED
  BY <1>1, <1>2, <1>3, <1>4, <1>5, <1>6, <1>7, <1>8, <1>9, <1>10, <1>11, <1>12,
     <1>13, <1>14, <1>15, <1>16, <1>17 DEF LoopStep

\* Where _on_instruction goes when it stops the program.
LEMMA HookStopDoes ==
    ASSUME HookStop, TypeOK
    PROVE  /\ vm.at = "hook" /\ vm'.at = "onStop"
           /\ UNCHANGED <<loop, disconnecting, ended, faulted, faultShown, open, final,
                         started, debugger, launches>>
<1>1. vm \in Threads
  BY DEF TypeOK
<1>2. vm.at = "hook" /\ \E reason : StopFor(reason)
  BY DEF HookStop
<1>3. vm'.at = "onStop"
  BY <1>1, <1>2 DEF StopFor, Threads
<1>4. UNCHANGED <<loop, handoff, config, faulted, open, wire>>
  BY DEF HookStop
<1> QED
  BY <1>2, <1>3, <1>4 DEF handoff, config, wire

\* Where _on_stop goes, and what it remembers of a fault.
LEMMA OnStopDoes ==
    ASSUME OnStop, TypeOK
    PROVE  /\ vm.at = "onStop"
           /\ UNCHANGED <<loop, disconnecting, ended, faultShown, open, final,
                         started, debugger, launches>>
           /\ \/ vm.stop # "FAULT" /\ vm'.at = "exec" /\ faulted' = faulted
              \/ vm'.at = "park" /\ vm'.stop = vm.stop
                   /\ (faulted' <=> faulted \/ vm.stop = "FAULT")
<1>1. vm \in Threads
  BY DEF TypeOK
<1>2. vm.at = "onStop" /\ UNCHANGED <<loop, handoff, config, open, wire>>
  BY DEF OnStop
<1>3. IF vm.stop = "FAULT" THEN faulted' = TRUE ELSE faulted' = faulted
  BY DEF OnStop
<1>4. \/ vm.stop = "ENTRY" /\ vm' = [vm EXCEPT !.at = "exec", !.stop = None, !.mode = "RUN"]
      \/ VmGoto("park")
  BY Zenon DEF OnStop
<1>5. ASSUME VmGoto("park") PROVE vm'.at = "park" /\ vm'.stop = vm.stop
  BY <1>1, <1>5 DEF VmGoto, Threads
<1>6. ASSUME vm' = [vm EXCEPT !.at = "exec", !.stop = None, !.mode = "RUN"] PROVE vm'.at = "exec"
  BY <1>1, <1>6 DEF Threads
<1>7. vm.stop = "ENTRY" => vm.stop # "FAULT"
  OBVIOUS
<1> QED
  BY <1>2, <1>3, <1>4, <1>5, <1>6, <1>7 DEF handoff, config, wire

\* The program's thread takes a step.
LEMMA LastVm ==
    ASSUME Reports, VmStep, TypeInv, EndInv
    PROVE  Reports'
<1> USE DEF Reports, LaunchesAgree, TypeInv, TypeOK, DebuggerKnown, LoopLocals, VmLocals,
            OneProgram, GivenUp, NoMoreStops, NeverRuns, Over, Emitting,
            FaultInv, FaultComes, FaultExitCode,
            Loops, LoopPoints, Threads, VmPoints,
            handoff, config, wire, Sending, Goto, VmGoto, None
<1>1. CASE Begin
  BY <1>1 DEF Begin
<1>2. CASE HookPause
  BY <1>2 DEF HookPause
<1>3. CASE HookPauseClear
  BY <1>3 DEF HookPauseClear, StopFor
<1>4. CASE HookStop
  <2>1. /\ vm.at = "hook" /\ vm'.at = "onStop"
        /\ UNCHANGED <<loop, disconnecting, ended, faulted, faultShown, open, final,
                      started, debugger, launches>>
    BY <1>4, HookStopDoes
  <2>2. OneProgram' /\ GivenUp'
    BY <2>1
  <2>3. FaultInv'
    BY <2>1
  <2> QED
    BY <2>2, <2>3
<1>5. CASE HookReturn
  BY <1>5 DEF HookReturn
<1>6. CASE Exec
  BY <1>6 DEF Exec
<1>7. CASE ExecFault
  BY <1>7 DEF ExecFault, StopFor
<1>8. CASE ExecStuck
  BY <1>8 DEF ExecStuck
<1>9. CASE ExecLeave
  BY <1>9 DEF ExecLeave
<1>10. CASE OnStop
  <2>1. /\ vm.at = "onStop"
        /\ UNCHANGED <<loop, disconnecting, ended, faultShown, open, final,
                      started, debugger, launches>>
    BY <1>10, OnStopDoes
  <2>2. \/ vm.stop # "FAULT" /\ vm'.at = "exec" /\ faulted' = faulted
        \/ vm'.at = "park" /\ vm'.stop = vm.stop
             /\ (faulted' <=> faulted \/ vm.stop = "FAULT")
    BY <1>10, OnStopDoes
  <2>3. ~faulted
    BY <2>1
  <2>4. OneProgram' /\ GivenUp'
    BY <2>1, <2>2
  <2>5. FaultInv'
    BY <2>1, <2>2, <2>3
  <2> QED
    BY <2>4, <2>5
<1>11. CASE ParkQuit
  BY <1>11 DEF ParkQuit
<1>12. CASE Park
  <2>1. /\ vm.at = "park" /\ vm'.at = "parked" /\ vm'.stop = vm.stop
        /\ UNCHANGED <<loop, disconnecting, ended, faulted, open, final,
                      started, debugger, launches>>
        /\ faultShown' = (faultShown \/ (open /\ vm.stop = "FAULT"))
        /\ ~disconnecting
    BY <1>12 DEF Park
  <2>2. ~ended /\ loop.at \notin {"end"} \cup Emitting
    BY <2>1
  <2>3. final = <<>>
    BY <2>2 DEF EndInv
  <2>4. OneProgram' /\ GivenUp'
    BY <2>1, <2>2
  <2>5. FaultInv'
    BY <2>1, <2>2, <2>3
  <2> QED
    BY <2>4, <2>5
<1>13. CASE Wake
  BY <1>13 DEF Wake, Aged, WaitOver, NoSuspension
<1>14. CASE RunQuit
  BY <1>14 DEF RunQuit, EndCode
<1>15. CASE RunVmError
  BY <1>15 DEF RunVmError, RunLeave
<1>16. CASE RunBroken
  BY <1>16 DEF RunBroken, RunLeave
<1>17. CASE RunFinish
  BY <1>17 DEF RunFinish, RunLeave
<1>18. CASE VmEnd
  BY <1>18 DEF VmEnd, AfterGuard
<1>19. CASE VmEmitExited
  <2>1. OneProgram' /\ GivenUp'
    BY <1>19 DEF VmEmitExited
  <2>2. final = <<>>
    BY <1>19 DEF VmEmitExited, EndInv
  <2>3. final' = IF open THEN <<vm.code>> ELSE <<>>
    BY <1>19, <2>2 DEF VmEmitExited, Report
  <2>4. FaultInv'
    BY <1>19, <2>3, HeadFirst DEF VmEmitExited
  <2> QED
    BY <2>1, <2>4
<1>20. CASE VmEmitTerminated
  <2>1. OneProgram' /\ GivenUp'
    BY <1>20 DEF VmEmitTerminated
  <2>2. faultShown /\ open => final # <<>>
    BY <1>20 DEF VmEmitTerminated
  <2>3. final \in {<<>>} \cup {<<c>> : c \in ExitCodes}
    BY <1>20 DEF VmEmitTerminated, EndInv
  <2>4. final # <<>> => Head(Append(final, "terminated")) = Head(final)
    BY <2>3, ReportGrows, HeadFirst
  <2>5. FaultInv'
    BY <1>20, <2>2, <2>4 DEF VmEmitTerminated, Report
  <2> QED
    BY <2>1, <2>5
<1> QED
  BY <1>1, <1>2, <1>3, <1>4, <1>5, <1>6, <1>7, <1>8, <1>9, <1>10, <1>11, <1>12,
     <1>13, <1>14, <1>15, <1>16, <1>17, <1>18, <1>19, <1>20 DEF VmStep

LEMMA LastStep ==
    ASSUME TypeInv, EndInv, Reports, [Next]_vars, [LaunchesAgree]_vars
    PROVE  Reports'
<1> USE DEF Reports, OneProgram, GivenUp, NoMoreStops, NeverRuns, Over,
            Emitting, FaultInv, FaultComes, FaultExitCode
<1>1. CASE LoseTransport
  BY <1>1 DEF LoseTransport, handoff, config, wire
<1>2. CASE ProcessExit
  BY <1>2 DEF ProcessExit, handoff, config, wire, VmGoto, TypeInv, TypeOK,
     Threads, Alive
<1>3. CASE UNCHANGED vars
  BY <1>3 DEF vars
<1>4. CASE ~UNCHANGED vars
  <2>1. LaunchesAgree
    BY <1>4
  <2> QED
    BY <1>1, <1>2, <1>4, <2>1, LastClient, LastLoop, LastVm DEF Next, Finished
<1> QED
  BY <1>3, <1>4

\* Every other step of the program's thread leaves it elsewhere.
LEMMA OnlyParkParks == ASSUME TypeInv, Next, Announce PROVE Park
<1> USE DEF Announce, TypeInv, TypeOK, Threads, VmPoints, handoff, config, wire,
            Goto, VmGoto
<1>1. vm' # vm
  OBVIOUS
<1>2. ~ClientRequest
  BY <1>1 DEF ClientRequest, OnOther, OnLaunchFailed, OnLaunch,
     OnConfigurationDone, OnResume, OnInspect, OnPause, OnDisconnect, ReadEof
<1>3. ~LoopStep
  BY <1>1 DEF LoopStep, Serve, StartIfReady, ResumeReply, Release, InspectRead,
     InspectReply, PauseSet, Kill, KillPause, KillJoin, EndSession, Wait,
     WaitJoin, WaitAlive, LoopEnd, LoopEmitExited, LoopEmitTerminated
<1>4. ~LoseTransport /\ ~ProcessExit /\ ~Finished
  BY <1>1 DEF LoseTransport, ProcessExit, Finished, vars, Alive
<1>5. VmStep
  BY <1>2, <1>3, <1>4 DEF Next
<1> QED
  BY <1>5 DEF VmStep, Begin, HookPause, HookPauseClear, HookStop, HookReturn,
     Exec, ExecFault, ExecStuck, ExecLeave, OnStop, ParkQuit, Wake, StopFor,
     RunQuit, RunVmError, RunBroken, RunFinish, RunLeave, VmEnd, VmEmitExited,
     VmEmitTerminated

LEMMA ReportsInit == Init => TypeInv /\ EndInv /\ Reports
<1> SUFFICES ASSUME Init PROVE TypeInv /\ EndInv /\ Reports
    OBVIOUS
<1>1. TypeInv
  BY TypeInit
<1>2. EndInv
  BY DEF Init, EndInv, Emitting, EndReportedOnce
<1>3. Reports
  BY DEF Init, None, Reports, OneProgram, GivenUp, NoMoreStops, NeverRuns,
     Over, Emitting, FaultInv, FaultComes, FaultExitCode
<1> QED
  BY <1>1, <1>2, <1>3

LEMMA ReportsInvariant ==
    Spec /\ [][LaunchesAgree]_vars => [](TypeInv /\ EndInv /\ Reports)
<1>1. Init => TypeInv /\ EndInv /\ Reports
  BY ReportsInit
<1>2. TypeInv /\ EndInv /\ Reports /\ [Next]_vars /\ [LaunchesAgree]_vars
        => (TypeInv /\ EndInv /\ Reports)'
  BY TypeStep, EndStep, LastStep
<1> QED
  BY <1>1, <1>2, PTL DEF Spec

\* FaultExitCode, for any number of launches that agree: the exit code of a
\* fault the client was shown is the fault's, whether the program's thread
\* reports it or the loop that gave the program up.
THEOREM FaultReported == Spec /\ [][LaunchesAgree]_vars => []FaultExitCode
<1>1. Reports => FaultExitCode
  BY DEF Reports, FaultInv
<1> QED
  BY <1>1, ReportsInvariant, PTL

\* NoStopAfterEnd, for any number of launches that agree: the loop reports the
\* end only after _disconnecting is set, and _on_stop reads that under the
\* condition before it announces a stop.
THEOREM EndIsLast == Spec /\ [][LaunchesAgree]_vars => NoStopAfterEnd
<1>1. TypeInv /\ EndInv /\ Reports /\ [Next]_vars
        => [Announce => final = <<>>]_vars
  <2> SUFFICES ASSUME TypeInv, EndInv, Reports, Next, Announce
               PROVE  final = <<>>
    BY DEF Announce, vars
  <2>1. Park
    BY OnlyParkParks DEF Announce
  <2>2. ~NoMoreStops
    BY <2>1 DEF Park, NoMoreStops, Over, NeverRuns
  <2> QED
    BY <2>2 DEF Reports, GivenUp, EndInv
<1> QED
  BY <1>1, ReportsInvariant, PTL DEF NoStopAfterEnd, Spec

\* A session of one launch is such a session.
LEMMA OneLaunchAgrees ==
    ASSUME MaxLaunches = 1, TypeInv, Reports
    PROVE  LaunchesAgree
BY DEF LaunchesAgree, OnLaunch, OnLaunchFailed, TypeInv, TypeOK, Reports,
   OneProgram

\* FaultExitCode and NoStopAfterEnd of every session of one launch.
THEOREM OneLaunch ==
    ASSUME MaxLaunches = 1
    PROVE  Spec => []FaultExitCode /\ NoStopAfterEnd
<1>1. Init => TypeInv /\ EndInv /\ Reports
  BY ReportsInit
<1>2. TypeInv /\ EndInv /\ Reports /\ [Next]_vars
        => (TypeInv /\ EndInv /\ Reports)'
  BY OneLaunchAgrees, TypeStep, EndStep, LastStep
<1>3. TypeInv /\ Reports => LaunchesAgree
  BY OneLaunchAgrees
<1>4. Spec => Spec /\ [][LaunchesAgree]_vars
  BY <1>1, <1>2, <1>3, PTL DEF Spec
<1> QED
  BY <1>4, FaultReported, EndIsLast, PTL

=============================================================================
