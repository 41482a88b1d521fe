-------------------------- MODULE DapPatientProofs --------------------------
(***************************************************************************)
(* What a client that waits for the next `stopped` event after each resume *)
(* is promised: what it inspects is the stop it was told of, its handles   *)
(* name nothing older, and it never resumes a fault.  DapSession_inspect   *)
(* and DapSession_fault show that an impatient one is promised neither.    *)
(* And the session it talks to implements ClientLifecycle.                 *)
(***************************************************************************)
EXTENDS DapSessionProofs

\* Once _disconnecting is set, the loop is on its way out.
Leaving ==
    \/ loop.at \in {"kill", "killPause", "killJoin", "endSession", "wait",
                    "waitJoin", "waitAlive", "done"}
    \/ loop.at \in {"end", "emitExited", "emitTerminated"}
       /\ loop.then = "leave"
    \/ loop.at = "loop" /\ ~running

\* There is a suspension while the program waits in _on_stop, and no longer.
ParkInv ==
    /\ disconnecting => Leaving
    /\ vm.at = "parked" => Suspended
    /\ Suspended => vm.at \in {"parked", "killed"}
    /\ vm.at = "killed" => loop.at = "done"
    /\ vm.at # "none" => started

\* The loop works on a stop nothing has resumed, and the client knows of none
\* once something has.
Attending == {"resumeReply", "release", "inspect", "inspectReply"}
TurnInv ==
    /\ loop.at \in Attending => vm.at = "parked" /\ suspension.resume = None
    /\ loop.at \in {"resumeReply", "release"} => suspension.reason # "FAULT"
    /\ loop.at = "release" => shown = None \/ ~open
    /\ suspension.resume # None => shown = None \/ ~open

\* What has been read, and what has been handed out, is of the stop in place.
FreshInv ==
    /\ loop.at = "inspectReply" => loop.read = "current"
    /\ HandlesCurrent
    /\ FaultNotResumed

PatientInv == ParkInv /\ TurnInv /\ FreshInv

\* A request arrives.
LEMMA PatientClient ==
    ASSUME PatientInv, ClientRequest, TypeInv, Patient
    PROVE  PatientInv'
<1> USE DEF PatientInv, ParkInv, TurnInv, FreshInv, Leaving, Attending,
            HandlesCurrent, FaultNotResumed, Suspended, NoSuspension,
            TypeInv, TypeOK, LoopLocals, Loops, LoopPoints, Threads, VmPoints,
            handoff, config, wire, Sending, Goto, VmGoto, None
<1>r. ASSUME NEW mode \in ResumeModes, OnResume(mode) PROVE PatientInv'
  <2>1. /\ loop.at = "read" /\ (open /\ shown # None)
        /\ UNCHANGED <<vm, handoff, config, open, wire, handles>>
    BY <1>r DEF OnResume, ClientMayAsk
  <2>2. /\ loop'.at \in {"loop", "resumeReply"}
        /\ loop'.at = "resumeReply" => Suspended /\ suspension.reason # "FAULT"
    BY <1>r DEF OnResume, RefuseResume
  <2> QED
    BY <2>1, <2>2
<1>1. CASE OnOther
  BY <1>1 DEF OnOther
<1>2. CASE OnLaunchFailed
  BY <1>2 DEF OnLaunchFailed
<1>3. CASE OnLaunch
  BY <1>3 DEF OnLaunch
<1>4. CASE OnConfigurationDone
  BY <1>4 DEF OnConfigurationDone
<1>5. CASE OnInspect
  BY <1>5 DEF OnInspect, ClientMayAsk
<1>6. CASE OnPause
  BY <1>6 DEF OnPause, Alive
<1>7. CASE OnDisconnect
  BY <1>7 DEF OnDisconnect
<1>8. CASE ReadEof
  BY <1>8 DEF ReadEof
<1> QED
  BY <1>r, <1>1, <1>2, <1>3, <1>4, <1>5, <1>6, <1>7, <1>8 DEF ClientRequest

\* The request loop takes a step.
LEMMA PatientLoop ==
    ASSUME PatientInv, LoopStep, TypeInv, Patient
    PROVE  PatientInv'
<1> USE DEF PatientInv, ParkInv, TurnInv, FreshInv, Leaving, Attending,
            HandlesCurrent, FaultNotResumed, Suspended, NoSuspension,
            TypeInv, TypeOK, LoopLocals, Loops, LoopPoints, Threads, VmPoints,
            handoff, config, wire, Sending, Goto, VmGoto, None
<1>1. CASE Serve
  BY <1>1 DEF Serve
<1>2. CASE StartIfReady
  <2>1. /\ loop.at = "start" /\ loop'.at = "loop"
        /\ UNCHANGED <<handoff, running, open, wire, handles>>
    BY <1>2 DEF StartIfReady
  <2>2. \/ UNCHANGED <<vm, started>>
        \/ vm.at = "none" /\ vm'.at = "begin" /\ started'
    BY <1>2 DEF StartIfReady
  <2> QED
    BY <2>1, <2>2
<1>3. CASE ResumeReply
  BY <1>3 DEF ResumeReply
<1>4. CASE Release
  <2>1. /\ loop.at = "release" /\ loop'.at = "loop"
        /\ UNCHANGED <<vm, disconnecting, ended, running, config, open, wire,
                      handles>>
    BY <1>4 DEF Release
  <2>2. /\ suspension.reason # "FAULT" /\ Suspended
        /\ vm.at = "parked" /\ (shown = None \/ ~open) /\ ~disconnecting
    BY <2>1
  <2>3. suspension' = [suspension EXCEPT !.resume = loop.mode]
    BY <1>4, <2>2 DEF Release
  <2>4. suspension \in Suspensions
    BY <2>2
  <2>5. suspension'.reason = suspension.reason /\ suspension'.reason # None
    BY <2>3, <2>4 DEF Suspensions, StopReasons
  <2> QED
    BY <2>1, <2>2, <2>5
<1>5. CASE InspectRead
  BY <1>5 DEF InspectRead
<1>6. CASE InspectReply
  BY <1>6 DEF InspectReply
<1>7. CASE PauseSet
  BY <1>7 DEF PauseSet
<1>8. CASE Kill
  BY <1>8 DEF Kill, Alive
<1>9. CASE KillPause
  BY <1>9 DEF KillPause
<1>10. CASE KillJoin
  BY <1>10 DEF KillJoin
<1>11. CASE EndSession
  <2>1. /\ loop.at = "endSession"
        /\ UNCHANGED <<vm, handoff, config, open, wire, handles>>
        /\ \/ loop'.at = "end" /\ loop'.then = "leave"
           \/ loop'.at = "loop" /\ ~running'
    BY <1>11 DEF EndSession
  <2> QED
    BY <2>1
<1>12. CASE Wait
  BY <1>12 DEF Wait
<1>13. CASE WaitJoin
  BY <1>13 DEF WaitJoin
<1>14. CASE WaitAlive
  BY <1>14 DEF WaitAlive, Alive
<1>15. CASE LoopEnd
  <2>1. /\ loop.at = "end" /\ loop'.then = loop.then
        /\ UNCHANGED <<vm, suspension, disconnecting, config, open, wire,
                      handles>>
        /\ \/ loop'.at = "loop" /\ running' = (running /\ loop.then = "loop")
           \/ loop'.at \in {"emitExited", "emitTerminated"}
    BY <1>15 DEF LoopEnd, AfterGuard
  <2> QED
    BY <2>1
<1>16. CASE LoopEmitExited
  BY <1>16 DEF LoopEmitExited
<1>17. CASE LoopEmitTerminated
  BY <1>17 DEF LoopEmitTerminated
<1> QED
  BY <1>1, <1>2, <1>3, <1>4, <1>5, <1>6, <1>7, <1>8, <1>9, <1>10, <1>11, <1>12,
     <1>13, <1>14, <1>15, <1>16, <1>17 DEF LoopStep

\* The program's thread takes a step.
LEMMA PatientVm ==
    ASSUME PatientInv, VmStep, TypeInv, Patient
    PROVE  PatientInv'
<1> USE DEF PatientInv, ParkInv, TurnInv, FreshInv, Leaving, Attending,
            HandlesCurrent, FaultNotResumed, Suspended, NoSuspension,
            TypeInv, TypeOK, LoopLocals, Loops, LoopPoints, Threads, VmPoints,
            handoff, config, wire, Sending, Goto, VmGoto, None
<1>1. CASE Begin
  BY <1>1 DEF Begin
<1>2. CASE HookPause
  BY <1>2 DEF HookPause
<1>3. CASE HookPauseClear
  BY <1>3 DEF HookPauseClear, StopFor
<1>4. CASE HookStop
  <2>1. /\ vm.at = "hook" /\ vm'.at = "onStop"
        /\ UNCHANGED <<loop, handoff, running, config, open, wire, handles>>
    BY <1>4 DEF HookStop, StopFor
  <2> QED
    BY <2>1
<1>5. CASE HookReturn
  BY <1>5 DEF HookReturn
<1>6. CASE Exec
  BY <1>6 DEF Exec
<1>7. CASE ExecFault
  BY <1>7 DEF ExecFault, StopFor
<1>8. CASE ExecStuck
  BY <1>8 DEF ExecStuck
<1>9. CASE ExecLeave
  BY <1>9 DEF ExecLeave
<1>10. CASE OnStop
  BY <1>10 DEF OnStop, ResumeModes
<1>11. CASE ParkQuit
  BY <1>11 DEF ParkQuit
<1>12. CASE Park
  <2>1. /\ vm.at = "park" /\ vm'.at = "parked" /\ ~disconnecting
        /\ UNCHANGED <<loop, disconnecting, ended, config, open>>
        /\ suspension' = [reason |-> vm.stop, resume |-> None]
        /\ handles' = {}
    BY <1>12 DEF Park, ClearedHandles
  <2>2. Suspended' /\ (suspension.resume = None)'
    <3>1. vm.stop # None
      BY <2>1 DEF VmLocals
    <3> QED
      BY <2>1, <3>1
  <2>3. loop.at \notin Attending
    BY <2>1
  <2> QED
    BY <2>1, <2>2, <2>3
<1>13. CASE Wake
  BY <1>13 DEF Wake, Aged, WaitOver
<1>14. CASE RunQuit
  BY <1>14 DEF RunQuit, EndCode
<1>15. CASE RunVmError
  BY <1>15 DEF RunVmError, RunLeave
<1>16. CASE RunBroken
  BY <1>16 DEF RunBroken, RunLeave
<1>17. CASE RunFinish
  BY <1>17 DEF RunFinish, RunLeave
<1>18. CASE VmEnd
  BY <1>18 DEF VmEnd, AfterGuard
<1>19. CASE VmEmitExited
  BY <1>19 DEF VmEmitExited
<1>20. CASE VmEmitTerminated
  BY <1>20 DEF VmEmitTerminated
<1> QED
  BY <1>1, <1>2, <1>3, <1>4, <1>5, <1>6, <1>7, <1>8, <1>9, <1>10, <1>11, <1>12,
     <1>13, <1>14, <1>15, <1>16, <1>17, <1>18, <1>19, <1>20 DEF VmStep

LEMMA PatientStep ==
    ASSUME TypeInv, PatientInv, Patient, [Next]_vars
    PROVE  PatientInv'
<1> USE DEF PatientInv, ParkInv, TurnInv, FreshInv, Leaving, Attending,
            HandlesCurrent, FaultNotResumed, Suspended, NoSuspension,
            handoff, config, wire
<1>1. CASE LoseTransport
  BY <1>1 DEF LoseTransport
<1>2. CASE ProcessExit
  BY <1>2 DEF ProcessExit, VmGoto, TypeInv, TypeOK, Threads, Alive
<1>3. CASE UNCHANGED vars
  BY <1>3 DEF vars
<1> QED
  BY <1>1, <1>2, <1>3, PatientClient, PatientLoop, PatientVm DEF Next, Finished

LEMMA PatientInit == Init => PatientInv
BY DEF Init, None, PatientInv, ParkInv, TurnInv, FreshInv, Leaving, Attending,
   HandlesCurrent, FaultNotResumed, Suspended, NoSuspension

LEMMA PatientAlways ==
    ASSUME Patient
    PROVE  Spec => [](TypeInv /\ PatientInv)
<1>1. Init => TypeInv /\ PatientInv
  BY TypeInit, PatientInit
<1>2. TypeInv /\ PatientInv /\ [Next]_vars => (TypeInv /\ PatientInv)'
  BY TypeStep, PatientStep
<1> QED
  BY <1>1, <1>2, PTL DEF Spec

\* What a patient client asks to see is read while the program waits where it
\* was announced to be, for any number of launches (session.py:644-649).
THEOREM PatientClientServed ==
    ASSUME Patient
    PROVE  Spec => []InspectionParked
<1>1. PatientInv => InspectionParked
  BY DEF PatientInv, TurnInv, Attending, InspectionParked
<1> QED
  BY <1>1, PatientAlways, PTL

\* And no handle it holds at a stop names a state the program has left: the
\* stop clears them before it is announced (session.py:742), and no request
\* that was under way when the program was resumed adds one after.
THEOREM PatientHandles ==
    ASSUME Patient
    PROVE  Spec => []HandlesCurrent
<1>1. PatientInv => HandlesCurrent
  BY DEF PatientInv, FreshInv
<1> QED
  BY <1>1, PatientAlways, PTL

\* A patient client's resume is never written into a stop for a fault: what
\* _refuse_resume read is still so when _release writes (session.py:654-680).
THEOREM PatientFaultStays ==
    ASSUME Patient
    PROVE  Spec => []FaultNotResumed
<1>1. PatientInv => FaultNotResumed
  BY DEF PatientInv, FreshInv
<1> QED
  BY <1>1, PatientAlways, PTL

-----------------------------------------------------------------------------
(* The session implements ClientLifecycle: with a patient client, and with *)
(* launches that all compile or all fail, every event the client sees is   *)
(* one the lifecycle allows next.                                          *)

\* The stop the client looks at is the one the program waits in, unless the
\* program has been given up; and a fault it looks at was shown to it.
ShownInv ==
    /\ (open /\ shown # None) => vm.at \in {"parked", "killed"} \/ disconnecting
    /\ (open /\ vm.at = "parked") => shown \in {None, suspension.reason}
    /\ shown = "FAULT" => faultShown

SeenInv == TypeInv /\ EndInv /\ Reports /\ PatientInv /\ ShownInv

\* A step of which nothing reaches the client.
Unseen == UNCHANGED <<shown, faultShown, final>>

\* Such a step keeps ShownInv as long as the program stays where it is, or the
\* client has been told to expect that it leaves.
LEMMA UnseenKeepsShown ==
    ASSUME ShownInv, Unseen, disconnecting => disconnecting', open' => open,
           \/ UNCHANGED vm.at /\ suspension'.reason = suspension.reason
           \/ vm.at \notin {"parked", "killed"} /\ vm'.at # "parked"
           \/ vm'.at = "killed"
    PROVE  ShownInv'
BY DEF ShownInv, Unseen

LEMMA UnseenClient ==
    ASSUME ClientRequest
    PROVE  Unseen /\ UNCHANGED <<vm, handoff, open>>
<1> USE DEF Unseen, handoff, config, wire
<1>r. ASSUME NEW mode \in ResumeModes, OnResume(mode)
      PROVE  Unseen /\ UNCHANGED <<vm, handoff, open>>
  BY <1>r DEF OnResume
<1> QED
  BY <1>r DEF ClientRequest, OnOther, OnLaunchFailed, OnLaunch,
     OnConfigurationDone, OnInspect, OnPause, OnDisconnect, ReadEof

\* The loop answers a resume, and reports the end; nothing else it does shows.
LEMMA UnseenLoop ==
    ASSUME TypeInv, PatientInv, LoopStep,
           ~ResumeReply, ~LoopEmitExited, ~LoopEmitTerminated
    PROVE  /\ Unseen /\ UNCHANGED open /\ (disconnecting => disconnecting')
           /\ \/ UNCHANGED vm.at /\ suspension'.reason = suspension.reason
              \/ vm.at \notin {"parked", "killed"} /\ vm'.at # "parked"
<1> USE DEF Unseen, handoff, config, wire
<1>1. CASE StartIfReady
  <2>1. vm.at # "none" => started
    BY DEF PatientInv, ParkInv
  <2> QED
    BY <1>1, <2>1 DEF StartIfReady, VmGoto, TypeInv, TypeOK, Threads
<1>2. CASE Release
  <2>1. suspension'.reason = suspension.reason
    BY <1>2 DEF Release, TypeInv, TypeOK, Suspensions, NoSuspension
  <2> QED
    BY <1>2, <2>1 DEF Release
<1>3. CASE Serve \/ Wait \/ WaitJoin \/ WaitAlive \/ InspectRead \/ InspectReply
  BY <1>3 DEF Serve, Wait, WaitJoin, WaitAlive, InspectRead, InspectReply
<1>4. CASE PauseSet \/ Kill \/ KillPause \/ KillJoin \/ EndSession \/ LoopEnd
  BY <1>4 DEF PauseSet, Kill, KillPause, KillJoin, EndSession, LoopEnd
<1> QED
  BY <1>1, <1>2, <1>3, <1>4 DEF LoopStep

\* The program's thread announces its stops, and reports the end.
LEMMA UnseenVm ==
    ASSUME TypeInv, VmStep, ~Park, ~Wake, ~VmEmitExited, ~VmEmitTerminated
    PROVE  /\ Unseen /\ UNCHANGED open /\ (disconnecting => disconnecting')
           /\ vm.at \notin {"parked", "killed"} /\ vm'.at # "parked"
<1> USE DEF Unseen, handoff, config, wire, VmGoto, TypeInv, TypeOK, Threads
<1>1. CASE Begin \/ HookPause \/ HookPauseClear \/ HookStop \/ HookReturn
  BY <1>1 DEF Begin, HookPause, HookPauseClear, HookStop, HookReturn, StopFor
<1>2. CASE Exec \/ ExecFault \/ ExecStuck \/ ExecLeave
  BY <1>2 DEF Exec, ExecFault, ExecStuck, ExecLeave, StopFor
<1>3. CASE OnStop \/ ParkQuit \/ VmEnd
  BY <1>3 DEF OnStop, ParkQuit, VmEnd, AfterGuard
<1>4. CASE RunQuit \/ RunVmError \/ RunBroken \/ RunFinish
  BY <1>4 DEF RunQuit, RunVmError, RunBroken, RunFinish, RunLeave
<1> QED
  BY <1>1, <1>2, <1>3, <1>4 DEF VmStep

\* The six steps the client may see.
Seen ==
    ResumeReply \/ LoopEmitExited \/ LoopEmitTerminated
    \/ Park \/ VmEmitExited \/ VmEmitTerminated

LEMMA ShownStep ==
    ASSUME SeenInv, [Next]_vars
    PROVE  ShownInv' /\ (Seen \/ Unseen)
<1> USE DEF SeenInv
<1>1. CASE ClientRequest
  BY <1>1, UnseenClient, UnseenKeepsShown DEF handoff
<1>2. CASE LoopStep /\ ~Seen
  BY <1>2, UnseenLoop, UnseenKeepsShown DEF Seen
<1>3. CASE VmStep /\ ~Seen /\ ~Wake
  BY <1>3, UnseenVm, UnseenKeepsShown DEF Seen
<1>4. CASE Wake
  <2>1. /\ Unseen /\ UNCHANGED <<open, disconnecting>> /\ vm'.at # "parked"
        /\ vm.at = "parked" /\ (suspension.resume # None \/ disconnecting)
    BY <1>4 DEF Wake, WaitOver, Unseen, wire, TypeInv, TypeOK, Threads
  <2>2. disconnecting \/ shown = None \/ ~open
    BY <2>1 DEF PatientInv, TurnInv
  <2> QED
    BY <2>1, <2>2 DEF ShownInv, Unseen
<1>5. CASE LoseTransport \/ UNCHANGED vars
  BY <1>5 DEF LoseTransport, vars, handoff, wire, ShownInv, Unseen
<1>6. CASE ProcessExit
  <2>1. Unseen /\ UNCHANGED <<open, disconnecting>> /\ vm'.at = "killed"
    BY <1>6 DEF ProcessExit, VmGoto, TypeInv, TypeOK, Threads, handoff, wire,
       Unseen
  <2> QED
    BY <2>1, UnseenKeepsShown
<1>7. CASE ResumeReply
  <2>1. UNCHANGED <<vm, suspension, disconnecting, open, faultShown>>
        /\ shown' = IF open THEN None ELSE shown
    BY <1>7 DEF ResumeReply, handoff
  <2> QED
    BY <1>7, <2>1 DEF ShownInv, Seen, None
<1>8. CASE LoopEmitExited \/ LoopEmitTerminated
  BY <1>8 DEF LoopEmitExited, LoopEmitTerminated, handoff, ShownInv, Seen
<1>9. CASE VmEmitExited \/ VmEmitTerminated
  <2>1. /\ vm'.at \in {"emitTerminated", "dead"}
        /\ vm.at \in {"emitExited", "emitTerminated"}
        /\ UNCHANGED <<suspension, disconnecting, open, shown, faultShown>>
    BY <1>9 DEF VmEmitExited, VmEmitTerminated, VmGoto, TypeInv, TypeOK, Threads,
       handoff
  <2> QED
    BY <1>9, <2>1 DEF ShownInv, Seen
<1>10. CASE Park
  <2>1. /\ shown' = IF open THEN vm.stop ELSE shown
        /\ faultShown' = (faultShown \/ (open /\ vm.stop = "FAULT"))
        /\ suspension'.reason = vm.stop /\ vm'.at = "parked"
        /\ UNCHANGED open
    BY <1>10 DEF Park, VmGoto, TypeInv, TypeOK, Threads
  <2> QED
    BY <1>10, <2>1 DEF ShownInv, Seen
<1> QED
  BY <1>1, <1>2, <1>3, <1>4, <1>5, <1>6, <1>7, <1>8, <1>9, <1>10 DEF Next,
     Finished, Seen

\* A stop is announced to a client that looks at none, and before the end.
LEMMA ParkIsStopped ==
    ASSUME SeenInv, Park
    PROVE  [Lifecycle!Next]_<<shown, final>>
<1>1. /\ shown' = (IF open THEN vm.stop ELSE shown) /\ final' = final
      /\ vm.at = "park" /\ ~disconnecting
  BY DEF Park
<1>2. final = <<>>
  BY <1>1 DEF SeenInv, Reports, GivenUp, NoMoreStops, Over, NeverRuns, EndInv
<1>3. CASE open
  <2>1. shown = None
    BY <1>1, <1>3 DEF SeenInv, ShownInv
  <2>2. vm.stop \in StopReasons
    BY <1>1 DEF SeenInv, TypeInv, TypeOK, Threads, VmLocals
  <2>3. Lifecycle!Stopped(vm.stop)
    BY <1>1, <1>2, <1>3, <2>1 DEF Lifecycle!Stopped
  <2> QED
    BY <2>2, <2>3 DEF Lifecycle!Next
<1> QED
  BY <1>1, <1>3

\* The resume that is answered is of a stop that is not a fault.
LEMMA ReplyIsResumed ==
    ASSUME SeenInv, ResumeReply
    PROVE  [Lifecycle!Next]_<<shown, final>>
<1>1. /\ shown' = (IF open THEN None ELSE shown) /\ final' = final
      /\ loop.at = "resumeReply"
  BY DEF ResumeReply
<1>2. vm.at = "parked" /\ suspension.reason # "FAULT"
  BY <1>1 DEF SeenInv, PatientInv, TurnInv, Attending
<1>3. CASE open /\ shown # None
  <2>1. shown # "FAULT"
    BY <1>2, <1>3 DEF SeenInv, ShownInv
  <2>2. Lifecycle!Resumed
    BY <1>1, <1>3, <2>1 DEF Lifecycle!Resumed
  <2> QED
    BY <2>2 DEF Lifecycle!Next
<1> QED
  BY <1>1, <1>3

\* Whichever thread reports an exit code, it is the first report, and a fault's
\* if the client looks at one.
LEMMA ReportIsExited ==
    ASSUME SeenInv, FaultExitCode', LoopEmitExited \/ VmEmitExited
    PROVE  [Lifecycle!Next]_<<shown, final>>
<1>1. PICK code \in ExitCodes :
          /\ final' = IF open THEN Append(final, code) ELSE final
          /\ UNCHANGED <<shown, faultShown>>
  <2>1. CASE LoopEmitExited
    BY <2>1 DEF LoopEmitExited, Report, SeenInv, TypeInv, TypeOK, LoopLocals,
       Loops, ExitCodes
  <2>2. CASE VmEmitExited
    BY <2>2 DEF VmEmitExited, Report, SeenInv, TypeInv, TypeOK, VmLocals,
       Threads
  <2> QED
    BY <2>1, <2>2
<1>2. final = <<>>
  BY DEF LoopEmitExited, VmEmitExited, SeenInv, EndInv
<1>3. CASE open
  <2>1. final' = <<code>>
    BY <1>1, <1>2, <1>3, ReportGrows
  <2>2. shown = "FAULT" => code = "fault"
    BY <1>1, <2>1, HeadFirst DEF SeenInv, ShownInv, FaultExitCode
  <2>3. Lifecycle!Exited(code)
    BY <1>1, <1>2, <2>1, <2>2 DEF Lifecycle!Exited
  <2> QED
    BY <2>3 DEF Lifecycle!Next, ExitCodes
<1> QED
  BY <1>1, <1>3

LEMMA ReportIsTerminated ==
    ASSUME SeenInv, LoopEmitTerminated \/ VmEmitTerminated
    PROVE  [Lifecycle!Next]_<<shown, final>>
<1>1. /\ final' = IF open THEN Append(final, "terminated") ELSE final
      /\ UNCHANGED shown
  BY DEF LoopEmitTerminated, VmEmitTerminated, Report
<1>2. "emitTerminated" \in {loop.at, vm.at}
  BY DEF LoopEmitTerminated, VmEmitTerminated
<1>3. final \in {<<>>} \cup {<<c>> : c \in ExitCodes}
  BY <1>2 DEF SeenInv, EndInv
<1>4. CASE open
  <2>1. shown = "FAULT" => faultShown /\ final # <<>>
    BY <1>2, <1>4 DEF SeenInv, ShownInv, Reports, FaultInv
  <2>2. shown = "FAULT" => final = <<"fault">>
    BY <1>3, <2>1, HeadFirst DEF SeenInv, Reports, FaultInv, FaultExitCode
  <2>3. Lifecycle!Terminated
    BY <1>1, <1>3, <1>4, <2>2 DEF Lifecycle!Terminated, ExitCodes
  <2> QED
    BY <2>3 DEF Lifecycle!Next
<1> QED
  BY <1>1, <1>4

\* LifecycleSpec, for any number of launches that agree: what a patient client
\* sees is a behaviour of ClientLifecycle.
THEOREM ImplementsLifecycle ==
    ASSUME Patient
    PROVE  Spec /\ [][LaunchesAgree]_vars => LifecycleSpec
<1>1. Init => SeenInv /\ Lifecycle!Init
  <2> SUFFICES ASSUME Init PROVE SeenInv /\ Lifecycle!Init
    OBVIOUS
  <2>1. ShownInv /\ Lifecycle!Init
    BY DEF Init, Lifecycle!Init, ShownInv, None
  <2> QED
    BY <2>1, ReportsInit, PatientInit DEF SeenInv
<1>2. SeenInv /\ [Next]_vars /\ [LaunchesAgree]_vars => SeenInv'
  BY TypeStep, EndStep, LastStep, PatientStep, ShownStep DEF SeenInv
<1>3. SeenInv /\ [Next]_vars /\ [LaunchesAgree]_vars
        => [Lifecycle!Next]_<<shown, final>>
  <2> SUFFICES ASSUME SeenInv, [Next]_vars, [LaunchesAgree]_vars
               PROVE  [Lifecycle!Next]_<<shown, final>>
    OBVIOUS
  <2>1. CASE Unseen
    BY <2>1 DEF Unseen
  <2>2. FaultExitCode'
    BY <1>2 DEF SeenInv, Reports, FaultInv
  <2> QED
    BY <2>1, <2>2, ShownStep, ParkIsStopped, ReplyIsResumed, ReportIsExited,
       ReportIsTerminated DEF Seen
<1> QED
  BY <1>1, <1>2, <1>3, PTL DEF Spec, LifecycleSpec, Lifecycle!Spec

=============================================================================
