----------------------- MODULE SimulationControlProofs -----------------------
(***************************************************************************)
(* The stop protocol between the simulation thread, the timeout thread and *)
(* the user keeps its safety properties for every set of commands, every   *)
(* count and with or without a timeout.                                    *)
(***************************************************************************)
EXTENDS SimulationControl, TLAPS

(***************************************************************************)
(* The inductive invariant, in four parts.                                 *)
(***************************************************************************)
Preparing == {"prepare", "clearReasons", "setRunning"}
Looping == {"loop", "inner", "until"}
Returning == {"stopTimer", "join", "idle"}

\* Where the simulation thread can be in which command: state_ is RUNNING
\* only inside the loops, and next() counts a step it has begun.
PhaseInv ==
    /\ driver = "inner" => command = "next" /\ left > 0
    /\ driver = "until" => command = "until"
    /\ driver = "clearRequest" => command = "step"
    /\ driver = "clearReasons" => command # "step"
    /\ state = "RUNNING" => driver \in Looping \union {"clearRequest"}
    /\ command # "next" \/ driver \in Preparing => ~inCall
    /\ driver = "loop" /\ inCall => stopRequested

\* The timeout thread lives within its command, and asks for a stop only
\* after the timeout: woken by the notification it finds state_ no longer
\* RUNNING.
TimerInv ==
    /\ driver = "idle" \/ command = "step" => timer = "none"
    /\ done /\ timer # "none" => driver = "join"
    /\ timer = "woken" => elapsed \/ done
    /\ timer \in {"accepted", "requested"} =>
           elapsed /\ driver \notin Preparing
    /\ driver \notin {"prepare", "clearReasons"}
           /\ "AFTER_TIMEOUT" \in stopReasons => elapsed

\* A request made in a running command stays until the command has ended,
\* because run(), runUntil() and next() clear it before state_ is RUNNING.
StopInv ==
    /\ asked => driver \notin Preparing
    /\ asked => stopRequested \/ driver = "idle" \/ command = "step"
    /\ StopIsHonoured

\* A request in the loop, unless the program has ended, has a reason or
\* somebody who is about to record one, or was made by a stop that outlived
\* its own command.
Explained ==
    stopReasons # {} \/ timer = "requested" \/ user = "requested" \/ overtaken

ReasonInv ==
    /\ driver \in Preparing /\ user # "none" => overtaken
    /\ driver \in {"clearReasons", "setRunning"} /\ command # "step"
           /\ stopRequested => overtaken
    /\ driver \in Looping /\ stopRequested /\ state # "FINISHED" => Explained
    /\ driver \in Returning /\ state = "STOPPED" => Explained

IInv == TypeOK /\ PhaseInv /\ TimerInv /\ StopInv /\ ReasonInv

\* The state after the simulator has been constructed.
LEMMA InitIInv == Init => IInv
<1> SUFFICES ASSUME Init PROVE IInv
  OBVIOUS
<1>1. /\ \A h \in {elapsed, asked, overtaken} : h \in BOOLEAN
      /\ stopRequested \in BOOLEAN /\ inCall \in BOOLEAN /\ done \in BOOLEAN
  BY Zenon DEF Init
<1>2. TypeOK
  BY <1>1, MaxCountAssumption DEF Init, TypeOK, AllCommands
<1>3. PhaseInv /\ TimerInv /\ StopInv /\ ReasonInv
  BY DEF Init, PhaseInv, TimerInv, StopInv, ReasonInv, Explained, Preparing,
         Looping, Returning, StopIsHonoured
<1> QED
  BY <1>2, <1>3 DEF IInv

\* The reasons that the code inserts are members of enum StopReason.
LEMMA ReasonsAre ==
    \A r \in {"AFTER_STEPPING", "AFTER_UNTIL", "AFTER_TIMEOUT", "BREAKPOINT",
              "USER_REQUESTED", "RUNTIME_ERROR"} : r \in Reasons
BY DEF Reasons

\* Every action keeps the types; a count is never stepped below zero.
LEMMA TypeStep == ASSUME IInv, [Next]_vars PROVE TypeOK'
<1> USE DEF IInv, TypeOK, simulation, thread, history
<1>1. ASSUME NEW c \in Commands, NEW count \in 1..MaxCount,
             StartCommand(c, count)
      PROVE  TypeOK'
  <2>1. /\ done' \in BOOLEAN /\ inCall' \in BOOLEAN
        /\ elapsed' \in BOOLEAN /\ asked' \in BOOLEAN
        /\ overtaken' \in BOOLEAN
    BY <1>1, Zenon DEF StartCommand
  <2>2. left' \in 0..MaxCount /\ command' \in AllCommands
    BY <1>1, CommandsAssumption, MaxCountAssumption DEF StartCommand
  <2> QED
    BY <1>1, <2>1, <2>2 DEF StartCommand
<1>2. ASSUME NEW outcome \in Outcomes, NEW stopPoint \in BOOLEAN,
             NEW call \in BOOLEAN, SimulateCycle(outcome, stopPoint, call)
      PROVE  TypeOK'
  <2>1. /\ stopRequested' \in BOOLEAN /\ inCall' \in BOOLEAN
    BY <1>2, Zenon DEF SimulateCycle
  <2>2. stopReasons' \subseteq Reasons
    BY <1>2, ReasonsAre DEF SimulateCycle, CycleReasons
  <2>3. left' \in 0..MaxCount /\ clockCount' \in 0..1
    BY <1>2, MaxCountAssumption
       DEF SimulateCycle, CyclesLeft, Counted, PhaseInv
  <2>4. /\ state' \in {"FINISHED", state}
        /\ driver' \in {"until", "inner", "loop"}
    BY <1>2 DEF SimulateCycle
  <2> QED
    BY <1>2, <2>1, <2>2, <2>3, <2>4 DEF SimulateCycle
<1>3. CASE ClearRequest
  BY <1>3 DEF ClearRequest
<1>4. CASE ClearReasons
  BY <1>4 DEF ClearReasons
<1>5. CASE SetRunning
  BY <1>5 DEF SetRunning
<1>6. CASE StepClearsRequest
  BY <1>6 DEF StepClearsRequest
<1>7. CASE CountStep
  BY <1>7, MaxCountAssumption DEF CountStep, PhaseInv
<1>8. CASE UntilFinished
  BY <1>8 DEF UntilFinished
<1>9. CASE UntilAddress
  <2>1. stopRequested' \in BOOLEAN
    BY <1>9, Zenon DEF UntilAddress
  <2> QED
    BY <1>9, <2>1, ReasonsAre DEF UntilAddress
<1>10. CASE UntilContinues
  BY <1>10 DEF UntilContinues
<1>11. CASE LeaveLoop
  <2>1. stopRequested' \in BOOLEAN
    BY <1>11, Zenon DEF LeaveLoop
  <2> QED
    BY <1>11, <2>1, ReasonsAre DEF LeaveLoop
<1>12. CASE SetDone
  BY <1>12 DEF SetDone, MutexFree
<1>13. CASE Join
  BY <1>13 DEF Join
<1>14. CASE KillCommand
  BY <1>14 DEF KillCommand
<1>15. CASE TimerElapses
  BY <1>15 DEF TimerElapses
<1>16. CASE TimerNotified
  BY <1>16 DEF TimerNotified
<1>17. CASE TimerChecks
  BY <1>17 DEF TimerChecks
<1>18. CASE TimerRequests
  BY <1>18 DEF TimerRequests, Requests
<1>19. CASE TimerRecords
  BY <1>19, ReasonsAre DEF TimerRecords, Records
<1>20. CASE UserStops
  BY <1>20 DEF UserStops
<1>21. CASE UserRequests
  BY <1>21 DEF UserRequests, Requests
<1>22. CASE UserRecords
  BY <1>22, ReasonsAre DEF UserRecords, Records
<1>23. CASE UNCHANGED vars
  BY <1>23 DEF vars
<1> QED
  BY <1>1, <1>2, <1>3, <1>4, <1>5, <1>6, <1>7, <1>8, <1>9, <1>10, <1>11,
     <1>12, <1>13, <1>14, <1>15, <1>16, <1>17, <1>18, <1>19, <1>20, <1>21,
     <1>22, <1>23
     DEF Next, Drive, Time

\* The simulation thread goes through its phases in order, and nobody but it
\* changes state_ or the counters.
LEMMA PhaseStep == ASSUME IInv, [Next]_vars PROVE PhaseInv'
<1> USE DEF IInv, TypeOK, simulation, thread, history,
           PhaseInv, Preparing, Looping
<1>1. ASSUME NEW c \in Commands, NEW count \in 1..MaxCount,
             StartCommand(c, count)
      PROVE  PhaseInv'
  BY <1>1 DEF StartCommand
<1>2. ASSUME NEW outcome \in Outcomes, NEW stopPoint \in BOOLEAN,
             NEW call \in BOOLEAN, SimulateCycle(outcome, stopPoint, call)
      PROVE  PhaseInv'
  BY <1>2 DEF SimulateCycle, CyclesLeft, Counted, Outcomes
<1>3. CASE ClearRequest
  BY <1>3 DEF ClearRequest
<1>4. CASE ClearReasons
  BY <1>4 DEF ClearReasons
<1>5. CASE SetRunning
  BY <1>5 DEF SetRunning
<1>6. CASE StepClearsRequest
  BY <1>6 DEF StepClearsRequest
<1>7. CASE CountStep
  BY <1>7 DEF CountStep
<1>8. CASE UntilFinished
  BY <1>8 DEF UntilFinished
<1>9. CASE UntilAddress
  BY <1>9 DEF UntilAddress
<1>10. CASE UntilContinues
  BY <1>10 DEF UntilContinues
<1>11. CASE LeaveLoop
  BY <1>11 DEF LeaveLoop
<1>12. CASE SetDone
  BY <1>12 DEF SetDone, MutexFree
<1>13. CASE Join
  BY <1>13 DEF Join
<1>14. CASE KillCommand
  BY <1>14 DEF KillCommand
<1>15. CASE TimerElapses
  BY <1>15 DEF TimerElapses
<1>16. CASE TimerNotified
  BY <1>16 DEF TimerNotified
<1>17. CASE TimerChecks
  BY <1>17 DEF TimerChecks
<1>18. CASE TimerRequests
  BY <1>18 DEF TimerRequests, Requests
<1>19. CASE TimerRecords
  BY <1>19 DEF TimerRecords, Records
<1>20. CASE UserStops
  BY <1>20 DEF UserStops
<1>21. CASE UserRequests
  BY <1>21 DEF UserRequests, Requests
<1>22. CASE UserRecords
  BY <1>22 DEF UserRecords, Records
<1>23. CASE UNCHANGED vars
  BY <1>23 DEF vars
<1> QED
  BY <1>1, <1>2, <1>3, <1>4, <1>5, <1>6, <1>7, <1>8, <1>9, <1>10, <1>11,
     <1>12, <1>13, <1>14, <1>15, <1>16, <1>17, <1>18, <1>19, <1>20, <1>21,
     <1>22, <1>23
     DEF Next, Drive, Time

\* The mutex, the flag done and the join keep the timeout thread inside its
\* command.
LEMMA TimerStep == ASSUME IInv, [Next]_vars PROVE TimerInv'
<1> USE DEF IInv, TypeOK, simulation, thread, history,
           PhaseInv, TimerInv, Preparing, Looping
<1>1. ASSUME NEW c \in Commands, NEW count \in 1..MaxCount,
             StartCommand(c, count)
      PROVE  TimerInv'
  BY <1>1 DEF StartCommand
<1>2. ASSUME NEW outcome \in Outcomes, NEW stopPoint \in BOOLEAN,
             NEW call \in BOOLEAN, SimulateCycle(outcome, stopPoint, call)
      PROVE  TimerInv'
  BY <1>2 DEF SimulateCycle, CyclesLeft, Counted, Outcomes, CycleReasons
<1>3. CASE ClearRequest
  BY <1>3 DEF ClearRequest
<1>4. CASE ClearReasons
  BY <1>4 DEF ClearReasons
<1>5. CASE SetRunning
  BY <1>5 DEF SetRunning
<1>6. CASE StepClearsRequest
  BY <1>6 DEF StepClearsRequest
<1>7. CASE CountStep
  BY <1>7 DEF CountStep
<1>8. CASE UntilFinished
  BY <1>8 DEF UntilFinished
<1>9. CASE UntilAddress
  BY <1>9 DEF UntilAddress
<1>10. CASE UntilContinues
  BY <1>10 DEF UntilContinues
<1>11. CASE LeaveLoop
  BY <1>11 DEF LeaveLoop
<1>12. CASE SetDone
  BY <1>12 DEF SetDone, MutexFree
<1>13. CASE Join
  BY <1>13 DEF Join
<1>14. CASE KillCommand
  BY <1>14 DEF KillCommand
<1>15. CASE TimerElapses
  BY <1>15 DEF TimerElapses
<1>16. CASE TimerNotified
  BY <1>16 DEF TimerNotified
<1>17. CASE TimerChecks
  BY <1>17 DEF TimerChecks
<1>18. CASE TimerRequests
  BY <1>18 DEF TimerRequests, Requests
<1>19. CASE TimerRecords
  BY <1>19 DEF TimerRecords, Records
<1>20. CASE UserStops
  BY <1>20 DEF UserStops
<1>21. CASE UserRequests
  BY <1>21 DEF UserRequests, Requests
<1>22. CASE UserRecords
  BY <1>22 DEF UserRecords, Records
<1>23. CASE UNCHANGED vars
  BY <1>23 DEF vars
<1> QED
  BY <1>1, <1>2, <1>3, <1>4, <1>5, <1>6, <1>7, <1>8, <1>9, <1>10, <1>11,
     <1>12, <1>13, <1>14, <1>15, <1>16, <1>17, <1>18, <1>19, <1>20, <1>21,
     <1>22, <1>23
     DEF Next, Drive, Time

\* No step of run, until or nexti takes back a request.
LEMMA StopStep == ASSUME IInv, [Next]_vars PROVE StopInv'
<1> USE DEF IInv, TypeOK, simulation, thread, history,
           PhaseInv, StopInv, StopIsHonoured, Preparing,
           Looping
<1>1. ASSUME NEW c \in Commands, NEW count \in 1..MaxCount,
             StartCommand(c, count)
      PROVE  StopInv'
  BY <1>1 DEF StartCommand
<1>2. ASSUME NEW outcome \in Outcomes, NEW stopPoint \in BOOLEAN,
             NEW call \in BOOLEAN, SimulateCycle(outcome, stopPoint, call)
      PROVE  StopInv'
  BY <1>2 DEF SimulateCycle, CyclesLeft, Counted, Outcomes
<1>3. CASE ClearRequest
  BY <1>3 DEF ClearRequest
<1>4. CASE ClearReasons
  BY <1>4 DEF ClearReasons
<1>5. CASE SetRunning
  BY <1>5 DEF SetRunning
<1>6. CASE StepClearsRequest
  BY <1>6 DEF StepClearsRequest
<1>7. CASE CountStep
  BY <1>7 DEF CountStep
<1>8. CASE UntilFinished
  BY <1>8 DEF UntilFinished
<1>9. CASE UntilAddress
  BY <1>9 DEF UntilAddress
<1>10. CASE UntilContinues
  BY <1>10 DEF UntilContinues
<1>11. CASE LeaveLoop
  BY <1>11 DEF LeaveLoop
<1>12. CASE SetDone
  BY <1>12 DEF SetDone, MutexFree
<1>13. CASE Join
  BY <1>13 DEF Join
<1>14. CASE KillCommand
  BY <1>14 DEF KillCommand
<1>15. CASE TimerElapses
  BY <1>15 DEF TimerElapses
<1>16. CASE TimerNotified
  BY <1>16 DEF TimerNotified
<1>17. CASE TimerChecks
  BY <1>17 DEF TimerChecks
<1>18. CASE TimerRequests
  BY <1>18 DEF TimerRequests, Requests
<1>19. CASE TimerRecords
  BY <1>19 DEF TimerRecords, Records
<1>20. CASE UserStops
  BY <1>20 DEF UserStops
<1>21. CASE UserRequests
  BY <1>21 DEF UserRequests, Requests
<1>22. CASE UserRecords
  BY <1>22 DEF UserRecords, Records
<1>23. CASE UNCHANGED vars
  BY <1>23 DEF vars
<1> QED
  BY <1>1, <1>2, <1>3, <1>4, <1>5, <1>6, <1>7, <1>8, <1>9, <1>10, <1>11,
     <1>12, <1>13, <1>14, <1>15, <1>16, <1>17, <1>18, <1>19, <1>20, <1>21,
     <1>22, <1>23
     DEF Next, Drive, Time

\* Whoever sets the flag also records a reason, before or shortly after.
LEMMA ReasonStep == ASSUME IInv, [Next]_vars PROVE ReasonInv'
<1> USE DEF IInv, TypeOK, simulation, thread, history,
           PhaseInv, TimerInv, ReasonInv, Explained,
           Preparing, Looping, Returning
<1>1. ASSUME NEW c \in Commands, NEW count \in 1..MaxCount,
             StartCommand(c, count)
      PROVE  ReasonInv'
  BY <1>1 DEF StartCommand
<1>2. ASSUME NEW outcome \in Outcomes, NEW stopPoint \in BOOLEAN,
             NEW call \in BOOLEAN, SimulateCycle(outcome, stopPoint, call)
      PROVE  ReasonInv'
  BY <1>2 DEF SimulateCycle, CyclesLeft, Counted, Outcomes, CycleReasons
<1>3. CASE ClearRequest
  BY <1>3 DEF ClearRequest
<1>4. CASE ClearReasons
  BY <1>4 DEF ClearReasons
<1>5. CASE SetRunning
  BY <1>5 DEF SetRunning
<1>6. CASE StepClearsRequest
  BY <1>6 DEF StepClearsRequest
<1>7. CASE CountStep
  BY <1>7 DEF CountStep
<1>8. CASE UntilFinished
  BY <1>8 DEF UntilFinished
<1>9. CASE UntilAddress
  BY <1>9 DEF UntilAddress
<1>10. CASE UntilContinues
  BY <1>10 DEF UntilContinues
<1>11. CASE LeaveLoop
  BY <1>11 DEF LeaveLoop
<1>12. CASE SetDone
  BY <1>12 DEF SetDone, MutexFree
<1>13. CASE Join
  BY <1>13 DEF Join
<1>14. CASE KillCommand
  BY <1>14 DEF KillCommand
<1>15. CASE TimerElapses
  BY <1>15 DEF TimerElapses
<1>16. CASE TimerNotified
  BY <1>16 DEF TimerNotified
<1>17. CASE TimerChecks
  BY <1>17 DEF TimerChecks
<1>18. CASE TimerRequests
  BY <1>18 DEF TimerRequests, Requests
<1>19. CASE TimerRecords
  BY <1>19 DEF TimerRecords, Records
<1>20. CASE UserStops
  BY <1>20 DEF UserStops
<1>21. CASE UserRequests
  BY <1>21 DEF UserRequests, Requests
<1>22. CASE UserRecords
  BY <1>22 DEF UserRecords, Records
<1>23. CASE UNCHANGED vars
  BY <1>23 DEF vars
<1> QED
  BY <1>1, <1>2, <1>3, <1>4, <1>5, <1>6, <1>7, <1>8, <1>9, <1>10, <1>11,
     <1>12, <1>13, <1>14, <1>15, <1>16, <1>17, <1>18, <1>19, <1>20, <1>21,
     <1>22, <1>23
     DEF Next, Drive, Time

\* Every reachable state of the stop protocol satisfies the invariant.
THEOREM Invariance == Spec => []IInv
<1>1. IInv /\ [Next]_vars => IInv'
  BY TypeStep, PhaseStep, TimerStep, StopStep, ReasonStep DEF IInv
<1> QED
  BY <1>1, InitIInv, PTL DEF Spec

\* Variables keep their types: in particular stepi and nexti never count
\* below zero (SimulationController::step, next).
THEOREM TypeCorrect == Spec => []TypeOK
<1>1. IInv => TypeOK
  BY DEF IInv
<1> QED
  BY <1>1, Invariance, PTL

\* No command ever shows a timeout that has not passed, and no timeout thread
\* outlives its command (timeoutThread, SimulatorFrontend::run, runUntil and
\* next).
THEOREM TimeoutsAreTrue == Spec => []TimeoutReasonIsTrue
<1>1. IInv => TimeoutReasonIsTrue
  BY DEF IInv, TimerInv, TimeoutReasonIsTrue
<1> QED
  BY <1>1, Invariance, PTL

\* A simulation that has stopped without having ended shows a reason
\* (SimulationController's loops, TTASimulationController::prepareToStop).
THEOREM StopsAreExplained == Spec => []StopIsExplained
<1>1. IInv => StopIsExplained
  BY DEF IInv, TimerInv, ReasonInv, Explained, Returning, StopIsExplained
<1> QED
  BY <1>1, Invariance, PTL

\* A stop requested while run, until or nexti is running ends the command
\* before another cycle begins (SimulationController::run, runUntil, next).
\* The same is not true of stepi: see ControlStopStep.cfg.
THEOREM StopsAreHonoured == Spec => []StopIsHonoured
<1>1. IInv => StopIsHonoured
  BY DEF IInv, StopInv
<1> QED
  BY <1>1, Invariance, PTL
==============================================================================
