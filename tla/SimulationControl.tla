-------------------------- MODULE SimulationControl --------------------------
(***************************************************************************)
(* Who starts and who stops a simulation.  The simulation thread executes  *)
(* a command of the user (run or resume, until, stepi, nexti, kill) in     *)
(* SimulatorFrontend and SimulationController; SimulatorFrontend's timeout *)
(* thread, and a Ctrl-C handler or the GUI thread, ask it to stop through  *)
(* SimulatorFrontend::prepareToStop, which is not synchronised with the    *)
(* simulation loop.  A step below is a piece of code between two accesses  *)
(* to state_, stopRequested_ or stopReasons_; adjacent accesses are merged *)
(* where no step of another thread between them leads to a state that is   *)
(* not reached otherwise.                                                  *)
(*                                                                         *)
(* simulateCycle is one step that may meet a stop point, end the program   *)
(* or fail; what is simulated is the subject of the other modules.         *)
(***************************************************************************)
EXTENDS Naturals

CONSTANTS
    Commands,    \* the commands the user gives, a subset of AllCommands
    MaxCount,    \* bound: largest count given to stepi and nexti
    HasTimeout   \* simulationTimeout_ is not zero

AllCommands == {"run", "until", "step", "next"}

ASSUME CommandsAssumption == Commands \subseteq AllCommands
ASSUME MaxCountAssumption == MaxCount \in Nat
ASSUME TimeoutAssumption == HasTimeout \in BOOLEAN

VARIABLES
    state,          \* state_
    stopRequested,  \* stopRequested_
    stopReasons,    \* stopReasons_
    driver,         \* where the simulation thread is
    command,        \* the command it executes
    left,           \* cycles or steps of stepi and nexti still to do
    inCall,         \* inCalledProcedure of next()
    clockCount,     \* clockCount_ modulo 2: a simulated cycle is progress
    timer,          \* where the timeout thread is
    done,           \* the flag it waits for
    user,           \* where the thread (or handler) of a user's stop is
    elapsed,        \* history: the timeout of this command has passed
    asked,          \* history: a stop was requested in this command
    late,           \* history: commands that began a cycle after a request
    overtaken       \* history: a user's stop outlived its command

simulation == <<state, stopRequested, stopReasons>>
thread == <<driver, command, left, inCall, clockCount>>
history == <<elapsed, asked, late, overtaken>>
vars == <<simulation, thread, timer, done, user, history>>

\* enum StopReason.
Reasons == {"AFTER_STEPPING", "AFTER_UNTIL", "AFTER_TIMEOUT", "BREAKPOINT",
            "USER_REQUESTED", "RUNTIME_ERROR"}

Counted == {"step", "next"}

Init ==
    /\ state = "INITIALIZED"
    /\ stopRequested = FALSE
    /\ stopReasons = {}
    /\ driver = "idle"
    /\ command = "run"
    /\ left = 0
    /\ inCall = FALSE
    /\ clockCount = 0
    /\ timer = "none"
    /\ done = FALSE
    /\ user = "none"
    /\ elapsed = FALSE
    /\ asked = FALSE
    /\ late = {}
    /\ overtaken = FALSE

(***************************************************************************)
(* The simulation thread.                                                  *)
(***************************************************************************)

\* The command language accepts the command in these two states only; run(),
\* runUntil() and next() create a timeout thread before anything else.
StartCommand(c, count) ==
    /\ driver = "idle"
    /\ state \in {"INITIALIZED", "STOPPED"}
    /\ driver' = "prepare"
    /\ command' = c
    /\ left' = IF c \in Counted THEN count ELSE 0
    /\ inCall' = FALSE
    /\ timer' = IF HasTimeout /\ c # "step" THEN "waiting" ELSE "none"
    /\ done' = FALSE
    /\ elapsed' = FALSE
    /\ asked' = FALSE
    /\ overtaken' = (user # "none")
    /\ UNCHANGED <<simulation, clockCount, user, late>>

\* stopRequested_ = false, the first statement of run(), runUntil(), next().
ClearRequest ==
    /\ driver = "prepare"
    /\ command # "step"
    /\ stopRequested' = FALSE
    /\ driver' = "clearReasons"
    /\ UNCHANGED <<state, stopReasons, command, left, inCall, clockCount,
                   timer, done, user, history>>

\* stopReasons_.clear(), the first statement of step().
ClearReasons ==
    /\ driver = IF command = "step" THEN "prepare" ELSE "clearReasons"
    /\ stopReasons' = {}
    /\ driver' = "setRunning"
    /\ UNCHANGED <<state, stopRequested, command, left, inCall, clockCount,
                   timer, done, user, history>>

\* Mutant of SetRunning: run() announces itself as step() does, before it
\* clears the stop request.
SetRunningFirst ==
    /\ driver = "setRunning"
    /\ state' = "RUNNING"
    /\ driver' = "clearRequest"
    /\ UNCHANGED <<stopRequested, stopReasons, command, left, inCall,
                   clockCount, timer, done, user, history>>

SetRunning ==
    /\ driver = "setRunning"
    /\ state' = "RUNNING"
    /\ driver' = IF command = "step" THEN "clearRequest" ELSE "loop"
    /\ UNCHANGED <<stopRequested, stopReasons, command, left, inCall,
                   clockCount, timer, done, user, history>>

\* step() clears the request after it has set the state.
StepClearsRequest ==
    /\ driver = "clearRequest"
    /\ stopRequested' = FALSE
    /\ driver' = "loop"
    /\ UNCHANGED <<state, stopReasons, command, left, inCall, clockCount,
                   timer, done, user, history>>

\* How simulateCycle ends: nothing special, the program has ended, or an
\* exception was caught; a stop point may have requested a stop as well.
Outcomes == {"ok", "finished", "error"}

\* Mutant of CycleReasons: a stop point only sets the flag.
CycleReasonsUnrecorded(outcome, stopPoint) ==
    (IF outcome = "error" THEN {"RUNTIME_ERROR"} ELSE {})
    \union (IF command = "next" /\ outcome # "ok" THEN {"AFTER_UNTIL"}
            ELSE {})

CycleReasons(outcome, stopPoint) ==
    (IF stopPoint THEN {"BREAKPOINT"} ELSE {})
    \union (IF outcome = "error" THEN {"RUNTIME_ERROR"} ELSE {})
    \union (IF command = "next" /\ outcome # "ok" THEN {"AFTER_UNTIL"}
            ELSE {})

\* Mutant of CyclesLeft: counter <= count.
CyclesLeftOneMore == command \in Counted => left >= 0

CyclesLeft == command \in Counted => left > 0

\* One turn of the loop: the test of stopRequested_ and simulateCycle.  In
\* next(), programEnded is also reported as a reason to stop.
SimulateCycle(outcome, stopPoint, call) ==
    /\ \/ /\ driver = "loop"
          /\ CyclesLeft
       \/ driver = "inner" /\ inCall
    /\ ~stopRequested
    /\ outcome = "error" => ~stopPoint
    /\ command # "next" \/ outcome # "ok" => call = inCall
    /\ stopRequested' = (stopPoint \/ outcome # "ok")
    /\ stopReasons' = stopReasons \union CycleReasons(outcome, stopPoint)
    /\ state' = IF outcome = "finished" THEN "FINISHED" ELSE state
    /\ left' = IF command = "step" THEN left - 1 ELSE left
    /\ inCall' = call
    /\ clockCount' = 1 - clockCount
    /\ driver' = CASE command = "until" -> "until"
                   [] command = "next" -> "inner"
                   [] OTHER -> "loop"
    /\ late' = IF asked THEN late \union {command} ELSE late
    /\ UNCHANGED <<command, timer, done, user, elapsed, asked, overtaken>>

\* next(): the inner loop is left, one step is counted.
CountStep ==
    /\ driver = "inner"
    /\ ~inCall \/ stopRequested
    /\ left' = left - 1
    /\ driver' = "loop"
    /\ UNCHANGED <<simulation, command, inCall, clockCount, timer, done, user,
                   history>>

\* runUntil() returns at once when the program has ended, ...
UntilFinished ==
    /\ driver = "until"
    /\ state = "FINISHED"
    /\ driver' = "stopTimer"
    /\ UNCHANGED <<simulation, command, left, inCall, clockCount, timer, done,
                   user, history>>

\* ... stops when the address is reached, and goes on otherwise.
UntilAddress ==
    /\ driver = "until"
    /\ state # "FINISHED"
    /\ stopRequested' = TRUE
    /\ stopReasons' = stopReasons \union {"AFTER_UNTIL"}
    /\ state' = "STOPPED"
    /\ driver' = "stopTimer"
    /\ UNCHANGED <<command, left, inCall, clockCount, timer, done, user,
                   history>>

UntilContinues ==
    /\ driver = "until"
    /\ state # "FINISHED"
    /\ driver' = "loop"
    /\ UNCHANGED <<simulation, command, left, inCall, clockCount, timer, done,
                   user, history>>

\* The loop ends; stepi and nexti that did all they were asked to say so.
\* step() has no timeout thread to end.
LeaveLoop ==
    LET complete == command \in Counted /\ left = 0 /\ ~inCall
    IN  /\ driver = "loop"
        /\ stopRequested \/ (command \in Counted /\ left = 0)
        /\ stopRequested' = (stopRequested \/ complete)
        /\ stopReasons' = stopReasons \union
                             (IF complete THEN {"AFTER_STEPPING"} ELSE {})
        /\ state' = IF state = "FINISHED" THEN "FINISHED" ELSE "STOPPED"
        /\ driver' = IF command = "step" THEN "idle" ELSE "stopTimer"
        /\ UNCHANGED <<command, left, inCall, clockCount, timer, done, user,
                       history>>

\* Mutant of MutexFree: the timeout thread sleeps with the mutex locked.
MutexFreeAtEnd == timer = "none"

\* The timeout thread owns the mutex from the end of its wait to its return.
MutexFree == timer \in {"none", "waiting"}

SetDone ==
    /\ driver = "stopTimer"
    /\ MutexFree
    /\ done' = TRUE
    /\ driver' = "join"
    /\ UNCHANGED <<simulation, command, left, inCall, clockCount, timer, user,
                   history>>

\* Mutant of Join: the timeout thread is detached.
JoinDetached ==
    /\ driver = "join"
    /\ driver' = "idle"
    /\ UNCHANGED <<simulation, command, left, inCall, clockCount, timer, done,
                   user, history>>

Join ==
    /\ driver = "join"
    /\ timer = "none"
    /\ driver' = "idle"
    /\ UNCHANGED <<simulation, command, left, inCall, clockCount, timer, done,
                   user, history>>

\* KillCommand, which the command language accepts in these two states:
\* SimulationController::reset.
KillCommand ==
    /\ driver = "idle"
    /\ state \in {"STOPPED", "FINISHED"}
    /\ state' = "INITIALIZED"
    /\ stopRequested' = FALSE
    /\ UNCHANGED <<stopReasons, thread, timer, done, user, history>>

(***************************************************************************)
(* The timeout thread.                                                     *)
(***************************************************************************)
TimerElapses ==
    /\ timer = "waiting"
    /\ timer' = "woken"
    /\ elapsed' = TRUE
    /\ UNCHANGED <<simulation, thread, done, user, asked, late, overtaken>>

TimerNotified ==
    /\ timer = "waiting"
    /\ done
    /\ timer' = "woken"
    /\ UNCHANGED <<simulation, thread, done, user, history>>

\* hasSimulationEnded, and the test in SimulatorFrontend::prepareToStop.
TimerChecks ==
    /\ timer = "woken"
    /\ timer' = IF state = "RUNNING" THEN "accepted" ELSE "none"
    /\ UNCHANGED <<simulation, thread, done, user, history>>

\* TTASimulationController::prepareToStop: first the flag, then the reason.
Requests ==
    /\ stopRequested' = TRUE
    /\ asked' = (asked \/ state = "RUNNING")
    /\ UNCHANGED <<state, stopReasons, thread, done, elapsed, late,
                   overtaken>>

Records(reason) ==
    /\ stopReasons' = stopReasons \union {reason}
    /\ UNCHANGED <<state, stopRequested, thread, done, history>>

TimerRequests ==
    /\ timer = "accepted"
    /\ Requests
    /\ timer' = "requested"
    /\ UNCHANGED user

TimerRecords ==
    /\ timer = "requested"
    /\ Records("AFTER_TIMEOUT")
    /\ timer' = "none"
    /\ UNCHANGED user

(***************************************************************************)
(* A stop by the user: SigINTHandler of ttasim, ProximStopDialog and       *)
(* ProximSimulationThread::requestStop in the GUI thread.                  *)
(***************************************************************************)
UserStops ==
    /\ user = "none"
    /\ state = "RUNNING"
    /\ user' = "accepted"
    /\ UNCHANGED <<simulation, thread, timer, done, history>>

UserRequests ==
    /\ user = "accepted"
    /\ Requests
    /\ user' = "requested"
    /\ UNCHANGED timer

UserRecords ==
    /\ user = "requested"
    /\ Records("USER_REQUESTED")
    /\ user' = "none"
    /\ UNCHANGED timer

Drive ==
    \/ ClearRequest
    \/ ClearReasons
    \/ SetRunning
    \/ StepClearsRequest
    \/ \E outcome \in Outcomes, stopPoint, call \in BOOLEAN :
           SimulateCycle(outcome, stopPoint, call)
    \/ CountStep
    \/ UntilFinished
    \/ UntilAddress
    \/ UntilContinues
    \/ LeaveLoop
    \/ SetDone
    \/ Join

Time == TimerNotified \/ TimerChecks \/ TimerRequests \/ TimerRecords

Next ==
    \/ \E c \in Commands, count \in 1..MaxCount : StartCommand(c, count)
    \/ KillCommand
    \/ Drive
    \/ TimerElapses
    \/ Time
    \/ UserStops
    \/ UserRequests
    \/ UserRecords

Spec == Init /\ [][Next]_vars

\* Threads are scheduled: the simulation thread, a woken or notified timeout
\* thread and a started stop handler go on.  Nothing makes a user give
\* commands, a program end or a timeout elapse.
Fairness ==
    /\ WF_vars(Drive)
    /\ WF_vars(Time)
    /\ WF_vars(UserRequests)
    /\ WF_vars(UserRecords)

FairSpec == Spec /\ Fairness

(***************************************************************************)
(* Properties.                                                             *)
(***************************************************************************)

\* Every variable keeps its type.
TypeOK ==
    /\ state \in {"INITIALIZED", "RUNNING", "STOPPED", "FINISHED"}
    /\ stopRequested \in BOOLEAN
    /\ stopReasons \subseteq Reasons
    /\ driver \in {"idle", "prepare", "clearReasons", "setRunning",
                   "clearRequest", "loop", "inner", "until", "stopTimer",
                   "join"}
    /\ command \in AllCommands
    /\ left \in 0..MaxCount
    /\ inCall \in BOOLEAN
    /\ clockCount \in 0..1
    /\ timer \in {"none", "waiting", "woken", "accepted", "requested"}
    /\ done \in BOOLEAN
    /\ user \in {"none", "accepted", "requested"}
    /\ late \subseteq AllCommands
    /\ \A h \in {elapsed, asked, overtaken} : h \in BOOLEAN

\* prepareToStop "always is able to stop the simulation ... after the current
\* clock cycle is simulated": once the flag was set for a running command,
\* the loops of run(), runUntil() and next() begin no further cycle of it.
StopIsHonoured == late \subseteq {"step"}

\* The same for every command, step() included.
StopIsAlwaysHonoured == late = {}

\* A timeout is reported only for a command whose own timeout has passed: a
\* timeout thread that is woken because its command is over, or that is slow,
\* never marks another command (the mutex, the flag and the join in run()).
TimeoutReasonIsTrue ==
    /\ driver \notin {"prepare", "clearReasons"}
           /\ "AFTER_TIMEOUT" \in stopReasons => elapsed
    /\ driver = "idle" => timer = "none"

\* When control returns to the user with the simulation stopped, there is a
\* reason to show (SimControlLanguageCommand::printStopReasons), unless a
\* stop handler is still under way or an earlier command's handler cut in.
StopIsExplained ==
    driver = "idle" /\ state = "STOPPED" /\ user = "none" /\ ~overtaken
        => stopReasons # {}

\* A stop that SimulatorFrontend::prepareToStop has accepted ends the command
\* it was accepted in, whatever the program does, and the timeout thread is
\* joined: the mutex and the join do not wait for each other.
StopEndsCommand ==
    (timer = "accepted" \/ (user = "accepted" /\ ~overtaken))
        ~> (driver = "idle")
==============================================================================
