------------------------------ MODULE GCUState -------------------------------
(***************************************************************************)
(* The global control unit of the simulated machine (GCUState.cc,          *)
(* GCUState.icc), the pipeline that executes its jumps and calls           *)
(* (TransportPipeline.cc), and the part of a simulated cycle that concerns *)
(* it (SimulationController::simulateCycle): the program counter is        *)
(* incremented in every cycle, and replaced by the target of a branch      *)
(* operationPendingTime_ cycles after the branch was triggered.  A control *)
(* unit that is idle is not called.  The state of the hardware loop, kept  *)
(* in the operation context of the unit, may take the counter back.        *)
(*                                                                         *)
(* A runtime error of another unit may end a cycle before this unit's      *)
(* endClock or before its advanceClock; the user may then resume, which    *)
(* executes the same instruction again, or kill the simulation.  An        *)
(* instruction executed again need not trigger the same operations: its    *)
(* moves may have changed the register that a guard without latency reads. *)
(*                                                                         *)
(* A branch goes to whatever its operand says.  An address outside the     *)
(* program has no instruction and simulateCycle does not look: what is     *)
(* executed there is undefined, and no cycle of the model begins there.    *)
(***************************************************************************)
EXTENDS ControlOperations

CONSTANTS
    DelaySlots,      \* delay slots of the control unit; latency_ is one more
    ProgramSize,     \* firstIllegalInstructionIndex_
    InitialPC,       \* initialPC_, the program's entry address
    Machines,        \* the sets of operations a control unit may have
    Operands,        \* values of the operand that is a target or a length
    MaxIterations,   \* bound on the iterations of a hardware loop
    NoOperation,     \* nextOperation_ is NULL
    NoBody           \* no loop, or one that was left by a branch or a kill

ASSUME DelaySlotsAssumption == DelaySlots \in Nat
ASSUME AddressAssumption ==
    AddressModulus \in Nat /\ AddressModulus > DelaySlots + 1
ASSUME ProgramSizeAssumption == ProgramSize \in Addresses \ {0}
ASSUME InitialPCAssumption == InitialPC \in 0..(ProgramSize - 1)
ASSUME MachinesAssumption == \A ops \in Machines : ops \subseteq AllOperations
ASSUME OperandsAssumption == Operands \subseteq Addresses
ASSUME MaxIterationsAssumption == MaxIterations \in Nat
ASSUME NoOperationAssumption == NoOperation \notin AllOperations
ASSUME NoBodyAssumption == NoBody \notin Addresses

VARIABLES
    operations,            \* the operations of this unit, fixed
    programCounter,        \* programCounter_
    newProgramCounter,     \* newProgramCounter_
    operationPending,      \* operationPending_
    operationPendingTime,  \* operationPendingTime_
    returnAddress,         \* returnAddressRegister_
    idle,                  \* idle_
    trigger,               \* trigger_
    nextOperation,         \* nextOperation_
    target,                \* value of the port with the target or length
    step,                  \* what the cycle does next
    finished               \* the core has reached the end of the program

\* HLOOP_SETUP, the state of HWLOOP.  Its hwloopEnabled is loopCounter > 0.
VARIABLES
    loopCounter,           \* times the body has still to be repeated
    loopLength,
    instrCount,            \* instructions of the body executed in this pass
    delayCycles,           \* cycles until the first instruction of the body
    body                   \* history: address of the body's first instruction

counters == <<programCounter, newProgramCounter, operationPending,
              operationPendingTime, returnAddress>>
trigs == <<trigger, nextOperation, target>>
loop == <<loopCounter, loopLength, instrCount, delayCycles, body>>
vars == <<operations, counters, idle, trigs, step, finished, loop>>

latency == DelaySlots + 1

\* context().isEmpty(): no operation of the unit keeps a state.
ContextIsEmpty == "HWLOOP" \notin operations

isIdle == idle /\ ContextIsEmpty

\* The control unit is constructed, and reset once more by the constructor of
\* SimulationController.
Init ==
    /\ operations \in Machines
    /\ programCounter = 0
    /\ newProgramCounter = 0
    /\ operationPending = FALSE
    /\ operationPendingTime = 0
    /\ returnAddress = 0
    /\ idle = FALSE
    /\ trigger = FALSE
    /\ nextOperation = NoOperation
    /\ target = 0
    /\ step = "execute"
    /\ finished = FALSE
    /\ loopCounter = 0
    /\ loopLength = 0
    /\ instrCount = 0
    /\ delayCycles = 0
    /\ body = NoBody

(***************************************************************************)
(* The instruction is fetched and its moves are executed.                  *)
(***************************************************************************)

CycleBegins ==
    /\ step = "execute"
    /\ ~finished
    /\ programCounter < ProgramSize

\* A move of the instruction writes a port that sets the operation.
Trigger(op, t) ==
    /\ CycleBegins
    /\ trigger' = TRUE
    /\ idle' = FALSE
    /\ nextOperation' = op
    /\ target' = t
    /\ step' = "endClock"
    /\ UNCHANGED <<operations, counters, finished, loop>>

NotTriggered ==
    /\ CycleBegins
    /\ step' = "endClock"
    /\ UNCHANGED <<operations, counters, idle, trigs, finished, loop>>

(***************************************************************************)
(* FUState::endClock and TransportPipeline::startOperation.                *)
(***************************************************************************)

\* Mutant of InDelaySlot: the check is left out.
InDelaySlotNever == operationPending /\ operationPendingTime = 0

\* The test of setProgramCounter.  It lets a branch be executed again after
\* a cycle that was given up.
InDelaySlot == operationPending /\ operationPendingTime # latency

setReturnAddress == Plus(programCounter, latency)

\* The program counter the operation sets in the temporary context.
Destination == IF nextOperation \in Relative THEN Plus(programCounter, target)
               ELSE target

StartsOperation ==
    /\ step = "endClock"
    /\ ~isIdle
    /\ trigger

\* The operation has set a program counter and is a branch or a call.
EndClockBranches ==
    /\ StartsOperation
    /\ nextOperation \notin NeverBranch
    /\ ~InDelaySlot
    /\ trigger' = FALSE
    /\ newProgramCounter' = Destination
    /\ operationPending' = TRUE
    /\ operationPendingTime' = latency
    /\ returnAddress' = IF nextOperation \in Calls THEN setReturnAddress
                        ELSE returnAddress
    /\ step' = "advanceClock"
    /\ UNCHANGED <<operations, programCounter, idle, nextOperation, target,
                   finished, loop>>

\* "Cannot have jumps in delay slots."
EndClockThrows ==
    /\ StartsOperation
    /\ nextOperation \notin NeverBranch
    /\ InDelaySlot
    /\ trigger' = FALSE
    /\ step' = "stopped"
    /\ UNCHANGED <<operations, counters, idle, nextOperation, target, finished,
                   loop>>

\* A conditional branch that is not taken, or APC: legal in a delay slot too.
EndClockNoBranch ==
    /\ StartsOperation
    /\ nextOperation \in MayNotBranch \ {"HWLOOP"}
    /\ trigger' = FALSE
    /\ step' = "advanceClock"
    /\ UNCHANGED <<operations, counters, idle, nextOperation, target, finished,
                   loop>>

\* The three runtime errors of HWLOOP with n iterations.
LoopRefused(n) == n = 0 \/ target = 0 \/ loopCounter > 0

\* Mutant of LoopDelay: the delay slots only.
LoopDelaySlots == DelaySlots

\* The cycle of HWLOOP itself and its delay slots.
LoopDelay == DelaySlots + 1

\* HWLOOP with n iterations: one pass needs no setup.
EndClockLoop(n) ==
    /\ StartsOperation
    /\ nextOperation = "HWLOOP"
    /\ ~LoopRefused(n)
    /\ trigger' = FALSE
    /\ \/ /\ n = 1
          /\ UNCHANGED loop
       \/ /\ n > 1
          /\ loopCounter' = n - 1
          /\ loopLength' = target
          /\ instrCount' = 0
          /\ delayCycles' = LoopDelay
          /\ body' = Plus(programCounter, DelaySlots + 1)
    /\ step' = "advanceClock"
    /\ UNCHANGED <<operations, counters, idle, nextOperation, target,
                   finished>>

EndClockLoopThrows(n) ==
    /\ StartsOperation
    /\ nextOperation = "HWLOOP"
    /\ LoopRefused(n)
    /\ trigger' = FALSE
    /\ step' = "stopped"
    /\ UNCHANGED <<operations, counters, idle, nextOperation, target, finished,
                   loop>>

EndClockNothing ==
    /\ step = "endClock"
    /\ isIdle \/ ~trigger
    /\ step' = "advanceClock"
    /\ UNCHANGED <<operations, counters, idle, trigs, finished, loop>>

(***************************************************************************)
(* ++programCounter(), GCUState::advanceClock unless the unit is idle, and *)
(* the test for the end of the program.                                    *)
(***************************************************************************)

\* Mutant of BranchTaken: the unit waits one cycle too long.
BranchTakenLate == operationPending /\ operationPendingTime = 0

BranchTaken == operationPending /\ operationPendingTime = 1

\* The advance of HLOOP_SETUP: first the delay, then the passes.
InLoop == delayCycles = 0 /\ loopCounter > 0

LoopsBack == InLoop /\ instrCount + 1 = loopLength

AdvanceLoop ==
    /\ delayCycles' = IF delayCycles > 0 THEN delayCycles - 1 ELSE 0
    /\ instrCount' = CASE LoopsBack -> 0
                       [] InLoop /\ ~LoopsBack -> instrCount + 1
                       [] OTHER -> instrCount
    /\ loopCounter' = IF LoopsBack THEN loopCounter - 1 ELSE loopCounter
    /\ UNCHANGED loopLength

\* exit: the instruction is one of the program's exit points.
AdvanceClock(exit) ==
    LET taken == ~isIdle /\ BranchTaken
        pc == IF taken THEN newProgramCounter ELSE Plus(programCounter, 1)
    IN  /\ step = "advanceClock"
        /\ programCounter' = IF LoopsBack THEN Minus(pc, loopLength) ELSE pc
        /\ operationPending' = (operationPending /\ ~taken)
        /\ operationPendingTime' = IF ~isIdle /\ operationPending
                                   THEN operationPendingTime - 1
                                   ELSE operationPendingTime
        /\ idle' = IF isIdle THEN idle
                   ELSE ContextIsEmpty /\ ~operationPending'
        /\ AdvanceLoop
        /\ body' = IF taken THEN NoBody ELSE body
        /\ finished' = (exit \/ programCounter' = ProgramSize)
        /\ step' = "execute"
        /\ UNCHANGED <<operations, newProgramCounter, returnAddress, trigs>>

\* An exception of another unit is caught in simulateCycle.
CycleAborted ==
    /\ step \in {"endClock", "advanceClock"}
    /\ step' = "stopped"
    /\ UNCHANGED <<operations, counters, idle, trigs, finished, loop>>

\* The user resumes the simulation: the instruction is executed again.
Resume ==
    /\ step = "stopped"
    /\ step' = "execute"
    /\ UNCHANGED <<operations, counters, idle, trigs, finished, loop>>

\* SimulationController::reset sets the program counter to the entry address
\* and then resets all units, the control unit last.  GCUState::reset
\* touches none of trigger_, nextOperation_ and idle_, nor the loop.
Reset ==
    /\ step \in {"execute", "stopped"}
    /\ programCounter' = 0
    /\ returnAddress' = 0
    /\ newProgramCounter' = 0
    /\ operationPending' = FALSE
    /\ operationPendingTime' = 0
    /\ finished' = FALSE
    /\ body' = NoBody
    /\ step' = "execute"
    /\ UNCHANGED <<operations, idle, trigs, loopCounter, loopLength,
                   instrCount, delayCycles>>

Next ==
    \/ \E op \in operations, t \in Operands : Trigger(op, t)
    \/ NotTriggered
    \/ EndClockBranches
    \/ EndClockThrows
    \/ EndClockNoBranch
    \/ \E n \in 0..MaxIterations : EndClockLoop(n) \/ EndClockLoopThrows(n)
    \/ EndClockNothing
    \/ \E exit \in BOOLEAN : AdvanceClock(exit)
    \/ CycleAborted
    \/ Resume
    \/ Reset

Spec == Init /\ [][Next]_vars

(***************************************************************************)
(* Properties.                                                             *)
(***************************************************************************)

\* Every variable keeps its type; addresses keep their width.
TypeOK ==
    /\ operations \in Machines
    /\ programCounter \in Addresses
    /\ newProgramCounter \in Addresses
    /\ operationPending \in BOOLEAN
    /\ operationPendingTime \in 0..latency
    /\ returnAddress \in Addresses
    /\ idle \in BOOLEAN
    /\ trigger \in BOOLEAN
    /\ nextOperation \in AllOperations \union {NoOperation}
    /\ trigger => nextOperation # NoOperation
    /\ target \in Addresses
    /\ step \in {"execute", "endClock", "advanceClock", "stopped"}
    /\ finished \in BOOLEAN
    /\ loopCounter \in Nat
    /\ loopLength \in Addresses
    /\ instrCount \in Addresses
    /\ delayCycles \in 0..latency
    /\ body \in Addresses \union {NoBody}

\* simulateCycle calls neither endClock nor advanceClock of an idle control
\* unit, so an idle unit has no branch under way and none to start; and a
\* branch under way always has cycles left to wait.
IdleMeansNoBranch ==
    /\ idle => ~operationPending /\ ~trigger
    /\ operationPending => operationPendingTime > 0

\* A hardware loop repeats the instructions behind its delay slots and no
\* others: until the program leaves it by a branch or is killed, its two
\* counters say where in the body the program counter is, over given-up and
\* repeated cycles (HWLOOP and the advance of HLOOP_SETUP).
LoopInBody ==
    loopCounter > 0 /\ body # NoBody =>
        /\ Plus(programCounter, delayCycles) = Plus(body, instrCount)
        /\ instrCount < loopLength
        /\ delayCycles > 0 => instrCount = 0

\* The addresses DelayedBranch speaks of, as far as the unit knows them.
upcoming ==
    [i \in 0..latency |->
        IF operationPending /\ i >= operationPendingTime
        THEN Plus(newProgramCounter, i - operationPendingTime)
        ELSE Plus(programCounter, i)]

Branches == INSTANCE DelayedBranch WITH
    Entry <- InitialPC, ra <- returnAddress

\* The clock advance that takes a hardware loop back to its start.
LoopJumps == step = "advanceClock" /\ LoopsBack

\* With one pending target, a countdown and a program counter that is
\* incremented before the branch is taken, the unit executes the addresses
\* of the delayed branch, also when cycles are given up and repeated and
\* when the simulation is killed, except where a hardware loop takes the
\* program counter back (GCUState::setProgramCounter, setReturnAddress,
\* advanceClock, SimulationController::simulateCycle).
ImplementsDelayedBranch ==
    Branches!Init /\ [][LoopJumps \/ Branches!Next]_(Branches!vars)
==============================================================================
