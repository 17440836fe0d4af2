-------------------- MODULE MultiLatencyOperationExecutor --------------------
(***************************************************************************)
(* The executor for operations whose results have different latencies      *)
(* (MultiLatencyOperationExecutor.cc, ExecutingOperation.cc).  It keeps a  *)
(* pool of Latency ExecutingOperation objects; a start takes a free one,   *)
(* preferably the one advanceClock remembered in freeExecOp_, and the last *)
(* one when none is free.                                                  *)
(*                                                                         *)
(* As in SimpleOperationExecutor, an operation is reduced to the result    *)
(* simulateTrigger computes, here at the operation's first clock advance.  *)
(* A cycle may be given up because of an exception elsewhere in the        *)
(* machine or out of this executor's own simulateTrigger, and resumed, and *)
(* killSimulation may restart the program on the same pool.                *)
(***************************************************************************)
EXTENDS Naturals, FiniteSets

CONSTANTS
    Latency,     \* hwOperation_->latency(), the size of the pool
    Outputs,     \* output operands
    OutLatency,  \* Outputs -> clock advances until the result is visible
    Values,      \* results an operation can produce
    NoResult,    \* the abstract line's mark for an empty stage
    NULL,        \* freeExecOp_ is not set
    MaxFaults    \* bound: cycles that are given up in one behaviour

ASSUME LatencyAssumption == Latency \in Nat \ {0}
ASSUME OutLatencyAssumption == OutLatency \in [Outputs -> 1..Latency]
ASSUME ValuesAssumption == NoResult \notin Values
ASSUME NullAssumption == NULL \notin Nat
ASSUME FaultsAssumption == MaxFaults \in Nat

VARIABLES
    executingOps,          \* the pool: slot -> ExecutingOperation
    freeExecOp,            \* freeExecOp_: a slot or NULL
    hasPendingOperations,  \* what the executor tells its FUState
    port,                  \* Outputs -> value of the bound port
    half,                  \* half of the cycle that comes next
    faults,                \* cycles given up so far
    stale                  \* history: a result of a killed run was delivered

vars == <<executingOps, freeExecOp, hasPendingOperations, port, half,
          faults, stale>>

Slots == 0..(Latency - 1)

\* cyclesToGo 0 stands for the INT_MAX of a result that was delivered.
\* old is history: the operation was started before the last reset.
ExecutingOperation ==
    [free : BOOLEAN, stage : 0..Latency, result : Values,
     cyclesToGo : [Outputs -> 0..Latency], old : BOOLEAN]

Active == {s \in Slots : ~executingOps[s].free}
Free == Slots \ Active

Highest(S) == CHOOSE s \in S : \A t \in S : t <= s
Lowest(S) == CHOOSE s \in S : \A t \in S : s <= t

Init ==
    /\ \E v \in Values :
           executingOps = [s \in Slots |->
               [free |-> TRUE, stage |-> 0, result |-> v,
                cyclesToGo |-> OutLatency, old |-> FALSE]]
    /\ freeExecOp = NULL
    /\ hasPendingOperations = TRUE
    /\ port \in [Outputs -> Values]
    /\ half = "endClock"
    /\ faults = 0
    /\ stale = FALSE

\* findFreeExecutingOperation: without a free slot the search loop ends on
\* the last one, which the assertion that follows it accepts.
FreeSlot ==
    IF freeExecOp # NULL THEN freeExecOp
    ELSE IF Free # {} THEN Lowest(Free)
    ELSE Latency - 1

\* Mutant of StartOperation: freeExecOp_ is not cleared when it is used.
StartOperationKeepsCache(v) ==
    /\ half = "endClock"
    /\ executingOps' = [executingOps EXCEPT ![FreeSlot] =
           [free |-> FALSE, stage |-> 0, result |-> v,
            cyclesToGo |-> OutLatency, old |-> FALSE]]
    /\ hasPendingOperations' = TRUE
    /\ half' = "advanceClock"
    /\ UNCHANGED <<freeExecOp, port, faults, stale>>

StartOperation(v) ==
    /\ half = "endClock"
    /\ executingOps' = [executingOps EXCEPT ![FreeSlot] =
           [free |-> FALSE, stage |-> 0, result |-> v,
            cyclesToGo |-> OutLatency, old |-> FALSE]]
    /\ freeExecOp' = NULL
    /\ hasPendingOperations' = TRUE
    /\ half' = "advanceClock"
    /\ UNCHANGED <<port, faults, stale>>

\* A cycle in which the unit does not trigger this operation.
NotTriggered ==
    /\ half = "endClock"
    /\ half' = "advanceClock"
    /\ UNCHANGED <<executingOps, freeExecOp, hasPendingOperations, port,
                   faults, stale>>

\* Mutant of AdvanceCycle: the stage is compared before it is counted.
AdvanceCycleLateStop(e) ==
    [e EXCEPT !.stage = e.stage + 1,
              !.cyclesToGo = [o \in Outputs |->
                  IF e.cyclesToGo[o] = 0 THEN 0 ELSE e.cyclesToGo[o] - 1],
              !.free = (e.stage = Latency)]

\* ExecutingOperation::advanceCycle, then stop() after the last stage.
AdvanceCycle(e) ==
    [e EXCEPT !.stage = e.stage + 1,
              !.cyclesToGo = [o \in Outputs |->
                  IF e.cyclesToGo[o] = 0 THEN 0 ELSE e.cyclesToGo[o] - 1],
              !.free = (e.stage + 1 = Latency)]

\* What the loop of advanceClock does to the slots it visits, in order:
\* results that are due are written, and the last free slot is remembered.
Visit(visited) ==
    LET due(o) == {s \in visited \ Free : executingOps[s].cyclesToGo[o] = 1}
    IN  /\ executingOps' = [s \in Slots |->
               IF s \in visited \ Free THEN AdvanceCycle(executingOps[s])
               ELSE executingOps[s]]
        /\ port' = [o \in Outputs |->
               IF due(o) = {} THEN port[o]
               ELSE executingOps[Highest(due(o))].result]
        /\ freeExecOp' = IF visited \intersect Free = {} THEN freeExecOp
                         ELSE Highest(visited \intersect Free)
        /\ stale' = (stale \/ \E o \in Outputs : \E s \in due(o) :
                                  executingOps[s].old)

AdvanceClock ==
    /\ half = "advanceClock"
    /\ hasPendingOperations
    /\ Visit(Slots)
    /\ hasPendingOperations' = (Active # {})
    /\ half' = "endClock"
    /\ UNCHANGED faults

\* FUState::advanceClock passes over an executor with nothing pending and
\* leaves at once when none of its executors was started; the second case is
\* allowed whenever nothing is in flight.
NotAdvanced ==
    /\ half = "advanceClock"
    /\ ~hasPendingOperations \/ Active = {}
    /\ half' = "endClock"
    /\ UNCHANGED <<executingOps, freeExecOp, hasPendingOperations, port,
                   faults, stale>>

\* Another unit's exception ends the cycle before this unit's advanceClock;
\* the simulation is resumed at the same instruction.
CycleAborted ==
    /\ half = "advanceClock"
    /\ faults < MaxFaults
    /\ faults' = faults + 1
    /\ half' = "stopped"
    /\ UNCHANGED <<executingOps, freeExecOp, hasPendingOperations, port,
                   stale>>

\* simulateTrigger throws for the operation that is at its first stage: the
\* slots before it were advanced, those after it and the flag were not.
TriggerThrows(slot) ==
    /\ half = "advanceClock"
    /\ hasPendingOperations
    /\ slot \in Active
    /\ executingOps[slot].stage = 0
    /\ faults < MaxFaults
    /\ Visit(0..(slot - 1))
    /\ faults' = faults + 1
    /\ half' = "stopped"
    /\ UNCHANGED hasPendingOperations

\* The user resumes the simulation: the instruction is executed again.
Resume ==
    /\ half = "stopped"
    /\ half' = "endClock"
    /\ UNCHANGED <<executingOps, freeExecOp, hasPendingOperations, port,
                   faults, stale>>

\* killSimulation reaches MultiLatencyOperationExecutor::reset.
Reset ==
    /\ half # "advanceClock"
    /\ half' = "endClock"
    /\ hasPendingOperations' = FALSE
    /\ executingOps' = [s \in Slots |->
           [executingOps[s] EXCEPT !.old = ~executingOps[s].free]]
    /\ UNCHANGED <<freeExecOp, port, faults, stale>>

Next ==
    \/ \E v \in Values : StartOperation(v)
    \/ NotTriggered
    \/ AdvanceClock
    \/ NotAdvanced
    \/ CycleAborted
    \/ \E slot \in Slots : TriggerThrows(slot)
    \/ Resume
    \/ Reset

Spec == Init /\ [][Next]_vars

(***************************************************************************)
(* Properties.                                                             *)
(***************************************************************************)

\* Every variable keeps its type; no operation outlives its last stage.
TypeOK ==
    /\ executingOps \in [Slots -> ExecutingOperation]
    /\ freeExecOp \in Slots \union {NULL}
    /\ hasPendingOperations \in BOOLEAN
    /\ port \in [Outputs -> Values]
    /\ half \in {"endClock", "advanceClock", "stopped"}
    /\ faults \in 0..MaxFaults
    /\ stale \in BOOLEAN

\* The assertion of findFreeExecutingOperation, "Did not find a free
\* ExecutingOperation.": as long as no cycle was given up, an operation that
\* may be started finds a free slot, also after a kill that left operations
\* in the pool, so a start never overwrites an operation in flight.
StartFindsFreeSlot ==
    faults = 0 /\ half = "endClock" => executingOps[FreeSlot].free

\* As long as no cycle was given up, two operations in the pool are never at
\* the same stage, none that waits for its first advance is left behind, and
\* the executor asks for clock advances while the pool holds an operation
\* of this run; this is why a slot is always free.
StagesDistinct ==
    faults = 0 =>
        /\ \A s, t \in Active :
               executingOps[s].stage = executingOps[t].stage => s = t
        /\ \A s \in Active :
               half = "endClock" \/ executingOps[s].old =>
                   executingOps[s].stage > 0
        /\ freeExecOp # NULL => freeExecOp \in Free
        /\ (\E s \in Active : ~executingOps[s].old) => hasPendingOperations

\* The results of output o that are in flight, as DelayLine sees them.
Due(o, k) == {s \in Active : executingOps[s].cyclesToGo[o] = k}

lineOf(o) ==
    [k \in 1..OutLatency[o] |->
        IF Due(o, k) = {} THEN NoResult
        ELSE executingOps[Highest(Due(o, k))].result]

Abstract(o) == INSTANCE DelayLine WITH
    Latency <- OutLatency[o], line <- lineOf(o), port <- port[o]

Undisturbed == faults = 0 /\ \A s \in Active : ~executingOps[s].old

\* Each output operand behaves as a delay line of its own latency, however
\* slots are reused (startOperation, advanceClock,
\* ExecutingOperation::PendingResult::advanceCycle), as long as no cycle was
\* given up and nothing of a killed run is in the pool.
ImplementsDelayLines ==
    /\ \A o \in Outputs : Abstract(o)!Init
    /\ [][Undisturbed' =>
              \A o \in Outputs :
                  [Abstract(o)!Next]_<<lineOf(o), port[o], half>>]_vars

\* No result of an operation started before killSimulation is written to a
\* port of the restarted program.
NoResultOfKilledRun == ~stale
==============================================================================
