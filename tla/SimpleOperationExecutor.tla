----------------------- MODULE SimpleOperationExecutor -----------------------
(***************************************************************************)
(* The ring-buffer executor that simulates an operation all of whose       *)
(* results have the same latency, greater than one                         *)
(* (SimpleOperationExecutor.cc), driven by the function unit that owns it: *)
(* FUState::endClock starts at most one operation in a cycle, and          *)
(* FUState::advanceClock calls the executor only while it says it has      *)
(* pending operations.                                                     *)
(*                                                                         *)
(* An operation is reduced to the value simulateTrigger computes for it.   *)
(* A runtime error ends the cycle, either elsewhere in the machine, after  *)
(* this executor's endClock half, or in its own simulateTrigger; the       *)
(* simulation may then be resumed.  The class has no reset of its own: a   *)
(* killed simulation is restarted on the ring as it is.                    *)
(***************************************************************************)
EXTENDS Integers, FiniteSets

CONSTANTS
    Latency,   \* size of the ring buffer
    Values,    \* values simulateTrigger can produce
    NoResult,  \* the abstract line's mark for an empty stage
    SizeMod,   \* std::size_t counts modulo this number (2^64 in the build)
    MaxThrows, \* bound: starts that throw in one behaviour
    MaxAborts  \* bound: cycles given up in one behaviour

ASSUME LatencyAssumption == Latency \in Nat \ {0}
ASSUME NoResultAssumption == NoResult \notin Values
ASSUME BoundsAssumption == MaxThrows \in Nat /\ MaxAborts \in Nat
ASSUME SizeModAssumption ==
    SizeMod \in Nat /\ SizeMod > Latency + MaxAborts + MaxThrows

VARIABLES
    buffer,                \* cell -> [busy: operation_ # NULL, out: result]
    nextSlot,              \* cell that takes the next operation
    pendingOperations,     \* std::size_t count of operations in the buffer
    hasPendingOperations,  \* what the executor tells its FUState
    port,                  \* value of the bound output port
    half,                  \* half of the cycle that comes next
    throws,                \* starts that have thrown so far
    aborts                 \* cycles given up so far

vars == <<buffer, nextSlot, pendingOperations, hasPendingOperations,
          port, half, throws, aborts>>

Cells == 0..(Latency - 1)

Cell == [busy : BOOLEAN, out : Values]

Busy == {i \in Cells : buffer[i].busy}

\* The constructor: empty cells, and an executor that claims to be pending.
Init ==
    /\ buffer \in [Cells -> {c \in Cell : ~c.busy}]
    /\ nextSlot = 0
    /\ pendingOperations = 0
    /\ hasPendingOperations = TRUE
    /\ port \in Values
    /\ half = "endClock"
    /\ throws = 0
    /\ aborts = 0

\* Mutant of StartOperation: ++pendingOperations_ is forgotten.
StartOperationUncounted(v) ==
    /\ half = "endClock"
    /\ buffer' = [buffer EXCEPT ![nextSlot] =
                    [busy |-> TRUE, out |-> v]]
    /\ hasPendingOperations' = TRUE
    /\ half' = "advanceClock"
    /\ UNCHANGED <<nextSlot, pendingOperations, port, throws, aborts>>

\* startOperation with an operation whose simulateTrigger yields v.
StartOperation(v) ==
    /\ half = "endClock"
    /\ buffer' = [buffer EXCEPT ![nextSlot] =
                    [busy |-> TRUE, out |-> v]]
    /\ pendingOperations' = (pendingOperations + 1) % SizeMod
    /\ hasPendingOperations' = TRUE
    /\ half' = "advanceClock"
    /\ UNCHANGED <<nextSlot, port, throws, aborts>>

\* A cycle in which the unit does not trigger this operation.
NotTriggered ==
    /\ half = "endClock"
    /\ half' = "advanceClock"
    /\ UNCHANGED <<buffer, nextSlot, pendingOperations,
                   hasPendingOperations, port, throws, aborts>>

\* Mutant of AdvanceClock: the cell is taken before nextSlot_ moves on, and
\* nextSlot_ is not wrapped.
AdvanceClockNoWrap ==
    /\ half = "advanceClock"
    /\ hasPendingOperations
    /\ \/ /\ buffer[nextSlot].busy
          /\ port' = buffer[nextSlot].out
          /\ buffer' = [buffer EXCEPT ![nextSlot].busy = FALSE]
       \/ /\ ~buffer[nextSlot].busy
          /\ UNCHANGED <<buffer, port>>
    /\ nextSlot' = nextSlot + 1
    /\ half' = "endClock"
    /\ UNCHANGED <<pendingOperations, hasPendingOperations, throws, aborts>>

\* advanceClock: the oldest entry, if any, moves to the output port.
AdvanceClock ==
    LET oldest == (nextSlot + 1) % Latency
        left   == (pendingOperations + SizeMod - 1) % SizeMod
    IN  /\ half = "advanceClock"
        /\ hasPendingOperations
        /\ \/ /\ buffer[oldest].busy
              /\ port' = buffer[oldest].out
              /\ buffer' = [buffer EXCEPT ![oldest].busy = FALSE]
              /\ pendingOperations' = left
              /\ hasPendingOperations' = (left > 0)
           \/ /\ ~buffer[oldest].busy
              /\ UNCHANGED <<buffer, port, pendingOperations,
                             hasPendingOperations>>
        /\ nextSlot' = oldest
        /\ half' = "endClock"
        /\ UNCHANGED <<throws, aborts>>

\* FUState::advanceClock passes over an executor with nothing pending; it
\* also leaves at once when none of its executors has been started, although
\* this one's constructor said it was pending.
NotAdvanced ==
    /\ half = "advanceClock"
    /\ ~hasPendingOperations \/ pendingOperations = 0
    /\ half' = "endClock"
    /\ UNCHANGED <<buffer, nextSlot, pendingOperations,
                   hasPendingOperations, port, throws, aborts>>

\* An exception between this unit's endClock and its advanceClock
\* (SimulationController::simulateCycle catches it and returns early).
CycleAborted ==
    /\ half = "advanceClock"
    /\ aborts < MaxAborts
    /\ aborts' = aborts + 1
    /\ half' = "stopped"
    /\ UNCHANGED <<buffer, nextSlot, pendingOperations,
                   hasPendingOperations, port, throws>>

\* The user resumes the simulation: the instruction is executed again.
Resume ==
    /\ half = "stopped"
    /\ half' = "endClock"
    /\ UNCHANGED <<buffer, nextSlot, pendingOperations,
                   hasPendingOperations, port, throws, aborts>>

\* startOperation with an operation whose simulateTrigger throws.  The cell is
\* marked before the call and counted after it, so the operation stays in the
\* buffer uncounted; the cycle is given up.  The instruction that is then
\* executed again need not trigger the operation again, because its moves may
\* already have changed the register its guard reads.
StartThrows ==
    /\ half = "endClock"
    /\ throws < MaxThrows
    /\ buffer' = [buffer EXCEPT ![nextSlot].busy = TRUE]
    /\ throws' = throws + 1
    /\ half' = "stopped"
    /\ UNCHANGED <<nextSlot, pendingOperations, hasPendingOperations,
                   port, aborts>>

Next ==
    \/ \E v \in Values : StartOperation(v)
    \/ StartThrows
    \/ NotTriggered
    \/ AdvanceClock
    \/ NotAdvanced
    \/ CycleAborted
    \/ Resume

Spec == Init /\ [][Next]_vars

(***************************************************************************)
(* Properties.                                                             *)
(***************************************************************************)

\* Every variable keeps its C++ type; nextSlot stays an index of the buffer.
TypeOK ==
    /\ buffer \in [Cells -> Cell]
    /\ nextSlot \in Cells
    /\ pendingOperations \in 0..(SizeMod - 1)
    /\ hasPendingOperations \in BOOLEAN
    /\ port \in Values
    /\ half \in {"endClock", "advanceClock", "stopped"}
    /\ throws \in 0..MaxThrows
    /\ aborts \in 0..MaxAborts

\* The count kept for speed (pendingOperations_) differs from the number of
\* operations in the ring by at most one for each start that was repeated
\* after an aborted cycle, and by at most one the other way for each start
\* that threw; in particular, as long as nothing has thrown,
\* hasPendingOperations_ cannot turn false with a result still to be
\* delivered.
CountCoversRing ==
    /\ \E d \in (0 - throws)..aborts :
           pendingOperations = (Cardinality(Busy) + d) % SizeMod
    /\ throws = 0 /\ Busy # {} => hasPendingOperations

\* The part of the state DelayLine is about: stage k of the line is the cell
\* k places after the one that takes the next operation.
Stage(k) == buffer[(nextSlot + k) % Latency]

line == [k \in 1..Latency |->
            IF Stage(k).busy THEN Stage(k).out ELSE NoResult]

Abstract == INSTANCE DelayLine

\* The ring buffer with its skipped clock advances is a delay line: results
\* reach the port Latency advances after their start, in order, until a start
\* throws (SimpleOperationExecutor::startOperation and advanceClock).
ImplementsDelayLine ==
    Abstract!Init /\ [][throws' = 0 => Abstract!Next]_(Abstract!vars)
==============================================================================
