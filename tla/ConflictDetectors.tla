-------------------------- MODULE ConflictDetectors --------------------------
(***************************************************************************)
(* The four resource conflict detectors of a function unit, side by side   *)
(* on the same stream of issued operations: reservation table, collision   *)
(* matrix (DCM), finite state automaton over collision matrices (the one   *)
(* SimulationController builds) and resource vectors.                      *)
(*                                                                         *)
(* Each answers the same question: would an operation issued now use a     *)
(* resource in the same cycle as an operation the detector has already     *)
(* accepted?  accepted[d] keeps what detector d accepted, by age, so that  *)
(* its answer can be compared with the question itself.                    *)
(*                                                                         *)
(* A cycle issues at most one operation (FUState.endClock through          *)
(* ConflictDetectingOperationExecutor) and then advances the detectors.  A *)
(* runtime error anywhere in the machine, a conflict that is thrown among  *)
(* them, gives the cycle up before the detectors are advanced.             *)
(***************************************************************************)
EXTENDS Integers

CONSTANTS
    Operations,   \* operations of the unit
    Resources,    \* ports and pipeline elements of the unit
    MaxLatency,   \* columns of the tables: FunctionUnit::maxLatency
    Usage,        \* Usage[op][c]: what op uses c cycles after its issue
    CyclesFail    \* a runtime error may give up a cycle

Columns == 0..(MaxLatency - 1)

ASSUME MaxLatencyAssumption == MaxLatency \in Nat \ {0}
ASSUME UsageAssumption ==
    Usage \in [Operations -> [Columns -> SUBSET Resources]]
ASSUME CyclesFailAssumption == CyclesFail \in BOOLEAN

Detectors == {"table", "dcm", "fsa", "vector"}

VARIABLES
    table,      \* globalReservationTable_: column -> reserved resources
    dcm,        \* globalCollisionMatrix_: column -> colliding operations
    current,    \* the collision matrix of the automaton's currentState_
    next,       \* the collision matrix of its nextState_
    composite,  \* compositeVector_: column -> used resources
    issued,     \* an operation was issued in this cycle
    accepted,   \* detector -> age -> operations it accepted that long ago
    settled     \* advances since the automaton last lost an operation

vars == <<table, dcm, current, next, composite, issued, accepted, settled>>

(***************************************************************************)
(* Bit matrices, as functions from columns to the set rows.                *)
(***************************************************************************)
Zero == [c \in Columns |-> {}]

At(m, c) == IF c \in Columns THEN m[c] ELSE {}

shiftLeft(m) == [c \in Columns |-> At(m, c + 1)]

orWith(m, n) == [c \in Columns |-> m[c] \union n[c]]

conflictsWith(m, n) == \E c \in Columns : m[c] \intersect n[c] # {}

\* The table of an operation that was issued `cycle` cycles earlier.
shiftedBy(m, cycle) == [c \in Columns |-> At(m, c + cycle)]

\* Mutant of CollisionMatrix: the other operation's table is the one shifted.
CollisionMatrixMirrored(op) ==
    [c \in Columns |->
        {o \in Operations : conflictsWith(Usage[op], shiftedBy(Usage[o], c))}]

\* Column c: the operations that must not be issued c cycles after op.
CollisionMatrix(op) ==
    [c \in Columns |->
        {o \in Operations : conflictsWith(shiftedBy(Usage[op], c), Usage[o])}]

(***************************************************************************)
(* The question: an operation accepted `age` cycles ago uses a resource in *)
(* a cycle in which op, issued now, uses it as well.                       *)
(***************************************************************************)
Overlaps(earlier, age, op) ==
    \E c \in Columns : At(Usage[earlier], c + age) \intersect Usage[op][c] # {}

TrueConflict(d, op) ==
    \E age \in Columns : \E e \in accepted[d][age] : Overlaps(e, age, op)

(***************************************************************************)
(* The answers.                                                            *)
(***************************************************************************)
\* Mutant of TableRejects: only the column of the current cycle is compared.
TableRejectsNow(op) == table[0] \intersect Usage[op][0] # {}

TableRejects(op) == conflictsWith(table, Usage[op])

DCMRejects(op) == op \in dcm[0]

\* resolveState: a state stands for the cycle of the latest issue, so the
\* operation that comes next is looked up in column 1.
AutomatonRejects(op) == op \in At(current, 1)

\* Mutant of VectorRejects: columns are compared from the first one on.
VectorRejectsFromZero(op) ==
    \E c \in Columns : composite[c] \intersect Usage[op][c] # {}

\* ResourceVector::conflictsWith at offset 1 gives up at the first column in
\* which one of the two vectors uses nothing.  A column past the end of a
\* vector ends the loop in the same way and is an empty column here.
VectorRejects(op) ==
    \E c \in Columns :
        /\ composite[c + 1] \intersect Usage[op][c] # {}
        /\ \A b \in 0..c : composite[b + 1] # {} /\ Usage[op][b] # {}

Rejects(d, op) ==
    \/ d = "table" /\ TableRejects(op)
    \/ d = "dcm" /\ DCMRejects(op)
    \/ d = "fsa" /\ AutomatonRejects(op)
    \/ d = "vector" /\ VectorRejects(op)

(***************************************************************************)
(* The detectors' state.                                                   *)
(***************************************************************************)
NothingAccepted == [d \in Detectors |-> [age \in Columns |-> {}]]

Init ==
    /\ table = Zero
    /\ dcm = Zero
    /\ current = Zero
    /\ next = Zero
    /\ composite = [c \in 0..MaxLatency |-> {}]
    /\ issued = FALSE
    /\ accepted = NothingAccepted
    /\ settled = MaxLatency

IssueInTable(op) ==
    table' = IF TableRejects(op) THEN table ELSE orWith(table, Usage[op])

\* Mutant of IssueInDCM: the resources of the operation are merged, not the
\* operations it collides with.
IssueInDCMByTable(op) ==
    dcm' = IF DCMRejects(op) THEN dcm ELSE orWith(dcm, Usage[op])

IssueInDCM(op) ==
    dcm' = IF DCMRejects(op) THEN dcm ELSE orWith(dcm, CollisionMatrix(op))

\* Mutant of IssueInAutomaton: the matrix is not moved on to the next cycle.
IssueInAutomatonUnshifted(op) ==
    next' = IF AutomatonRejects(op)
            THEN Zero
            ELSE orWith(current, CollisionMatrix(op))

\* The illegal state is replaced by state 0, in which nothing is in flight.
IssueInAutomaton(op) ==
    next' = IF AutomatonRejects(op)
            THEN Zero
            ELSE orWith(shiftLeft(current), CollisionMatrix(op))

\* mergeWith at offset 1.
IssueInVector(op) ==
    composite' = IF VectorRejects(op)
                 THEN composite
                 ELSE [c \in 0..MaxLatency |->
                          composite[c] \union At(Usage[op], c - 1)]

issueOperation(op) ==
    /\ ~issued
    /\ IssueInTable(op)
    /\ IssueInDCM(op)
    /\ IssueInAutomaton(op)
    /\ IssueInVector(op)
    /\ issued' = TRUE
    /\ accepted' = [d \in Detectors |->
                       IF Rejects(d, op)
                       THEN accepted[d]
                       ELSE [accepted[d] EXCEPT ![0] = @ \union {op}]]
    /\ settled' = IF AutomatonRejects(op) THEN 0 ELSE settled
    /\ UNCHANGED current

\* currentState_ moves on and the NOP transition is prepared.  An idle
\* automaton (both states are the start state) is not advanced, which is the
\* same: the NOP transition of the start state leads to itself.
AdvanceAutomaton ==
    /\ current' = next
    /\ next' = shiftLeft(next)

advanceClock ==
    /\ AdvanceAutomaton
    /\ table' = shiftLeft(table)
    /\ dcm' = shiftLeft(dcm)
    /\ composite' = [c \in 0..MaxLatency |->
                        IF c = MaxLatency THEN {} ELSE composite[c + 1]]
    /\ issued' = FALSE
    /\ accepted' = [d \in Detectors |->
                       [age \in Columns |-> At(accepted[d], age - 1)]]
    /\ settled' = IF settled = MaxLatency THEN settled ELSE settled + 1

\* simulateCycle returns on an exception before it advances the detectors;
\* the user resumes and the next instruction issues into the same cycle.
\* The automaton prepares that issue from currentState_ again.
GiveUpCycle ==
    /\ CyclesFail
    /\ issued
    /\ issued' = FALSE
    /\ settled' = IF accepted["fsa"][0] = {} THEN settled ELSE 0
    /\ UNCHANGED <<table, dcm, current, next, composite, accepted>>

\* Mutant of reset: the automaton keeps the transition it had prepared.
resetKeepsNext ==
    /\ table' = Zero
    /\ dcm' = Zero
    /\ current' = Zero
    /\ UNCHANGED next
    /\ composite' = [c \in 0..MaxLatency |-> {}]
    /\ issued' = FALSE
    /\ accepted' = NothingAccepted
    /\ settled' = MaxLatency

\* SimulationController::reset, called when the program is killed.
reset ==
    /\ table' = Zero
    /\ dcm' = Zero
    /\ current' = Zero
    /\ next' = Zero
    /\ composite' = [c \in 0..MaxLatency |-> {}]
    /\ issued' = FALSE
    /\ accepted' = NothingAccepted
    /\ settled' = MaxLatency

Next ==
    \/ \E op \in Operations : issueOperation(op)
    \/ advanceClock
    \/ GiveUpCycle
    \/ reset

Spec == Init /\ [][Next]_vars

(***************************************************************************)
(* Properties.                                                             *)
(***************************************************************************)

\* The variables keep their types.
TypeOK ==
    /\ table \in [Columns -> SUBSET Resources]
    /\ dcm \in [Columns -> SUBSET Operations]
    /\ current \in [Columns -> SUBSET Operations]
    /\ next \in [Columns -> SUBSET Operations]
    /\ composite \in [0..MaxLatency -> SUBSET Resources]
    /\ issued \in BOOLEAN
    /\ accepted \in [Detectors -> [Columns -> SUBSET Operations]]
    /\ settled \in 0..MaxLatency

\* Whatever was issued, given up and resumed before, the reservation table
\* rejects an operation exactly when it overlaps one that was accepted
\* (ReservationTableFUResourceConflictDetector::issueOperationInline).
TableIsExact ==
    \A op \in Operations : TableRejects(op) <=> TrueConflict("table", op)

\* The precomputed collision matrices lose nothing against the tables they
\* are made from: one look into column 0 answers the whole question
\* (DCMFUResourceConflictDetector::issueOperationInline).
DCMIsExact ==
    \A op \in Operations : DCMRejects(op) <=> TrueConflict("dcm", op)

\* The automaton never rejects an operation that overlaps nothing
\* (FSAFUResourceConflictDetector::issueOperationLazyInline).
AutomatonRaisesNoFalseAlarm ==
    \A op \in Operations : AutomatonRejects(op) => TrueConflict("fsa", op)

\* The automaton forgets what is in flight when it rejects an operation or
\* when a given-up cycle is issued into again, but it recovers: once all that
\* was in flight then has left the unit its answers are exact again.
AutomatonRecovers ==
    (~issued /\ settled = MaxLatency) =>
        \A op \in Operations : AutomatonRejects(op) <=> TrueConflict("fsa", op)

\* The resource vectors never reject an operation that overlaps nothing
\* (ResourceVector::conflictsWith).
VectorRaisesNoFalseAlarm ==
    \A op \in Operations : VectorRejects(op) => TrueConflict("vector", op)
==============================================================================
