----------------------- MODULE ConflictDetectorsProofs -----------------------
(***************************************************************************)
(* Proofs about ConflictDetectors for every set of operations and every    *)
(* resource usage.  The inductive invariant says, for each detector, what  *)
(* its table means in terms of the operations accepted so far: column c    *)
(* of a table stands for what an operation accepted `age` cycles ago does  *)
(* c + age cycles after its issue.                                         *)
(***************************************************************************)
EXTENDS ConflictDetectors, TLAPS

USE DEF Detectors

(***************************************************************************)
(* The operators.                                                          *)
(***************************************************************************)

\* Column 0 exists, and columns are natural numbers.
LEMMA ColumnFacts ==
    /\ 0 \in Columns
    /\ Columns \subseteq Nat
    /\ \A c \in Columns : c < MaxLatency /\ c \in 0..MaxLatency
                          /\ c + 1 \in 0..MaxLatency
    /\ \A k \in Nat : k < MaxLatency <=> k \in Columns
BY MaxLatencyAssumption DEF Columns

\* A table of sets stays one when it is shifted or merged.
LEMMA MatrixTypes ==
    ASSUME NEW S, NEW m \in [Columns -> SUBSET S],
           NEW n \in [Columns -> SUBSET S]
    PROVE  /\ Zero \in [Columns -> SUBSET S]
           /\ shiftLeft(m) \in [Columns -> SUBSET S]
           /\ orWith(m, n) \in [Columns -> SUBSET S]
BY DEF Zero, shiftLeft, orWith, At

\* An operation that has left the unit overlaps nothing.
LEMMA OverlapsBound ==
    ASSUME NEW e \in Operations, NEW o \in Operations,
           NEW k \in Nat, k >= MaxLatency
    PROVE  ~Overlaps(e, k, o)
<1>1. \A c \in Columns : c + k \notin Columns
    BY MaxLatencyAssumption, ColumnFacts DEF Columns
<1> QED BY <1>1 DEF Overlaps, At

\* A column of a collision matrix holds the operations that overlap.
LEMMA MatrixMeaning ==
    ASSUME NEW op \in Operations
    PROVE  /\ CollisionMatrix(op) \in [Columns -> SUBSET Operations]
           /\ \A c \in Columns : \A o \in Operations :
                  o \in CollisionMatrix(op)[c] <=> Overlaps(op, c, o)
<1>1. CollisionMatrix(op) \in [Columns -> SUBSET Operations]
    BY DEF CollisionMatrix
<1>2. ASSUME NEW c \in Columns, NEW o \in Operations
      PROVE  o \in CollisionMatrix(op)[c] <=> Overlaps(op, c, o)
    <2>1. o \in CollisionMatrix(op)[c]
              <=> conflictsWith(shiftedBy(Usage[op], c), Usage[o])
        BY <1>2 DEF CollisionMatrix
    <2>2. \A b \in Columns :
              shiftedBy(Usage[op], c)[b] = At(Usage[op], b + c)
        BY DEF shiftedBy
    <2> QED BY <2>1, <2>2 DEF conflictsWith, Overlaps
<1> QED BY <1>1, <1>2

(***************************************************************************)
(* Type correctness.                                                       *)
(***************************************************************************)

\* The initial state is well typed.
LEMMA InitTypeOK == Init => TypeOK
<1> SUFFICES ASSUME Init PROVE TypeOK
    OBVIOUS
<1>1. issued \in BOOLEAN
    BY Zenon DEF Init
<1>2. Zero \in [Columns -> SUBSET Resources]
      /\ Zero \in [Columns -> SUBSET Operations]
    BY DEF Zero
<1>3. accepted \in [Detectors -> [Columns -> SUBSET Operations]]
    BY DEF Init, NothingAccepted
<1>4. composite \in [0..MaxLatency -> SUBSET Resources]
    BY DEF Init
<1> QED BY <1>1, <1>2, <1>3, <1>4, MaxLatencyAssumption DEF Init, TypeOK

\* Every step keeps the types.
LEMMA NextTypeOK == TypeOK /\ [Next]_vars => TypeOK'
<1> SUFFICES ASSUME TypeOK, [Next]_vars PROVE TypeOK'
    OBVIOUS
<1> USE UsageAssumption, MaxLatencyAssumption, ColumnFacts
<1>1. ASSUME NEW op \in Operations, issueOperation(op) PROVE TypeOK'
    <2>1. table' \in [Columns -> SUBSET Resources]
        BY <1>1, MatrixTypes DEF issueOperation, IssueInTable, TypeOK
    <2>2. dcm' \in [Columns -> SUBSET Operations]
        BY <1>1, MatrixTypes, MatrixMeaning
           DEF issueOperation, IssueInDCM, TypeOK
    <2>3. next' \in [Columns -> SUBSET Operations]
        BY <1>1, MatrixTypes, MatrixMeaning
           DEF issueOperation, IssueInAutomaton, TypeOK
    <2>4. composite' \in [0..MaxLatency -> SUBSET Resources]
        BY <1>1 DEF issueOperation, IssueInVector, TypeOK, At
    <2>5. issued' \in BOOLEAN
        BY <1>1, Zenon DEF issueOperation
    <2>6. accepted' \in [Detectors -> [Columns -> SUBSET Operations]]
        BY <1>1 DEF issueOperation, TypeOK
    <2>7. settled' \in 0..MaxLatency /\ current' = current
        BY <1>1 DEF issueOperation, TypeOK
    <2> QED BY <2>1, <2>2, <2>3, <2>4, <2>5, <2>6, <2>7 DEF TypeOK
<1>2. ASSUME advanceClock PROVE TypeOK'
    <2>1. table' \in [Columns -> SUBSET Resources]
        BY <1>2, MatrixTypes DEF advanceClock, TypeOK
    <2>2. dcm' \in [Columns -> SUBSET Operations]
        BY <1>2, MatrixTypes DEF advanceClock, TypeOK
    <2>3. /\ current' \in [Columns -> SUBSET Operations]
          /\ next' \in [Columns -> SUBSET Operations]
        BY <1>2, MatrixTypes DEF advanceClock, AdvanceAutomaton, TypeOK
    <2>4. composite' \in [0..MaxLatency -> SUBSET Resources]
        BY <1>2 DEF advanceClock, TypeOK
    <2>5. issued' \in BOOLEAN
        BY <1>2, Zenon DEF advanceClock
    <2>6. accepted' \in [Detectors -> [Columns -> SUBSET Operations]]
        BY <1>2 DEF advanceClock, TypeOK, At
    <2>7. settled' \in 0..MaxLatency
        BY <1>2 DEF advanceClock, TypeOK
    <2> QED BY <2>1, <2>2, <2>3, <2>4, <2>5, <2>6, <2>7 DEF TypeOK
<1>3. ASSUME GiveUpCycle PROVE TypeOK'
    <2>1. issued' \in BOOLEAN
        BY <1>3, Zenon DEF GiveUpCycle
    <2> QED BY <1>3, <2>1 DEF GiveUpCycle, TypeOK
<1>4. ASSUME reset PROVE TypeOK'
    <2>1. issued' \in BOOLEAN
        BY <1>4, Zenon DEF reset
    <2>2. Zero \in [Columns -> SUBSET Resources]
          /\ Zero \in [Columns -> SUBSET Operations]
        BY DEF Zero
    <2>3. accepted' \in [Detectors -> [Columns -> SUBSET Operations]]
        BY <1>4 DEF reset, NothingAccepted
    <2>4. composite' \in [0..MaxLatency -> SUBSET Resources]
        BY <1>4 DEF reset
    <2> QED BY <1>4, <2>1, <2>2, <2>3, <2>4 DEF reset, TypeOK
<1>5. CASE UNCHANGED vars
    BY <1>5 DEF vars, TypeOK
<1> QED BY <1>1, <1>2, <1>3, <1>4, <1>5 DEF Next

\* Every reachable state is well typed, for every usage of the resources by
\* every set of operations.
THEOREM TypeCorrect == Spec => []TypeOK
BY InitTypeOK, NextTypeOK, PTL DEF Spec

(***************************************************************************)
(* The inductive invariant.                                                *)
(***************************************************************************)

\* Something detector d accepted overlaps o when o is issued in c cycles.
Ahead(d, c, o) ==
    \E age \in Columns : \E e \in accepted[d][age] : Overlaps(e, age + c, o)

\* Something detector d accepted uses r in c cycles.
UsedIn(d, c, r) ==
    \E age \in Columns : \E e \in accepted[d][age] :
        r \in At(Usage[e], age + c)

\* The same, of what the automaton has accepted since it last lost something.
AheadSettled(c, o) ==
    \E age \in Columns : \E e \in accepted["fsa"][age] :
        age < settled /\ Overlaps(e, age + c, o)

TableMeaning ==
    \A c \in Columns : \A r \in Resources :
        r \in table[c] <=> UsedIn("table", c, r)

DCMMeaning ==
    \A c \in Columns : \A o \in Operations :
        o \in dcm[c] <=> Ahead("dcm", c, o)

VectorMeaning ==
    \A c \in Columns : \A r \in Resources :
        r \in composite[c + 1] => UsedIn("vector", c, r)

\* nextState_ is the state of this cycle.
NextMeaning ==
    \A c \in Columns : \A o \in Operations :
        /\ o \in next[c] => Ahead("fsa", c, o)
        /\ AheadSettled(c, o) => o \in next[c]

\* currentState_ is the state of the previous one, so that its column c + 1
\* is the present column c.  It does not hold what was issued in this cycle.
CurrentMeaning ==
    \A c \in Columns : \A o \in Operations : c + 1 \in Columns =>
        /\ o \in current[c + 1] => Ahead("fsa", c, o)
        /\ \A age \in Columns : \A e \in accepted["fsa"][age] :
               age # 0 /\ age < settled /\ Overlaps(e, age + c, o)
                   => o \in current[c + 1]

\* An operation accepted in a cycle that is not issued into is one of a
\* given-up cycle, which the automaton may lose.
LostIsKnown == ~issued => accepted["fsa"][0] = {} \/ settled = 0

IInv ==
    /\ TypeOK
    /\ TableMeaning
    /\ DCMMeaning
    /\ VectorMeaning
    /\ NextMeaning
    /\ CurrentMeaning
    /\ LostIsKnown

\* Nothing has been accepted initially and after a reset.
LEMMA EmptyIInv ==
    ASSUME TypeOK, table = Zero, dcm = Zero, current = Zero, next = Zero,
           composite = [c \in 0..MaxLatency |-> {}],
           accepted = NothingAccepted
    PROVE  IInv
<1>1. \A d \in Detectors : \A age \in Columns : accepted[d][age] = {}
    BY DEF NothingAccepted
<1>2. \A d \in Detectors : \A c, x : ~Ahead(d, c, x) /\ ~UsedIn(d, c, x)
    BY <1>1 DEF Ahead, UsedIn
<1>3. \A c, x : ~AheadSettled(c, x)
    BY <1>1 DEF AheadSettled
<1>4. \A c \in Columns : table[c] = {} /\ dcm[c] = {} /\ next[c] = {}
                         /\ current[c] = {}
    BY DEF Zero
<1>5. \A c \in Columns : composite[c + 1] = {}
    BY ColumnFacts
<1>6. TableMeaning /\ DCMMeaning
    BY <1>2, <1>4 DEF TableMeaning, DCMMeaning
<1>7. VectorMeaning
    BY <1>5 DEF VectorMeaning
<1>8. NextMeaning
    BY <1>3, <1>4 DEF NextMeaning
<1>9. CurrentMeaning
    BY <1>1, <1>4 DEF CurrentMeaning
<1>10. LostIsKnown
    BY <1>1, ColumnFacts DEF LostIsKnown
<1> QED BY <1>6, <1>7, <1>8, <1>9, <1>10 DEF IInv

\* What a detector accepts is accepted at age 0 and nothing else changes.
LEMMA AcceptedAfterIssue ==
    ASSUME TypeOK, NEW op \in Operations, issueOperation(op),
           NEW d \in Detectors
    PROVE  /\ \A age \in Columns : accepted[d][age] \subseteq accepted'[d][age]
           /\ \A age \in Columns \ {0} : accepted'[d][age] = accepted[d][age]
           /\ Rejects(d, op) => accepted'[d] = accepted[d]
           /\ ~Rejects(d, op) => accepted'[d][0] = accepted[d][0] \union {op}
BY ColumnFacts DEF TypeOK, issueOperation

\* An advance makes everything accepted one cycle older.
LEMMA AcceptedAfterAdvance ==
    ASSUME TypeOK, advanceClock, NEW d \in Detectors
    PROVE  /\ accepted'[d][0] = {}
           /\ \A age \in Columns :
                  age + 1 \in Columns =>
                      accepted'[d][age + 1] = accepted[d][age]
           /\ \A age \in Columns \ {0} :
                  /\ age - 1 \in Columns
                  /\ accepted'[d][age] = accepted[d][age - 1]
BY ColumnFacts, MaxLatencyAssumption DEF TypeOK, advanceClock, At, Columns

\* Seen from one cycle later, what was ahead by c + 1 is ahead by c.
LEMMA AheadAfterAdvance ==
    ASSUME TypeOK, advanceClock, NEW d \in Detectors, NEW c \in Columns
    PROVE  /\ \A o \in Operations : Ahead(d, c + 1, o) <=> Ahead(d, c, o)'
           /\ \A r : UsedIn(d, c + 1, r) <=> UsedIn(d, c, r)'
<1> USE ColumnFacts, MaxLatencyAssumption
<1>0. TypeOK'
    BY NextTypeOK DEF Next
<1>1. ASSUME NEW o \in Operations, Ahead(d, c + 1, o) PROVE Ahead(d, c, o)'
    <2>1. PICK age \in Columns, e \in Operations :
                   e \in accepted[d][age] /\ Overlaps(e, age + (c + 1), o)
        BY <1>1 DEF Ahead, TypeOK
    <2>2. age + (c + 1) = (age + 1) + c
        OBVIOUS
    <2>3. age + 1 \in Columns
        BY <2>1, <2>2, OverlapsBound DEF Columns
    <2> QED BY <2>1, <2>2, <2>3, AcceptedAfterAdvance DEF Ahead
<1>2. ASSUME NEW o \in Operations, Ahead(d, c, o)' PROVE Ahead(d, c + 1, o)
    <2>1. PICK age \in Columns, e \in Operations :
                   e \in accepted'[d][age] /\ Overlaps(e, age + c, o)
        BY <1>2, <1>0 DEF Ahead, TypeOK
    <2>2. age # 0
        BY <2>1, AcceptedAfterAdvance
    <2>3. age - 1 \in Columns /\ e \in accepted[d][age - 1]
        BY <2>1, <2>2, AcceptedAfterAdvance
    <2>4. age + c = (age - 1) + (c + 1)
        OBVIOUS
    <2> QED BY <2>1, <2>3, <2>4 DEF Ahead
<1>3. ASSUME NEW r, UsedIn(d, c + 1, r) PROVE UsedIn(d, c, r)'
    <2>1. PICK age \in Columns, e \in Operations :
                   e \in accepted[d][age] /\ r \in At(Usage[e], age + (c + 1))
        BY <1>3 DEF UsedIn, TypeOK
    <2>2. age + (c + 1) \in Columns
        BY <2>1 DEF At
    <2>3. age + 1 \in Columns /\ age + (c + 1) = (age + 1) + c
        BY <2>2 DEF Columns
    <2> QED BY <2>1, <2>3, AcceptedAfterAdvance DEF UsedIn
<1>4. ASSUME NEW r, UsedIn(d, c, r)' PROVE UsedIn(d, c + 1, r)
    <2>1. PICK age \in Columns, e \in Operations :
                   e \in accepted'[d][age] /\ r \in At(Usage[e], age + c)
        BY <1>4, <1>0 DEF UsedIn, TypeOK
    <2>2. age # 0
        BY <2>1, AcceptedAfterAdvance
    <2>3. age - 1 \in Columns /\ e \in accepted[d][age - 1]
        BY <2>1, <2>2, AcceptedAfterAdvance
    <2>4. age + c = (age - 1) + (c + 1)
        OBVIOUS
    <2> QED BY <2>1, <2>3, <2>4 DEF UsedIn
<1> QED BY <1>1, <1>2, <1>3, <1>4

\* Nothing is ahead by more than the unit is deep.
LEMMA NothingAheadOfAll ==
    ASSUME TypeOK, NEW d \in Detectors
    PROVE  /\ \A o \in Operations : ~Ahead(d, MaxLatency, o)
           /\ \A r : ~UsedIn(d, MaxLatency, r)
<1>1. \A age \in Columns :
          age + MaxLatency \in Nat /\ age + MaxLatency >= MaxLatency
          /\ age + MaxLatency \notin Columns
    BY MaxLatencyAssumption DEF Columns
<1>2. \A age \in Columns : accepted[d][age] \subseteq Operations
    BY DEF TypeOK
<1> QED BY <1>1, <1>2, OverlapsBound DEF Ahead, UsedIn, At

(***************************************************************************)
(* The steps.                                                              *)
(***************************************************************************)

\* What an issue adds is the accepted operation itself.
LEMMA AheadAfterIssue ==
    ASSUME TypeOK, NEW op \in Operations, issueOperation(op),
           NEW d \in Detectors, NEW c \in Columns
    PROVE  /\ \A o \in Operations :
                  Ahead(d, c, o)' <=>
                      Ahead(d, c, o) \/ (~Rejects(d, op) /\ Overlaps(op, c, o))
           /\ \A r : UsedIn(d, c, r)' <=>
                  UsedIn(d, c, r)
                  \/ (~Rejects(d, op) /\ r \in At(Usage[op], c))
<1> USE ColumnFacts
<1>1. 0 + c = c
    OBVIOUS
<1>2. \A age \in Columns : \A e :
          e \in accepted'[d][age] <=>
              e \in accepted[d][age] \/ (age = 0 /\ e = op /\ ~Rejects(d, op))
    BY AcceptedAfterIssue
<1>3. ASSUME NEW o \in Operations
      PROVE  Ahead(d, c, o)' <=>
                 Ahead(d, c, o) \/ (~Rejects(d, op) /\ Overlaps(op, c, o))
    BY <1>1, <1>2, Zenon DEF Ahead
<1>4. ASSUME NEW r
      PROVE  UsedIn(d, c, r)' <=>
                 UsedIn(d, c, r) \/ (~Rejects(d, op) /\ r \in At(Usage[op], c))
    BY <1>1, <1>2, Zenon DEF UsedIn
<1> QED BY <1>3, <1>4

\* An issue keeps what the tables mean.
LEMMA IssueIInv ==
    ASSUME IInv, NEW op \in Operations, issueOperation(op)
    PROVE  IInv'
<1> USE ColumnFacts, UsageAssumption
<1>0. TypeOK /\ TypeOK'
    BY NextTypeOK DEF IInv, Next
<1>1. TableMeaning'
    <2>1. CASE TableRejects(op)
        <3>1. table' = table /\ Rejects("table", op)
            BY <2>1 DEF issueOperation, IssueInTable, Rejects
        <3> QED BY <1>0, <3>1, AheadAfterIssue DEF TableMeaning, IInv
    <2>2. CASE ~TableRejects(op)
        <3>1. ~Rejects("table", op)
            BY <2>2 DEF Rejects
        <3>2. \A c \in Columns : table'[c] = table[c] \union At(Usage[op], c)
            BY <2>2, <1>0
               DEF issueOperation, IssueInTable, orWith, At, TypeOK
        <3> QED BY <1>0, <3>1, <3>2, AheadAfterIssue DEF TableMeaning, IInv
    <2> QED BY <2>1, <2>2
<1>2. DCMMeaning'
    <2>1. CASE DCMRejects(op)
        <3>1. dcm' = dcm /\ Rejects("dcm", op)
            BY <2>1 DEF issueOperation, IssueInDCM, Rejects
        <3> QED BY <1>0, <3>1, AheadAfterIssue DEF DCMMeaning, IInv
    <2>2. CASE ~DCMRejects(op)
        <3>1. ~Rejects("dcm", op)
            BY <2>2 DEF Rejects
        <3>2. \A c \in Columns : dcm'[c] = dcm[c] \union CollisionMatrix(op)[c]
            BY <2>2, <1>0 DEF issueOperation, IssueInDCM, orWith, TypeOK
        <3> QED BY <1>0, <3>1, <3>2, AheadAfterIssue, MatrixMeaning
                DEF DCMMeaning, IInv
    <2> QED BY <2>1, <2>2
<1>3. VectorMeaning'
    <2>1. CASE VectorRejects(op)
        <3>1. composite' = composite /\ Rejects("vector", op)
            BY <2>1 DEF issueOperation, IssueInVector, Rejects
        <3> QED BY <1>0, <3>1, AheadAfterIssue DEF VectorMeaning, IInv
    <2>2. CASE ~VectorRejects(op)
        <3>1. ~Rejects("vector", op)
            BY <2>2 DEF Rejects
        <3>2. \A c \in Columns : (c + 1) - 1 = c
            OBVIOUS
        <3>3. \A c \in Columns :
                  composite'[c + 1] = composite[c + 1] \union At(Usage[op], c)
            BY <2>2, <1>0, <3>2 DEF issueOperation, IssueInVector, TypeOK
        <3> QED BY <1>0, <3>1, <3>3, AheadAfterIssue DEF VectorMeaning, IInv
    <2> QED BY <2>1, <2>2
<1>4. NextMeaning'
    <2>1. CASE AutomatonRejects(op)
        <3>1. \A c \in Columns : next'[c] = {}
            BY <2>1 DEF issueOperation, IssueInAutomaton, Zero
        <3>2. settled' = 0
            BY <2>1 DEF issueOperation
        <3>3. \A c, o : ~AheadSettled(c, o)'
            BY <3>2 DEF AheadSettled
        <3> QED BY <3>1, <3>3 DEF NextMeaning
    <2>2. CASE ~AutomatonRejects(op)
        <3>1. ~Rejects("fsa", op) /\ settled' = settled
            BY <2>2 DEF Rejects, issueOperation
        <3>2. \A c \in Columns :
                  next'[c] = At(current, c + 1) \union CollisionMatrix(op)[c]
            BY <2>2, <1>0 DEF issueOperation, IssueInAutomaton, orWith,
                              shiftLeft, TypeOK
        <3>3. ASSUME NEW c \in Columns, NEW o \in Operations, o \in next'[c]
              PROVE  Ahead("fsa", c, o)'
            <4>1. CASE o \in CollisionMatrix(op)[c]
                BY <4>1, <3>1, <1>0, MatrixMeaning, AheadAfterIssue
            <4>2. CASE o \in At(current, c + 1)
                <5>1. c + 1 \in Columns /\ o \in current[c + 1]
                    BY <4>2 DEF At
                <5> QED BY <5>1, <1>0, AheadAfterIssue DEF CurrentMeaning, IInv
            <4> QED BY <3>3, <3>2, <4>1, <4>2
        <3>4. ASSUME NEW c \in Columns, NEW o \in Operations,
                     AheadSettled(c, o)'
              PROVE  o \in next'[c]
            <4>1. PICK age \in Columns, e \in Operations :
                      /\ e \in accepted'["fsa"][age]
                      /\ age < settled /\ Overlaps(e, age + c, o)
                BY <3>4, <3>1, <1>0 DEF AheadSettled, TypeOK
            <4>2. CASE age = 0
                <5>1. accepted["fsa"][0] = {}
                    BY <4>1, <4>2, <1>0
                       DEF LostIsKnown, IInv, issueOperation, TypeOK
                <5>2. e = op
                    BY <5>1, <4>1, <4>2, <3>1, <1>0, AcceptedAfterIssue
                <5>3. Overlaps(op, c, o)
                    BY <5>2, <4>1, <4>2
                <5> QED BY <5>3, <3>2, MatrixMeaning
            <4>3. CASE age # 0
                <5>1. e \in accepted["fsa"][age]
                    BY <4>1, <4>3, <1>0, AcceptedAfterIssue
                <5>2. c + 1 \in Columns
                    BY <4>1, <4>3, OverlapsBound, MaxLatencyAssumption
                       DEF Columns
                <5>3. o \in current[c + 1]
                    BY <5>1, <5>2, <4>1, <4>3 DEF CurrentMeaning, IInv
                <5> QED BY <5>2, <5>3, <3>2 DEF At
            <4> QED BY <4>2, <4>3
        <3> QED BY <3>3, <3>4 DEF NextMeaning
    <2> QED BY <2>1, <2>2
<1>5. CurrentMeaning'
    <2>1. current' = current /\ (settled' = settled \/ settled' = 0)
        BY DEF issueOperation
    <2>2. ASSUME NEW c \in Columns, NEW o \in Operations, c + 1 \in Columns,
                 o \in current'[c + 1]
          PROVE  Ahead("fsa", c, o)'
        BY <2>1, <2>2, <1>0, AheadAfterIssue DEF CurrentMeaning, IInv
    <2>3. ASSUME NEW c \in Columns, NEW o \in Operations, c + 1 \in Columns,
                 NEW age \in Columns, NEW e \in accepted'["fsa"][age],
                 age # 0, age < settled', Overlaps(e, age + c, o)
          PROVE  o \in current'[c + 1]
        <3>1. e \in accepted["fsa"][age] /\ settled' = settled
            BY <2>1, <2>3, <1>0, AcceptedAfterIssue
        <3> QED BY <2>1, <2>3, <3>1 DEF CurrentMeaning, IInv
    <2> QED BY <2>2, <2>3 DEF CurrentMeaning
<1>6. LostIsKnown'
    BY DEF LostIsKnown, issueOperation
<1> QED BY <1>0, <1>1, <1>2, <1>3, <1>4, <1>5, <1>6 DEF IInv

\* An advance keeps what the tables mean.
LEMMA AdvanceIInv ==
    ASSUME IInv, advanceClock
    PROVE  IInv'
<1> USE ColumnFacts, MaxLatencyAssumption
<1>0. TypeOK /\ TypeOK'
    BY NextTypeOK DEF IInv, Next
<1>1. \A c \in Columns : c + 1 \in Columns \/ c + 1 = MaxLatency
    BY DEF Columns
<1>2. TableMeaning'
    <2>1. \A c \in Columns : table'[c] = At(table, c + 1)
        BY DEF advanceClock, shiftLeft
    <2>2. ASSUME NEW c \in Columns, NEW r \in Resources
          PROVE  r \in table'[c] <=> UsedIn("table", c + 1, r)
        <3>1. CASE c + 1 \in Columns
            BY <2>1, <3>1 DEF At, TableMeaning, IInv
        <3>2. CASE c + 1 = MaxLatency
            <4>1. table'[c] = {}
                BY <2>1, <3>2 DEF At
            <4>2. ~UsedIn("table", c + 1, r)
                BY <3>2, <1>0, NothingAheadOfAll
            <4> QED BY <4>1, <4>2
        <3> QED BY <1>1, <3>1, <3>2
    <2> QED BY <2>2, <1>0, AheadAfterAdvance DEF TableMeaning
<1>3. DCMMeaning'
    <2>1. \A c \in Columns : dcm'[c] = At(dcm, c + 1)
        BY DEF advanceClock, shiftLeft
    <2>2. ASSUME NEW c \in Columns, NEW o \in Operations
          PROVE  o \in dcm'[c] <=> Ahead("dcm", c + 1, o)
        <3>1. CASE c + 1 \in Columns
            BY <2>1, <3>1 DEF At, DCMMeaning, IInv
        <3>2. CASE c + 1 = MaxLatency
            <4>1. dcm'[c] = {}
                BY <2>1, <3>2 DEF At
            <4>2. ~Ahead("dcm", c + 1, o)
                BY <3>2, <1>0, NothingAheadOfAll
            <4> QED BY <4>1, <4>2
        <3> QED BY <1>1, <3>1, <3>2
    <2> QED BY <2>2, <1>0, AheadAfterAdvance DEF DCMMeaning
<1>4. VectorMeaning'
    <2>1. ASSUME NEW c \in Columns, NEW r \in Resources,
                 r \in composite'[c + 1]
          PROVE  UsedIn("vector", c + 1, r)
        <3>1. c + 1 # MaxLatency /\ r \in composite[(c + 1) + 1]
            BY <2>1 DEF advanceClock
        <3> QED BY <1>1, <3>1 DEF VectorMeaning, IInv
    <2> QED BY <2>1, <1>0, AheadAfterAdvance DEF VectorMeaning
<1>5. \A c \in Columns : \A o \in Operations :
          AheadSettled(c, o)' => c + 1 \in Columns /\ AheadSettled(c + 1, o)
    <2> SUFFICES ASSUME NEW c \in Columns, NEW o \in Operations,
                        AheadSettled(c, o)'
                 PROVE  c + 1 \in Columns /\ AheadSettled(c + 1, o)
        OBVIOUS
    <2>1. PICK age \in Columns, e \in Operations :
              /\ e \in accepted'["fsa"][age]
              /\ age < settled' /\ Overlaps(e, age + c, o)
        BY <1>0 DEF AheadSettled, TypeOK
    <2>2. age # 0
        BY <2>1, <1>0, AcceptedAfterAdvance
    <2>3. age - 1 \in Columns /\ e \in accepted["fsa"][age - 1]
        BY <2>1, <2>2, <1>0, AcceptedAfterAdvance
    <2>4. age - 1 < settled
        BY <2>1, <1>0 DEF advanceClock, TypeOK
    <2>5. age + c = (age - 1) + (c + 1)
        OBVIOUS
    <2>6. c + 1 \in Columns
        BY <2>1, <2>2, OverlapsBound DEF Columns
    <2> QED BY <2>1, <2>3, <2>4, <2>5, <2>6 DEF AheadSettled
<1>6. NextMeaning'
    <2>1. \A c \in Columns : next'[c] = At(next, c + 1)
        BY DEF advanceClock, AdvanceAutomaton, shiftLeft
    <2>2. ASSUME NEW c \in Columns, NEW o \in Operations, o \in next'[c]
          PROVE  Ahead("fsa", c, o)'
        <3>1. c + 1 \in Columns /\ o \in next[c + 1]
            BY <2>1, <2>2 DEF At
        <3> QED BY <3>1, <1>0, AheadAfterAdvance DEF NextMeaning, IInv
    <2>3. ASSUME NEW c \in Columns, NEW o \in Operations, AheadSettled(c, o)'
          PROVE  o \in next'[c]
        BY <2>1, <2>3, <1>5 DEF At, NextMeaning, IInv
    <2> QED BY <2>2, <2>3 DEF NextMeaning
<1>7. CurrentMeaning'
    <2>1. current' = next
        BY DEF advanceClock, AdvanceAutomaton
    <2>2. ASSUME NEW c \in Columns, NEW o \in Operations, c + 1 \in Columns,
                 o \in current'[c + 1]
          PROVE  Ahead("fsa", c, o)'
        BY <2>1, <2>2, <1>0, AheadAfterAdvance DEF NextMeaning, IInv
    <2>3. ASSUME NEW c \in Columns, NEW o \in Operations, c + 1 \in Columns,
                 NEW age \in Columns, NEW e \in accepted'["fsa"][age],
                 age # 0, age < settled', Overlaps(e, age + c, o)
          PROVE  o \in current'[c + 1]
        <3>1. AheadSettled(c, o)'
            BY <2>3 DEF AheadSettled
        <3> QED BY <3>1, <2>1, <1>5 DEF NextMeaning, IInv
    <2> QED BY <2>2, <2>3 DEF CurrentMeaning
<1>8. LostIsKnown'
    BY <1>0, AcceptedAfterAdvance DEF LostIsKnown
<1> QED BY <1>0, <1>2, <1>3, <1>4, <1>6, <1>7, <1>8 DEF IInv

\* A cycle given up keeps what the tables mean: less is claimed afterwards.
LEMMA GiveUpIInv ==
    ASSUME IInv, GiveUpCycle
    PROVE  IInv'
<1>0. TypeOK /\ TypeOK'
    BY NextTypeOK DEF IInv, Next
<1>1. settled' = settled \/ settled' = 0
    BY DEF GiveUpCycle
<1>2. TableMeaning' /\ DCMMeaning' /\ VectorMeaning'
    BY DEF IInv, GiveUpCycle, TableMeaning, DCMMeaning, VectorMeaning, Ahead,
           UsedIn
<1>3. \A c, o : AheadSettled(c, o)' => AheadSettled(c, o)
    BY <1>1, ColumnFacts DEF AheadSettled, GiveUpCycle
<1>4. NextMeaning'
    BY <1>3 DEF IInv, GiveUpCycle, NextMeaning, Ahead
<1>5. CurrentMeaning'
    <2>1. current' = current /\ accepted' = accepted
        BY DEF GiveUpCycle
    <2>2. \A c \in Columns : \A o \in Operations :
              c + 1 \in Columns /\ o \in current'[c + 1] => Ahead("fsa", c, o)'
        BY <2>1 DEF IInv, CurrentMeaning, Ahead
    <2>3. ASSUME NEW c \in Columns, NEW o \in Operations, c + 1 \in Columns,
                 NEW age \in Columns, NEW e \in accepted'["fsa"][age],
                 age # 0, age < settled', Overlaps(e, age + c, o)
          PROVE  o \in current'[c + 1]
        <3>1. age \in Nat /\ settled \in Nat
            BY <1>0, ColumnFacts, MaxLatencyAssumption DEF TypeOK
        <3>2. age < settled
            BY <2>3, <1>1, <3>1
        <3> QED BY <2>1, <2>3, <3>2 DEF IInv, CurrentMeaning
    <2> QED BY <2>2, <2>3 DEF CurrentMeaning
<1>6. LostIsKnown'
    BY DEF GiveUpCycle, LostIsKnown
<1> QED BY <1>0, <1>2, <1>4, <1>5, <1>6 DEF IInv

\* The meaning of the tables is an invariant of the specification.
LEMMA Meaning == Spec => []IInv
<1>1. Init => IInv
    BY InitTypeOK, EmptyIInv DEF Init
<1>2. IInv /\ [Next]_vars => IInv'
    <2> SUFFICES ASSUME IInv, [Next]_vars PROVE IInv'
        OBVIOUS
    <2>0. TypeOK'
        BY NextTypeOK DEF IInv
    <2>1. ASSUME reset PROVE IInv'
        <3> USE ColumnFacts
        <3>1. \A d \in Detectors : \A age \in Columns : accepted'[d][age] = {}
            BY <2>1 DEF reset, NothingAccepted
        <3>2. \A d \in Detectors : \A c, x :
                  ~Ahead(d, c, x)' /\ ~UsedIn(d, c, x)'
            BY <3>1 DEF Ahead, UsedIn
        <3>3. \A c, x : ~AheadSettled(c, x)'
            BY <3>1 DEF AheadSettled
        <3>4. \A c \in Columns : table'[c] = {} /\ dcm'[c] = {}
                                 /\ next'[c] = {} /\ current'[c] = {}
            BY <2>1 DEF reset, Zero
        <3>5. \A c \in Columns : composite'[c + 1] = {}
            BY <2>1 DEF reset
        <3>6. TableMeaning' /\ DCMMeaning' /\ VectorMeaning' /\ NextMeaning'
            BY <3>2, <3>3, <3>4, <3>5
               DEF TableMeaning, DCMMeaning, VectorMeaning, NextMeaning
        <3>7. CurrentMeaning' /\ LostIsKnown'
            BY <3>1, <3>4 DEF CurrentMeaning, LostIsKnown
        <3> QED BY <2>0, <3>6, <3>7 DEF IInv
    <2>2. CASE UNCHANGED vars
        BY <2>2 DEF vars, IInv, TypeOK, TableMeaning, DCMMeaning,
                    VectorMeaning, NextMeaning, CurrentMeaning, LostIsKnown,
                    Ahead, UsedIn, AheadSettled
    <2> QED BY <2>1, <2>2, IssueIInv, AdvanceIInv, GiveUpIInv DEF Next
<1> QED BY <1>1, <1>2, PTL DEF Spec

(***************************************************************************)
(* The results.                                                            *)
(***************************************************************************)

\* For every unit the reservation table rejects an operation exactly when it
\* overlaps an accepted one.
THEOREM TableExact == Spec => []TableIsExact
<1>1. IInv => TableIsExact
    <2> SUFFICES ASSUME IInv, NEW op \in Operations
                 PROVE  TableRejects(op) <=> TrueConflict("table", op)
        BY DEF TableIsExact
    <2>1. TableRejects(op) <=>
              \E c \in Columns : \E r \in Resources :
                  UsedIn("table", c, r) /\ r \in Usage[op][c]
        BY UsageAssumption
           DEF TableRejects, conflictsWith, IInv, TypeOK, TableMeaning
    <2>2. \A e \in Operations : \A k \in Nat :
              At(Usage[e], k) \subseteq Resources
        BY UsageAssumption DEF At
    <2>3. \A c, age \in Columns : age + c = c + age /\ c + age \in Nat
        BY ColumnFacts
    <2> QED BY <2>1, <2>2, <2>3
            DEF UsedIn, TrueConflict, Overlaps, IInv, TypeOK
<1> QED BY <1>1, Meaning, PTL

\* For every unit the collision matrices answer the same question exactly.
THEOREM DCMExact == Spec => []DCMIsExact
<1>1. IInv => DCMIsExact
    <2>1. \A age \in Columns : age + 0 = age
        BY ColumnFacts
    <2> QED BY <2>1, ColumnFacts
            DEF DCMIsExact, DCMRejects, IInv, DCMMeaning, Ahead, TrueConflict
<1> QED BY <1>1, Meaning, PTL

\* For every unit the automaton rejects only what overlaps.
THEOREM AutomatonSound == Spec => []AutomatonRaisesNoFalseAlarm
<1>1. IInv => AutomatonRaisesNoFalseAlarm
    <2>1. \A age \in Columns : age + 0 = age
        BY ColumnFacts
    <2>2. 0 + 1 = 1
        OBVIOUS
    <2> QED BY <2>1, <2>2, ColumnFacts
            DEF AutomatonRaisesNoFalseAlarm, AutomatonRejects, At, IInv,
                CurrentMeaning, Ahead, TrueConflict
<1> QED BY <1>1, Meaning, PTL

\* For every unit the automaton is exact again as soon as everything that was
\* in flight when it lost an operation has left.
THEOREM AutomatonComplete == Spec => []AutomatonRecovers
<1>1. IInv => AutomatonRecovers
    <2> SUFFICES ASSUME IInv, ~issued, settled = MaxLatency,
                        NEW op \in Operations
                 PROVE  AutomatonRejects(op) <=> TrueConflict("fsa", op)
        BY DEF AutomatonRecovers
    <2> USE ColumnFacts, MaxLatencyAssumption
    <2>1. \A age \in Columns : age + 0 = age /\ age < settled
        OBVIOUS
    <2>2. 0 + 1 = 1 /\ accepted["fsa"][0] = {}
        BY DEF IInv, LostIsKnown
    <2>3. ASSUME TrueConflict("fsa", op) PROVE AutomatonRejects(op)
        <3>1. PICK age \in Columns : \E e \in accepted["fsa"][age] :
                       Overlaps(e, age + 0, op)
            BY <2>1, <2>3 DEF TrueConflict
        <3>2. age # 0
            BY <2>2, <3>1
        <3>3. 1 \in Columns
            BY <3>2 DEF Columns
        <3> QED BY <3>1, <3>2, <3>3, <2>1, <2>2
                DEF AutomatonRejects, At, IInv, CurrentMeaning
    <2>4. ASSUME AutomatonRejects(op) PROVE TrueConflict("fsa", op)
        BY <2>4, <2>1, <2>2
           DEF AutomatonRejects, At, IInv, CurrentMeaning, Ahead, TrueConflict
    <2> QED BY <2>3, <2>4
<1> QED BY <1>1, Meaning, PTL

\* For every unit the resource vectors reject only what overlaps.
THEOREM VectorSound == Spec => []VectorRaisesNoFalseAlarm
<1>1. IInv => VectorRaisesNoFalseAlarm
    <2> SUFFICES ASSUME IInv, NEW op \in Operations, VectorRejects(op)
                 PROVE  TrueConflict("vector", op)
        BY DEF VectorRaisesNoFalseAlarm
    <2>1. PICK c \in Columns : composite[c + 1] \intersect Usage[op][c] # {}
        BY DEF VectorRejects
    <2>2. PICK r \in Resources : r \in composite[c + 1] /\ r \in Usage[op][c]
        BY <2>1, UsageAssumption, ColumnFacts DEF IInv, TypeOK
    <2>3. UsedIn("vector", c, r)
        BY <2>2 DEF IInv, VectorMeaning
    <2>4. \A age \in Columns : age + c = c + age
        BY ColumnFacts
    <2> QED BY <2>2, <2>3, <2>4 DEF UsedIn, TrueConflict, Overlaps
<1> QED BY <1>1, Meaning, PTL
==============================================================================
