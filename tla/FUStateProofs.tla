---------------------------- MODULE FUStateProofs ----------------------------
(***************************************************************************)
(* Until a failure leaves work uncounted, the shortcuts of a function unit *)
(* lose no result and change no timing, for every set of operations, every *)
(* latency and every order of the executors.                               *)
(***************************************************************************)
EXTENDS FUState, FiniteSetTheorems, WellFoundedInduction, TLAPS

\* A unit whose operations keep a state is never skipped; one that is idle
\* has no trigger to consume, and a trigger does not survive endClock.
TriggerInv ==
    /\ idle => ~trigger
    /\ step = "advanceClock" => ~trigger

\* Executors that deliver at their start have nothing in flight; the others
\* report that they are pending while they have.
PendingInv ==
    /\ \A op \in Immediate : ~InFlight(op)
    /\ ~disturbed => \A op \in Ops : InFlight(op) => pending[op]

IdleInv == ~disturbed /\ idle => activeExecutors = 0

\* What activeExecutors_ really counts.  An executor that delivers at its
\* start is pending only after it was counted, unlike the others, which are
\* constructed pending; so it need not be counted again when its start fails.
Counted == Live \union {op \in Immediate : pending[op]}

CountInv == ~disturbed => Cardinality(Counted) <= activeExecutors

IInv == TypeOK /\ TriggerInv /\ PendingInv /\ IdleInv /\ CountInv

(***************************************************************************)
(* Lines.                                                                  *)
(***************************************************************************)

\* A line that carries nothing is not changed by an advance.
LEMMA ShiftEmpty ==
    ASSUME TypeOK, NEW op \in Ops, ~InFlight(op)
    PROVE  Shifted(line[op]) = line[op]
<1>1. line[op] \in [1..Latency[op] -> Values \union {NoResult}]
  BY DEF TypeOK
<1>2. \A k \in 1..Latency[op] : line[op][k] = NoResult
  BY <1>1 DEF InFlight
<1> QED
  BY <1>1, <1>2 DEF Shifted

\* An advance keeps a line's type, and what is in flight afterwards was
\* further away before.
LEMMA ShiftType ==
    ASSUME TypeOK, NEW op \in Ops
    PROVE  /\ Shifted(line[op]) \in
                  [1..Latency[op] -> Values \union {NoResult}]
           /\ (\E k \in DOMAIN Shifted(line[op]) :
                   Shifted(line[op])[k] # NoResult)
                 => \E k \in DOMAIN line[op] : k > 1 /\ line[op][k] # NoResult
<1>1. line[op] \in [1..Latency[op] -> Values \union {NoResult}]
      /\ Latency[op] \in Nat
  BY LatencyAssumption DEF TypeOK
<1>2. DOMAIN line[op] = 1..Latency[op]
  BY <1>1
<1>3. Shifted(line[op]) = [k \in 1..Latency[op] |->
          IF k + 1 \in 1..Latency[op] THEN line[op][k + 1] ELSE NoResult]
  BY <1>2 DEF Shifted
<1> QED
  BY <1>1, <1>2, <1>3

\* A set of positions of a list has a last one.
LEMMA LastPosition ==
    ASSUME NEW n \in Nat, NEW A \in SUBSET (1..n), A # {}
    PROVE  \E i \in A : \A j \in A : j <= i
<1> DEFINE Below == {p \in Nat \X Nat : p[1] < p[2]}
           T == {n - i : i \in A}
<1>1. IsWellFoundedOn(Below, Nat)
  BY NatLessThanWellFounded, Zenon DEF OpToRel
<1>2. T \subseteq Nat /\ T # {}
  <2>1. \A i \in A : n - i \in Nat
    OBVIOUS
  <2> QED
    BY <2>1
<1>3. \A s, t \in Nat : <<s, t>> \in Below <=> s < t
  OBVIOUS
<1> HIDE DEF Below, T
<1>4. PICK m \in T : \A t \in T : ~ (<<t, m>> \in Below)
  BY <1>1, <1>2, WFMin
<1>5. \A t \in T : t \in Nat /\ m \in Nat /\ ~ (t < m)
  BY <1>2, <1>3, <1>4, Zenon
<1> USE DEF T
<1>6. PICK i \in A : m = n - i
  BY <1>4
<1>7. \A j \in A : n - j \in T
  OBVIOUS
<1>8. \A j \in A : ~ (n - j < m)
  BY <1>5, <1>7, Zenon
<1>9. \A j \in A : j <= i
  BY <1>6, <1>8
<1> QED
  BY <1>9

\* The port is left to the executor that is last in the list among those of
\* S with a result that comes out now.
LEMMA PortType ==
    ASSUME TypeOK, NEW S \in SUBSET Ops
    PROVE  PortAfter(S) \in Values
<1>1. CASE Arriving(S) = {}
  BY <1>1 DEF PortAfter, TypeOK
<1>2. CASE Arriving(S) # {}
  <2> DEFINE A == Arriving(S)
  <2>1. A \in SUBSET (1..Len(ExecList)) /\ Len(ExecList) \in Nat
    BY ExecListAssumption DEF Arriving
  <2>2. \E i \in A : \A j \in A : j <= i
    <3> HIDE DEF A
    <3> QED
      BY <1>2, <2>1, LastPosition DEF A
  <2> DEFINE last == CHOOSE i \in A : \A j \in A : j <= i
  <2>3. last \in A
    BY <2>2
  <2>4. PortAfter(S) = line[ExecList[last]][1]
    BY <1>2 DEF PortAfter
  <2> HIDE DEF last
  <2>5. /\ ExecList[last] \in Ops
        /\ line[ExecList[last]][1] # NoResult
    BY <2>3 DEF Arriving
  <2>6. /\ line[ExecList[last]] \in
               [1..Latency[ExecList[last]] -> Values \union {NoResult}]
        /\ Latency[ExecList[last]] \in Nat \ {0}
    BY <2>5, LatencyAssumption DEF TypeOK
  <2> QED
    BY <2>4, <2>5, <2>6
<1> QED
  BY <1>1, <1>2

\* Advancing some lines keeps the types; a line that is not advanced stays,
\* and one that is advanced carries afterwards only what was further away.
LEMMA AdvanceType ==
    ASSUME TypeOK, NEW S \in SUBSET Ops, AdvanceLines(S)
    PROVE  /\ line' = [op \in Ops |-> line'[op]]
           /\ \A op \in Ops :
                  line'[op] \in [1..Latency[op] -> Values \union {NoResult}]
           /\ port' \in Values
           /\ \A op \in Ops \ S : line'[op] = line[op]
           /\ \A op \in S :
                  InFlight(op)' => \E k \in DOMAIN line[op] :
                                       k > 1 /\ line[op][k] # NoResult
<1>1. line' = [op \in Ops |-> IF op \in S THEN Shifted(line[op])
                              ELSE line[op]]
  BY DEF AdvanceLines
<1>2. \A op \in Ops :
          line'[op] = IF op \in S THEN Shifted(line[op]) ELSE line[op]
  BY <1>1
<1>3. \A op \in Ops :
          line'[op] \in [1..Latency[op] -> Values \union {NoResult}]
  BY <1>2, ShiftType DEF TypeOK
<1>4. port' \in Values
  BY PortType DEF AdvanceLines
<1>5. ASSUME NEW op \in S, InFlight(op)'
      PROVE  \E k \in DOMAIN line[op] : k > 1 /\ line[op][k] # NoResult
  <2>1. line'[op] = Shifted(line[op])
    BY <1>2
  <2>2. \E k \in DOMAIN line'[op] : line'[op][k] # NoResult
    BY <1>5 DEF InFlight
  <2>3. \E k \in DOMAIN Shifted(line[op]) : Shifted(line[op])[k] # NoResult
    BY <2>1, <2>2
  <2> QED
    BY <2>3, ShiftType
<1> QED
  BY <1>1, <1>2, <1>3, <1>4, <1>5

\* It makes no difference whether a line that carries nothing is advanced:
\* this is what every shortcut rests on.
LEMMA AdvanceEmpty ==
    ASSUME TypeOK, NEW S \in SUBSET Ops,
           \A op \in Ops \ S : ~InFlight(op),
           AdvanceLines(S)
    PROVE  AdvanceLines(Ops)
<1>1. \A op \in Ops \ S : line[op][1] = NoResult
  <2> TAKE op \in Ops \ S
  <2>1. /\ line[op] \in [1..Latency[op] -> Values \union {NoResult}]
        /\ Latency[op] \in Nat \ {0}
    BY LatencyAssumption DEF TypeOK
  <2>2. 1 \in DOMAIN line[op]
    BY <2>1
  <2> QED
    BY <2>2 DEF InFlight
<1>2. Arriving(Ops) = Arriving(S)
  BY <1>1 DEF Arriving
<1>3. PortAfter(Ops) = PortAfter(S)
  BY <1>2 DEF PortAfter
<1>4. \A op \in Ops \ S : Shifted(line[op]) = line[op]
  BY ShiftEmpty
<1>5. [op \in Ops |-> IF op \in S THEN Shifted(line[op]) ELSE line[op]]
      = [op \in Ops |-> IF op \in Ops THEN Shifted(line[op]) ELSE line[op]]
  BY <1>4
<1> QED
  BY <1>3, <1>5 DEF AdvanceLines

\* A unit that carries nothing may as well not be advanced.
LEMMA NothingToAdvance ==
    ASSUME TypeOK, \A op \in Ops : ~InFlight(op), UNCHANGED <<line, port>>
    PROVE  AdvanceLines(Ops)
<1>1. Arriving({}) = {}
  BY DEF Arriving
<1>2. port' = PortAfter({})
  BY <1>1 DEF PortAfter
<1>3. line' = [op \in Ops |-> IF op \in {} THEN Shifted(line[op])
                              ELSE line[op]]
  BY DEF TypeOK
<1>4. AdvanceLines({})
  BY <1>2, <1>3 DEF AdvanceLines
<1> QED
  BY <1>4, AdvanceEmpty

(***************************************************************************)
(* Counting.                                                               *)
(***************************************************************************)

\* The sets of operations are finite, and a smaller set has no more elements.
LEMMA Counting ==
    ASSUME NEW S \in SUBSET Ops, NEW T \in SUBSET S
    PROVE  /\ IsFiniteSet(S)
           /\ Cardinality(S) \in Nat /\ Cardinality(T) \in Nat
           /\ Cardinality(T) <= Cardinality(S)
<1>1. IsFiniteSet(S)
  BY OpsAssumption, FS_Subset
<1>2. IsFiniteSet(T) /\ Cardinality(T) <= Cardinality(S)
  BY <1>1, FS_Subset
<1> QED
  BY <1>1, <1>2, FS_CardinalityType

\* Counted is a set of operations that contains Live.
LEMMA CountedLive ==
    /\ Counted \in SUBSET Ops
    /\ Live \in SUBSET Counted
    /\ IsFiniteSet(Counted) /\ Cardinality(Counted) \in Nat
    /\ Cardinality(Live) <= Cardinality(Counted)
<1>1. Counted \in SUBSET Ops /\ Live \in SUBSET Counted
  BY OpsAssumption DEF Counted, Live
<1> QED
  BY <1>1, Counting

\* The count covers the executors with work.
LEMMA CountCovers == TypeOK /\ CountInv => ActiveCoversLive
<1>1. Live \in SUBSET Ops
  BY DEF Live
<1>2. Cardinality(Live) \in Nat
  BY <1>1, Counting
<1> QED
  BY <1>2, CountedLive DEF CountInv, ActiveCoversLive, TypeOK

\* A unit without active executors has nothing in flight.
LEMMA ActiveZero ==
    ASSUME TypeOK, CountInv, ~disturbed, activeExecutors = 0
    PROVE  \A op \in Ops : ~InFlight(op)
<1>1. Cardinality(Counted) = 0
  BY CountedLive DEF CountInv
<1>2. Counted = {}
  BY <1>1, CountedLive, FS_EmptySet
<1> QED
  BY <1>2 DEF Counted, Live

\* When one executor is active and the one triggered last is pending, it is
\* the only one that counts.
LEMMA OnlyNextLive ==
    ASSUME TypeOK, CountInv, ~disturbed, ~trigger, OnlyNextActive
    PROVE  Counted = {nextOperation} /\ nextOperation \in Ops
<1>1. nextOperation \in Ops /\ nextOperation \in Counted
  BY DEF OnlyNextActive, Counted, Live, TypeOK
<1>2. SUFFICES ASSUME NEW op \in Counted, op # nextOperation
               PROVE  FALSE
  BY <1>1
<1> DEFINE T == {op, nextOperation}
<1>3. Cardinality(T) = 2
  <2>1. IsFiniteSet({op}) /\ Cardinality({op}) = 1
    BY FS_Singleton
  <2>2. Cardinality({op} \union {nextOperation}) = Cardinality({op}) + 1
    BY <1>2, <2>1, FS_AddElement
  <2>3. T = {op} \union {nextOperation}
    OBVIOUS
  <2> QED
    BY <2>1, <2>2, <2>3
<1>4. Cardinality(T) <= Cardinality(Counted)
  <2>1. T \in SUBSET Counted
    BY <1>1, <1>2
  <2> HIDE DEF T
  <2> QED
    BY <2>1, CountedLive, Counting
<1> QED
  BY <1>3, <1>4, CountedLive DEF CountInv, OnlyNextActive

\* An idle unit, or one that returns at once, has nothing in flight.
LEMMA Drained == IInv => IdleMeansDrained
<1> SUFFICES ASSUME IInv, ~disturbed, isIdle \/ NothingActive
             PROVE  \A op \in Ops : ~InFlight(op)
  BY DEF IdleMeansDrained
<1>1. activeExecutors = 0
  BY DEF IInv, IdleInv, isIdle, NothingActive
<1> QED
  BY <1>1, ActiveZero DEF IInv

(***************************************************************************)
(* One lemma for each kind of step.                                        *)
(***************************************************************************)

\* The unit as constructed.
LEMMA InitInv == FUInit => IInv
<1> SUFFICES ASSUME FUInit PROVE IInv
  OBVIOUS
<1>1. /\ line = EmptyLines /\ port \in Values /\ step = "execute"
      /\ nextOperation = NoOperation /\ activeExecutors = 0
      /\ pending \in [Ops -> BOOLEAN]
      /\ \A op \in Immediate : ~pending[op]
      /\ ~disturbed /\ ~idle /\ ~trigger
      /\ disturbed \in BOOLEAN /\ idle \in BOOLEAN /\ trigger \in BOOLEAN
  BY Zenon DEF FUInit, Init
<1>2. \A op \in Ops : line[op] = [k \in 1..Latency[op] |-> NoResult]
  BY <1>1 DEF EmptyLines
<1>3. line = [op \in Ops |-> line[op]]
  BY <1>1 DEF EmptyLines
<1>4. TypeOK
  BY <1>1, <1>2, <1>3 DEF TypeOK
<1>5. \A op \in Ops : ~InFlight(op)
  BY <1>2 DEF InFlight
<1>6. Counted = {}
  BY <1>1, <1>5, OpsAssumption DEF Counted, Live
<1>7. Cardinality(Counted) = 0
  BY <1>6, FS_EmptySet
<1> QED
  BY <1>1, <1>4, <1>5, <1>7, OpsAssumption
     DEF IInv, TriggerInv, PendingInv, IdleInv, CountInv

\* A step that changes neither the lines nor the count, and after which no
\* more executors have to be counted.
LEMMA SameCount ==
    ASSUME IInv, Counted' \in SUBSET Counted,
           UNCHANGED <<line, activeExecutors, disturbed>>
    PROVE  CountInv'
<1>1. Cardinality(Counted') <= Cardinality(Counted)
      /\ Cardinality(Counted') \in Nat
  BY CountedLive, Counting
<1> QED
  BY <1>1, CountedLive DEF IInv, CountInv, TypeOK

\* What is in flight is a matter of the lines only.
LEMMA SameFlight ==
    ASSUME UNCHANGED line
    PROVE  \A op \in Ops : InFlight(op)' <=> InFlight(op)
BY DEF InFlight

\* The moves of the instruction, and what leaves the executors alone.
LEMMA QuietStep ==
    ASSUME IInv,
           \/ \E op \in Ops : TriggerOperation(op)
           \/ TriggerAgain \/ NotTriggered
           \/ EndClockNothing \/ EndClockThrows
           \/ CycleAborted \/ ResumeCycle
           \/ AdvanceSkipped \/ AdvanceIdle
           \/ UNCHANGED allVars
    PROVE  IInv'
<1> USE DEF TriggerOperation, TriggerAgain, NotTriggered, EndClockNothing,
            EndClockThrows, CycleAborted, ResumeCycle, AdvanceSkipped,
            AdvanceIdle, allVars, unit
<1>1. UNCHANGED <<line, port, activeExecutors, pending, disturbed>>
  OBVIOUS
<1>2. /\ trigger' \in BOOLEAN /\ idle' \in BOOLEAN
      /\ nextOperation' \in Ops \union {NoOperation}
      /\ step' \in {"execute", "endClock", "advanceClock", "stopped"}
  <2>1. trigger' \in BOOLEAN
    BY Zenon DEF IInv, TypeOK
  <2>2. idle' \in BOOLEAN
    BY Zenon DEF IInv, TypeOK
  <2>3. nextOperation' \in Ops \union {NoOperation}
    BY DEF IInv, TypeOK
  <2>4. step' \in {"execute", "endClock", "advanceClock", "stopped"}
    BY DEF IInv, TypeOK
  <2> QED
    BY <2>1, <2>2, <2>3, <2>4
<1>3. TypeOK'
  BY <1>1, <1>2 DEF IInv, TypeOK
<1>4. TriggerInv'
  BY DEF IInv, TriggerInv, isIdle, TypeOK
<1>5. /\ ~trigger' => nextOperation' = nextOperation
      /\ ~trigger' => ~trigger
  OBVIOUS
<1>6. Counted' \in SUBSET Counted
  BY <1>1, <1>5, SameFlight DEF Counted, Live
<1>7. CountInv'
  BY <1>1, <1>6, SameCount
<1>8. PendingInv'
  BY <1>1, SameFlight, OpsAssumption DEF IInv, PendingInv
<1>9. idle' => idle \/ activeExecutors = 0
  BY DEF NothingActive
<1>10. IdleInv'
  BY <1>1, <1>9 DEF IInv, IdleInv
<1> QED
  BY <1>3, <1>4, <1>7, <1>8, <1>10 DEF IInv

\* The executor of the operation triggered last is counted once more: at
\* most that one has become one to be counted.
LEMMA OneMore ==
    ASSUME IInv, nextOperation \in Ops,
           Counted' \in SUBSET (Counted \union {nextOperation}),
           activeExecutors' = activeExecutors + 1, UNCHANGED disturbed
    PROVE  CountInv'
<1> DEFINE C == Counted \union {nextOperation}
<1>1. C \in SUBSET Ops
  BY CountedLive
<1>2. Cardinality(C) <= Cardinality(Counted) + 1 /\ Cardinality(C) \in Nat
  <2>1. Cardinality(C) = IF nextOperation \in Counted
                         THEN Cardinality(Counted)
                         ELSE Cardinality(Counted) + 1
    BY CountedLive, FS_AddElement
  <2> QED
    BY <2>1, CountedLive
<1> HIDE DEF C
<1>3. Cardinality(Counted') <= Cardinality(C) /\ Cardinality(Counted') \in Nat
  BY <1>1, Counting DEF C
<1> QED
  BY <1>2, <1>3, CountedLive DEF IInv, CountInv, TypeOK

\* An operation in the last stage of its line: the types, and that no other
\* line is touched.
LEMMA StartedLine ==
    ASSUME IInv, NEW n \in Ops, NEW v \in Values,
           line' = [line EXCEPT ![n][Latency[n]] = v]
    PROVE  /\ line' = [op \in Ops |-> line'[op]]
           /\ \A op \in Ops :
                  line'[op] \in [1..Latency[op] -> Values \union {NoResult}]
           /\ \A op \in Ops : op # n => line'[op] = line[op]
<1>1. line[n] \in [1..Latency[n] -> Values \union {NoResult}]
      /\ DOMAIN line = Ops
  BY DEF IInv, TypeOK
<1>2. line' = [op \in Ops |->
                  IF op = n THEN [line[n] EXCEPT ![Latency[n]] = v]
                  ELSE line[op]]
  BY <1>1
<1>3. [line[n] EXCEPT ![Latency[n]] = v]
          \in [1..Latency[n] -> Values \union {NoResult}]
  BY <1>1
<1>4. \A op \in Ops :
          line'[op] = IF op = n THEN [line[n] EXCEPT ![Latency[n]] = v]
                      ELSE line[op]
  BY <1>2
<1>5. line' = [op \in Ops |-> line'[op]]
  BY <1>2
<1>6. \A op \in Ops :
          line'[op] \in [1..Latency[op] -> Values \union {NoResult}]
  BY <1>3, <1>4 DEF IInv, TypeOK
<1> QED
  BY <1>4, <1>5, <1>6

\* An operation is started.
LEMMA StartStep ==
    ASSUME IInv, NEW v \in Values, NEW isPending \in BOOLEAN,
           EndClockStarts(v, isPending)
    PROVE  IInv'
<1> DEFINE n == nextOperation
<1>1. /\ n \in Ops /\ n # NoOperation
      /\ isPending \/ n \in Immediate
      /\ step' = "advanceClock"
      /\ UNCHANGED <<nextOperation, disturbed>>
      /\ StartLine(n, v)
  BY DEF EndClockStarts, IInv, TypeOK
<1>2. /\ ~trigger' /\ trigger' \in BOOLEAN /\ idle' \in BOOLEAN
      /\ idle' => idle
  <2>1. trigger' = FALSE /\ (idle' = FALSE \/ idle' = idle)
    BY DEF EndClockStarts
  <2>2. idle \in BOOLEAN
    BY DEF IInv, TypeOK
  <2>3. trigger' \in BOOLEAN /\ ~trigger'
    BY <2>1, Zenon
  <2>4. idle' \in BOOLEAN /\ (idle' => idle)
    <3>1. CASE idle' = FALSE
      BY <3>1, Zenon
    <3>2. CASE idle' = idle
      BY <2>2, <3>2
    <3> QED
      BY <2>1, <3>1, <3>2
  <2> QED
    BY <2>3, <2>4
<1>3. /\ isPending => ~idle' /\ activeExecutors' = activeExecutors + 1
      /\ ~isPending => idle' = idle /\ activeExecutors' = activeExecutors
  BY DEF EndClockStarts
<1>4. /\ pending' \in [Ops -> BOOLEAN]
      /\ pending'[n] = isPending
      /\ \A op \in Ops : op # n => pending'[op] = pending[op]
  BY <1>1 DEF EndClockStarts, IInv, TypeOK
<1>5. /\ port' \in Values
      /\ line' = [op \in Ops |-> line'[op]]
      /\ \A op \in Ops :
             line'[op] \in [1..Latency[op] -> Values \union {NoResult}]
      /\ \A op \in Ops : op # n => line'[op] = line[op]
      /\ n \in Immediate => line'[n] = line[n]
  <2>1. CASE n \in Immediate /\ port' = v /\ UNCHANGED line
    BY <2>1 DEF IInv, TypeOK
  <2>2. CASE /\ n \notin Immediate /\ UNCHANGED port
             /\ line' = [line EXCEPT ![n][Latency[n]] = v]
    BY <1>1, <2>2, StartedLine DEF IInv, TypeOK
  <2> QED
    BY <1>1, <2>1, <2>2 DEF StartLine
<1> HIDE DEF n
<1>6. activeExecutors' \in Nat
  BY <1>3 DEF IInv, TypeOK
<1>7. TypeOK'
  BY <1>1, <1>2, <1>4, <1>5, <1>6 DEF IInv, TypeOK
<1>8. \A op \in Ops :
          op # n \/ n \in Immediate => (InFlight(op)' <=> InFlight(op))
  BY <1>5 DEF InFlight
<1>9. /\ Counted' \in SUBSET (Counted \union {n})
      /\ ~isPending => Counted' \in SUBSET Counted
  <2>1. ASSUME NEW op \in Counted', op # n PROVE op \in Counted
    BY <1>1, <1>4, <1>8, <2>1, OpsAssumption DEF Counted, Live, n
  <2>2. ASSUME ~isPending, NEW op \in Counted', op = n PROVE op \in Counted
    BY <1>1, <1>4, <1>8, <2>2, OpsAssumption DEF Counted, Live, n
  <2> QED
    BY <2>1, <2>2
<1>10. CountInv'
  <2>1. CASE isPending
    BY <1>1, <1>3, <1>9, <2>1, OneMore DEF n
  <2>2. CASE ~isPending
    <3>1. Cardinality(Counted') <= Cardinality(Counted)
          /\ Cardinality(Counted') \in Nat
      BY <1>9, <2>2, CountedLive, Counting
    <3> QED
      BY <1>1, <1>3, <2>2, <3>1, CountedLive DEF IInv, CountInv, TypeOK
  <2> QED
    BY <2>1, <2>2
<1>11. PendingInv'
  <2>1. \A op \in Immediate : ~InFlight(op)'
    BY <1>8, OpsAssumption DEF IInv, PendingInv
  <2>2. ASSUME ~disturbed, NEW op \in Ops, InFlight(op)' PROVE pending'[op]
    BY <1>1, <1>4, <1>8, <2>1, <2>2 DEF IInv, PendingInv
  <2> QED
    BY <1>1, <2>1, <2>2 DEF PendingInv
<1>12. TriggerInv' /\ IdleInv'
  BY <1>1, <1>2, <1>3 DEF IInv, TriggerInv, IdleInv
<1> QED
  BY <1>7, <1>10, <1>11, <1>12 DEF IInv

\* A start that throws before the executor has taken the operation.  The
\* executor has to be counted from then on only if it was counted before, or
\* if the promise ends here.
LEMMA StartThrowsStep ==
    ASSUME IInv, EndClockStartThrows
    PROVE  IInv'
<1>1. /\ nextOperation \in Ops
      /\ step' = "stopped"
      /\ UNCHANGED <<line, port, idle, nextOperation, activeExecutors,
                     pending>>
  BY OpsAssumption DEF EndClockStartThrows
<1>2. trigger' \in BOOLEAN /\ ~trigger' /\ disturbed' \in BOOLEAN
  BY Zenon DEF EndClockStartThrows
<1>3. ~disturbed' => ~disturbed /\ ~PendingForNothing(nextOperation)
  BY DEF EndClockStartThrows
<1>4. TypeOK'
  BY <1>1, <1>2 DEF IInv, TypeOK
<1>5. ~disturbed' => Counted' \in SUBSET Counted
  BY <1>1, <1>3, SameFlight, OpsAssumption
     DEF Counted, Live, PendingForNothing
<1>6. CountInv'
  <2> SUFFICES ASSUME ~disturbed'
               PROVE  Cardinality(Counted') <= activeExecutors'
    BY DEF CountInv
  <2>1. Cardinality(Counted') <= Cardinality(Counted)
        /\ Cardinality(Counted') \in Nat
    BY <1>5, CountedLive, Counting
  <2> QED
    BY <1>1, <1>3, <2>1, CountedLive DEF IInv, CountInv, TypeOK
<1>7. PendingInv'
  BY <1>1, <1>3, SameFlight, OpsAssumption DEF IInv, PendingInv
<1>8. TriggerInv' /\ IdleInv'
  BY <1>1, <1>2, <1>3 DEF IInv, TriggerInv, IdleInv
<1> QED
  BY <1>4, <1>6, <1>7, <1>8 DEF IInv

\* A start that fails with the operation left in the executor.  Only the
\* types are promised from then on.
LEMMA StartFailsStep ==
    ASSUME IInv, NEW v \in Values, EndClockStartFails(v)
    PROVE  IInv'
<1> DEFINE n == nextOperation
<1>1. /\ n \in Ops /\ n \notin Immediate
      /\ step' = "stopped"
      /\ UNCHANGED <<port, idle, nextOperation, activeExecutors, pending>>
      /\ line' = [line EXCEPT ![n][Latency[n]] = v]
  BY DEF EndClockStartFails, StartLine
<1>2. trigger' \in BOOLEAN /\ ~trigger' /\ disturbed' \in BOOLEAN
      /\ disturbed'
  BY Zenon DEF EndClockStartFails
<1>3. /\ line' = [op \in Ops |-> line'[op]]
      /\ \A op \in Ops :
             line'[op] \in [1..Latency[op] -> Values \union {NoResult}]
      /\ \A op \in Ops : op # n => line'[op] = line[op]
  BY <1>1, StartedLine
<1> HIDE DEF n
<1>4. TypeOK'
  BY <1>1, <1>2, <1>3 DEF IInv, TypeOK
<1>5. \A op \in Immediate : ~InFlight(op)'
  BY <1>1, <1>3, OpsAssumption DEF IInv, PendingInv, InFlight
<1> QED
  BY <1>1, <1>2, <1>4, <1>5
     DEF IInv, PendingInv, TriggerInv, IdleInv, CountInv

\* What advancing some of the executors does to lines and flags, and that a
\* line still carries something only if its executor reports it.
LEMMA CalledStep ==
    ASSUME IInv, NEW S \in SUBSET Ops, AdvanceLines(S),
           pending' \in PendingAfter(S)
    PROVE  /\ line' = [op \in Ops |-> line'[op]]
           /\ \A op \in Ops :
                  line'[op] \in [1..Latency[op] -> Values \union {NoResult}]
           /\ port' \in Values
           /\ pending' \in [Ops -> BOOLEAN]
           /\ \A op \in Immediate : ~InFlight(op)'
           /\ ~disturbed => \A op \in S : InFlight(op)' => pending'[op]
           /\ \A op \in Ops \ S : /\ InFlight(op)' <=> InFlight(op)
                                  /\ pending'[op] = pending[op]
<1>1. TypeOK
  BY DEF IInv
<1>2. /\ line' = [op \in Ops |-> line'[op]]
      /\ \A op \in Ops :
             line'[op] \in [1..Latency[op] -> Values \union {NoResult}]
      /\ port' \in Values
      /\ \A op \in Ops \ S : line'[op] = line[op]
      /\ \A op \in S :
             InFlight(op)' => \E k \in DOMAIN line[op] :
                                  k > 1 /\ line[op][k] # NoResult
  BY <1>1, AdvanceType
<1>3. /\ pending' \in [Ops -> BOOLEAN]
      /\ ~disturbed => \A op \in S :
             (\E k \in DOMAIN line[op] : k > 1 /\ line[op][k] # NoResult)
                => pending'[op]
      /\ \A op \in Ops \ S : pending'[op] = pending[op]
  BY DEF PendingAfter
<1>4. \A op \in S : InFlight(op)' => InFlight(op)
  BY <1>2 DEF InFlight
<1>5. \A op \in Ops \ S : InFlight(op)' <=> InFlight(op)
  BY <1>2 DEF InFlight
<1>6. \A op \in Immediate : ~InFlight(op)'
  BY <1>4, <1>5, OpsAssumption DEF IInv, PendingInv
<1> QED
  BY <1>2, <1>3, <1>5, <1>6

\* A clock advance of the executors in S: the types, and what has to be
\* counted afterwards.
LEMMA AdvanceStep ==
    ASSUME IInv, NEW S \in SUBSET Ops, AdvanceLines(S),
           pending' \in PendingAfter(S),
           step = "advanceClock", step' = "execute",
           UNCHANGED <<trigger, nextOperation, disturbed>>,
           ~disturbed => \A op \in Ops \ S : ~InFlight(op),
           idle' \in BOOLEAN, idle' => activeExecutors' = 0,
           activeExecutors' \in Nat,
           ~disturbed => Cardinality(Counted') <= activeExecutors'
    PROVE  IInv'
<1>1. /\ line' = [op \in Ops |-> line'[op]]
      /\ \A op \in Ops :
             line'[op] \in [1..Latency[op] -> Values \union {NoResult}]
      /\ port' \in Values
      /\ pending' \in [Ops -> BOOLEAN]
      /\ \A op \in Immediate : ~InFlight(op)'
      /\ ~disturbed => \A op \in S : InFlight(op)' => pending'[op]
      /\ \A op \in Ops \ S : InFlight(op)' <=> InFlight(op)
  BY CalledStep
<1>2. TypeOK'
  BY <1>1 DEF IInv, TypeOK
<1>3. TriggerInv'
  BY DEF IInv, TriggerInv
<1>4. PendingInv'
  BY <1>1 DEF IInv, PendingInv
<1> QED
  BY <1>2, <1>3, <1>4 DEF IInv, IdleInv, CountInv

\* The special case for sequential code.
LEMMA OnlyNextStep ==
    ASSUME IInv, AdvanceOnlyNext
    PROVE  IInv'
<1> DEFINE n == nextOperation
<1>1. /\ AdvanceLines({n}) /\ pending' \in PendingAfter({n})
      /\ step = "advanceClock" /\ step' = "execute"
      /\ UNCHANGED <<trigger, nextOperation, disturbed>>
      /\ OnlyNextActive
  BY DEF AdvanceOnlyNext
<1>2. n \in Ops
  BY <1>1 DEF OnlyNextActive, IInv, TypeOK
<1>3. idle' \in BOOLEAN
  BY Zenon DEF AdvanceOnlyNext
<1>4. /\ activeExecutors' = IF pending'[n] THEN 1 ELSE 0
      /\ idle' => ~pending'[n]
  BY DEF AdvanceOnlyNext
<1>5. ~disturbed => Counted = {n}
  BY <1>1, OnlyNextLive DEF IInv, TriggerInv
<1>6. ~disturbed => \A op \in Ops \ {n} : ~InFlight(op)
  BY <1>5 DEF Counted, Live
<1>7. /\ \A op \in Ops \ {n} : /\ InFlight(op)' <=> InFlight(op)
                               /\ pending'[op] = pending[op]
      /\ ~disturbed =>
             (InFlight(nextOperation)' => pending'[nextOperation])
  <2>1. {n} \in SUBSET Ops
    BY <1>2
  <2>2. /\ ~disturbed => \A op \in {n} : InFlight(op)' => pending'[op]
        /\ \A op \in Ops \ {n} : /\ InFlight(op)' <=> InFlight(op)
                                 /\ pending'[op] = pending[op]
    BY <1>1, <2>1, CalledStep
  <2>3. ~disturbed =>
            \A op \in Ops : op = n => (InFlight(op)' => pending'[op])
    BY <2>2
  <2>4. ~disturbed =>
            (InFlight(nextOperation)' => pending'[nextOperation])
    BY <1>1, <1>2, <2>3
  <2> QED
    BY <2>2, <2>4
<1>8. ~disturbed => Counted' \in SUBSET {n}
  <2> SUFFICES ASSUME ~disturbed, NEW op \in Counted', op # n PROVE FALSE
    OBVIOUS
  <2>1. op \in Ops
    BY OpsAssumption DEF Counted, Live
  <2> QED
    BY <1>1, <1>5, <1>7, <2>1 DEF Counted, Live
<1>9. ~disturbed /\ ~pending'[n] => Counted' = {}
  <2> SUFFICES ASSUME ~disturbed, ~pending'[n], n \in Counted' PROVE FALSE
    BY <1>8
  <2> QED
    BY <1>1, <1>7 DEF Counted, Live
<1>10. ~disturbed => Cardinality(Counted') <= activeExecutors'
  <2> SUFFICES ASSUME ~disturbed
               PROVE  Cardinality(Counted') <= activeExecutors'
    OBVIOUS
  <2>1. Cardinality({}) = 0 /\ Cardinality({n}) = 1
    BY FS_EmptySet, FS_Singleton
  <2>2. Counted' = {} \/ Counted' = {n}
    BY <1>8
  <2> QED
    BY <1>4, <1>9, <2>1, <2>2
<1>11. activeExecutors' \in Nat /\ (idle' => activeExecutors' = 0)
  BY <1>4
<1>12. {n} \in SUBSET Ops
  BY <1>2
<1> HIDE DEF n
<1> QED
  BY <1>1, <1>3, <1>6, <1>10, <1>11, <1>12, AdvanceStep

\* The loop over all executors.
LEMMA AllStep ==
    ASSUME IInv, AdvanceAll
    PROVE  IInv'
<1> DEFINE S == {op \in Ops : pending[op]}
           P == {op \in Ops : pending'[op]}
<1>1. /\ AdvanceLines(S) /\ pending' \in PendingAfter(S)
      /\ step = "advanceClock" /\ step' = "execute"
      /\ UNCHANGED <<trigger, nextOperation, disturbed>>
      /\ activeExecutors' = Cardinality(P)
  BY DEF AdvanceAll
<1>2. idle' \in BOOLEAN
  BY Zenon DEF AdvanceAll
<1>3. idle' => activeExecutors' = 0
  BY Zenon DEF AdvanceAll
<1>4. ~disturbed => \A op \in Ops \ S : ~InFlight(op)
  BY DEF IInv, PendingInv
<1>5. S \in SUBSET Ops /\ P \in SUBSET Ops
  OBVIOUS
<1> HIDE DEF S
<1>6. /\ ~disturbed => \A op \in S : InFlight(op)' => pending'[op]
      /\ \A op \in Ops \ S : InFlight(op)' <=> InFlight(op)
  BY <1>1, <1>5, CalledStep
<1>7. ~disturbed => Counted' \in SUBSET P
  <2> SUFFICES ASSUME ~disturbed, NEW op \in Counted' PROVE op \in P
    OBVIOUS
  <2>1. op \in Ops
    BY OpsAssumption DEF Counted, Live
  <2>2. InFlight(op)' => pending'[op]
    BY <1>4, <1>6, <2>1
  <2>3. pending'[op]
    BY <2>2 DEF Counted, Live
  <2> QED
    BY <2>1, <2>3
<1> HIDE DEF P
<1>8. activeExecutors' \in Nat
      /\ (~disturbed => Cardinality(Counted') <= activeExecutors')
  <2>1. Cardinality(P) \in Nat
    BY <1>5, Counting
  <2>2. ~disturbed => Cardinality(Counted') <= Cardinality(P)
    BY <1>5, <1>7, Counting
  <2> QED
    BY <1>1, <2>1, <2>2
<1> QED
  BY <1>1, <1>2, <1>3, <1>4, <1>5, <1>8, AdvanceStep

\* An operation fails inside advanceClock.  Only the types are promised from
\* then on.
LEMMA ThrowStep ==
    ASSUME IInv, NEW i \in DOMAIN ExecList, AdvanceThrows(i)
    PROVE  IInv'
<1> DEFINE S == {op \in Ops : pending[op] /\ \E j \in 1..(i - 1) :
                                                 ExecList[j] = op}
           P == {op \in S : pending'[op]}
<1>1. /\ step = "advanceClock" /\ step' = "stopped"
      /\ UNCHANGED <<trigger, idle, nextOperation>>
  BY DEF AdvanceThrows
<1>2. disturbed' /\ disturbed' \in BOOLEAN
  BY Zenon DEF AdvanceThrows
<1>3. /\ line' = [op \in Ops |-> line'[op]]
      /\ \A op \in Ops :
             line'[op] \in [1..Latency[op] -> Values \union {NoResult}]
      /\ port' \in Values
      /\ pending' \in [Ops -> BOOLEAN]
      /\ \A op \in Immediate : ~InFlight(op)'
      /\ activeExecutors' \in Nat
  <2>1. CASE UNCHANGED <<line, port, pending, activeExecutors>>
    BY <2>1 DEF IInv, TypeOK, PendingInv, InFlight
  <2>2. CASE /\ AdvanceLines(S) /\ pending' \in PendingAfter(S)
             /\ activeExecutors' = Cardinality(P)
    <3>1. S \in SUBSET Ops /\ P \in SUBSET Ops
      OBVIOUS
    <3> HIDE DEF S, P
    <3>2. Cardinality(P) \in Nat
      BY <3>1, Counting
    <3> QED
      BY <2>2, <3>1, <3>2, CalledStep
  <2> QED
    BY <2>1, <2>2 DEF AdvanceThrows
<1>4. TypeOK'
  BY <1>1, <1>2, <1>3 DEF IInv, TypeOK
<1>5. TriggerInv'
  BY <1>1 DEF IInv, TriggerInv
<1> QED
  BY <1>2, <1>3, <1>4, <1>5 DEF IInv, PendingInv, IdleInv, CountInv

\* A restart.
LEMMA ResetStep ==
    ASSUME IInv, Reset
    PROVE  IInv'
<1>1. /\ step' = "execute"
      /\ UNCHANGED <<line, port, trigger, idle, nextOperation,
                     activeExecutors>>
      /\ pending' \in [Ops -> BOOLEAN]
      /\ \A op \in Ops : pending'[op] => pending[op]
  BY DEF Reset
<1>2. disturbed' \in BOOLEAN
  BY Zenon DEF Reset
<1>3. ~disturbed' => ~disturbed /\ \A op \in Ops : InFlight(op) => pending'[op]
  BY DEF Reset
<1>4. TypeOK'
  BY <1>1, <1>2 DEF IInv, TypeOK
<1>5. TriggerInv'
  BY <1>1 DEF IInv, TriggerInv
<1>6. PendingInv'
  BY <1>1, <1>3, SameFlight, OpsAssumption DEF IInv, PendingInv
<1>7. IdleInv'
  BY <1>1, <1>3 DEF IInv, IdleInv
<1>8. Counted' \in SUBSET Counted
  BY <1>1, SameFlight, OpsAssumption DEF Counted, Live
<1>9. Cardinality(Counted') <= Cardinality(Counted)
      /\ Cardinality(Counted') \in Nat
  BY <1>8, CountedLive, Counting
<1>10. CountInv'
  BY <1>1, <1>3, <1>9, CountedLive DEF IInv, CountInv, TypeOK
<1> QED
  BY <1>4, <1>5, <1>6, <1>7, <1>10 DEF IInv

\* Every reachable state.
THEOREM Invariance == FUSpec => []IInv
<1>1. IInv /\ [FUNext]_allVars => IInv'
  BY QuietStep, StartStep, StartThrowsStep, StartFailsStep, OnlyNextStep,
     AllStep, ThrowStep, ResetStep
     DEF FUNext
<1> QED
  BY <1>1, InitInv, PTL DEF FUSpec

\* The unit keeps its types, whatever fails.
THEOREM TypeCorrect == FUSpec => []TypeOK
<1>1. IInv => TypeOK
  BY DEF IInv
<1> QED
  BY <1>1, Invariance, PTL

\* Until such a failure the count of active executors never leaves out one
\* that has work (FUState::endClock, FUState::advanceClock).
THEOREM ActiveIsEnough == FUSpec => []ActiveCoversLive
<1>1. IInv => ActiveCoversLive
  BY CountCovers DEF IInv
<1> QED
  BY <1>1, Invariance, PTL

\* Until such a failure a unit that MachineState skips, or that returns at
\* once, has nothing in flight (FUState::isIdle).
THEOREM IdleIsDrained == FUSpec => []IdleMeansDrained
BY Invariance, Drained, PTL

(***************************************************************************)
(* The refinement.                                                         *)
(***************************************************************************)

\* Every step of the unit is one of the unoptimised lines.
LEMMA NextRefines ==
    ASSUME IInv, [FUNext]_allVars, ~disturbed'
    PROVE  [Next]_vars
<1>1. CASE \E op \in Ops : TriggerOperation(op)
  <2>1. PICK op \in Ops : TriggerOperation(op)
    BY <1>1
  <2>2. Execute(op, TRUE)
    BY <2>1 DEF TriggerOperation, Execute
  <2> QED
    BY <2>2 DEF Next
<1>2. CASE TriggerAgain
  <2>1. Execute(nextOperation, TRUE)
    BY <1>2 DEF TriggerAgain, Execute
  <2> QED
    BY <2>1 DEF Next
<1>3. CASE NotTriggered
  <2>1. trigger' = (trigger \/ FALSE)
    BY <1>3, Zenon DEF NotTriggered, unit, IInv, TypeOK
  <2>2. Execute(nextOperation, FALSE)
    BY <1>3, <2>1 DEF NotTriggered, unit, Execute
  <2> QED
    BY <2>2 DEF Next
<1>4. CASE \E v \in Values, b \in BOOLEAN : EndClockStarts(v, b)
  <2>1. PICK v \in Values, b \in BOOLEAN : EndClockStarts(v, b)
    BY <1>4
  <2>2. Start(v)
    BY <2>1 DEF EndClockStarts, Start
  <2> QED
    BY <2>2 DEF Next
<1>5. CASE \E v \in Values : EndClockStartFails(v)
  BY <1>5 DEF EndClockStartFails
<1>6. CASE EndClockNothing
  BY <1>6 DEF EndClockNothing, NoStart, Next, unit, isIdle, IInv, TriggerInv
<1>7. CASE EndClockThrows \/ EndClockStartThrows \/ CycleAborted
  <2>1. /\ step \in {"endClock", "advanceClock"} /\ step' = "stopped"
        /\ UNCHANGED <<line, port, nextOperation>>
        /\ trigger' \in {FALSE, trigger}
    BY <1>7 DEF EndClockThrows, EndClockStartThrows, CycleAborted, unit
  <2> QED
    BY <2>1 DEF Abandon, Next
<1>8. CASE ResumeCycle
  BY <1>8 DEF ResumeCycle, Resume, Next, unit
<1>9. CASE AdvanceSkipped \/ AdvanceIdle
  <2>1. /\ step = "advanceClock" /\ step' = "execute"
        /\ UNCHANGED <<line, port, trigger, nextOperation, disturbed>>
        /\ isIdle \/ NothingActive
    BY <1>9 DEF AdvanceSkipped, AdvanceIdle, unit
  <2>2. \A op \in Ops : ~InFlight(op)
    BY <2>1, Drained DEF IdleMeansDrained
  <2>3. AdvanceLines(Ops)
    BY <2>1, <2>2, NothingToAdvance DEF IInv
  <2> QED
    BY <2>1, <2>3 DEF Advance, Next
<1>10. CASE AdvanceOnlyNext
  <2>1. /\ step = "advanceClock" /\ step' = "execute"
        /\ UNCHANGED <<trigger, nextOperation, disturbed>>
        /\ AdvanceLines({nextOperation}) /\ OnlyNextActive
    BY <1>10 DEF AdvanceOnlyNext
  <2>2. Counted = {nextOperation} /\ nextOperation \in Ops
    BY <2>1, OnlyNextLive DEF IInv, TriggerInv
  <2>3. \A op \in Ops \ {nextOperation} : ~InFlight(op)
    BY <2>2 DEF Counted, Live
  <2>4. {nextOperation} \in SUBSET Ops
    BY <2>2
  <2>5. AdvanceLines(Ops)
    BY <2>1, <2>3, <2>4, AdvanceEmpty DEF IInv
  <2> QED
    BY <2>1, <2>5 DEF Advance, Next
<1>11. CASE AdvanceAll
  <2> DEFINE S == {op \in Ops : pending[op]}
  <2>1. /\ step = "advanceClock" /\ step' = "execute"
        /\ UNCHANGED <<trigger, nextOperation, disturbed>>
        /\ AdvanceLines(S)
    BY <1>11 DEF AdvanceAll
  <2>2. S \in SUBSET Ops /\ \A op \in Ops \ S : ~InFlight(op)
    BY <2>1 DEF IInv, PendingInv
  <2> HIDE DEF S
  <2>3. AdvanceLines(Ops)
    BY <2>1, <2>2, AdvanceEmpty DEF IInv
  <2> QED
    BY <2>1, <2>3 DEF Advance, Next
<1>12. CASE \E i \in DOMAIN ExecList : AdvanceThrows(i)
  BY <1>12 DEF AdvanceThrows
<1>13. CASE Reset
  <2>1. /\ step \in {"execute", "stopped"} /\ step' = "execute"
        /\ UNCHANGED <<line, port, trigger, nextOperation>>
    BY <1>13 DEF Reset
  <2> QED
    BY <2>1 DEF Resume, Next, vars
<1>14. CASE UNCHANGED allVars
  BY <1>14 DEF allVars, unit, vars
<1> QED
  BY <1>1, <1>2, <1>3, <1>4, <1>5, <1>6, <1>7, <1>8, <1>9, <1>10, <1>11,
     <1>12, <1>13, <1>14
     DEF FUNext

\* For every set of operations, every latency and every order of the
\* executors, the unit with its idle flag, its count and its shortcuts does
\* what the unoptimised lines do, until an operation fails inside
\* advanceClock, a start throws with work or a pending flag left uncounted,
\* or a restart forgets work (FUState::endClock, FUState::advanceClock,
\* FUState::reset).
THEOREM Refinement == FUSpec => ImplementsPipelines
<1>1. FUInit => Init
  BY DEF FUInit
<1>2. IInv /\ [FUNext]_allVars => [~disturbed' => Next]_vars
  BY NextRefines
<1> QED
  BY <1>1, <1>2, Invariance, PTL DEF FUSpec, ImplementsPipelines
==============================================================================
