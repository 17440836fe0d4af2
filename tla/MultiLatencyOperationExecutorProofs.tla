----------------- MODULE MultiLatencyOperationExecutorProofs -----------------
(***************************************************************************)
(* As long as no cycle was given up, the pool of the multi-latency         *)
(* executor has a free slot whenever an operation may be started, for      *)
(* every latency and every set of outputs, also after a kill.              *)
(***************************************************************************)
EXTENDS MultiLatencyOperationExecutor, FiniteSetTheorems,
        WellFoundedInduction, TLAPS

(***************************************************************************)
(* What Lowest and Highest choose.                                         *)
(***************************************************************************)

\* The order of the natural numbers, as a relation.
Below == {p \in Nat \X Nat : p[1] < p[2]}

\* A set of natural numbers that is not empty has a least element.
LEMMA LeastElement ==
    ASSUME NEW S, S \subseteq Nat, S # {}
    PROVE  \E s \in S : \A t \in S : s <= t
<1>1. IsWellFoundedOn(Below, Nat)
  BY NatLessThanWellFounded, Zenon DEF OpToRel, Below
<1>2. \A s, t \in Nat : <<s, t>> \in Below <=> s < t
  BY DEF Below
<1>3. PICK s \in S : \A t \in S : ~ (<<t, s>> \in Below)
  BY <1>1, WFMin
<1>4. \A t \in S : ~ (t < s)
  BY <1>2, <1>3, Zenon
<1>5. \A t \in S : s <= t
  BY <1>4
<1> QED
  BY <1>5

\* The slot the search of findFreeExecutingOperation ends on is one of S.
LEMMA LowestIsMember ==
    ASSUME NEW S \in SUBSET Slots, S # {}
    PROVE  Lowest(S) \in S
<1>1. S \subseteq Nat
  BY LatencyAssumption DEF Slots
<1>2. \E s \in S : \A t \in S : s <= t
  BY <1>1, LeastElement
<1> QED
  BY <1>2 DEF Lowest

\* So is the slot that the loop of advanceClock visits last.
LEMMA HighestIsMember ==
    ASSUME NEW S \in SUBSET Slots, S # {}
    PROVE  Highest(S) \in S
<1> DEFINE T == {Latency - s : s \in S}
<1>1. \A s \in S : s \in Nat /\ Latency - s \in Nat
  BY LatencyAssumption DEF Slots
<1>2. T \subseteq Nat /\ T # {}
  BY <1>1
<1>3. PICK m \in T : \A k \in T : m <= k
  BY <1>2, LeastElement
<1>4. PICK s \in S : m = Latency - s
  BY <1>3
<1>5. \A t \in S : t <= s
  <2> TAKE t \in S
  <2>1. Latency - s <= Latency - t
    BY <1>3, <1>4
  <2> QED
    BY <1>1, <2>1, LatencyAssumption
<1> QED
  BY <1>4, <1>5 DEF Highest

\* The inductive invariant.  An operation in the pool has stages left, which
\* keeps its stage in range whatever has happened, and the simulation stops
\* in the middle of a cycle only by a fault.
IInv ==
    /\ TypeOK
    /\ \A s \in Active : executingOps[s].stage < Latency
    /\ StagesDistinct
    /\ faults = 0 => half # "stopped"

(***************************************************************************)
(* The pigeonhole argument: between two cycles the operations in the pool  *)
(* are at different stages, and there are only Latency - 1 stages to be    *)
(* at.                                                                     *)
(***************************************************************************)
LEMMA SlotIsFree == IInv => StartFindsFreeSlot
<1> SUFFICES ASSUME IInv, faults = 0, half = "endClock"
             PROVE  executingOps[FreeSlot].free
  BY DEF StartFindsFreeSlot
<1>1. CASE freeExecOp # NULL
  BY <1>1 DEF IInv, StagesDistinct, FreeSlot, Free, Active
<1>2. CASE freeExecOp = NULL
  <2>1. Free # {}
    <3> SUFFICES ASSUME Free = {} PROVE FALSE
      OBVIOUS
    <3> DEFINE Stages == 1..(Latency - 1)
               f == [s \in Slots |-> executingOps[s].stage]
    <3>1. Active = Slots
      BY DEF Free, Active
    <3>2. f \in [Slots -> Stages]
      BY <3>1, LatencyAssumption
         DEF IInv, StagesDistinct, TypeOK, ExecutingOperation
    <3>3. /\ IsFiniteSet(Slots) /\ Cardinality(Slots) = Latency
          /\ IsFiniteSet(Stages) /\ Cardinality(Stages) = Latency - 1
      <4>1. /\ Latency - 1 \in Int /\ 0 \in Int /\ 1 \in Int
            /\ ~(0 > Latency - 1)
            /\ 1 > Latency - 1 => Latency - 1 = 0
        BY LatencyAssumption
      <4> HIDE DEF Slots
      <4>2. /\ IsFiniteSet(Slots)
            /\ Cardinality(Slots) = (Latency - 1) - 0 + 1
        BY <4>1, FS_Interval DEF Slots
      <4>3. /\ IsFiniteSet(Stages)
            /\ Cardinality(Stages) = IF 1 > Latency - 1 THEN 0
                                     ELSE (Latency - 1) - 1 + 1
        BY <4>1, FS_Interval
      <4> QED
        BY <4>1, <4>2, <4>3, LatencyAssumption
    <3>4. \E s, t \in Slots : s # t /\ f[s] = f[t]
      <4>1. Cardinality(Stages) < Cardinality(Slots)
        BY <3>3, LatencyAssumption
      <4> HIDE DEF f, Stages
      <4> QED
        BY <3>2, <3>3, <4>1, FS_PigeonHole
    <3> QED
      BY <3>1, <3>4 DEF IInv, StagesDistinct
  <2>2. Free \in SUBSET Slots
    BY DEF Free
  <2>3. FreeSlot \in Free
    BY <1>2, <2>1, <2>2, LowestIsMember DEF FreeSlot
  <2> QED
    BY <2>3 DEF Free, Active
<1> QED
  BY <1>1, <1>2

(***************************************************************************)
(* One lemma for each kind of step.                                        *)
(***************************************************************************)

\* The pool as constructed.
LEMMA InitInv == Init => IInv
<1> SUFFICES ASSUME Init PROVE IInv
  OBVIOUS
<1>1. PICK v \in Values :
          executingOps = [s \in Slots |->
              [free |-> TRUE, stage |-> 0, result |-> v,
               cyclesToGo |-> OutLatency, old |-> FALSE]]
  BY DEF Init
<1>2. OutLatency \in [Outputs -> 0..Latency]
  BY OutLatencyAssumption, LatencyAssumption
<1>3. executingOps \in [Slots -> ExecutingOperation]
  BY <1>1, <1>2, LatencyAssumption DEF ExecutingOperation
<1>4. hasPendingOperations \in BOOLEAN /\ stale \in BOOLEAN
  BY Zenon DEF Init
<1>5. /\ freeExecOp = NULL /\ port \in [Outputs -> Values]
      /\ half = "endClock" /\ faults = 0
  BY Zenon DEF Init
<1>6. TypeOK
  BY <1>3, <1>4, <1>5, FaultsAssumption DEF TypeOK
<1>7. Active = {}
  BY <1>1 DEF Active
<1> QED
  BY <1>5, <1>6, <1>7 DEF IInv, StagesDistinct

\* A start puts an operation at stage 0 into a slot, which was free unless a
\* cycle was given up before.
LEMMA StartStep ==
    ASSUME IInv, NEW v \in Values, StartOperation(v)
    PROVE  IInv'
<1> DEFINE e == [free |-> FALSE, stage |-> 0, result |-> v,
                 cyclesToGo |-> OutLatency, old |-> FALSE]
           x == FreeSlot
<1>1. faults = 0 => executingOps[x].free
  BY SlotIsFree DEF StartFindsFreeSlot, StartOperation
<1>2. x \in Slots
  <2>1. Free \in SUBSET Slots /\ Latency - 1 \in Slots
    BY LatencyAssumption DEF Free, Slots
  <2> QED
    BY <2>1, LowestIsMember DEF FreeSlot, IInv, TypeOK
<1>3. executingOps' = [executingOps EXCEPT ![x] = e]
  BY DEF StartOperation
<1> HIDE DEF x
<1>4. e \in ExecutingOperation
  <2>1. OutLatency \in [Outputs -> 0..Latency]
    BY OutLatencyAssumption, LatencyAssumption
  <2> QED
    BY <2>1, LatencyAssumption DEF ExecutingOperation
<1>5. hasPendingOperations' /\ hasPendingOperations' \in BOOLEAN
  BY Zenon DEF StartOperation
<1>6. TypeOK'
  BY <1>2, <1>3, <1>4, <1>5 DEF IInv, TypeOK, StartOperation
<1>7. /\ executingOps'[x] = e
      /\ \A s \in Slots : s # x => executingOps'[s] = executingOps[s]
  BY <1>2, <1>3 DEF IInv, TypeOK
<1>8. Active' = Active \union {x}
  BY <1>2, <1>7 DEF Active
<1>9. faults = 0 => x \notin Active
  BY <1>1 DEF Active
<1>10. half = "endClock" /\ half' = "advanceClock" /\ freeExecOp' = NULL
       /\ faults' = faults
  BY DEF StartOperation
<1>11. Active \in SUBSET Slots
  BY DEF Active
<1>12. \A s \in Active : executingOps[s].stage \in Nat
  BY DEF Active, IInv, TypeOK, ExecutingOperation
<1>13. \A s \in Active' : executingOps'[s].stage < Latency
  BY <1>7, <1>8, <1>11, LatencyAssumption DEF IInv
<1>14. StagesDistinct'
  <2> SUFFICES ASSUME faults = 0 PROVE StagesDistinct'
    BY <1>10 DEF StagesDistinct
  <2>1. \A s \in Active : executingOps[s].stage > 0
    BY <1>10 DEF IInv, StagesDistinct
  <2>2. \A s, t \in Active' :
            executingOps'[s].stage = executingOps'[t].stage => s = t
    BY <1>7, <1>8, <1>9, <1>11, <1>12, <2>1 DEF IInv, StagesDistinct
  <2>3. \A s \in Active' :
            executingOps'[s].old => executingOps'[s].stage > 0
    BY <1>7, <1>8, <1>11, <2>1
  <2> QED
    BY <1>5, <1>10, <2>2, <2>3 DEF StagesDistinct
<1> QED
  BY <1>6, <1>10, <1>13, <1>14 DEF IInv

\* The loop of advanceClock over some of the slots: their operations are moved
\* to the next stage, and the slot of one that has gone through the last is
\* freed.
LEMMA VisitStep ==
    ASSUME IInv, NEW visited \in SUBSET Slots, Visit(visited)
    PROVE  /\ executingOps' \in [Slots -> ExecutingOperation]
           /\ port' \in [Outputs -> Values]
           /\ freeExecOp' \in Slots \union {NULL}
           /\ stale' \in BOOLEAN
           /\ Active' \in SUBSET Active
           /\ Free \in SUBSET Free'
           /\ \A s \in Active : executingOps[s].stage \in Nat
           /\ \A s \in Active' :
                  /\ executingOps'[s].stage =
                         IF s \in visited THEN executingOps[s].stage + 1
                         ELSE executingOps[s].stage
                  /\ executingOps'[s].stage < Latency
                  /\ executingOps'[s].old = executingOps[s].old
           /\ freeExecOp' # freeExecOp => freeExecOp' \in Free
<1> DEFINE Op(s) == executingOps[s]
<1>1. /\ Active \in SUBSET Slots /\ Free \in SUBSET Slots
      /\ \A s \in Slots : s \in Free <=> Op(s).free
      /\ \A s \in Slots : s \in Active <=> ~Op(s).free
      /\ \A s \in visited : s \in visited \ Free <=> s \in Active
  BY DEF Active, Free
<1>2. \A s \in Slots : Op(s) \in ExecutingOperation
  BY DEF IInv, TypeOK
<1>3. \A s \in Slots :
          executingOps'[s] = IF s \in visited /\ s \in Active
                             THEN AdvanceCycle(Op(s)) ELSE Op(s)
  BY <1>1 DEF Visit
<1>4. \A s \in Active :
          /\ Op(s).stage \in Nat /\ Op(s).stage < Latency
          /\ AdvanceCycle(Op(s)) \in ExecutingOperation
          /\ AdvanceCycle(Op(s)).stage = Op(s).stage + 1
          /\ AdvanceCycle(Op(s)).old = Op(s).old
          /\ AdvanceCycle(Op(s)).free <=> Op(s).stage + 1 = Latency
  <2> TAKE s \in Active
  <2> DEFINE e == Op(s)
  <2>1. /\ e \in ExecutingOperation /\ e.stage \in Nat /\ e.stage < Latency
    BY <1>1, <1>2 DEF IInv, ExecutingOperation
  <2> HIDE DEF e
  <2>2. e.stage + 1 \in 0..Latency
    BY <2>1, LatencyAssumption
  <2>3. [o \in Outputs |-> IF e.cyclesToGo[o] = 0 THEN 0
                           ELSE e.cyclesToGo[o] - 1]
            \in [Outputs -> 0..Latency]
    BY <2>1, LatencyAssumption DEF ExecutingOperation
  <2>4. (e.stage + 1 = Latency) \in BOOLEAN
    OBVIOUS
  <2>5. /\ AdvanceCycle(e) \in ExecutingOperation
        /\ AdvanceCycle(e).stage = e.stage + 1
        /\ AdvanceCycle(e).old = e.old
        /\ AdvanceCycle(e).free = (e.stage + 1 = Latency)
    BY <2>1, <2>2, <2>3, <2>4 DEF AdvanceCycle, ExecutingOperation
  <2> QED
    BY <2>1, <2>5 DEF e
<1>5. executingOps' \in [Slots -> ExecutingOperation]
  <2>1. executingOps' = [s \in Slots |-> executingOps'[s]]
    BY DEF Visit
  <2>2. \A s \in Slots : executingOps'[s] \in ExecutingOperation
    BY <1>2, <1>3, <1>4
  <2> QED
    BY <2>1, <2>2
<1>6. port' \in [Outputs -> Values]
  <2> DEFINE due(o) == {s \in visited \ Free : Op(s).cyclesToGo[o] = 1}
  <2>1. port' = [o \in Outputs |-> IF due(o) = {} THEN port[o]
                                   ELSE Op(Highest(due(o))).result]
    BY DEF Visit
  <2>2. ASSUME NEW o \in Outputs, due(o) # {}
        PROVE  Op(Highest(due(o))).result \in Values
    <3>1. due(o) \in SUBSET Slots
      OBVIOUS
    <3>2. Highest(due(o)) \in Slots
      BY <2>2, <3>1, HighestIsMember
    <3> QED
      BY <1>2, <3>2 DEF ExecutingOperation
  <2> QED
    BY <2>1, <2>2 DEF IInv, TypeOK
<1>7. /\ freeExecOp' # freeExecOp => freeExecOp' \in Free
      /\ freeExecOp' \in Slots \union {NULL}
  <2> DEFINE F == visited \intersect Free
  <2>1. F \in SUBSET Slots
    OBVIOUS
  <2>2. freeExecOp' = IF F = {} THEN freeExecOp ELSE Highest(F)
    BY DEF Visit
  <2>3. F # {} => Highest(F) \in F
    BY <2>1, HighestIsMember
  <2> QED
    BY <1>1, <2>2, <2>3 DEF IInv, TypeOK
<1>8. stale' \in BOOLEAN
  BY Zenon DEF Visit, IInv, TypeOK
<1>9. Active' \in SUBSET Active /\ Free \in SUBSET Free'
  BY <1>1, <1>3 DEF Active, Free
<1>10. \A s \in Active' :
           /\ executingOps'[s].stage = IF s \in visited THEN Op(s).stage + 1
                                       ELSE Op(s).stage
           /\ executingOps'[s].stage < Latency
           /\ executingOps'[s].old = Op(s).old
  <2> TAKE s \in Active'
  <2>1. s \in Active /\ s \in Slots /\ ~executingOps'[s].free
    BY <1>1, <1>9 DEF Active
  <2> QED
    BY <1>3, <1>4, <2>1, LatencyAssumption
<1> QED
  BY <1>4, <1>5, <1>6, <1>7, <1>8, <1>9, <1>10

\* A clock advance.
LEMMA AdvanceStep ==
    ASSUME IInv, AdvanceClock
    PROVE  IInv'
<1>1. Slots \in SUBSET Slots /\ Visit(Slots)
  BY DEF AdvanceClock
<1>2. /\ executingOps' \in [Slots -> ExecutingOperation]
      /\ port' \in [Outputs -> Values]
      /\ freeExecOp' \in Slots \union {NULL}
      /\ stale' \in BOOLEAN
      /\ Active' \in SUBSET Active
      /\ Free \in SUBSET Free'
      /\ \A s \in Active : executingOps[s].stage \in Nat
      /\ \A s \in Active' :
             /\ executingOps'[s].stage =
                    IF s \in Slots THEN executingOps[s].stage + 1
                    ELSE executingOps[s].stage
             /\ executingOps'[s].stage < Latency
             /\ executingOps'[s].old = executingOps[s].old
      /\ freeExecOp' # freeExecOp => freeExecOp' \in Free
  BY <1>1, VisitStep
<1>3. Active \in SUBSET Slots
  BY DEF Active
<1>4. /\ hasPendingOperations' = (Active # {})
      /\ hasPendingOperations' \in BOOLEAN
      /\ half' = "endClock" /\ faults' = faults
  BY Zenon DEF AdvanceClock
<1>5. TypeOK'
  BY <1>2, <1>4 DEF IInv, TypeOK
<1>6. StagesDistinct'
  <2> SUFFICES ASSUME faults = 0 PROVE StagesDistinct'
    BY <1>4 DEF StagesDistinct
  <2>1. \A s \in Active' : executingOps'[s].stage = executingOps[s].stage + 1
    BY <1>2, <1>3
  <2>2. \A s, t \in Active' :
            executingOps'[s].stage = executingOps'[t].stage => s = t
    BY <1>2, <2>1 DEF IInv, StagesDistinct
  <2>3. \A s \in Active' : executingOps'[s].stage > 0
    BY <1>2, <2>1
  <2>4. freeExecOp' # NULL => freeExecOp' \in Free'
    BY <1>2 DEF IInv, StagesDistinct
  <2>5. Active' # {} => hasPendingOperations'
    BY <1>2, <1>4
  <2> QED
    BY <2>2, <2>3, <2>4, <2>5 DEF StagesDistinct
<1> QED
  BY <1>2, <1>4, <1>5, <1>6 DEF IInv

\* An operation that throws at its first clock advance: the slots before it
\* were moved on.  Only the types are promised from then on.
LEMMA ThrowStep ==
    ASSUME IInv, NEW slot \in Slots, TriggerThrows(slot)
    PROVE  IInv'
<1> DEFINE before == 0..(slot - 1)
<1>1. before \in SUBSET Slots /\ Visit(before)
  BY LatencyAssumption DEF TriggerThrows, Slots
<1> HIDE DEF before
<1>2. /\ executingOps' \in [Slots -> ExecutingOperation]
      /\ port' \in [Outputs -> Values]
      /\ freeExecOp' \in Slots \union {NULL}
      /\ stale' \in BOOLEAN
      /\ \A s \in Active' : executingOps'[s].stage < Latency
  BY <1>1, VisitStep
<1>3. /\ hasPendingOperations' = hasPendingOperations
      /\ half' = "stopped" /\ faults' = faults + 1 /\ faults < MaxFaults
  BY DEF TriggerThrows
<1>4. faults' \in 0..MaxFaults /\ faults' # 0
  BY <1>3, FaultsAssumption DEF IInv, TypeOK
<1>5. TypeOK'
  BY <1>2, <1>3, <1>4 DEF IInv, TypeOK
<1> QED
  BY <1>2, <1>4, <1>5 DEF IInv, StagesDistinct

\* A step that leaves the pool alone: an operation that waits for its first
\* advance is not left behind, because it makes the executor pending.
LEMMA QuietStep ==
    ASSUME IInv,
           \/ NotTriggered \/ NotAdvanced \/ CycleAborted \/ Resume
           \/ UNCHANGED vars
    PROVE  IInv'
<1>1. UNCHANGED <<executingOps, freeExecOp, hasPendingOperations, port,
                  stale>>
  BY DEF NotTriggered, NotAdvanced, CycleAborted, Resume, vars
<1>2. Active' = Active /\ Free' = Free
  BY <1>1 DEF Active, Free
<1>3. half' \in {"endClock", "advanceClock", "stopped"}
  BY DEF NotTriggered, NotAdvanced, CycleAborted, Resume, vars, IInv, TypeOK
<1>4. /\ faults' \in 0..MaxFaults
      /\ faults' = 0 => faults = 0 /\ ~CycleAborted
  BY FaultsAssumption
     DEF NotTriggered, NotAdvanced, CycleAborted, Resume, vars, IInv, TypeOK
<1>5. TypeOK'
  BY <1>1, <1>3, <1>4 DEF IInv, TypeOK
<1>6. ASSUME faults' = 0
      PROVE  /\ half' # "stopped"
             /\ half' = "endClock" => half = "endClock" \/ NotAdvanced
  BY <1>4, <1>6
     DEF NotTriggered, NotAdvanced, Resume, vars, IInv
<1>7. ASSUME faults' = 0, NotAdvanced, NEW s \in Active
      PROVE  executingOps[s].stage > 0
  BY <1>4, <1>7 DEF NotAdvanced, IInv, StagesDistinct
<1>8. StagesDistinct'
  BY <1>1, <1>2, <1>4, <1>6, <1>7 DEF IInv, StagesDistinct
<1> QED
  BY <1>1, <1>2, <1>5, <1>6, <1>8 DEF IInv

\* A restart marks the operations it finds as old and leaves them where they
\* are, each past its first stage.
LEMMA ResetStep ==
    ASSUME IInv, Reset
    PROVE  IInv'
<1>1. /\ half # "advanceClock" /\ half' = "endClock"
      /\ UNCHANGED <<freeExecOp, port, faults, stale>>
      /\ executingOps' = [s \in Slots |->
             [executingOps[s] EXCEPT !.old = ~executingOps[s].free]]
  BY DEF Reset
<1>2. hasPendingOperations' \in BOOLEAN
  BY Zenon DEF Reset
<1>3. \A s \in Slots :
          /\ executingOps'[s] \in ExecutingOperation
          /\ executingOps'[s].free = executingOps[s].free
          /\ executingOps'[s].stage = executingOps[s].stage
          /\ executingOps'[s].old = ~executingOps[s].free
  <2> TAKE s \in Slots
  <2>1. executingOps[s] \in ExecutingOperation
    BY DEF IInv, TypeOK
  <2> DEFINE b == ~executingOps[s].free
  <2>2. b \in BOOLEAN
    BY Zenon
  <2>3. executingOps'[s] = [executingOps[s] EXCEPT !.old = b]
    BY <1>1
  <2> HIDE DEF b
  <2>4. /\ executingOps'[s] \in ExecutingOperation
        /\ executingOps'[s].free = executingOps[s].free
        /\ executingOps'[s].stage = executingOps[s].stage
        /\ executingOps'[s].old = b
    BY <2>1, <2>2, <2>3 DEF ExecutingOperation
  <2> QED
    BY <2>4 DEF b
<1>4. executingOps' \in [Slots -> ExecutingOperation]
  BY <1>1, <1>3
<1>5. Active' = Active /\ Free' = Free
  BY <1>3 DEF Active, Free
<1>6. TypeOK'
  BY <1>1, <1>2, <1>4 DEF IInv, TypeOK
<1>7. Active \in SUBSET Slots
  BY DEF Active
<1>8. StagesDistinct'
  <2> SUFFICES ASSUME faults = 0 PROVE StagesDistinct'
    BY <1>1 DEF StagesDistinct
  <2>1. half = "endClock"
    BY <1>1 DEF IInv, TypeOK
  <2>2. \A s \in Active : executingOps'[s].old
    BY <1>3, <1>7 DEF Active
  <2> QED
    BY <1>1, <1>3, <1>5, <1>7, <2>1, <2>2 DEF IInv, StagesDistinct
<1> QED
  BY <1>1, <1>3, <1>5, <1>6, <1>7, <1>8 DEF IInv

\* Every reachable state, with given-up cycles, failures and kills.
THEOREM Invariance == Spec => []IInv
<1>1. IInv /\ [Next]_vars => IInv'
  BY StartStep, AdvanceStep, ThrowStep, QuietStep, ResetStep DEF Next
<1> QED
  BY <1>1, InitInv, PTL DEF Spec

\* The pool keeps its types; no operation outlives its last stage
\* (ExecutingOperation::advanceCycle, stop), whatever fails.
THEOREM TypeCorrect == Spec => []TypeOK
<1>1. IInv => TypeOK
  BY DEF IInv
<1> QED
  BY <1>1, Invariance, PTL

\* As long as no cycle was given up, no two operations of the pool are at the
\* same stage, and the executor asks for clock advances while the pool holds
\* an operation of the present run.
THEOREM StagesStayDistinct == Spec => []StagesDistinct
<1>1. IInv => StagesDistinct
  BY DEF IInv
<1> QED
  BY <1>1, Invariance, PTL

\* For every latency, the pool of exactly that many slots always has a free
\* one for the operation that may be started, also when a kill has left
\* operations in it: the assertion of findFreeExecutingOperation holds as
\* long as no cycle was given up.
THEOREM StartIsSafe == Spec => []StartFindsFreeSlot
BY Invariance, SlotIsFree, PTL

(***************************************************************************)
(* The refinement.                                                         *)
(***************************************************************************)

\* What is left of a countdown follows from the stage: the two are counted
\* together, whatever fails in between.
Countdown ==
    \A s \in Active, o \in Outputs :
        executingOps[s].cyclesToGo[o] =
            IF executingOps[s].stage < OutLatency[o]
            THEN OutLatency[o] - executingOps[s].stage ELSE 0

\* One clock advance of an operation.
LEMMA AdvanceCycleFacts ==
    ASSUME NEW e \in ExecutingOperation, e.stage < Latency
    PROVE  /\ AdvanceCycle(e).stage = e.stage + 1
           /\ AdvanceCycle(e).result = e.result
           /\ AdvanceCycle(e).old = e.old
           /\ AdvanceCycle(e).free <=> e.stage + 1 = Latency
           /\ \A o \in Outputs :
                  AdvanceCycle(e).cyclesToGo[o] =
                      IF e.cyclesToGo[o] = 0 THEN 0 ELSE e.cyclesToGo[o] - 1
<1> DEFINE c == [o \in Outputs |-> IF e.cyclesToGo[o] = 0 THEN 0
                                   ELSE e.cyclesToGo[o] - 1]
           f == (e.stage + 1 = Latency)
<1>1. f \in BOOLEAN
  OBVIOUS
<1>2. AdvanceCycle(e) = [e EXCEPT !.stage = e.stage + 1, !.cyclesToGo = c,
                                  !.free = f]
  BY DEF AdvanceCycle
<1>3. \A o \in Outputs : c[o] = IF e.cyclesToGo[o] = 0 THEN 0
                                ELSE e.cyclesToGo[o] - 1
  OBVIOUS
<1> HIDE DEF c, f
<1>4. /\ AdvanceCycle(e).stage = e.stage + 1 /\ AdvanceCycle(e).cyclesToGo = c
      /\ AdvanceCycle(e).result = e.result /\ AdvanceCycle(e).old = e.old
      /\ AdvanceCycle(e).free = f
  BY <1>2 DEF ExecutingOperation
<1> QED
  BY <1>1, <1>3, <1>4 DEF f

\* The operations in the pool and their ranges.
LEMMA PoolFacts ==
    ASSUME IInv
    PROVE  /\ Active \in SUBSET Slots
           /\ \A s \in Slots : executingOps[s] \in ExecutingOperation
           /\ \A s \in Slots : executingOps[s].stage \in Nat
           /\ \A s \in Slots : executingOps[s].result \in Values
           /\ \A s \in Active : executingOps[s].stage < Latency
           /\ \A o \in Outputs : OutLatency[o] \in 1..Latency
           /\ Latency \in Nat
<1>1. \A s \in Slots : executingOps[s] \in ExecutingOperation
  BY DEF IInv, TypeOK
<1>2. \A e \in ExecutingOperation : e.stage \in Nat /\ e.result \in Values
  BY LatencyAssumption DEF ExecutingOperation
<1> QED
  BY <1>1, <1>2, OutLatencyAssumption, LatencyAssumption DEF Active, IInv

\* What the loop of advanceClock does to each slot.
LEMMA VisitMoves ==
    ASSUME IInv, NEW visited \in SUBSET Slots, Visit(visited)
    PROVE  \A s \in Slots :
               /\ s \in visited /\ s \in Active =>
                      executingOps'[s] = AdvanceCycle(executingOps[s])
               /\ ~(s \in visited /\ s \in Active) =>
                      executingOps'[s] = executingOps[s]
BY DEF Visit, Active, Free

\* Stage and countdown stay together.
LEMMA CountdownStep ==
    ASSUME IInv, Countdown, [Next]_vars
    PROVE  Countdown'
<1>0. /\ Active \in SUBSET Slots
      /\ \A s \in Slots : executingOps[s] \in ExecutingOperation
      /\ \A s \in Slots : executingOps[s].stage \in Nat
      /\ \A s \in Active : executingOps[s].stage < Latency
      /\ \A o \in Outputs : OutLatency[o] \in 1..Latency
      /\ Latency \in Nat
  BY PoolFacts
<1>1. ASSUME NEW v \in Values, StartOperation(v) PROVE Countdown'
  <2> DEFINE x == FreeSlot
             e == [free |-> FALSE, stage |-> 0, result |-> v,
                   cyclesToGo |-> OutLatency, old |-> FALSE]
  <2>1. /\ x \in Slots => executingOps'[x] = e
        /\ \A s \in Slots : s # x => executingOps'[s] = executingOps[s]
    BY <1>1 DEF StartOperation, IInv, TypeOK
  <2> HIDE DEF x
  <2>2. \A s \in Active' : s \in Slots
    BY DEF Active
  <2>3. \A s \in Active' : s # x => s \in Active
    BY <2>1 DEF Active
  <2> QED
    BY <1>0, <2>1, <2>2, <2>3 DEF Countdown
<1>2. ASSUME NEW visited \in SUBSET Slots, Visit(visited) PROVE Countdown'
  <2> SUFFICES ASSUME NEW s \in Active', NEW o \in Outputs
               PROVE  executingOps'[s].cyclesToGo[o] =
                          IF executingOps'[s].stage < OutLatency[o]
                          THEN OutLatency[o] - executingOps'[s].stage ELSE 0
    BY DEF Countdown
  <2>1. s \in Slots /\ s \in Active
    BY <1>2, VisitStep DEF Active
  <2>2. CASE s \in visited
    <3> DEFINE e == executingOps[s]
    <3>1. executingOps'[s] = AdvanceCycle(e)
      BY <1>2, <2>1, <2>2, VisitMoves
    <3>2. /\ AdvanceCycle(e).stage = e.stage + 1
          /\ AdvanceCycle(e).cyclesToGo[o] =
                 IF e.cyclesToGo[o] = 0 THEN 0 ELSE e.cyclesToGo[o] - 1
      BY <1>0, <2>1, AdvanceCycleFacts
    <3>3. e.cyclesToGo[o] = IF e.stage < OutLatency[o]
                            THEN OutLatency[o] - e.stage ELSE 0
      BY <2>1 DEF Countdown
    <3>4. e.stage \in Nat /\ OutLatency[o] \in Nat
      BY <1>0, <2>1
    <3> HIDE DEF e
    <3> QED
      BY <3>1, <3>2, <3>3, <3>4
  <2>3. CASE s \notin visited
    BY <1>2, <2>1, <2>3, VisitMoves DEF Countdown
  <2> QED
    BY <2>2, <2>3
<1>3. ASSUME AdvanceClock PROVE Countdown'
  BY <1>2, <1>3 DEF AdvanceClock
<1>4. ASSUME NEW slot \in Slots, TriggerThrows(slot) PROVE Countdown'
  <2>1. 0..(slot - 1) \in SUBSET Slots
    BY LatencyAssumption DEF Slots
  <2> QED
    BY <1>2, <1>4, <2>1 DEF TriggerThrows
<1>5. ASSUME NotTriggered \/ NotAdvanced \/ CycleAborted \/ Resume
             \/ UNCHANGED vars
      PROVE  Countdown'
  <2>1. executingOps' = executingOps
    BY <1>5 DEF NotTriggered, NotAdvanced, CycleAborted, Resume, vars
  <2> QED
    BY <2>1 DEF Countdown, Active
<1>6. ASSUME Reset PROVE Countdown'
  <2>1. \A s \in Slots :
            /\ executingOps'[s].free = executingOps[s].free
            /\ executingOps'[s].stage = executingOps[s].stage
            /\ executingOps'[s].cyclesToGo = executingOps[s].cyclesToGo
    BY <1>0, <1>6 DEF Reset, ExecutingOperation
  <2> QED
    BY <1>0, <2>1 DEF Countdown, Active
<1> QED
  BY <1>1, <1>3, <1>4, <1>5, <1>6 DEF Next

\* What the line of an output shows of the pool: until a cycle is given up
\* no two operations are equally far from their result.
LEMMA LineIs ==
    ASSUME IInv, Countdown, faults = 0, NEW o \in Outputs,
           NEW k \in 1..OutLatency[o]
    PROVE  /\ \A s \in Due(o, k) : lineOf(o)[k] = executingOps[s].result
           /\ Due(o, k) = {} => lineOf(o)[k] = NoResult
<1>1. lineOf(o)[k] = IF Due(o, k) = {} THEN NoResult
                     ELSE executingOps[Highest(Due(o, k))].result
  BY DEF lineOf
<1>2. Due(o, k) \in SUBSET Slots
  BY PoolFacts DEF Due
<1>3. \A s, t \in Due(o, k) : s = t
  <2> SUFFICES ASSUME NEW s \in Due(o, k), NEW t \in Due(o, k)
               PROVE  s = t
    OBVIOUS
  <2>1. /\ s \in Active /\ t \in Active
        /\ executingOps[s].cyclesToGo[o] = k
        /\ executingOps[t].cyclesToGo[o] = k
    BY DEF Due
  <2>2. /\ executingOps[s].stage \in Nat /\ executingOps[t].stage \in Nat
        /\ OutLatency[o] \in Nat /\ k >= 1
    BY <2>1, PoolFacts
  <2>3. executingOps[s].stage = executingOps[t].stage
    BY <2>1, <2>2 DEF Countdown
  <2> QED
    BY <2>1, <2>3 DEF IInv, StagesDistinct
<1>4. Due(o, k) # {} => Highest(Due(o, k)) \in Due(o, k)
  BY <1>2, HighestIsMember
<1> QED
  BY <1>1, <1>3, <1>4

\* The same of the next state.
LEMMA NextLineIs ==
    ASSUME IInv', Countdown', faults' = 0, NEW o \in Outputs,
           NEW k \in 1..OutLatency[o]
    PROVE  /\ \A s \in Due(o, k)' : lineOf(o)'[k] = executingOps'[s].result
           /\ Due(o, k)' = {} => lineOf(o)'[k] = NoResult
<1>1. lineOf(o)'[k] = IF Due(o, k)' = {} THEN NoResult
                      ELSE executingOps'[Highest(Due(o, k)')].result
  BY DEF lineOf
<1>2. Due(o, k)' \in SUBSET Slots
  BY DEF Due, Active
<1>3. \A s, t \in Due(o, k)' : s = t
  <2> SUFFICES ASSUME NEW s \in Due(o, k)', NEW t \in Due(o, k)'
               PROVE  s = t
    OBVIOUS
  <2>1. /\ s \in Active' /\ t \in Active' /\ s \in Slots /\ t \in Slots
        /\ executingOps'[s].cyclesToGo[o] = k
        /\ executingOps'[t].cyclesToGo[o] = k
    BY DEF Due, Active
  <2>2. /\ executingOps'[s].stage \in Nat /\ executingOps'[t].stage \in Nat
        /\ OutLatency[o] \in Nat /\ k >= 1
    <3>1. \A e \in ExecutingOperation : e.stage \in Nat
      BY LatencyAssumption DEF ExecutingOperation
    <3>2. executingOps' \in [Slots -> ExecutingOperation]
      BY DEF IInv, TypeOK
    <3> QED
      BY <2>1, <3>1, <3>2, OutLatencyAssumption, LatencyAssumption
  <2>3. executingOps'[s].stage = executingOps'[t].stage
    BY <2>1, <2>2 DEF Countdown
  <2> QED
    BY <2>1, <2>3 DEF IInv, StagesDistinct
<1>4. Due(o, k)' # {} => Highest(Due(o, k)') \in Due(o, k)'
  BY <1>2, HighestIsMember
<1> QED
  BY <1>1, <1>3, <1>4

\* A start enters at the far end of the line of every output.
LEMMA StartRefines ==
    ASSUME IInv, Countdown, IInv', Countdown', faults' = 0,
           NEW v \in Values, StartOperation(v), NEW o \in Outputs
    PROVE  Abstract(o)!Start(v)
<1> DEFINE x == FreeSlot
           L == OutLatency[o]
           e == [free |-> FALSE, stage |-> 0, result |-> v,
                 cyclesToGo |-> OutLatency, old |-> FALSE]
<1>1. /\ half = "endClock" /\ half' = "advanceClock" /\ port' = port
      /\ faults = 0 /\ executingOps' = [executingOps EXCEPT ![x] = e]
  BY DEF StartOperation
<1>2. x \in Slots /\ executingOps[x].free
  <2>1. Free \in SUBSET Slots /\ Latency - 1 \in Slots
    BY LatencyAssumption DEF Free, Slots
  <2>2. x \in Slots
    BY <2>1, LowestIsMember DEF FreeSlot, IInv, TypeOK
  <2> QED
    BY <1>1, <2>2, SlotIsFree DEF StartFindsFreeSlot
<1> HIDE DEF x
<1>3. /\ executingOps'[x] = e
      /\ \A s \in Slots : s # x => executingOps'[s] = executingOps[s]
  BY <1>1, <1>2 DEF IInv, TypeOK
<1>4. Active' = Active \union {x} /\ x \notin Active
      /\ Active \in SUBSET Slots
  BY <1>2, <1>3 DEF Active
<1>5. L \in Nat /\ L \in 1..L
  BY OutLatencyAssumption, LatencyAssumption
<1>6. lineOf(o)'[L] = v
  <2>1. x \in Due(o, L)'
    BY <1>3, <1>4 DEF Due
  <2> QED
    BY <1>3, <1>5, <2>1, NextLineIs
<1>7. ASSUME NEW k \in 1..L, k # L
      PROVE  lineOf(o)'[k] = lineOf(o)[k]
  <2>1. Due(o, k)' = Due(o, k) /\ Due(o, k) \in SUBSET Slots
        /\ x \notin Due(o, k)
    BY <1>3, <1>4, <1>7 DEF Due
  <2>2. CASE Due(o, k) = {}
    BY <1>1, <2>1, <2>2, LineIs, NextLineIs
  <2>3. CASE Due(o, k) # {}
    <3>1. PICK s \in Due(o, k) : TRUE
      BY <2>3
    <3>2. lineOf(o)[k] = executingOps[s].result
      BY <1>1, <3>1, LineIs
    <3>3. lineOf(o)'[k] = executingOps'[s].result
      BY <2>1, <3>1, NextLineIs
    <3> QED
      BY <1>3, <2>1, <3>1, <3>2, <3>3
  <2> QED
    BY <2>2, <2>3
<1>8. /\ lineOf(o)' = [k \in 1..L |-> lineOf(o)'[k]]
      /\ lineOf(o) = [k \in 1..L |-> lineOf(o)[k]]
  BY DEF lineOf
<1>9. lineOf(o)' = [lineOf(o) EXCEPT ![L] = v]
  BY <1>5, <1>6, <1>7, <1>8
<1> QED
  BY <1>1, <1>9 DEF Abstract!Start

\* A clock advance moves the line of every output by one stage.
LEMMA AdvanceRefines ==
    ASSUME IInv, Countdown, IInv', Countdown', faults' = 0,
           AdvanceClock, NEW o \in Outputs
    PROVE  Abstract(o)!Advance
<1> DEFINE L == OutLatency[o]
           Op(s) == executingOps[s]
<1>1. /\ half = "advanceClock" /\ half' = "endClock" /\ faults = 0
      /\ Visit(Slots)
  BY DEF AdvanceClock
<1>2. L \in Nat /\ L \in 1..L /\ 1 \in 1..L /\ L <= Latency /\ Latency \in Nat
  BY OutLatencyAssumption, LatencyAssumption
<1>3. \A s \in Active :
          /\ s \in Slots /\ Op(s).stage \in Nat /\ Op(s).stage < Latency
          /\ Op(s).cyclesToGo[o] = IF Op(s).stage < L THEN L - Op(s).stage
                                   ELSE 0
          /\ executingOps'[s].stage = Op(s).stage + 1
          /\ executingOps'[s].result = Op(s).result
          /\ executingOps'[s].free <=> Op(s).stage + 1 = Latency
          /\ executingOps'[s].cyclesToGo[o] =
                 IF Op(s).cyclesToGo[o] = 0 THEN 0
                 ELSE Op(s).cyclesToGo[o] - 1
  <2> TAKE s \in Active
  <2>1. /\ s \in Slots /\ Op(s) \in ExecutingOperation
        /\ Op(s).stage \in Nat /\ Op(s).stage < Latency
    BY PoolFacts
  <2>2. executingOps'[s] = AdvanceCycle(Op(s))
    BY <1>1, <2>1, VisitMoves
  <2> QED
    BY <2>1, <2>2, AdvanceCycleFacts DEF Countdown
<1>4. Active' \in SUBSET Active
      /\ \A s \in Active : s \in Active' <=> ~executingOps'[s].free
  <2>1. Active' \in SUBSET Active
    BY <1>1, VisitStep
  <2> QED
    BY <1>3, <2>1 DEF Active
<1> HIDE DEF L
<1>5. ASSUME NEW k \in 1..L, k # L
      PROVE  Due(o, k)' = Due(o, k + 1)
  <2>1. \A s \in Active : Op(s).cyclesToGo[o] = k + 1 <=>
                              /\ ~executingOps'[s].free
                              /\ executingOps'[s].cyclesToGo[o] = k
    BY <1>2, <1>3, <1>5
  <2> QED
    BY <1>4, <2>1 DEF Due
<1>6. Due(o, L)' = {}
  <2>1. \A s \in Active' : executingOps'[s].cyclesToGo[o] # L
    BY <1>2, <1>3, <1>4
  <2> QED
    BY <2>1 DEF Due
<1>7. ASSUME NEW k \in 1..L, k # L
      PROVE  lineOf(o)'[k] = lineOf(o)[k + 1]
  <2>1. k + 1 \in 1..L /\ Due(o, k)' = Due(o, k + 1)
    BY <1>2, <1>5, <1>7
  <2>2. CASE Due(o, k + 1) = {}
    BY <1>1, <2>1, <2>2, LineIs, NextLineIs DEF L
  <2>3. CASE Due(o, k + 1) # {}
    <3>1. PICK s \in Due(o, k + 1) : TRUE
      BY <2>3
    <3>2. lineOf(o)[k + 1] = executingOps[s].result
      BY <1>1, <2>1, <3>1, LineIs DEF L
    <3>3. lineOf(o)'[k] = executingOps'[s].result
      BY <2>1, <3>1, NextLineIs DEF L
    <3> QED
      BY <1>3, <3>1, <3>2, <3>3 DEF Due
  <2> QED
    BY <2>2, <2>3
<1>8. lineOf(o)'[L] = NoResult
  BY <1>2, <1>6, NextLineIs DEF L
<1>9. lineOf(o)' = [k \in 1..L |-> IF k = L THEN NoResult
                                   ELSE lineOf(o)[k + 1]]
  <2>1. lineOf(o)' = [k \in 1..L |-> lineOf(o)'[k]]
    BY DEF lineOf, L
  <2> QED
    BY <1>7, <1>8, <2>1
<1>10. port'[o] = IF lineOf(o)[1] = NoResult THEN port[o] ELSE lineOf(o)[1]
  <2> DEFINE due == {s \in Slots \ Free : executingOps[s].cyclesToGo[o] = 1}
  <2>1. port'[o] = IF due = {} THEN port[o]
                   ELSE executingOps[Highest(due)].result
    BY <1>1 DEF Visit
  <2>2. due = Due(o, 1)
    BY DEF Due, Free, Active
  <2>3. lineOf(o)[1] = IF Due(o, 1) = {} THEN NoResult
                       ELSE executingOps[Highest(Due(o, 1))].result
    BY <1>2 DEF lineOf, L
  <2>4. due # {} => executingOps[Highest(due)].result # NoResult
    <3>1. due \in SUBSET Slots
      OBVIOUS
    <3>2. due # {} => Highest(due) \in Slots
      BY <3>1, HighestIsMember
    <3> QED
      BY <3>2, PoolFacts, ValuesAssumption
  <2> QED
    BY <2>1, <2>2, <2>3, <2>4
<1> QED
  BY <1>1, <1>9, <1>10 DEF Abstract!Advance, L

\* An empty pool is an empty line.
LEMMA EmptyLine ==
    ASSUME Active = {}, NEW o \in Outputs
    PROVE  lineOf(o) = [k \in 1..OutLatency[o] |-> NoResult]
BY DEF lineOf, Due

\* A skipped clock advance finds the pool empty.
LEMMA SkipRefines ==
    ASSUME IInv, Undisturbed', NotAdvanced, NEW o \in Outputs
    PROVE  Abstract(o)!Advance
<1>1. /\ half = "advanceClock" /\ half' = "endClock"
      /\ UNCHANGED <<executingOps, port, faults>>
      /\ ~hasPendingOperations \/ Active = {}
  BY DEF NotAdvanced
<1>2. Active' = Active /\ lineOf(o)' = lineOf(o)
  BY <1>1 DEF Active, lineOf, Due
<1>3. Active = {}
  BY <1>1, <1>2 DEF Undisturbed, IInv, StagesDistinct
<1>4. lineOf(o) = [k \in 1..OutLatency[o] |-> NoResult]
  BY <1>3, EmptyLine
<1>5. OutLatency[o] \in Nat /\ 1 \in 1..OutLatency[o]
      /\ \A k \in 1..OutLatency[o] :
             k # OutLatency[o] => k + 1 \in 1..OutLatency[o]
  BY OutLatencyAssumption, LatencyAssumption
<1>6. lineOf(o)' = [k \in 1..OutLatency[o] |->
                       IF k = OutLatency[o] THEN NoResult
                       ELSE lineOf(o)[k + 1]]
  BY <1>2, <1>4, <1>5
<1> QED
  BY <1>1, <1>4, <1>5, <1>6 DEF Abstract!Advance

\* Every step that leaves the pool undisturbed is a step of every line.
LEMMA NextRefines ==
    ASSUME IInv, Countdown, [Next]_vars, Undisturbed', NEW o \in Outputs
    PROVE  [Abstract(o)!Next]_<<lineOf(o), port[o], half>>
<1>1. IInv'
  BY StartStep, AdvanceStep, ThrowStep, QuietStep, ResetStep DEF Next
<1>2. Countdown' /\ faults' = 0
  BY CountdownStep DEF Undisturbed
<1>3. CASE \E v \in Values : StartOperation(v)
  <2>1. PICK v \in Values : StartOperation(v)
    BY <1>3
  <2>2. Abstract(o)!Start(v)
    BY <1>1, <1>2, <2>1, StartRefines
  <2> QED
    BY <2>2 DEF Abstract!Next
<1>4. CASE NotTriggered
  <2>1. /\ half = "endClock" /\ half' = "advanceClock"
        /\ lineOf(o)' = lineOf(o) /\ port'[o] = port[o]
    BY <1>4 DEF NotTriggered, lineOf, Due, Active
  <2> QED
    BY <2>1 DEF Abstract!NoStart, Abstract!Next
<1>5. CASE AdvanceClock
  BY <1>1, <1>2, <1>5, AdvanceRefines DEF Abstract!Next
<1>6. CASE NotAdvanced
  BY <1>6, SkipRefines DEF Abstract!Next
<1>7. ~CycleAborted /\ \A slot \in Slots : ~TriggerThrows(slot)
  BY <1>2, FaultsAssumption DEF CycleAborted, TriggerThrows, IInv, TypeOK
<1>8. ~Resume
  BY <1>2 DEF Resume, IInv
<1>9. CASE Reset
  <2>1. /\ half = "endClock" /\ half' = half /\ port' = port
    BY <1>2, <1>9 DEF Reset, IInv, TypeOK
  <2>2. Active' = {} /\ Active = {}
    <3>1. \A s \in Slots :
              /\ executingOps'[s].free = executingOps[s].free
              /\ executingOps'[s].old = ~executingOps[s].free
      <4> TAKE s \in Slots
      <4>1. executingOps[s] \in ExecutingOperation
        BY DEF IInv, TypeOK
      <4>2. executingOps'[s] =
                [executingOps[s] EXCEPT !.old = ~executingOps[s].free]
        BY <1>9 DEF Reset
      <4> QED
        BY <4>1, <4>2 DEF ExecutingOperation
    <3> QED
      BY <3>1 DEF Undisturbed, Active
  <2>3. lineOf(o)' = lineOf(o)
    BY <2>2 DEF lineOf, Due
  <2> QED
    BY <2>1, <2>3
<1>10. CASE UNCHANGED vars
  BY <1>10 DEF vars, lineOf, Due, Active
<1> QED
  BY <1>3, <1>4, <1>5, <1>6, <1>7, <1>8, <1>9, <1>10 DEF Next

\* For every latency, set of outputs and latency of each of them, every output
\* is a delay line of its own latency, as long as no cycle was given up and
\* nothing of a killed run is in the pool.
THEOREM Refinement == Spec => ImplementsDelayLines
<1>1. Init => Countdown /\ \A o \in Outputs : Abstract(o)!Init
  <2> SUFFICES ASSUME Init PROVE Countdown
                                 /\ \A o \in Outputs : Abstract(o)!Init
    OBVIOUS
  <2>1. Active = {}
    BY DEF Init, Active
  <2>2. ASSUME NEW o \in Outputs PROVE Abstract(o)!Init
    <3>1. lineOf(o) = [k \in 1..OutLatency[o] |-> NoResult]
      BY <2>1, EmptyLine
    <3>2. half = "endClock" /\ port[o] \in Values
      BY DEF Init
    <3> QED
      BY <3>1, <3>2 DEF Abstract!Init
  <2> QED
    BY <2>1, <2>2 DEF Countdown
<1>2. IInv /\ Countdown /\ [Next]_vars => Countdown'
  BY CountdownStep
<1>3. IInv /\ Countdown /\ [Next]_vars =>
          [Undisturbed' => \A o \in Outputs :
               [Abstract(o)!Next]_<<lineOf(o), port[o], half>>]_vars
  BY NextRefines
<1> QED
  BY <1>1, <1>2, <1>3, Invariance, PTL DEF Spec, ImplementsDelayLines
==============================================================================
