--------------------------- MODULE GCUStateProofs ----------------------------
(***************************************************************************)
(* GCUState keeps its invariants, and implements DelayedBranch, for every  *)
(* number of delay slots, every program size, every set of operations and  *)
(* every width of the addresses.                                           *)
(***************************************************************************)
EXTENDS GCUState, TLAPS

(***************************************************************************)
(* The inductive invariant.  TypeOK and IdleMeansNoBranch need each other: *)
(* the countdown stays a natural number because a pending branch has       *)
(* cycles left, and an idle unit has none pending.  Two facts about the    *)
(* steps of a cycle are missing: a trigger does not survive endClock, and  *)
(* a loop that is under way has a body of at least one instruction, of     *)
(* which the current pass has not executed all (also when the program has  *)
(* left it).                                                               *)
(***************************************************************************)
LoopOK == loopCounter > 0 => instrCount < loopLength

IInv ==
    /\ TypeOK
    /\ IdleMeansNoBranch
    /\ LoopOK
    /\ LoopInBody
    /\ step = "advanceClock" => ~trigger

\* Sums and differences of addresses are addresses.
LEMMA Wrapping ==
    ASSUME NEW a \in Addresses, NEW b \in Addresses
    PROVE  Plus(a, b) \in Addresses /\ Minus(a, b) \in Addresses
BY AddressAssumption DEF Addresses, Plus, Minus

\* Small numbers are addresses.
LEMMA Small ==
    /\ 0 \in Addresses /\ 1 \in Addresses /\ latency \in Addresses
    /\ DelaySlots \in Addresses /\ latency \in Nat
    /\ \A i \in 0..latency : i \in Addresses
BY AddressAssumption, DelaySlotsAssumption DEF Addresses, latency

\* The control unit as constructed satisfies the inductive invariant.
LEMMA InitIInv == Init => IInv
<1> SUFFICES ASSUME Init PROVE IInv
  OBVIOUS
<1>1. TypeOK
  <2>1. /\ operationPending \in BOOLEAN /\ idle \in BOOLEAN
        /\ trigger \in BOOLEAN /\ finished \in BOOLEAN /\ ~trigger
    BY Zenon DEF Init
  <2> QED
    BY <2>1, Small DEF Init, TypeOK
<1>2. IdleMeansNoBranch
  BY Zenon DEF Init, IdleMeansNoBranch
<1>3. LoopOK /\ LoopInBody
  BY DEF Init, LoopOK, LoopInBody
<1>4. step = "advanceClock" => ~trigger
  BY Zenon DEF Init
<1> QED
  BY <1>1, <1>2, <1>3, <1>4 DEF IInv

(***************************************************************************)
(* Steps that leave the counters or the loop alone.                        *)
(***************************************************************************)

\* What the loop invariants speak of.
LEMMA SameLoop ==
    ASSUME LoopOK, LoopInBody, UNCHANGED <<programCounter, loop>>
    PROVE  LoopOK' /\ LoopInBody'
BY DEF LoopOK, LoopInBody, loop

\* The types of a step that touches neither the counters nor the loop.
LEMMA QuietTypes ==
    ASSUME TypeOK,
           UNCHANGED <<operations, counters, finished, loop>>,
           trigger' \in BOOLEAN, idle' \in BOOLEAN,
           step' \in {"execute", "endClock", "advanceClock", "stopped"},
           nextOperation' \in AllOperations \union {NoOperation},
           trigger' => nextOperation' # NoOperation,
           target' \in Addresses
    PROVE  TypeOK'
BY DEF TypeOK, counters, loop

\* Such a step, if it does not put a trigger or a pending branch to sleep,
\* keeps the inductive invariant.
LEMMA QuietStep ==
    ASSUME IInv, TypeOK',
           UNCHANGED <<operations, counters, finished, loop>>,
           idle' => idle /\ (trigger' => trigger),
           step' = "advanceClock" => ~trigger'
    PROVE  IInv'
<1>1. LoopOK' /\ LoopInBody'
  BY SameLoop DEF IInv, counters
<1>2. IdleMeansNoBranch'
  BY DEF IInv, IdleMeansNoBranch, counters
<1> QED
  BY <1>1, <1>2 DEF IInv

\* An operation starts a branch.
LEMMA BranchStep ==
    ASSUME IInv, EndClockBranches
    PROVE  IInv'
<1>1. operationPending' \in BOOLEAN /\ trigger' \in BOOLEAN /\ ~trigger'
  BY Zenon DEF EndClockBranches
<1>2. /\ operations \in Machines /\ programCounter \in Addresses
      /\ target \in Addresses /\ returnAddress \in Addresses
  BY DEF IInv, TypeOK
<1>3. newProgramCounter' \in Addresses
  BY <1>2, Wrapping DEF EndClockBranches, Destination
<1>4. returnAddress' \in Addresses
  BY <1>2, Small, Wrapping DEF EndClockBranches, setReturnAddress
<1>5. operationPendingTime' = latency /\ latency \in 0..latency /\ latency > 0
  BY DelaySlotsAssumption DEF EndClockBranches, latency
<1>6. UNCHANGED <<operations, programCounter, idle, nextOperation, target,
                  finished, loop>> /\ step' = "advanceClock"
  BY DEF EndClockBranches
<1>7. TypeOK'
  BY <1>1, <1>3, <1>4, <1>5, <1>6 DEF IInv, TypeOK, loop
<1>8. ~idle
  BY DEF EndClockBranches, StartsOperation, IInv, IdleMeansNoBranch
<1>9. IdleMeansNoBranch'
  BY <1>1, <1>5, <1>6, <1>8 DEF IdleMeansNoBranch
<1>10. LoopOK' /\ LoopInBody'
  BY <1>6, SameLoop DEF IInv
<1> QED
  BY <1>1, <1>6, <1>7, <1>9, <1>10 DEF IInv

\* A hardware loop is set up: its body begins as many instructions later as
\* the delay counts down.
LEMMA LoopStep ==
    ASSUME IInv, NEW n \in 0..MaxIterations, EndClockLoop(n)
    PROVE  IInv'
<1>1. trigger' \in BOOLEAN /\ ~trigger'
  BY Zenon DEF EndClockLoop
<1>2. /\ UNCHANGED <<operations, counters, idle, nextOperation, target,
                     finished>>
      /\ step' = "advanceClock"
      /\ n \in Nat /\ ~(target = 0)
  BY MaxIterationsAssumption DEF EndClockLoop, LoopRefused
<1>3. CASE UNCHANGED loop
  <2>1. TypeOK'
    BY <1>1, <1>2, <1>3, QuietTypes DEF IInv, TypeOK
  <2> QED
    BY <1>1, <1>2, <1>3, <2>1, QuietStep
<1>4. CASE /\ n > 1 /\ loopCounter' = n - 1 /\ loopLength' = target
           /\ instrCount' = 0 /\ delayCycles' = LoopDelay
           /\ body' = Plus(programCounter, DelaySlots + 1)
  <2>1. programCounter \in Addresses /\ target \in Addresses
    BY DEF IInv, TypeOK
  <2>2. /\ body' = Plus(programCounter, latency) /\ body' \in Addresses
        /\ delayCycles' = latency
    BY <1>4, <2>1, Small, Wrapping DEF LoopDelay, latency
  <2>3. TypeOK'
    BY <1>1, <1>2, <1>4, <2>1, <2>2, Small DEF IInv, TypeOK, counters
  <2>4. IdleMeansNoBranch'
    BY <1>1, <1>2 DEF IInv, IdleMeansNoBranch, counters
  <2>5. target > 0 /\ LoopOK'
    BY <1>2, <1>4, <2>1, AddressAssumption DEF LoopOK, Addresses
  <2>6. Plus(body', 0) = body'
    BY <2>2, AddressAssumption DEF Plus, Addresses
  <2>7. LoopInBody'
    BY <1>2, <1>4, <2>2, <2>5, <2>6 DEF LoopInBody, counters
  <2> QED
    BY <1>1, <2>3, <2>4, <2>5, <2>7 DEF IInv
<1> QED
  BY <1>3, <1>4 DEF EndClockLoop

\* The advance of the loop state keeps its counters in range.
LEMMA AdvanceLoopTypes ==
    ASSUME IInv, AdvanceLoop
    PROVE  /\ loopCounter' \in Nat /\ loopLength' \in Addresses
           /\ instrCount' \in Addresses /\ delayCycles' \in 0..latency
           /\ LoopOK'
<1>1. /\ loopCounter \in Nat /\ loopLength \in Addresses
      /\ instrCount \in Addresses /\ delayCycles \in 0..latency
      /\ LoopOK
  BY DEF IInv, TypeOK
<1>2. latency \in Nat
  BY Small
<1>3. /\ delayCycles' = IF delayCycles > 0 THEN delayCycles - 1 ELSE 0
      /\ loopLength' = loopLength
  BY DEF AdvanceLoop
<1>4. CASE LoopsBack
  <2>1. instrCount' = 0 /\ loopCounter' = loopCounter - 1 /\ loopCounter > 0
    BY <1>4 DEF AdvanceLoop, LoopsBack, InLoop
  <2>2. loopLength > 0
    BY <1>1, <2>1, AddressAssumption DEF LoopOK, Addresses
  <2> QED
    BY <1>1, <1>2, <1>3, <2>1, <2>2, Small DEF LoopOK
<1>5. CASE ~LoopsBack
  <2>1. loopCounter' = loopCounter
        /\ instrCount' = IF InLoop THEN instrCount + 1 ELSE instrCount
    BY <1>5 DEF AdvanceLoop
  <2>2. InLoop => instrCount + 1 < loopLength
    BY <1>1, <1>5, AddressAssumption DEF InLoop, LoopsBack, LoopOK, Addresses
  <2> QED
    BY <1>1, <1>2, <1>3, <2>1, <2>2, AddressAssumption DEF LoopOK, Addresses
<1> QED
  BY <1>4, <1>5

\* While no branch is taken the program counter and the loop advance
\* together, and the end of the body takes both back to its start.
LEMMA AdvanceInBody ==
    ASSUME IInv, AdvanceLoop, body \in Addresses,
           programCounter' = IF LoopsBack
                             THEN Minus(Plus(programCounter, 1), loopLength)
                             ELSE Plus(programCounter, 1),
           loopCounter' > 0
    PROVE  /\ Plus(programCounter', delayCycles') = Plus(body, instrCount')
           /\ instrCount' < loopLength'
           /\ delayCycles' > 0 => instrCount' = 0
<1>1. /\ loopCounter \in Nat /\ loopLength \in Addresses
      /\ instrCount \in Addresses /\ delayCycles \in 0..latency
      /\ programCounter \in Addresses
  BY DEF IInv, TypeOK
<1>2. latency \in Nat /\ latency < AddressModulus /\ AddressModulus \in Nat
  BY DelaySlotsAssumption, AddressAssumption DEF latency
<1>3. loopCounter > 0
  BY <1>1 DEF AdvanceLoop, LoopsBack, InLoop
<1>4. body # NoBody
  BY NoBodyAssumption
<1>5. /\ Plus(programCounter, delayCycles) = Plus(body, instrCount)
      /\ instrCount < loopLength
      /\ delayCycles > 0 => instrCount = 0
  BY <1>3, <1>4 DEF IInv, LoopInBody
<1>6. CASE delayCycles > 0
  <2>1. /\ delayCycles' = delayCycles - 1 /\ instrCount' = 0
        /\ loopLength' = loopLength
        /\ programCounter' = Plus(programCounter, 1)
    BY <1>5, <1>6 DEF AdvanceLoop, LoopsBack, InLoop
  <2>2. Plus(programCounter', delayCycles') = Plus(body, instrCount')
    BY <1>1, <1>2, <1>5, <1>6, <2>1 DEF Plus, Addresses
  <2> QED
    BY <1>1, <1>5, <1>6, <2>1, <2>2
<1>7. CASE delayCycles = 0 /\ ~LoopsBack
  <2>1. /\ delayCycles' = 0 /\ instrCount' = instrCount + 1
        /\ loopLength' = loopLength
        /\ programCounter' = Plus(programCounter, 1)
        /\ instrCount + 1 # loopLength
    BY <1>3, <1>7 DEF AdvanceLoop, LoopsBack, InLoop
  <2>2. Plus(programCounter', delayCycles') = Plus(body, instrCount')
    BY <1>1, <1>2, <1>5, <1>7, <2>1 DEF Plus, Addresses
  <2> QED
    BY <1>1, <1>2, <1>5, <2>1, <2>2 DEF Addresses
<1>8. CASE LoopsBack
  <2>1. /\ delayCycles = 0 /\ delayCycles' = 0 /\ instrCount' = 0
        /\ loopLength' = loopLength /\ instrCount + 1 = loopLength
        /\ programCounter' = Minus(Plus(programCounter, 1), loopLength)
    BY <1>8 DEF AdvanceLoop, LoopsBack, InLoop
  <2>2. Plus(programCounter', delayCycles') = Plus(body, instrCount')
    BY <1>1, <1>2, <1>5, <2>1 DEF Plus, Minus, Addresses
  <2> QED
    BY <1>1, <1>2, <2>1, <2>2 DEF Addresses
<1> QED
  BY <1>1, <1>6, <1>7, <1>8

\* A clock advance.
LEMMA AdvanceStep ==
    ASSUME IInv, NEW exit \in BOOLEAN, AdvanceClock(exit)
    PROVE  IInv'
<1> DEFINE taken == ~isIdle /\ BranchTaken
           pc == IF taken THEN newProgramCounter ELSE Plus(programCounter, 1)
<1>1. /\ UNCHANGED <<operations, newProgramCounter, returnAddress, trigs>>
      /\ step' = "execute"
      /\ AdvanceLoop
      /\ programCounter' = IF LoopsBack THEN Minus(pc, loopLength) ELSE pc
      /\ body' = IF taken THEN NoBody ELSE body
  BY DEF AdvanceClock
<1>2. finished' \in BOOLEAN
  BY Zenon DEF AdvanceClock
<1>3. /\ operationPending' \in BOOLEAN
      /\ operationPendingTime' \in 0..latency
      /\ operationPending' => operationPendingTime' > 0
      /\ idle' \in BOOLEAN
      /\ idle' => ~operationPending'
  <2>1. /\ operationPending \in BOOLEAN /\ idle \in BOOLEAN
        /\ operationPendingTime \in 0..latency /\ latency \in Nat
        /\ operationPending => operationPendingTime > 0
        /\ idle => ~operationPending
    BY Small DEF IInv, TypeOK, IdleMeansNoBranch
  <2>2. /\ operationPending' = (operationPending /\ ~taken)
        /\ operationPendingTime' = IF ~isIdle /\ operationPending
                                   THEN operationPendingTime - 1
                                   ELSE operationPendingTime
        /\ idle' = IF isIdle THEN idle
                   ELSE ContextIsEmpty /\ ~operationPending'
    BY DEF AdvanceClock
  <2>3. operationPending' \in BOOLEAN /\ idle' \in BOOLEAN
    BY <2>1, <2>2, Zenon
  <2>4. idle' => ~operationPending'
    BY <2>1, <2>2, Zenon DEF isIdle
  <2>5. /\ operationPendingTime' \in 0..latency
        /\ operationPending' => operationPendingTime' > 0
    <3>1. CASE operationPending /\ ~isIdle
      BY <2>1, <2>2, <3>1 DEF BranchTaken
    <3>2. CASE ~operationPending \/ isIdle
      <4>1. operationPendingTime' = operationPendingTime
        BY <2>2, <3>2
      <4>2. ~operationPending'
        BY <2>1, <2>2, <3>2, Zenon DEF isIdle
      <4> QED
        BY <2>1, <4>1, <4>2
    <3> QED
      BY <3>1, <3>2
  <2> QED
    BY <2>3, <2>4, <2>5
<1>4. /\ loopCounter' \in Nat /\ loopLength' \in Addresses
      /\ instrCount' \in Addresses /\ delayCycles' \in 0..latency
      /\ LoopOK'
  BY <1>1, AdvanceLoopTypes
<1>5. pc \in Addresses
  BY Small, Wrapping DEF IInv, TypeOK
<1>6. programCounter' \in Addresses
  <2>1. loopLength \in Addresses
    BY DEF IInv, TypeOK
  <2> HIDE DEF pc
  <2> QED
    BY <1>1, <1>5, <2>1, Wrapping
<1>7. body' \in Addresses \union {NoBody}
  BY <1>1 DEF IInv, TypeOK
<1>8. ~trigger
  BY DEF AdvanceClock, IInv
<1>9. TypeOK'
  BY <1>1, <1>2, <1>3, <1>4, <1>6, <1>7 DEF IInv, TypeOK, trigs
<1>10. IdleMeansNoBranch'
  BY <1>1, <1>3, <1>8 DEF IdleMeansNoBranch, trigs
<1>11. LoopInBody'
  <2> SUFFICES ASSUME loopCounter' > 0, body' # NoBody PROVE LoopInBody'
    BY DEF LoopInBody
  <2>1. ~taken /\ body' = body
    BY <1>1
  <2>2. body \in Addresses
    BY <2>1 DEF IInv, TypeOK
  <2>3. programCounter' = IF LoopsBack
                          THEN Minus(Plus(programCounter, 1), loopLength)
                          ELSE Plus(programCounter, 1)
    BY <1>1, <2>1
  <2>4. /\ Plus(programCounter', delayCycles') = Plus(body, instrCount')
        /\ instrCount' < loopLength'
        /\ delayCycles' > 0 => instrCount' = 0
    BY <1>1, <2>2, <2>3, AdvanceInBody
  <2> QED
    BY <2>1, <2>4 DEF LoopInBody
<1> QED
  BY <1>1, <1>4, <1>9, <1>10, <1>11 DEF IInv

\* A restart: the loop state stays, but nothing is promised of it.
LEMMA ResetStep ==
    ASSUME IInv, Reset
    PROVE  IInv'
<1>1. /\ operationPending' \in BOOLEAN /\ finished' \in BOOLEAN
      /\ ~operationPending' /\ ~finished'
  BY Zenon DEF Reset
<1>2. TypeOK'
  BY <1>1, Small DEF IInv, TypeOK, Reset, trigs
<1>3. IdleMeansNoBranch'
  BY <1>1 DEF IInv, IdleMeansNoBranch, Reset, trigs
<1>4. LoopOK' /\ LoopInBody'
  BY DEF IInv, LoopOK, LoopInBody, Reset
<1> QED
  BY <1>2, <1>3, <1>4 DEF IInv, Reset

\* Every step of a cycle, every abandoned cycle, and a kill keep it.
LEMMA NextIInv == IInv /\ [Next]_vars => IInv'
<1> SUFFICES ASSUME IInv, [Next]_vars PROVE IInv'
  OBVIOUS
<1>1. ASSUME NEW op \in operations, NEW t \in Operands, Trigger(op, t)
      PROVE  IInv'
  <2>1. op \in AllOperations /\ op # NoOperation /\ t \in Addresses
    BY MachinesAssumption, OperandsAssumption, NoOperationAssumption
       DEF IInv, TypeOK
  <2>2. trigger' \in BOOLEAN /\ idle' \in BOOLEAN /\ ~idle'
    BY <1>1, Zenon DEF Trigger
  <2>3. TypeOK'
    BY <1>1, <2>1, <2>2, QuietTypes DEF IInv, Trigger
  <2> QED
    BY <1>1, <2>2, <2>3, QuietStep DEF Trigger
<1>2. CASE NotTriggered \/ CycleAborted \/ Resume \/ EndClockNothing
           \/ UNCHANGED vars
  <2>1. /\ UNCHANGED <<operations, counters, finished, loop>>
        /\ UNCHANGED <<idle, trigs>>
        /\ step' \in {"execute", "endClock", "advanceClock", "stopped"}
        /\ step' = "advanceClock" => ~trigger
    BY <1>2 DEF NotTriggered, CycleAborted, Resume, EndClockNothing, vars,
                IInv, TypeOK, IdleMeansNoBranch, isIdle
  <2>2. TypeOK'
    BY <2>1, QuietTypes DEF IInv, TypeOK, trigs
  <2> QED
    BY <2>1, <2>2, QuietStep DEF trigs
<1>3. CASE EndClockBranches
  BY <1>3, BranchStep
<1>4. ASSUME EndClockThrows \/ EndClockNoBranch
                \/ \E n \in 0..MaxIterations : EndClockLoopThrows(n)
      PROVE  IInv'
  <2>1. /\ UNCHANGED <<operations, counters, finished, loop>>
        /\ UNCHANGED <<idle, nextOperation, target>>
        /\ step' \in {"advanceClock", "stopped"}
    BY <1>4 DEF EndClockThrows, EndClockNoBranch, EndClockLoopThrows
  <2>2. trigger' \in BOOLEAN /\ ~trigger'
    BY <1>4, Zenon DEF EndClockThrows, EndClockNoBranch, EndClockLoopThrows
  <2>3. TypeOK'
    BY <2>1, <2>2, QuietTypes DEF IInv, TypeOK
  <2> QED
    BY <2>1, <2>2, <2>3, QuietStep
<1>5. ASSUME NEW n \in 0..MaxIterations, EndClockLoop(n)
      PROVE  IInv'
  BY <1>5, LoopStep
<1>6. ASSUME NEW exit \in BOOLEAN, AdvanceClock(exit)
      PROVE  IInv'
  BY <1>6, AdvanceStep
<1>7. CASE Reset
  BY <1>7, ResetStep
<1> QED
  BY <1>1, <1>2, <1>3, <1>4, <1>5, <1>6, <1>7 DEF Next

\* Every reachable state of the control unit satisfies the invariant.
THEOREM Invariance == Spec => []IInv
BY InitIInv, NextIInv, PTL DEF Spec

\* Variables keep their types and addresses their width, whatever the
\* operands of the branches and loops are (TransportPipeline::startOperation,
\* GCUState::advanceClock).
THEOREM TypeCorrect == Spec => []TypeOK
<1>1. IInv => TypeOK
  BY DEF IInv
<1> QED
  BY <1>1, Invariance, PTL

\* Leaving an idle control unit out of a cycle loses no branch
\* (FUState::isIdle, GCUState::advanceClock).
THEOREM IdleIsSafe == Spec => []IdleMeansNoBranch
<1>1. IInv => IdleMeansNoBranch
  BY DEF IInv
<1> QED
  BY <1>1, Invariance, PTL

\* A hardware loop repeats the instructions behind its delay slots, for every
\* number of delay slots, iterations and instructions in the body (HWLOOP and
\* the advance of HLOOP_SETUP).
THEOREM LoopRepeatsBody == Spec => []LoopInBody
<1>1. IInv => LoopInBody
  BY DEF IInv
<1> QED
  BY <1>1, Invariance, PTL

(***************************************************************************)
(* Refinement.  upcoming is a function of the program counter, the pending *)
(* target and the countdown; each action moves it as DelayedBranch says.   *)
(***************************************************************************)

\* The program starts at address 0: the entry that GCUState::reset assumes.
LEMMA InitRefines == ASSUME InitialPC = 0 PROVE Init => Branches!Init
BY InitialPC = 0
   DEF Init, Branches!Init, Branches!SequentialFrom, Branches!Horizon,
       upcoming, latency, Plus, Branches!Plus

\* An action that touches none of the counters leaves upcoming alone.
LEMMA CountersDetermine == UNCHANGED counters => UNCHANGED upcoming
BY DEF counters, upcoming

\* The address i instructions on and one more.
LEMMA PlusOne ==
    ASSUME NEW a \in Addresses, NEW i \in 0..DelaySlots
    PROVE  /\ Plus(Plus(a, i), 1) = Plus(a, i + 1)
           /\ Plus(Plus(a, 1), i) = Plus(a, i + 1)
           /\ Plus(a, 0) = a
BY AddressAssumption, DelaySlotsAssumption DEF Plus, Addresses

\* The unit's endClock writes only the farthest address: the branch in the
\* delay slots of another was refused by setProgramCounter.
LEMMA BranchRefines == IInv /\ EndClockBranches => Branches!Branch
<1> USE DelaySlotsAssumption DEF latency
<1> SUFFICES ASSUME IInv, EndClockBranches PROVE Branches!Branch
  OBVIOUS
<1>1. /\ programCounter \in Addresses /\ target \in Addresses
      /\ ~operationPending \/ operationPendingTime = latency
      /\ operationPending \in BOOLEAN
  BY DEF IInv, TypeOK, EndClockBranches, InDelaySlot
<1>2. \A i \in 0..latency :
          i # latency => upcoming[i] = Plus(programCounter, i)
  BY <1>1 DEF upcoming
<1>3. \A a : a \in Addresses => Plus(a, 0) = a
  BY PlusOne
<1>4. Destination \in Addresses
  BY <1>1, Wrapping DEF Destination
<1>5. upcoming' = [upcoming EXCEPT ![latency] = Destination]
  <2>1. /\ operationPending' /\ operationPendingTime' = latency
        /\ newProgramCounter' = Destination
        /\ programCounter' = programCounter
    BY DEF EndClockBranches
  <2>2. upcoming' = [i \in 0..latency |->
            IF i >= latency THEN Plus(Destination, i - latency)
            ELSE Plus(programCounter, i)]
    BY <2>1 DEF upcoming
  <2>3. upcoming' = [i \in 0..latency |->
            IF i = latency THEN Destination ELSE Plus(programCounter, i)]
    <3>1. \A i \in 0..latency : i >= latency <=> i = latency
      OBVIOUS
    <3>2. \A i \in 0..latency :
              (IF i >= latency THEN Plus(Destination, i - latency)
               ELSE Plus(programCounter, i))
              = IF i = latency THEN Destination ELSE Plus(programCounter, i)
      BY <1>3, <1>4, <3>1
    <3> QED
      BY <2>2, <3>2
  <2>4. upcoming = [i \in 0..latency |-> upcoming[i]]
    BY DEF upcoming
  <2> QED
    BY <1>2, <2>3, <2>4
<1>6. setReturnAddress = Plus(upcoming[DelaySlots], 1)
  <2>1. upcoming[DelaySlots] = Plus(programCounter, DelaySlots)
    BY <1>2
  <2> QED
    BY <1>1, <2>1, PlusOne DEF setReturnAddress
<1>7. Destination = IF nextOperation \in Branches!Relative
                    THEN Branches!Plus(upcoming[0], target) ELSE target
  <2>1. upcoming[0] = programCounter
    BY <1>1, <1>2, <1>3
  <2> QED
    BY <2>1 DEF Destination, Relative, Branches!Relative, Plus, Branches!Plus
<1>8. /\ step = "endClock" /\ trigger
      /\ nextOperation \notin Branches!NeverBranch
      /\ trigger' = FALSE /\ step' = "advanceClock"
      /\ UNCHANGED <<nextOperation, target>>
  BY DEF EndClockBranches, StartsOperation, NeverBranch, Branches!NeverBranch
<1>9. returnAddress' = IF nextOperation \in Branches!Calls
                       THEN Branches!Plus(upcoming[DelaySlots], 1)
                       ELSE returnAddress
  BY <1>6 DEF EndClockBranches, Calls, Branches!Calls, Plus, Branches!Plus
<1> QED
  BY <1>5, <1>7, <1>8, <1>9 DEF Branches!Branch, Branches!Horizon

\* Counting down, or taking the branch, brings every address one closer.
LEMMA AdvanceRefines ==
    ASSUME IInv, NEW exit \in BOOLEAN, AdvanceClock(exit), ~LoopsBack
    PROVE  Branches!Advance
<1> USE DelaySlotsAssumption DEF latency
<1>1. /\ programCounter \in Addresses /\ newProgramCounter \in Addresses
      /\ operationPending \in BOOLEAN
      /\ operationPendingTime \in 0..latency
      /\ operationPending => operationPendingTime > 0 /\ ~isIdle
  BY DEF IInv, TypeOK, IdleMeansNoBranch, isIdle
<1> DEFINE t == operationPendingTime
           q == newProgramCounter
           c == programCounter
<1>2. upcoming' = [i \in 0..latency |->
                      IF i = latency THEN Plus(upcoming[latency], 1)
                      ELSE upcoming[i + 1]]
  <2>0. /\ upcoming = [i \in 0..latency |->
                IF operationPending /\ i >= t THEN Plus(q, i - t)
                ELSE Plus(c, i)]
        /\ \A i \in 0..latency : i # latency => i \in 0..DelaySlots
        /\ \A i \in 0..latency : i # latency => i + 1 \in 0..latency
    BY DEF upcoming
  <2>1. CASE ~operationPending
    <3>1. ~operationPending' /\ programCounter' = Plus(c, 1)
      BY <2>1 DEF AdvanceClock, BranchTaken
    <3>2. upcoming' = [i \in 0..latency |-> Plus(Plus(c, 1), i)]
      BY <3>1 DEF upcoming
    <3>3. \A i \in 0..latency : upcoming[i] = Plus(c, i)
      BY <2>0, <2>1
    <3>4. Plus(Plus(c, 1), latency) = Plus(Plus(c, latency), 1)
      BY <1>1, AddressAssumption DEF Plus, Addresses
    <3>5. \A i \in 0..latency :
              Plus(Plus(c, 1), i) = IF i = latency
                                    THEN Plus(upcoming[latency], 1)
                                    ELSE upcoming[i + 1]
      BY <1>1, <2>0, <3>3, <3>4, PlusOne
    <3> QED
      BY <3>2, <3>5
  <2>2. CASE operationPending /\ t = 1
    <3>1. ~operationPending' /\ programCounter' = q
      BY <1>1, <2>2 DEF AdvanceClock, BranchTaken
    <3>2. upcoming' = [i \in 0..latency |-> Plus(q, i)]
      BY <3>1 DEF upcoming
    <3>3. \A i \in 1..latency : upcoming[i] = Plus(q, i - 1)
      BY <2>0, <2>2
    <3>4. Plus(Plus(q, latency - 1), 1) = Plus(q, latency)
      BY <1>1, PlusOne
    <3>5. ASSUME NEW i \in 0..latency
          PROVE  Plus(q, i) = IF i = latency THEN Plus(upcoming[latency], 1)
                              ELSE upcoming[i + 1]
      <4>1. CASE i = latency
        <5>1. latency \in 1..latency
          OBVIOUS
        <5> QED
          BY <3>3, <3>4, <4>1, <5>1
      <4>2. CASE i # latency
        <5>1. i + 1 \in 1..latency /\ (i + 1) - 1 = i
          BY <4>2
        <5>2. upcoming[i + 1] = Plus(q, (i + 1) - 1)
          BY <3>3, <5>1
        <5> QED
          BY <4>2, <5>1, <5>2
      <4> QED
        BY <4>1, <4>2
    <3> QED
      BY <3>2, <3>5
  <2>3. CASE operationPending /\ t > 1
    <3>0. ~BranchTaken /\ ~isIdle
      BY <1>1, <2>3 DEF BranchTaken
    <3>1. /\ operationPending'
          /\ operationPendingTime' = t - 1
          /\ programCounter' = Plus(c, 1)
          /\ newProgramCounter' = q
      BY <2>3, <3>0, Zenon DEF AdvanceClock
    <3>2. upcoming' = [i \in 0..latency |->
                          IF i >= t - 1 THEN Plus(q, i - (t - 1))
                          ELSE Plus(Plus(c, 1), i)]
      BY <3>1 DEF upcoming
    <3>3. \A i \in 0..latency :
              upcoming[i] = IF i >= t THEN Plus(q, i - t) ELSE Plus(c, i)
      BY <2>0, <2>3
    <3>4. \A i \in 0..latency : i < t - 1 => i \in 0..DelaySlots
      BY <1>1
    <3>5. Plus(Plus(q, latency - t), 1) = Plus(q, latency - (t - 1))
      <4>1. latency - t \in 0..DelaySlots
            /\ latency - (t - 1) = (latency - t) + 1
        BY <1>1, <2>3
      <4> QED
        BY <1>1, <4>1, PlusOne
    <3>6. ASSUME NEW i \in 0..latency
          PROVE  (IF i >= t - 1 THEN Plus(q, i - (t - 1))
                  ELSE Plus(Plus(c, 1), i))
                 = IF i = latency THEN Plus(upcoming[latency], 1)
                   ELSE upcoming[i + 1]
      <4>1. CASE i = latency
        BY <1>1, <3>3, <3>5, <4>1
      <4>2. CASE i # latency /\ i >= t - 1
        <5>1. upcoming[i + 1] = Plus(q, (i + 1) - t)
          BY <1>1, <2>0, <3>3, <4>2
        <5>2. (i + 1) - t = i - (t - 1)
          BY <1>1
        <5> QED
          BY <4>2, <5>1, <5>2
      <4>3. CASE i # latency /\ ~(i >= t - 1)
        <5>1. upcoming[i + 1] = Plus(c, i + 1)
          BY <1>1, <2>0, <3>3, <4>3
        <5>2. i \in 0..DelaySlots
          BY <2>0, <4>3
        <5> QED
          BY <1>1, <4>3, <5>1, <5>2, PlusOne
      <4> QED
        BY <4>1, <4>2, <4>3
    <3> QED
      BY <3>2, <3>6
  <2> QED
    BY <1>1, <2>1, <2>2, <2>3
<1>3. Branches!Plus(upcoming[latency], 1) = Plus(upcoming[latency], 1)
  BY DEF Plus, Branches!Plus
<1> QED
  BY <1>2, <1>3 DEF AdvanceClock, Branches!Advance, Branches!Horizon,
                    Branches!branch, trigs

\* Every step of the control unit is a step, or a stutter, of DelayedBranch,
\* unless it is the jump of a hardware loop.
LEMMA NextRefines ==
    ASSUME InitialPC = 0, IInv, [Next]_vars, ~LoopJumps
    PROVE  [Branches!Next]_(Branches!vars)
<1>1. ASSUME NEW op \in operations, NEW t \in Operands, Trigger(op, t)
      PROVE  Branches!Next
  <2>1. op \in Branches!AllOperations /\ t \in Branches!Addresses
    BY MachinesAssumption, OperandsAssumption
       DEF IInv, TypeOK, AllOperations, Branches!AllOperations, Addresses,
           Branches!Addresses
  <2>2. Branches!Triggers(op, t)
    BY <1>1, CountersDetermine
       DEF Trigger, CycleBegins, Branches!Triggers, counters
  <2> QED
    BY <2>1, <2>2 DEF Branches!Next
<1>2. CASE NotTriggered
  BY <1>2, CountersDetermine
     DEF NotTriggered, CycleBegins, Branches!Next, Branches!TriggersNothing,
         Branches!branch, counters, trigs
<1>3. CASE EndClockBranches
  BY <1>3, BranchRefines DEF Branches!Next
<1>4. CASE EndClockThrows \/ \E n \in 0..MaxIterations : EndClockLoopThrows(n)
  <2>1. /\ step = "endClock" /\ step' = "stopped" /\ trigger' = FALSE
        /\ UNCHANGED <<counters, nextOperation, target>>
    BY <1>4 DEF EndClockThrows, EndClockLoopThrows, StartsOperation
  <2> QED
    BY <2>1, CountersDetermine DEF Branches!Next, Branches!Abandon, counters
<1>5. CASE EndClockNothing
  <2>1. ~trigger /\ trigger \in BOOLEAN
    BY <1>5 DEF EndClockNothing, IInv, TypeOK, IdleMeansNoBranch, isIdle
  <2>2. trigger' = FALSE
    BY <1>5, <2>1, Zenon DEF EndClockNothing, trigs
  <2> QED
    BY <1>5, <2>1, <2>2, CountersDetermine
       DEF EndClockNothing, Branches!Next, Branches!NoBranch, counters, trigs
<1>6. CASE EndClockNoBranch \/ \E n \in 0..MaxIterations : EndClockLoop(n)
  <2>1. /\ step = "endClock" /\ step' = "advanceClock" /\ trigger' = FALSE
        /\ UNCHANGED <<counters, nextOperation, target>>
        /\ nextOperation \in Branches!MayNotBranch
    BY <1>6 DEF EndClockNoBranch, EndClockLoop, StartsOperation,
                MayNotBranch, Branches!MayNotBranch
  <2> QED
    BY <2>1, CountersDetermine DEF Branches!Next, Branches!NoBranch, counters
<1>7. ASSUME NEW exit \in BOOLEAN, AdvanceClock(exit)
      PROVE  Branches!Next
  <2>1. ~LoopsBack
    BY <1>7 DEF AdvanceClock, LoopJumps
  <2> QED
    BY <1>7, <2>1, AdvanceRefines DEF Branches!Next
<1>8. CASE CycleAborted
  BY <1>8, CountersDetermine
     DEF CycleAborted, Branches!Next, Branches!Abandon, counters, trigs
<1>9. CASE Resume
  BY <1>9, CountersDetermine
     DEF Resume, Branches!Next, Branches!Resume, Branches!branch, counters,
         trigs
<1>10. CASE Reset
  <2>1. upcoming' = Branches!SequentialFrom(InitialPC)
    BY <1>10, InitialPC = 0
       DEF Reset, upcoming, latency, Branches!SequentialFrom,
           Branches!Horizon, Plus, Branches!Plus
  <2> QED
    BY <1>10, <2>1
       DEF Reset, Branches!Next, Branches!Restart, Branches!branch, trigs
<1>11. CASE UNCHANGED vars
  BY <1>11, CountersDetermine
     DEF vars, Branches!vars, Branches!branch, counters, trigs
<1> QED
  BY <1>1, <1>2, <1>3, <1>4, <1>5, <1>6, <1>7, <1>8, <1>9, <1>10, <1>11
     DEF Next

\* For every number of delay slots, every program size, every set of
\* operations and a program that is entered at address 0, the unit's one
\* pending target and its countdown execute the addresses of the delayed
\* branch, wherever the branches go; only a hardware loop takes the program
\* counter elsewhere.  For another entry address the restart is wrong:
\* SimulationController::reset sets the program counter to the entry and then
\* has GCUState::reset set it to 0.
THEOREM Refinement == InitialPC = 0 => (Spec => ImplementsDelayedBranch)
<1> SUFFICES ASSUME InitialPC = 0 PROVE Spec => ImplementsDelayedBranch
  OBVIOUS
<1>1. Init => Branches!Init
  BY InitRefines
<1>2. IInv /\ [Next]_vars => [LoopJumps \/ Branches!Next]_(Branches!vars)
  BY NextRefines
<1> QED
  BY <1>1, <1>2, Invariance, PTL DEF Spec, ImplementsDelayedBranch
==============================================================================
