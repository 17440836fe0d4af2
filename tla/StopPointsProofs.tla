--------------------------- MODULE StopPointsProofs ---------------------------
(***************************************************************************)
(* Proofs about StopPoints for every number of stop points, commands and   *)
(* cycles and every list of trackers.                                      *)
(***************************************************************************)
EXTENDS StopPoints, FiniteSetTheorems, SequenceTheorems, TLAPS

(***************************************************************************)
(* The operators.                                                          *)
(***************************************************************************)

\* Looking at a watch keeps it a stop point, leaves what the user has set and
\* makes its answer the same for the rest of the cycle.
LEMMA CheckedFacts ==
    ASSUME TypeOK, NEW sp \in StopPoint
    PROVE  /\ Checked(sp) \in StopPoint
           /\ Checked(sp).enabled = sp.enabled
           /\ Checked(sp).kind = sp.kind
           /\ Checked(sp).address = sp.address
           /\ Checked(sp).kind = "watch" => Checked(sp).checked = clockCount
           /\ Checked(Checked(sp)) = Checked(sp)
           /\ isTriggered(Checked(sp)) = isTriggered(sp)
<1>1. CASE sp.kind = "breakpoint" \/ sp.checked = clockCount
    <2>1. Checked(sp) = sp
        BY <1>1 DEF Checked
    <2> QED BY <1>1, <2>1 DEF StopPoint
<1>2. CASE ~(sp.kind = "breakpoint" \/ sp.checked = clockCount)
    <2>1. (result \in Values /\ result # sp.seen) \in BOOLEAN
        OBVIOUS
    <2>2. Checked(sp) =
             [sp EXCEPT !.triggered = result \in Values /\ result # sp.seen,
                        !.seen = IF result \in Values THEN result ELSE @,
                        !.checked = clockCount]
        BY <1>2 DEF Checked
    <2>3. Checked(sp) \in StopPoint
        BY <2>1, <2>2 DEF StopPoint, TypeOK
    <2>4. /\ Checked(sp).checked = clockCount
          /\ Checked(sp).kind = sp.kind
          /\ Checked(sp).address = sp.address
          /\ Checked(sp).enabled = sp.enabled
        BY <2>2 DEF StopPoint
    <2>5. Checked(Checked(sp)) = Checked(sp)
        BY <2>4 DEF Checked
    <2>6. isTriggered(Checked(sp)) = isTriggered(sp)
        BY <2>4, <2>5 DEF isTriggered
    <2> QED BY <2>3, <2>4, <2>5, <2>6
<1> QED BY <1>1, <1>2

\* The answer of a stop point does not change any more in this cycle.
Fixed(sp) == sp.kind = "watch" => sp.checked = clockCount

\* An event keeps a stop point a stop point and its answer; one that fires
\* and is enabled only once is disabled, and no event enables one.
LEMMA AfterEventFacts ==
    ASSUME TypeOK, NEW sp \in StopPoint
    PROVE  /\ AfterEvent(sp) \in StopPoint
           /\ AfterEvent(sp).enabled => sp.enabled
           /\ sp.once /\ Fires(sp) => ~AfterEvent(sp).enabled
           /\ Fires(sp) => isTriggered(AfterEvent(sp))
           /\ isTriggered(sp) => isTriggered(AfterEvent(sp))
           /\ Fixed(sp) \/ Fires(sp) => Fixed(AfterEvent(sp))
<1> DEFINE c == Checked(sp)
<1>0. /\ c \in StopPoint /\ c.enabled = sp.enabled
      /\ isTriggered(c) = isTriggered(sp)
      /\ c.kind = sp.kind /\ c.address = sp.address
      /\ c.kind = "watch" => c.checked = clockCount
      /\ Checked(c) = c
    BY CheckedFacts
<1> HIDE DEF c
<1>1. CASE ~sp.enabled
    <2>1. AfterEvent(sp) = sp
        BY <1>1 DEF AfterEvent
    <2> QED BY <1>1, <2>1 DEF Fires
<1>2. CASE sp.enabled /\ Fires(sp)
    <2>1. AfterEvent(sp) = [c EXCEPT !.enabled = ~sp.once]
        BY <1>2 DEF AfterEvent, c
    <2>2. (~sp.once) \in BOOLEAN
        OBVIOUS
    <2>3. AfterEvent(sp) \in StopPoint
        BY <2>1, <2>2, <1>0 DEF StopPoint
    <2>4. AfterEvent(sp).enabled = ~sp.once
        BY <2>1, <1>0 DEF StopPoint
    <2>5. isTriggered(AfterEvent(sp)) = isTriggered(c)
        <3>1. CASE c.kind = "breakpoint"
            BY <3>1, <2>1, <1>0 DEF isTriggered, StopPoint
        <3>2. CASE c.kind = "watch"
            <4>1. AfterEvent(sp).kind = "watch"
                  /\ AfterEvent(sp).checked = clockCount
                  /\ AfterEvent(sp).triggered = c.triggered
                BY <3>2, <2>1, <1>0 DEF StopPoint
            <4>2. Checked(AfterEvent(sp)) = AfterEvent(sp)
                BY <4>1 DEF Checked
            <4> QED BY <3>2, <4>1, <4>2, <1>0 DEF isTriggered
        <3> QED BY <3>1, <3>2, <1>0 DEF StopPoint
    <2>6. Fixed(AfterEvent(sp))
        BY <2>1, <1>0 DEF Fixed, StopPoint
    <2> QED BY <1>2, <2>3, <2>4, <2>5, <2>6, <1>0 DEF Fires
<1>3. CASE sp.enabled /\ ~Fires(sp)
           /\ isTriggered(sp) /\ isConditionOK(sp) /\ sp.ignore > 0
    <2>1. AfterEvent(sp) = [c EXCEPT !.ignore = @ - 1]
        BY <1>3 DEF AfterEvent, c
    <2>2. c.ignore = sp.ignore
        BY DEF c, Checked, StopPoint
    <2>3. AfterEvent(sp) \in StopPoint
        BY <2>1, <2>2, <1>0, <1>3, BoundsAssumption DEF StopPoint
    <2>4. isTriggered(AfterEvent(sp)) = isTriggered(c)
        <3>1. CASE c.kind = "breakpoint"
            BY <3>1, <2>1, <1>0 DEF isTriggered, StopPoint
        <3>2. CASE c.kind = "watch"
            <4>1. AfterEvent(sp).kind = "watch"
                  /\ AfterEvent(sp).checked = clockCount
                  /\ AfterEvent(sp).triggered = c.triggered
                BY <3>2, <2>1, <1>0 DEF StopPoint
            <4>2. Checked(AfterEvent(sp)) = AfterEvent(sp)
                BY <4>1 DEF Checked
            <4> QED BY <3>2, <4>1, <4>2, <1>0 DEF isTriggered
        <3> QED BY <3>1, <3>2, <1>0 DEF StopPoint
    <2>5. Fixed(AfterEvent(sp)) /\ AfterEvent(sp).enabled = sp.enabled
        BY <2>1, <1>0 DEF Fixed, StopPoint
    <2> QED BY <1>3, <2>3, <2>4, <2>5, <1>0
<1>4. CASE sp.enabled /\ ~Fires(sp)
           /\ ~(isTriggered(sp) /\ isConditionOK(sp) /\ sp.ignore > 0)
    <2>1. AfterEvent(sp) = c
        BY <1>4 DEF AfterEvent, c
    <2> QED BY <1>4, <2>1, <1>0 DEF Fixed
<1> QED BY <1>1, <1>2, <1>3, <1>4

(***************************************************************************)
(* The inductive invariant.                                                *)
(***************************************************************************)

\* What has fired in this cycle keeps its answer until it is printed.
FiredAnswer ==
    /\ fired # {} => lastStopCycle = clockCount
    /\ ~AtRest =>
           \A h \in fired \intersect Handles :
               isTriggered(stopPoints[h]) /\ Fixed(stopPoints[h])

IInv == TypeOK /\ OneShotIsSpent /\ FiredAnswer /\ FiredAreReported

LEMMA InitIInv == Init => IInv
<1> SUFFICES ASSUME Init PROVE IInv
    OBVIOUS
<1>1. /\ holds \in BOOLEAN /\ stopRequested \in BOOLEAN
      /\ killed \in BOOLEAN /\ earlier \in BOOLEAN
    BY Zenon DEF Init
<1>2. Handles = {}
    BY DEF Init, Handles
<1>3. TypeOK
    BY <1>1, <1>2, BoundsAssumption DEF Init, TypeOK
<1>4. FiredAnswer
    BY DEF Init, FiredAnswer, AtRest
<1>5. OneShotIsSpent
    BY DEF Init, OneShotIsSpent
<1>6. FiredAreReported
    BY DEF Init, FiredAreReported
<1> QED BY <1>3, <1>4, <1>5, <1>6 DEF IInv

(***************************************************************************)
(* The commands.                                                           *)
(***************************************************************************)

\* What the commands add is a stop point.
LEMMA NewBreakpoint ==
    ASSUME NEW a \in Addresses, NEW t \in BOOLEAN, NEW c \in BOOLEAN
    PROVE  NewStopPoint("breakpoint", a, t, c, CHOOSE v \in Values : TRUE)
               \in StopPoint
<1>1. (CHOOSE v \in Values : TRUE) \in Values
    BY DomainAssumption
<1> QED BY <1>1, BoundsAssumption DEF StopPoint, NewStopPoint

LEMMA NewWatch ==
    ASSUME result \in Values
    PROVE  NewStopPoint("watch", CHOOSE a \in Addresses : TRUE, FALSE, FALSE,
                        result) \in StopPoint
<1>1. (CHOOSE a \in Addresses : TRUE) \in Addresses
    BY DomainAssumption
<1> QED BY <1>1, BoundsAssumption DEF StopPoint, NewStopPoint

\* Adding a stop point gives it a handle that was never used.
LEMMA AddIInv ==
    ASSUME IInv, NEW k, NEW a, NEW t, NEW c, NEW v,
           NewStopPoint(k, a, t, c, v) \in StopPoint, add(k, a, t, c, v)
    PROVE  IInv'
<1> DEFINE sp == NewStopPoint(k, a, t, c, v)
<1> HIDE DEF sp
<1>0. sp \in StopPoint
    BY DEF sp
<1> USE DEF IInv
<1>1. /\ handleCount' = handleCount + 1
      /\ handleCount' \notin 1..handleCount
      /\ 1..handleCount \subseteq 1..handleCount'
      /\ handleCount' \in 0..MaxHandles
      /\ handleCount' \in 1..handleCount'
    BY BoundsAssumption DEF add, TypeOK
<1>2. /\ Handles' = Handles \union {handleCount'}
      /\ stopPoints'[handleCount'] = sp
      /\ \A h \in Handles : stopPoints'[h] = stopPoints[h]
    <2>1. handleCount' \notin Handles
        BY <1>1 DEF TypeOK
    <2> QED BY <2>1 DEF add, Handles, sp
<1>3. AtRest /\ UNCHANGED <<lastStopCycle, machine, stopRequested,
          phase, i, ghosts, reported, spent>>
      /\ edits' \in 0..MaxEdits
    BY BoundsAssumption DEF add, Command, AtRest, TypeOK
<1>4. TypeOK'
    BY <1>0, <1>1, <1>2, <1>3 DEF TypeOK, machine, ghosts
<1>5. OneShotIsSpent'
    <2>1. handleCount' \notin spent
        BY <1>1 DEF TypeOK
    <2> QED BY <1>2, <1>3, <2>1 DEF OneShotIsSpent
<1>6. FiredAnswer'
    BY <1>3 DEF FiredAnswer, AtRest, machine, ghosts
<1>7. FiredAreReported'
    <2>1. handleCount' \notin fired
        BY <1>1 DEF TypeOK
    <2> QED BY <1>2, <1>3, <2>1 DEF FiredAreReported, machine, ghosts
<1> QED BY <1>4, <1>5, <1>6, <1>7

\* Deleting stop points between cycles.
LEMMA DeleteIInv ==
    ASSUME IInv, NEW hs \in SUBSET Handles, Command,
           stopPoints' = Without(stopPoints, hs),
           UNCHANGED <<handleCount, lastStopCycle, machine, stopRequested,
                       phase, i, ghosts, reported, spent>>
    PROVE  IInv'
<1> USE DEF IInv
<1>1. Handles' \subseteq Handles
      /\ \A h \in Handles' : stopPoints'[h] = stopPoints[h]
    BY DEF Handles, Without
<1>2. edits' \in 0..MaxEdits /\ AtRest
    BY BoundsAssumption DEF Command, AtRest, TypeOK
<1>3. TypeOK'
    BY <1>1, <1>2 DEF TypeOK, machine, ghosts
<1>4. OneShotIsSpent'
    BY <1>1 DEF OneShotIsSpent
<1>5. FiredAnswer'
    BY <1>2 DEF FiredAnswer, AtRest, machine, ghosts
<1>6. FiredAreReported'
    BY <1>1 DEF FiredAreReported, machine, ghosts
<1> QED BY <1>3, <1>4, <1>5, <1>6

\* Editing a stop point.
LEMMA EditIInv ==
    ASSUME IInv, NEW h \in Handles, NEW sp \in StopPoint, Edit(h, sp)
    PROVE  IInv'
<1> USE DEF IInv
<1>1. /\ Handles' = Handles
      /\ stopPoints'[h] = sp
      /\ \A g \in Handles \ {h} : stopPoints'[g] = stopPoints[g]
    BY DEF Edit, Handles
<1>2. edits' \in 0..MaxEdits /\ AtRest
    BY BoundsAssumption DEF Edit, Command, AtRest, TypeOK
<1>3. UNCHANGED <<handleCount, lastStopCycle, machine, stopRequested, phase, i,
                  ghosts, reported>>
    BY DEF Edit
<1>4. spent' = IF sp.enabled /\ ~stopPoints[h].enabled
               THEN spent \ {h} ELSE spent
    BY DEF Edit
<1>5. TypeOK'
    BY <1>1, <1>2, <1>3, <1>4 DEF TypeOK, machine, ghosts
<1>6. OneShotIsSpent'
    BY <1>1, <1>4 DEF OneShotIsSpent
<1>7. FiredAnswer'
    BY <1>2, <1>3 DEF FiredAnswer, AtRest, machine, ghosts
<1>8. FiredAreReported'
    BY <1>1, <1>3 DEF FiredAreReported, machine, ghosts
<1> QED BY <1>5, <1>6, <1>7, <1>8

\* The edits the commands make keep a stop point a stop point.
LEMMA CommandsIInv ==
    ASSUME IInv, NEW h \in Handles,
           \/ enable(h) \/ enableOnceAndDelete(h) \/ enableOnceAndDisable(h)
           \/ disable(h) \/ setIgnore(h) \/ setCondition(h)
           \/ removeCondition(h)
    PROVE  IInv'
<1>0. stopPoints[h] \in StopPoint
    BY DEF IInv, TypeOK
<1>1. \A b \in BOOLEAN : [stopPoints[h] EXCEPT !.enabled = b] \in StopPoint
                         /\ [stopPoints[h] EXCEPT !.conditional = b]
                                \in StopPoint
    BY <1>0 DEF StopPoint
<1>2. /\ [stopPoints[h] EXCEPT !.enabled = TRUE, !.temporary = TRUE]
             \in StopPoint
      /\ [stopPoints[h] EXCEPT !.enabled = TRUE, !.once = TRUE] \in StopPoint
    BY <1>0 DEF StopPoint
<1>3. \A n \in 0..MaxIgnore : [stopPoints[h] EXCEPT !.ignore = n] \in StopPoint
    BY <1>0 DEF StopPoint
<1>4. TRUE \in BOOLEAN /\ FALSE \in BOOLEAN
    OBVIOUS
<1>5. CASE enable(h) \/ disable(h)
    BY <1>5, <1>1, <1>4, EditIInv DEF enable, disable
<1>6. CASE setCondition(h) \/ removeCondition(h)
    BY <1>6, <1>1, <1>4, EditIInv DEF setCondition, removeCondition
<1>7. CASE enableOnceAndDelete(h) \/ enableOnceAndDisable(h)
    BY <1>7, <1>2, EditIInv DEF enableOnceAndDelete, enableOnceAndDisable
<1>8. CASE setIgnore(h)
    BY <1>8, <1>3, EditIInv DEF setIgnore
<1> QED BY <1>5, <1>6, <1>7, <1>8

(***************************************************************************)
(* The cycle.                                                              *)
(***************************************************************************)

\* The event in the manager: what fires is stopped for, spent or deleted.
LEMMA HandleEventIInv ==
    ASSUME IInv, InformManager
    PROVE  IInv'
<1> USE DEF IInv
<1> DEFINE firing == {h \in Handles : Fires(stopPoints[h])}
           deleted == {h \in firing : stopPoints[h].temporary}
           after == [h \in Handles |-> AfterEvent(stopPoints[h])]
<1>1. /\ Handles' = Handles \ deleted
      /\ \A h \in Handles' : stopPoints'[h] = AfterEvent(stopPoints[h])
    <2>1. stopPoints' = Without(after, deleted)
        BY DEF InformManager, handleEvent
    <2>2. DOMAIN after = Handles
        OBVIOUS
    <2> QED BY <2>1, <2>2 DEF Without, Handles
<1>2. /\ stopRequested' = (stopRequested \/ firing # {})
      /\ lastStopCycle' = IF firing # {} THEN clockCount ELSE lastStopCycle
      /\ fired' = fired \union firing
      /\ spent' = spent \union {h \in firing : stopPoints[h].once
                                               \/ stopPoints[h].temporary}
      /\ phase = "inform" /\ i' = i + 1
      /\ UNCHANGED <<handleCount, machine, phase, due, reported, edits>>
    BY DEF InformManager, handleEvent
<1>3. firing \subseteq Handles /\ deleted \subseteq firing
    OBVIOUS
<1>4. \A h \in firing : Fires(stopPoints[h])
    OBVIOUS
<1>5. \A h \in firing : stopPoints[h].temporary => h \in deleted
    OBVIOUS
<1>6. \A h \in Handles : stopPoints[h] \in StopPoint
    BY DEF TypeOK
<1>7. stopRequested' \in BOOLEAN
    BY <1>2, Zenon
<1> HIDE DEF firing, deleted, after
<1>8. TypeOK'
    <2>1. \A h \in Handles' : stopPoints'[h] \in StopPoint
        BY <1>1, <1>6, AfterEventFacts
    <2>2. Handles' \subseteq 1..handleCount'
        BY <1>1, <1>2 DEF TypeOK
    <2>3. fired' \subseteq 1..handleCount' /\ spent' \subseteq 1..handleCount'
        BY <1>2, <1>3 DEF TypeOK
    <2>4. lastStopCycle' \in 0..MaxCycles /\ i' \in Nat
        BY <1>2 DEF TypeOK
    <2> QED BY <1>2, <1>7, <2>1, <2>2, <2>3, <2>4 DEF TypeOK, machine
<1>9. OneShotIsSpent'
    BY <1>1, <1>2, <1>3, <1>4, <1>5, <1>6, AfterEventFacts DEF OneShotIsSpent
<1>10. FiredAnswer'
    <2>1. fired' # {} => lastStopCycle' = clockCount'
        BY <1>2 DEF FiredAnswer, AtRest, machine
    <2>2. ASSUME NEW h \in fired' \intersect Handles'
          PROVE  isTriggered(AfterEvent(stopPoints[h]))
                 /\ Fixed(AfterEvent(stopPoints[h]))
        <3>1. CASE h \in firing
            BY <3>1, <1>1, <1>4, <1>6, AfterEventFacts
        <3>2. CASE h \in fired
            BY <3>2, <2>2, <1>1, <1>2, <1>6, AfterEventFacts
               DEF FiredAnswer, AtRest
        <3> QED BY <3>1, <3>2, <2>2, <1>2
    <2>3. ASSUME NEW h \in fired' \intersect Handles'
          PROVE  isTriggered(stopPoints[h])' /\ Fixed(stopPoints[h])'
        <3>1. pc' = pc /\ result' = result /\ clockCount' = clockCount
            BY <1>2 DEF machine
        <3>2. stopPoints'[h] = AfterEvent(stopPoints[h])
            BY <1>1
        <3> QED BY <2>2, <3>1, <3>2 DEF isTriggered, Fixed, Checked
    <2> QED BY <2>1, <2>3 DEF FiredAnswer, AtRest
<1>11. FiredAreReported'
    BY <1>2 DEF FiredAreReported
<1> QED BY <1>8, <1>9, <1>10, <1>11

\* Printing the causes of a stop.
LEMMA PrintIInv ==
    ASSUME IInv, printStopReasons
    PROVE  IInv'
<1> USE DEF IInv
<1>0. /\ phase = "report" /\ phase' = "rest"
      /\ UNCHANGED <<handleCount, lastStopCycle, listeners, machine,
                     stopRequested, i, ghosts, spent, edits>>
    BY DEF printStopReasons
<1>1. CASE lastStopCycle = clockCount /\ ~earlier
    <2>1. /\ Handles' = Handles
          /\ \A h \in Handles : stopPoints'[h] = Checked(stopPoints[h])
          /\ reported' = {h \in Handles : isTriggered(stopPoints[h])}
        BY <1>1 DEF printStopReasons, Handles
    <2>2. \A h \in Handles : /\ stopPoints[h] \in StopPoint
                             /\ stopPoints'[h] \in StopPoint
                             /\ stopPoints'[h].enabled = stopPoints[h].enabled
        BY <2>1, CheckedFacts DEF TypeOK
    <2>3. TypeOK'
        BY <1>0, <2>1, <2>2 DEF TypeOK, machine, ghosts
    <2>4. OneShotIsSpent'
        BY <1>0, <2>1, <2>2 DEF OneShotIsSpent
    <2>5. FiredAnswer' /\ FiredAreReported'
        BY <1>0, <2>1
           DEF FiredAnswer, AtRest, FiredAreReported, machine, ghosts
    <2> QED BY <2>3, <2>4, <2>5
<1>2. CASE lastStopCycle # clockCount \/ earlier
    <2>1. UNCHANGED <<reported, stopPoints>> /\ (earlier \/ fired = {})
        BY <1>2 DEF printStopReasons, FiredAnswer, AtRest
    <2>2. TypeOK' /\ OneShotIsSpent'
        BY <1>0, <2>1 DEF TypeOK, machine, ghosts, OneShotIsSpent, Handles
    <2>3. FiredAnswer' /\ FiredAreReported'
        BY <1>0, <2>1
           DEF FiredAnswer, AtRest, FiredAreReported, machine, ghosts
    <2> QED BY <2>2, <2>3
<1> QED BY <1>1, <1>2

\* Every step keeps the invariant.
LEMMA NextIInv == IInv /\ [Next]_vars => IInv'
<1> SUFFICES ASSUME IInv, [Next]_vars PROVE IInv'
    OBVIOUS
<1>1. ASSUME NEW a \in Addresses, NEW t \in BOOLEAN, NEW c \in BOOLEAN,
             BPCommand(a, t, c)
      PROVE  IInv'
    BY <1>1, NewBreakpoint, AddIInv DEF BPCommand
<1>2. ASSUME WatchCommand PROVE IInv'
    BY <1>2, NewWatch, AddIInv DEF WatchCommand
<1>3. ASSUME NEW h \in Handles, deleteStopPoint(h) PROVE IInv'
    BY <1>3, DeleteIInv DEF deleteStopPoint
<1>4. ASSUME deleteAll PROVE IInv'
    BY <1>4, DeleteIInv DEF deleteAll
<1>5. ASSUME killSimulation PROVE IInv'
    <2>1. holds' \in BOOLEAN /\ stopRequested' \in BOOLEAN
          /\ killed' \in BOOLEAN /\ earlier' \in BOOLEAN
        BY <1>5, Zenon DEF killSimulation
    <2>2. TypeOK'
        BY <1>5, <2>1, BoundsAssumption
           DEF killSimulation, IInv, TypeOK, manager, Handles
    <2>3. OneShotIsSpent'
        BY <1>5 DEF killSimulation, IInv, OneShotIsSpent, manager, Handles
    <2>4. FiredAnswer' /\ FiredAreReported'
        BY <1>5 DEF killSimulation, FiredAnswer, AtRest, FiredAreReported
    <2> QED BY <2>2, <2>3, <2>4 DEF IInv
<1>6. ASSUME simulateCycle PROVE IInv'
    <2>1. holds' \in BOOLEAN /\ stopRequested' \in BOOLEAN
          /\ killed' \in BOOLEAN /\ earlier' \in BOOLEAN
        BY <1>6, Zenon DEF simulateCycle, IInv, TypeOK
    <2>2. TypeOK'
        BY <1>6, <2>1, BoundsAssumption
           DEF simulateCycle, IInv, TypeOK, manager, Handles
    <2>3. OneShotIsSpent'
        BY <1>6 DEF simulateCycle, IInv, OneShotIsSpent, manager, Handles
    <2>4. FiredAnswer' /\ FiredAreReported'
        BY <1>6 DEF simulateCycle, FiredAnswer, AtRest, FiredAreReported
    <2> QED BY <2>2, <2>3, <2>4 DEF IInv
<1>7. ASSUME InformTracker \/ InformEnds PROVE IInv'
    <2>0. earlier' \in BOOLEAN
        BY <1>7, Zenon DEF InformTracker, InformEnds, machine, IInv, TypeOK
    <2>1. /\ UNCHANGED <<manager, clockCount, pc, result, holds, killed,
                         stopRequested, fired, due, reported, spent, edits>>
          /\ i' \in Nat /\ phase = "inform"
          /\ phase' \in {"inform", "report", "rest"}
          /\ stopRequested => phase' # "rest"
        <3>1. CASE InformTracker
            BY <3>1 DEF InformTracker, machine, IInv, TypeOK
        <3>2. CASE InformEnds
            BY <3>2 DEF InformEnds, ghosts
        <3> QED BY <1>7, <3>1, <3>2
    <2>2. TypeOK' /\ OneShotIsSpent'
        BY <2>0, <2>1 DEF IInv, TypeOK, OneShotIsSpent, manager, Handles
    <2>3. FiredAnswer'
        BY <2>1 DEF IInv, FiredAnswer, AtRest, manager, Handles, isTriggered,
                    Fixed, Checked
    <2>4. FiredAreReported'
        BY <2>1 DEF FiredAreReported
    <2> QED BY <2>2, <2>3, <2>4 DEF IInv
<1>8. CASE UNCHANGED vars
    BY <1>8 DEF vars, manager, machine, ghosts, IInv, TypeOK, OneShotIsSpent,
                FiredAnswer, AtRest, FiredAreReported, Handles, isTriggered,
                Fixed, Checked
<1> QED BY <1>1, <1>2, <1>3, <1>4, <1>5, <1>6, <1>7, <1>8, CommandsIInv,
           HandleEventIInv, PrintIInv DEF Next

\* The inductive invariant holds in every reachable state.
LEMMA Inductive == Spec => []IInv
BY InitIInv, NextIInv, PTL DEF Spec

(***************************************************************************)
(* The listener list.                                                      *)
(***************************************************************************)
Entry == ({"newInstruction", "cycleEnd"} \X STRING) \union {Manager}

\* The listener list: the manager is in it at most once, and if and only if
\* there is a stop point, also while an event is delivered.
ListInv ==
    /\ listeners \in Seq(Entry)
    /\ \A m, n \in 1..Len(listeners) :
           listeners[m] = Manager /\ listeners[n] = Manager => m = n
    /\ Handles # {} <=> Listens(listeners, Manager)

LEMMA EntryFacts ==
    /\ Manager \in Entry /\ Manager[1] = "newInstruction"
    /\ Trackers \in Seq(Entry)
    /\ \A n \in 1..Len(Trackers) : Trackers[n] # Manager
<1>1. Manager \in Entry /\ Manager[1] = "newInstruction"
    BY DEF Entry, Manager
<1>2. Trackers \in Seq(Entry)
    <2> DEFINE T == {"newInstruction", "cycleEnd"} \X STRING
    <2>1. Trackers \in Seq(T) /\ T \subseteq Entry
        BY TrackersAssumption DEF Entry
    <2> HIDE DEF T
    <2> QED BY <2>1
<1>3. \A n \in 1..Len(Trackers) : Trackers[n] # Manager
    BY TrackersAssumption DEF Manager
<1> QED BY <1>1, <1>2, <1>3

\* Taking the manager out of the list moves what is behind it forward.
LEMMA Unregistered ==
    ASSUME ListInv, Listens(listeners, Manager)
    PROVE  \E p \in 1..Len(listeners) :
               LET u == unregisterListener(listeners, Manager)
               IN  /\ listeners[p] = Manager
                   /\ u \in Seq(Entry) /\ Len(u) = Len(listeners) - 1
                   /\ \A n \in 1..Len(u) :
                          /\ u[n] = IF n < p THEN listeners[n]
                                    ELSE listeners[n + 1]
                          /\ u[n] # Manager
<1>1. listeners \in Seq(Entry)
    BY DEF ListInv
<1>2. PICK p \in 1..Len(listeners) : listeners[p] = Manager
    BY DEF Listens
<1>3. \A n \in 1..Len(listeners) : n # p => listeners[n] # Manager
    BY <1>2 DEF ListInv
<1>4. Len(listeners) \in Nat /\ p \in Nat
    BY <1>1
<1> DEFINE slot == CHOOSE n \in 1..Len(listeners) :
                       /\ listeners[n] = Manager
                       /\ \A m \in 1..(n - 1) : listeners[m] # Manager
           u == [n \in 1..(Len(listeners) - 1) |->
                    IF n < slot THEN listeners[n] ELSE listeners[n + 1]]
<1>5. slot = p
    <2>1. \A m \in 1..(p - 1) : listeners[m] # Manager
        BY <1>3, <1>4
    <2>2. slot \in 1..Len(listeners) /\ listeners[slot] = Manager
        BY <1>2, <2>1
    <2> QED BY <2>2, <1>3
<1>6. unregisterListener(listeners, Manager) = u
    BY DEF unregisterListener
<1> HIDE DEF slot
<1>7. u \in Seq(Entry) /\ Len(u) = Len(listeners) - 1
    BY <1>1, <1>4, <1>2
<1>8. \A n \in 1..Len(u) :
          /\ u[n] = IF n < p THEN listeners[n] ELSE listeners[n + 1]
          /\ u[n] # Manager
    BY <1>3, <1>4, <1>5, <1>7
<1> QED BY <1>2, <1>6, <1>7, <1>8

\* Deleting stop points unregisters the manager with the last one.
LEMMA DeletionList ==
    ASSUME ListInv, NEW hs \in SUBSET Handles, Handles' = Handles \ hs,
           listeners' = ListAfterDeletion(stopPoints', hs)
    PROVE  ListInv'
<1>1. DOMAIN stopPoints' = Handles'
    BY DEF Handles
<1>2. CASE hs # {} /\ Handles' = {}
    <2>1. listeners' = unregisterListener(listeners, Manager)
        BY <1>1, <1>2 DEF ListAfterDeletion
    <2>2. Listens(listeners, Manager)
        BY <1>2 DEF ListInv
    <2>3. /\ listeners' \in Seq(Entry)
          /\ \A n \in 1..Len(listeners') : listeners'[n] # Manager
        BY <2>1, <2>2, Unregistered
    <2> QED BY <1>2, <2>3 DEF ListInv, Listens
<1>3. CASE ~(hs # {} /\ Handles' = {})
    <2>1. listeners' = listeners
        BY <1>1, <1>3 DEF ListAfterDeletion
    <2> QED BY <1>3, <2>1 DEF ListInv, Listens
<1> QED BY <1>2, <1>3

\* Adding one registers the manager with the first one.
LEMMA AddList ==
    ASSUME IInv, ListInv, NEW k, NEW a, NEW t, NEW c, NEW v,
           add(k, a, t, c, v)
    PROVE  ListInv'
<1>1. Handles' = Handles \union {handleCount'} /\ Handles' # {}
    BY DEF add, Handles
<1>2. (Cardinality(Handles) = 0) <=> (Handles = {})
    <2>1. Handles \subseteq 1..handleCount /\ handleCount \in Int
        BY DEF IInv, TypeOK
    <2>2. IsFiniteSet(1..handleCount)
        BY <2>1, FS_Interval
    <2>3. IsFiniteSet(Handles)
        BY <2>1, <2>2, FS_Subset
    <2> QED BY <2>3, FS_EmptySet
<1>3. CASE Handles = {}
    <2>1. ~Listens(listeners, Manager)
        BY <1>3 DEF ListInv
    <2>2. listeners' = Append(listeners, Manager)
        BY <1>2, <1>3, <2>1 DEF add, registerListener
    <2>3. listeners \in Seq(Entry) /\ Manager \in Entry
        BY EntryFacts DEF ListInv
    <2>4. /\ listeners' \in Seq(Entry) /\ Len(listeners') = Len(listeners) + 1
          /\ Len(listeners) \in Nat
          /\ \A n \in 1..Len(listeners) : listeners'[n] = listeners[n]
          /\ listeners'[Len(listeners) + 1] = Manager
        BY <2>2, <2>3
    <2>5. \A n \in 1..Len(listeners') :
              listeners'[n] = Manager <=> n = Len(listeners')
        BY <2>1, <2>4 DEF Listens
    <2> QED BY <1>1, <2>4, <2>5 DEF ListInv, Listens
<1>4. CASE Handles # {}
    <2>1. listeners' = listeners
        BY <1>2, <1>4 DEF add
    <2> QED BY <1>1, <1>4, <2>1 DEF ListInv, Listens
<1> QED BY <1>3, <1>4

\* Every step keeps the manager in the list as long as it is needed.
LEMMA ListStep == IInv /\ ListInv /\ [Next]_vars => ListInv'
<1> SUFFICES ASSUME IInv, ListInv, [Next]_vars PROVE ListInv'
    OBVIOUS
<1>1. ASSUME NEW a \in Addresses, NEW t \in BOOLEAN, NEW c \in BOOLEAN,
             BPCommand(a, t, c)
      PROVE  ListInv'
    BY <1>1, AddList DEF BPCommand
<1>2. ASSUME WatchCommand PROVE ListInv'
    BY <1>2, AddList DEF WatchCommand
<1>3. ASSUME NEW h \in Handles, deleteStopPoint(h) PROVE ListInv'
    <2>1. Handles' = Handles \ {h}
          /\ listeners' = ListAfterDeletion(stopPoints', {h})
        BY <1>3 DEF deleteStopPoint, Without, Handles
    <2> QED BY <2>1, DeletionList
<1>4. ASSUME deleteAll PROVE ListInv'
    <2>1. Handles' = Handles \ Handles
          /\ listeners' = ListAfterDeletion(stopPoints', Handles)
        BY <1>4 DEF deleteAll, Without, Handles
    <2> QED BY <2>1, DeletionList
<1>5. ASSUME NEW h \in Handles, NEW sp, Edit(h, sp) PROVE ListInv'
    BY <1>5 DEF Edit, Handles, ListInv, Listens
<1>6. ASSUME NEW h \in Handles,
             \/ enable(h) \/ enableOnceAndDelete(h) \/ enableOnceAndDisable(h)
             \/ disable(h) \/ setIgnore(h) \/ setCondition(h)
             \/ removeCondition(h)
      PROVE  ListInv'
    BY <1>5, <1>6 DEF enable, enableOnceAndDelete, enableOnceAndDisable,
       disable, setIgnore, setCondition, removeCondition
<1>7. ASSUME killSimulation PROVE ListInv'
    <2> DEFINE Stay == IF Listens(listeners, Manager) THEN <<Manager>>
                       ELSE <<>>
    <2>1. listeners' = Stay \o Trackers /\ Handles' = Handles
        BY <1>7 DEF killSimulation, manager, Handles
    <2>2. CASE Handles = {}
        <3>1. Stay = <<>>
            BY <2>2 DEF ListInv
        <3>2. listeners' = Trackers
            BY <2>1, <3>1, EntryFacts, ConcatEmptySeq
        <3> QED BY <2>1, <2>2, <3>2, EntryFacts DEF ListInv, Listens
    <2>3. CASE Handles # {}
        <3>1. Stay = <<Manager>>
            BY <2>3 DEF ListInv
        <3>2. <<Manager>> \in Seq(Entry) /\ Len(<<Manager>>) = 1
              /\ <<Manager>>[1] = Manager
            BY EntryFacts
        <3>3. /\ listeners' \in Seq(Entry)
              /\ Len(listeners') = 1 + Len(Trackers)
              /\ \A n \in 1..(1 + Len(Trackers)) :
                     listeners'[n] = IF n <= 1 THEN Manager
                                     ELSE Trackers[n - 1]
            <4> HIDE DEF Stay
            <4>1. \A n \in 1..(1 + Len(Trackers)) :
                      n <= 1 => <<Manager>>[n] = Manager
                BY <3>2, EntryFacts
            <4> QED BY <2>1, <3>1, <3>2, <4>1, EntryFacts, ConcatProperties
        <3>4. Len(Trackers) \in Nat
            BY EntryFacts
        <3>5. \A n \in 1..Len(listeners') :
                  listeners'[n] = Manager <=> n = 1
            BY <3>3, <3>4, EntryFacts
        <3> QED BY <2>1, <2>3, <3>3, <3>4, <3>5 DEF ListInv, Listens
    <2> QED BY <2>2, <2>3
<1>8. ASSUME InformManager PROVE ListInv'
    <2> DEFINE deleted == {h \in Handles : Fires(stopPoints[h])
                                           /\ stopPoints[h].temporary}
    <2>1. Handles' = Handles \ deleted
          /\ listeners' = ListAfterDeletion(stopPoints', deleted)
        BY <1>8 DEF InformManager, handleEvent, Without, Handles
    <2> QED BY <2>1, DeletionList
<1>9. ASSUME simulateCycle \/ InformTracker \/ InformEnds \/ printStopReasons
             \/ UNCHANGED vars
      PROVE  ListInv'
    <2>1. Handles' = Handles /\ listeners' = listeners
        BY <1>9 DEF simulateCycle, InformTracker, InformEnds,
                    printStopReasons, vars, manager, Handles
    <2> QED BY <2>1 DEF ListInv, Listens
<1> QED BY <1>1, <1>2, <1>3, <1>4, <1>6, <1>7, <1>8, <1>9 DEF Next

(***************************************************************************)
(* A delivery.                                                             *)
(***************************************************************************)
\* The places before the index of the Informer are told, all but p.
ToldBut(p) ==
    \A n \in 1..Len(listeners) :
        n < i /\ n # p /\ listeners[n][1] = "newInstruction" =>
            listeners[n] \in told

\* While an event is delivered: the manager is not told again, and the places
\* the Informer has passed are told, all but the one that has moved into the
\* place of the manager if the manager was taken out of the list.
ToldInv ==
    phase = "inform" =>
        /\ i >= 1
        /\ Manager \in told =>
               \A n \in 1..Len(listeners) : n >= i => listeners[n] # Manager
        /\ \/ ToldBut(0)
           \/ /\ Handles = {} /\ Manager \in told
              /\ \E p \in Nat : ToldBut(p)

\* A stop point that has to stop the cycle that is being delivered.
DueNow(sp) ==
    /\ sp.enabled
    /\ sp.ignore = 0
    /\ sp.conditional => holds
    /\ \/ sp.kind = "breakpoint" /\ pc = sp.address
       \/ sp.kind = "watch" /\ result \in Values \ {sp.seen}

DuePairs ==
    {<<h, stopPoints[h].kind>> : h \in {g \in Handles :
                                           DueNow(stopPoints[g])}}

\* In the first run no watch has looked at a later cycle.
NotAhead == ~killed => \A h \in Handles : stopPoints[h].checked <= clockCount

\* Until the manager is told, what is due can be read off the stop points, and
\* no watch has looked at this cycle in the first run; from then on what was
\* due has stopped the simulation.
DueInv ==
    phase = "inform" =>
        IF Manager \in told
        THEN /\ (\E d \in due : d[2] = "breakpoint") => stopRequested
             /\ ~killed => (stopRequested <=> due # {})
        ELSE /\ ~stopRequested
             /\ due = DuePairs
             /\ ~killed => \A h \in Handles :
                               stopPoints[h].kind = "watch" =>
                                   stopPoints[h].checked < clockCount

RunInv == ListInv /\ ToldInv /\ NotAhead /\ DueInv

\* Looking at a watch, or an event, leaves the cycle it has looked at or sets
\* it to this one.
LEMMA LooksNow ==
    ASSUME TypeOK, NEW sp \in StopPoint
    PROVE  /\ Checked(sp).checked \in {sp.checked, clockCount}
           /\ AfterEvent(sp).checked \in {sp.checked, clockCount}
<1> DEFINE c == Checked(sp)
<1>1. c \in StopPoint /\ c.checked \in {sp.checked, clockCount}
    BY CheckedFacts DEF Checked, StopPoint
<1>2. AfterEvent(sp) \in {sp, c, [c EXCEPT !.enabled = ~sp.once],
                          [c EXCEPT !.ignore = @ - 1]}
    BY DEF AfterEvent
<1> HIDE DEF c
<1>3. /\ [c EXCEPT !.enabled = ~sp.once].checked = c.checked
      /\ [c EXCEPT !.ignore = @ - 1].checked = c.checked
    BY <1>1 DEF StopPoint
<1>4. AfterEvent(sp).checked \in {sp.checked, clockCount}
    BY <1>1, <1>2, <1>3
<1> QED BY <1>1, <1>4 DEF c

\* What is due fires: a breakpoint in any run, and a watch that has not looked
\* at this cycle; and nothing else fires.
LEMMA DueFires ==
    ASSUME TypeOK, NEW sp \in StopPoint,
           sp.kind = "watch" => sp.checked # clockCount
    PROVE  Fires(sp) <=> DueNow(sp)
<1>1. CASE sp.kind = "breakpoint"
    BY <1>1 DEF Fires, DueNow, isTriggered, isConditionOK
<1>2. CASE sp.kind = "watch"
    <2>1. (result \in Values /\ result # sp.seen) \in BOOLEAN
        OBVIOUS
    <2>2. Checked(sp) =
             [sp EXCEPT !.triggered = result \in Values /\ result # sp.seen,
                        !.seen = IF result \in Values THEN result ELSE @,
                        !.checked = clockCount]
        BY <1>2 DEF Checked
    <2>3. Checked(sp).triggered <=> result \in Values /\ result # sp.seen
        BY <2>1, <2>2 DEF StopPoint
    <2>4. isTriggered(sp) <=> result \in Values \ {sp.seen}
        BY <1>2, <2>3 DEF isTriggered
    <2> QED BY <1>2, <2>4 DEF Fires, DueNow, isConditionOK
<1> QED BY <1>1, <1>2 DEF StopPoint

\* A delivery begins with a cycle and goes on with the turns of the loop.
LEMMA DeliverySteps ==
    ASSUME [Next]_vars, phase' = "inform"
    PROVE  simulateCycle \/ InformTracker \/ InformManager \/ UNCHANGED vars
BY DEF Next, BPCommand, WatchCommand, add, deleteStopPoint, Edit, Command,
       AtRest, enable, enableOnceAndDelete, enableOnceAndDisable, disable,
       setIgnore, setCondition, removeCondition, deleteAll, killSimulation,
       InformEnds, printStopReasons

\* The Informer tells every place it passes but the one that follows a manager
\* that takes itself out.
LEMMA ToldStep == IInv /\ ListInv /\ ToldInv /\ [Next]_vars => ToldInv'
<1> SUFFICES ASSUME IInv, ListInv, ToldInv, [Next]_vars, phase' = "inform"
             PROVE  ToldInv'
    BY DEF ToldInv
<1>0. listeners \in Seq(Entry) /\ Len(listeners) \in Nat /\ i \in Nat
    BY DEF ListInv, IInv, TypeOK
<1>1. CASE simulateCycle
    <2>1. i' = 1 /\ told' = {} /\ listeners' = listeners
        BY <1>1 DEF simulateCycle
    <2> QED BY <2>1, <1>0 DEF ToldInv, ToldBut
<1>2. CASE InformTracker
    <2>1. /\ phase = "inform" /\ i <= Len(listeners) /\ i' = i + 1
          /\ listeners[i] # Manager
          /\ told \subseteq told' /\ told' \subseteq told \union {listeners[i]}
          /\ listeners[i][1] = "newInstruction" => listeners[i] \in told'
          /\ listeners' = listeners /\ Handles' = Handles
        BY <1>2 DEF InformTracker, manager, Handles
    <2>2. i >= 1 /\ (Manager \in told' <=> Manager \in told)
        BY <2>1 DEF ToldInv
    <2>3. \A p \in Nat : ToldBut(p) => ToldBut(p)'
        BY <2>1, <1>0 DEF ToldBut
    <2>4. \A n \in 1..Len(listeners) :
              Manager \in told /\ n >= i => listeners[n] # Manager
        BY <2>1 DEF ToldInv
    <2>5. i' >= 1 /\ \A n \in 1..Len(listeners) : n >= i' => n >= i
        BY <2>1, <2>2, <1>0
    <2> QED BY <2>1, <2>2, <2>3, <2>4, <2>5 DEF ToldInv
<1>3. CASE InformManager
    <2> DEFINE deleted == {h \in Handles : Fires(stopPoints[h])
                                           /\ stopPoints[h].temporary}
    <2>1. /\ phase = "inform" /\ i <= Len(listeners) /\ i' = i + 1
          /\ listeners[i] = Manager /\ told' = told \union {Manager}
          /\ Handles' = Handles \ deleted
          /\ listeners' = ListAfterDeletion(stopPoints', deleted)
        BY <1>3 DEF InformManager, handleEvent, Without, Handles
    <2> HIDE DEF deleted
    <2>2. i \in 1..Len(listeners) /\ i' >= 1
        BY <2>1, <1>0 DEF ToldInv
    <2>3. \A n \in 1..Len(listeners) : n # i => listeners[n] # Manager
        BY <2>1, <2>2 DEF ListInv
    <2>4. Manager \notin told /\ ToldBut(0)
        BY <2>1, <2>2 DEF ToldInv
    <2>5. CASE listeners' = listeners
        <3>1. ToldBut(0)'
            BY <2>1, <2>2, <2>4, <2>5 DEF ToldBut
        <3>2. \A n \in 1..Len(listeners) : n >= i' => listeners[n] # Manager
            BY <2>1, <2>2, <2>3
        <3> QED BY <2>2, <2>5, <3>1, <3>2 DEF ToldInv
    <2>6. CASE listeners' # listeners
        <3>1. /\ Handles' = {}
              /\ listeners' = unregisterListener(listeners, Manager)
            BY <2>1, <2>6 DEF ListAfterDeletion, Handles
        <3>2. Listens(listeners, Manager)
            BY <2>1, <2>2 DEF Listens
        <3>3. /\ listeners' \in Seq(Entry)
              /\ Len(listeners') = Len(listeners) - 1
              /\ \A n \in 1..Len(listeners') :
                     /\ listeners'[n] = IF n < i THEN listeners[n]
                                        ELSE listeners[n + 1]
                     /\ listeners'[n] # Manager
            BY <3>1, <3>2, <2>3, Unregistered
        <3>6. PICK q \in Nat : q = i
            BY <2>2
        <3>4. ToldBut(q)'
            <4> SUFFICES ASSUME NEW n \in 1..Len(listeners'), n < i', n # q,
                                listeners'[n][1] = "newInstruction"
                         PROVE  listeners'[n] \in told'
                BY <2>1 DEF ToldBut
            <4>1. n \in 1..Len(listeners) /\ n < i /\ n # 0
                BY <3>6, <2>1, <2>2, <3>3, <1>0
            <4> QED BY <4>1, <3>3, <2>1, <2>4 DEF ToldBut
        <3>5. \E p \in Nat : ToldBut(p)'
            BY <3>4
        <3> QED BY <2>1, <2>2, <3>1, <3>3, <3>5 DEF ToldInv
    <2> QED BY <2>5, <2>6
<1>4. CASE UNCHANGED vars
    BY <1>4 DEF vars, manager, ghosts, ToldInv, ToldBut, Handles
<1> QED BY <1>1, <1>2, <1>3, <1>4, DeliverySteps

\* The cycles that are compared are numbers.
LEMMA Clocks ==
    ASSUME IInv
    PROVE  /\ clockCount \in Nat
           /\ \A h \in Handles : stopPoints[h] \in StopPoint
           /\ \A h \in Handles : stopPoints[h].checked \in Nat
<1>1. /\ clockCount \in Nat
      /\ \A h \in Handles : stopPoints[h] \in StopPoint
    BY BoundsAssumption DEF IInv, TypeOK
<1>2. \A sp \in StopPoint : sp.checked \in Nat
    BY BoundsAssumption DEF StopPoint
<1> QED BY <1>1, <1>2

\* In the first run no watch gets ahead of the clock.
LEMMA NotAheadStep == IInv /\ NotAhead /\ [Next]_vars => NotAhead'
<1> SUFFICES ASSUME IInv, NotAhead, [Next]_vars, ~killed'
             PROVE  \A h \in Handles' : stopPoints'[h].checked <= clockCount'
    BY DEF NotAhead
<1>0. /\ clockCount \in Nat
      /\ \A h \in Handles : stopPoints[h] \in StopPoint
      /\ \A h \in Handles : stopPoints[h].checked \in Nat
    BY Clocks
<1>1. ASSUME NEW k, NEW a, NEW t, NEW c, NEW v, add(k, a, t, c, v)
      PROVE  \A h \in Handles' : stopPoints'[h].checked <= clockCount'
    <2>1. /\ Handles' = Handles \union {handleCount'}
          /\ \A h \in Handles' : stopPoints'[h] =
                 IF h = handleCount' THEN NewStopPoint(k, a, t, c, v)
                 ELSE stopPoints[h]
          /\ clockCount' = clockCount /\ killed' = killed
        BY <1>1 DEF add, Handles, machine
    <2>2. NewStopPoint(k, a, t, c, v).checked = 0
        BY DEF NewStopPoint
    <2> QED BY <2>1, <2>2, <1>0 DEF NotAhead
<1>2. ASSUME NEW hs, stopPoints' = Without(stopPoints, hs), UNCHANGED machine
      PROVE  \A h \in Handles' : stopPoints'[h].checked <= clockCount'
    BY <1>2 DEF Without, Handles, machine, NotAhead
<1>3. ASSUME NEW h \in Handles, NEW sp, Edit(h, sp),
             sp.checked = stopPoints[h].checked
      PROVE  \A g \in Handles' : stopPoints'[g].checked <= clockCount'
    <2>1. /\ Handles' = Handles /\ UNCHANGED machine
          /\ \A g \in Handles : stopPoints'[g] = IF g = h THEN sp
                                                 ELSE stopPoints[g]
        BY <1>3 DEF Edit, Handles
    <2> QED BY <1>3, <2>1 DEF machine, NotAhead
<1>4. ASSUME NEW h \in Handles,
             \/ enable(h) \/ enableOnceAndDelete(h) \/ enableOnceAndDisable(h)
             \/ disable(h) \/ setIgnore(h) \/ setCondition(h)
             \/ removeCondition(h)
      PROVE  \A g \in Handles' : stopPoints'[g].checked <= clockCount'
    <2> DEFINE sp == stopPoints[h]
    <2>1. sp \in StopPoint
        BY <1>0
    <2>2. /\ \A b \in BOOLEAN :
                 /\ [sp EXCEPT !.enabled = b].checked = sp.checked
                 /\ [sp EXCEPT !.conditional = b].checked = sp.checked
          /\ \A n \in 0..MaxIgnore :
                 [sp EXCEPT !.ignore = n].checked = sp.checked
          /\ [sp EXCEPT !.enabled = TRUE, !.temporary = TRUE].checked
                 = sp.checked
          /\ [sp EXCEPT !.enabled = TRUE, !.once = TRUE].checked = sp.checked
        BY <2>1 DEF StopPoint
    <2>3. TRUE \in BOOLEAN /\ FALSE \in BOOLEAN
        OBVIOUS
    <2>4. CASE enable(h) \/ disable(h)
        BY <2>4, <2>2, <2>3, <1>3 DEF enable, disable
    <2>5. CASE setCondition(h) \/ removeCondition(h)
        BY <2>5, <2>2, <2>3, <1>3 DEF setCondition, removeCondition
    <2>6. CASE enableOnceAndDelete(h) \/ enableOnceAndDisable(h)
        BY <2>6, <2>2, <1>3 DEF enableOnceAndDelete, enableOnceAndDisable
    <2>7. CASE setIgnore(h)
        BY <2>7, <2>2, <1>3 DEF setIgnore
    <2> QED BY <1>4, <2>4, <2>5, <2>6, <2>7
<1>5. ASSUME simulateCycle
      PROVE  \A h \in Handles' : stopPoints'[h].checked <= clockCount'
    BY <1>0, <1>5 DEF simulateCycle, manager, Handles, NotAhead
<1>6. ASSUME InformManager
      PROVE  \A h \in Handles' : stopPoints'[h].checked <= clockCount'
    <2>1. /\ Handles' \subseteq Handles
          /\ \A h \in Handles' : stopPoints'[h] = AfterEvent(stopPoints[h])
          /\ UNCHANGED machine
        BY <1>6 DEF InformManager, handleEvent, Without, Handles
    <2> QED BY <2>1, <1>0, LooksNow DEF machine, NotAhead, IInv
<1>7. ASSUME printStopReasons
      PROVE  \A h \in Handles' : stopPoints'[h].checked <= clockCount'
    <2>1. /\ Handles' = Handles
          /\ \A h \in Handles : stopPoints'[h] \in {stopPoints[h],
                                                    Checked(stopPoints[h])}
          /\ UNCHANGED machine
        BY <1>7 DEF printStopReasons, Handles
    <2> QED BY <2>1, <1>0, LooksNow DEF machine, NotAhead, IInv
<1>8. ASSUME InformTracker \/ InformEnds \/ UNCHANGED vars
      PROVE  \A h \in Handles' : stopPoints'[h].checked <= clockCount'
    <2>1. stopPoints' = stopPoints /\ clockCount' = clockCount
          /\ killed' = killed
        BY <1>8 DEF InformTracker, InformEnds, vars, manager, machine
    <2> QED BY <2>1 DEF Handles, NotAhead
<1>9. ~killSimulation
    BY DEF killSimulation
<1> QED BY <1>1, <1>2, <1>4, <1>5, <1>6, <1>7, <1>8, <1>9
        DEF Next, BPCommand, WatchCommand, deleteStopPoint, deleteAll

\* What is due stops the simulation when the manager is told.
LEMMA DueStep ==
    IInv /\ ListInv /\ ToldInv /\ NotAhead /\ DueInv /\ [Next]_vars => DueInv'
<1> SUFFICES ASSUME IInv, ListInv, ToldInv, NotAhead, DueInv, [Next]_vars,
                    phase' = "inform"
             PROVE  DueInv'
    BY DEF DueInv
<1>0. /\ TypeOK /\ clockCount \in Nat
      /\ \A h \in Handles : stopPoints[h] \in StopPoint
      /\ \A h \in Handles : stopPoints[h].checked \in Nat
    BY Clocks DEF IInv
<1>1. CASE simulateCycle
    <2>1. /\ told' = {} /\ stopRequested' = FALSE /\ stopPoints' = stopPoints
          /\ clockCount' = clockCount + 1 /\ killed' = killed
          /\ due' = {<<h, stopPoints[h].kind>> : h \in {g \in Handles :
                                                          Due(stopPoints[g])}}
        BY <1>1 DEF simulateCycle, manager
    <2>2. Handles' = Handles
        BY <2>1 DEF Handles
    <2>3. \A g \in Handles : Due(stopPoints[g]) <=> DueNow(stopPoints[g])'
        BY <2>1 DEF Due, DueNow
    <2>4. due' = DuePairs'
        BY <2>1, <2>2, <2>3 DEF DuePairs
    <2>5. ~killed' => \A h \in Handles' : stopPoints'[h].checked < clockCount'
        BY <2>1, <2>2, <1>0 DEF NotAhead
    <2> QED BY <2>1, <2>4, <2>5 DEF DueInv
<1>2. CASE InformTracker
    <2>1. /\ UNCHANGED <<stopPoints, clockCount, pc, result, holds, killed,
                         stopRequested, phase, due>>
          /\ Manager \in told' <=> Manager \in told
        BY <1>2 DEF InformTracker, manager, machine
    <2> QED BY <2>1 DEF DueInv, DuePairs, DueNow, Handles
<1>3. CASE InformManager
    <2> DEFINE firing == {h \in Handles : Fires(stopPoints[h])}
    <2>1. /\ phase = "inform" /\ i <= Len(listeners)
          /\ listeners[i] = Manager /\ Manager \in told'
          /\ stopRequested' = (stopRequested \/ firing # {})
          /\ due' = due /\ killed' = killed
        BY <1>3 DEF InformManager, handleEvent, machine
    <2>2. i \in 1..Len(listeners)
        BY <2>1 DEF ToldInv, IInv, TypeOK
    <2>3. Manager \notin told
        BY <2>1, <2>2 DEF ToldInv
    <2>4. /\ ~stopRequested /\ due = DuePairs
          /\ ~killed => \A h \in Handles : stopPoints[h].kind = "watch" =>
                            stopPoints[h].checked < clockCount
        BY <2>1, <2>3 DEF DueInv
    <2>5. \A h \in Handles :
              stopPoints[h].kind = "breakpoint" \/ ~killed =>
                  (Fires(stopPoints[h]) <=> DueNow(stopPoints[h]))
        <3> SUFFICES ASSUME NEW h \in Handles,
                            stopPoints[h].kind = "breakpoint" \/ ~killed
                     PROVE  Fires(stopPoints[h]) <=> DueNow(stopPoints[h])
            OBVIOUS
        <3>1. stopPoints[h].kind = "watch" =>
                  stopPoints[h].checked # clockCount
            BY <2>4, <1>0
        <3> QED BY <3>1, <1>0, DueFires
    <2>6. (\E d \in due : d[2] = "breakpoint") => firing # {}
        BY <2>4, <2>5 DEF DuePairs
    <2>7. ~killed => (firing # {} <=> due # {})
        BY <2>4, <2>5 DEF DuePairs
    <2> HIDE DEF firing
    <2> QED BY <2>1, <2>4, <2>6, <2>7 DEF DueInv
<1>4. CASE UNCHANGED vars
    BY <1>4 DEF vars, manager, machine, ghosts, DueInv, DuePairs, DueNow,
                Handles
<1> QED BY <1>1, <1>2, <1>3, <1>4, DeliverySteps

\* All of it holds at the start and in every reachable state.
LEMMA RunInvariant == Spec => []RunInv
<1>1. Init => RunInv
    <2> SUFFICES ASSUME Init PROVE RunInv
        OBVIOUS
    <2>1. Handles = {} /\ listeners = Trackers /\ phase = "rest"
        BY DEF Init, Handles
    <2>2. ListInv
        BY <2>1, EntryFacts DEF ListInv, Listens
    <2> QED BY <2>1, <2>2 DEF RunInv, ToldInv, NotAhead, DueInv
<1>2. IInv /\ RunInv /\ [Next]_vars => RunInv'
    BY ListStep, ToldStep, NotAheadStep, DueStep DEF RunInv
<1> QED BY <1>1, <1>2, Inductive, PTL DEF Spec

(***************************************************************************)
(* The results.                                                            *)
(***************************************************************************)

\* The manager and the stop points keep their types.
THEOREM TypeCorrect == Spec => []TypeOK
<1>1. IInv => TypeOK
    BY DEF IInv
<1> QED BY <1>1, Inductive, PTL

\* A one-shot stop point that has stopped the simulation does not stop it
\* again until it is enabled again, over any sequence of commands and runs.
THEOREM OneShots == Spec => []OneShotIsSpent
<1>1. IInv => OneShotIsSpent
    BY DEF IInv
<1> QED BY <1>1, Inductive, PTL

\* Whatever stopped the simulation and still exists is printed as a cause.
THEOREM CausesAreReported == Spec => []FiredAreReported
<1>1. IInv => FiredAreReported
    BY DEF IInv
<1> QED BY <1>1, Inductive, PTL

\* Whoever deletes the last stop point, the user or an event that is being
\* delivered, the manager is registered exactly while there is one.
THEOREM ListensAsNeeded == Spec => []ListensIffNeeded
<1>1. RunInv => ListensIffNeeded
    <2> SUFFICES ASSUME ListInv PROVE ListensIffNeeded
        BY DEF RunInv
    <2> DEFINE places == {n \in 1..Len(listeners) : listeners[n] = Manager}
    <2>1. CASE Handles = {}
        <3>1. places = {}
            BY <2>1 DEF ListInv, Listens
        <3> QED BY <2>1, <3>1, FS_EmptySet DEF ListensIffNeeded
    <2>2. CASE Handles # {}
        <3>1. PICK n \in places : TRUE
            BY <2>2 DEF ListInv, Listens
        <3>2. places = {n}
            BY <3>1 DEF ListInv
        <3> QED BY <2>2, <3>2, FS_Singleton DEF ListensIffNeeded
    <2> QED BY <2>1, <2>2
<1> QED BY <1>1, RunInvariant, PTL

\* A cycle stops the simulation when a breakpoint is reached; in the first run
\* it stops exactly when a breakpoint is reached or a watched value changed,
\* however many stop points and trackers there are and whatever their order.
THEOREM StopsWhenDue == Spec => []StopsExactlyWhenDue
<1>1. IInv /\ RunInv => StopsExactlyWhenDue
    <2> SUFFICES ASSUME IInv, ListInv, ToldInv, DueInv,
                        phase = "inform", i > Len(listeners)
                 PROVE  /\ (\E d \in due : d[2] = "breakpoint") =>
                               stopRequested
                        /\ ~killed => (stopRequested <=> due # {})
        BY DEF RunInv, StopsExactlyWhenDue
    <2>1. CASE Manager \in told
        BY <2>1 DEF DueInv
    <2>2. CASE Manager \notin told
        <3>1. ToldBut(0)
            BY <2>2 DEF ToldInv
        <3>2. ASSUME NEW n \in 1..Len(listeners), listeners[n] = Manager
              PROVE  FALSE
            <4>1. n < i /\ n # 0
                BY DEF ListInv, IInv, TypeOK
            <4> QED BY <2>2, <3>1, <3>2, <4>1, EntryFacts DEF ToldBut
        <3>3. Handles = {}
            BY <3>2 DEF ListInv, Listens
        <3> QED BY <2>2, <3>3 DEF DueInv, DuePairs
    <2> QED BY <2>1, <2>2
<1> QED BY <1>1, Inductive, RunInvariant, PTL

\* The Informer passes over at most one listener in a delivery, and only when
\* the delivery has deleted the last stop point.
THEOREM MissesOneAtMost == Spec => []MissesAtMostOne
<1>1. IInv /\ RunInv => MissesAtMostOne
    <2> SUFFICES ASSUME IInv, ListInv, ToldInv, phase = "inform",
                        i > Len(listeners), Missed # {}
                 PROVE  Handles = {} /\ Manager \in told
                        /\ Cardinality(Missed) = 1
        BY DEF RunInv, MissesAtMostOne
    <2>1. \A n \in 1..Len(listeners) : n < i /\ n # 0
        BY DEF ListInv, IInv, TypeOK
    <2>2. ~ToldBut(0)
        BY <2>1 DEF ToldBut, Missed
    <2>3. /\ Handles = {} /\ Manager \in told
          /\ \E p \in Nat : ToldBut(p)
        BY <2>2 DEF ToldInv
    <2>4. PICK p \in Nat : ToldBut(p)
        BY <2>3
    <2>5. Missed = {p}
        BY <2>1, <2>4 DEF ToldBut, Missed
    <2> QED BY <2>3, <2>5, FS_Singleton
<1> QED BY <1>1, Inductive, RunInvariant, PTL
==============================================================================
