------------------------------ MODULE StopPoints ------------------------------
(***************************************************************************)
(* Breakpoints and watches: StopPointManager, StopPoint, Breakpoint, Watch *)
(* and the Informer that tells the manager and the trackers of each new    *)
(* instruction.                                                            *)
(*                                                                         *)
(* All of it runs in the simulation thread.  Between cycles the user edits *)
(* the stop points and may kill the simulation.  Each cycle walks the      *)
(* listener list by index; the manager's handler may take the manager out  *)
(* of that list while it is being walked.                                  *)
(***************************************************************************)
EXTENDS Integers, Sequences, FiniteSets

CONSTANTS
    Addresses,    \* instruction addresses
    Values,       \* what the watched expression may evaluate to
    Fails,        \* its evaluation throws
    Trackers,     \* sequence of the <<event, listener>> pairs of the trackers
    MaxHandles,   \* bound on stop points ever added
    MaxIgnore,    \* bound on ignore counts
    MaxCycles,    \* bound on the cycles of a run
    MaxEdits      \* bound on user commands

ASSUME DomainAssumption ==
    Addresses # {} /\ Values # {} /\ Fails \notin Values
ASSUME TrackersAssumption ==
    /\ Trackers \in Seq({"newInstruction", "cycleEnd"} \X STRING)
    /\ \A i \in 1..Len(Trackers) : Trackers[i][2] # "manager"
ASSUME BoundsAssumption ==
    MaxHandles \in Nat /\ MaxIgnore \in Nat /\ MaxCycles \in Nat
    /\ MaxEdits \in Nat

Manager == <<"newInstruction", "manager">>

VARIABLES
    stopPoints,     \* stopPoints_ and handles_: handle -> stop point
    handleCount,    \* handleCount_
    lastStopCycle,  \* lastStopCycle_
    listeners,      \* eventListeners_ of the Informer
    clockCount,     \* clockCount_ of the controller
    pc, result,     \* program counter and value of the watched expression
    holds,          \* conditions hold in this cycle
    stopRequested,  \* a stop point has called prepareToStop in this cycle
    earlier,        \* so has the command, with a reason listed before theirs
    phase, i,       \* what the simulation thread does; the Informer's index
    told,           \* listeners told of this cycle's instruction
    fired,          \* stop points that stopped the simulation in this cycle
    reported,       \* stop points printed as causes of the latest stop
    due,            \* <<handle, kind>> of those that had to stop this cycle
    spent,          \* handles that used up their only or last shot
    killed,         \* the simulation has been restarted
    edits           \* user commands so far

manager == <<stopPoints, handleCount, lastStopCycle>>
machine == <<clockCount, pc, result, holds, killed, earlier>>
ghosts == <<told, fired, due>>
vars == <<manager, listeners, machine, stopRequested, phase, i, ghosts,
          reported, spent, edits>>

Handles == DOMAIN stopPoints

StopPoint ==
    [kind: {"breakpoint", "watch"}, address: Addresses, enabled: BOOLEAN,
     once: BOOLEAN, temporary: BOOLEAN, ignore: 0..MaxIgnore,
     conditional: BOOLEAN, seen: Values, triggered: BOOLEAN,
     checked: 0..MaxCycles]

(***************************************************************************)
(* Informer: one list for all events.                                      *)
(***************************************************************************)
Listens(list, entry) == \E n \in 1..Len(list) : list[n] = entry

registerListener(list, entry) ==
    IF Listens(list, entry) THEN list ELSE Append(list, entry)

\* The first place of the entry is erased; an entry that is not in the list is
\* appended by findListenerSlot and erased again.
unregisterListener(list, entry) ==
    LET slot == CHOOSE n \in 1..Len(list) :
                    /\ list[n] = entry
                    /\ \A m \in 1..(n - 1) : list[m] # entry
    IN  IF Listens(list, entry)
        THEN [n \in 1..(Len(list) - 1) |->
                 IF n < slot THEN list[n] ELSE list[n + 1]]
        ELSE list

(***************************************************************************)
(* A watch compares once per cycle and remembers the outcome and the value *)
(* it has seen; a breakpoint compares addresses.                           *)
(***************************************************************************)
\* Mutant of Checked: a failed evaluation overwrites the value last seen.
CheckedStoresFailure(sp) ==
    IF sp.kind = "breakpoint" \/ sp.checked = clockCount
    THEN sp
    ELSE [sp EXCEPT !.triggered = result \in Values /\ result # sp.seen,
                    !.seen = result,
                    !.checked = clockCount]

Checked(sp) ==
    IF sp.kind = "breakpoint" \/ sp.checked = clockCount
    THEN sp
    ELSE [sp EXCEPT !.triggered = result \in Values /\ result # sp.seen,
                    !.seen = IF result \in Values THEN result ELSE @,
                    !.checked = clockCount]

isTriggered(sp) ==
    IF sp.kind = "breakpoint" THEN pc = sp.address ELSE Checked(sp).triggered

isConditionOK(sp) == sp.conditional => holds

\* Mutant of Fires: the condition is forgotten.
FiresUnconditionally(sp) == sp.enabled /\ isTriggered(sp) /\ sp.ignore = 0

Fires(sp) ==
    sp.enabled /\ isTriggered(sp) /\ sp.ignore = 0 /\ isConditionOK(sp)

\* One stop point in the loop of handleEvent.  The condition of the `if` is
\* evaluated from left to right: a disabled watch does not look.
AfterEvent(sp) ==
    LET c == Checked(sp)
    IN  IF ~sp.enabled THEN sp
        ELSE IF Fires(sp) THEN [c EXCEPT !.enabled = ~sp.once]
        ELSE IF isTriggered(sp) /\ isConditionOK(sp) /\ sp.ignore > 0
             THEN [c EXCEPT !.ignore = @ - 1]
        ELSE c

(***************************************************************************)
(* The manager.                                                            *)
(***************************************************************************)
Without(sps, hs) == [h \in DOMAIN sps \ hs |-> sps[h]]

\* Mutant of ListAfterDeletion: the manager stays registered.
ListAfterDeletionKeepsManager(sps, hs) == listeners

\* Mutant of ListAfterDeletion: every deletion unregisters.
ListAfterDeletionAlways(sps, hs) ==
    IF hs # {} THEN unregisterListener(listeners, Manager) ELSE listeners

\* deleteStopPoint of each handle in hs: the last one unregisters.
ListAfterDeletion(sps, hs) ==
    IF hs # {} /\ DOMAIN sps = {}
    THEN unregisterListener(listeners, Manager)
    ELSE listeners

Init ==
    /\ stopPoints = [h \in {} |-> <<>>]
    /\ handleCount = 0
    /\ lastStopCycle = 0
    /\ listeners = Trackers
    /\ clockCount = 0
    /\ pc \in Addresses
    /\ result \in Values
    /\ holds = TRUE
    /\ stopRequested = FALSE /\ earlier = FALSE
    /\ phase = "rest" /\ i = 0
    /\ told = {} /\ fired = {} /\ due = {} /\ reported = {} /\ spent = {}
    /\ killed = FALSE
    /\ edits = 0

\* No command of the simulation is running.
AtRest == phase \in {"rest", "finished"}

Command ==
    /\ AtRest
    /\ edits < MaxEdits
    /\ edits' = edits + 1

\* What the constructors and the commands make, enabled.
NewStopPoint(kind, address, temporary, conditional, seen) ==
    [kind |-> kind, address |-> address, enabled |-> TRUE, once |-> FALSE,
     temporary |-> temporary, ignore |-> 0, conditional |-> conditional,
     seen |-> seen, triggered |-> FALSE, checked |-> 0]

add(kind, address, temporary, conditional, seen) ==
    /\ Command
    /\ handleCount < MaxHandles
    /\ handleCount' = handleCount + 1
    /\ stopPoints' = [h \in Handles \union {handleCount'} |->
           IF h = handleCount'
           THEN NewStopPoint(kind, address, temporary, conditional, seen)
           ELSE stopPoints[h]]
    /\ listeners' = IF Cardinality(Handles) = 0
                    THEN registerListener(listeners, Manager)
                    ELSE listeners
    /\ UNCHANGED <<lastStopCycle, machine, stopRequested, phase, i, ghosts,
                   reported, spent>>

\* bp, tbp and watch.  The watch command evaluates its expression first and
\* adds nothing when that throws.
BPCommand(address, temporary, conditional) ==
    add("breakpoint", address, temporary, conditional,
        CHOOSE v \in Values : TRUE)

WatchCommand ==
    /\ result \in Values
    /\ add("watch", CHOOSE a \in Addresses : TRUE, FALSE, FALSE, result)

deleteStopPoint(h) ==
    /\ Command
    /\ h \in Handles
    /\ stopPoints' = Without(stopPoints, {h})
    /\ listeners' = ListAfterDeletion(stopPoints', {h})
    /\ UNCHANGED <<handleCount, lastStopCycle, machine, stopRequested, phase,
                   i, ghosts, reported, spent>>

\* deleteAll deletes handle after handle; the last one unregisters.
deleteAll ==
    /\ Command
    /\ Handles # {}
    /\ stopPoints' = Without(stopPoints, Handles)
    /\ listeners' = ListAfterDeletion(stopPoints', Handles)
    /\ UNCHANGED <<handleCount, lastStopCycle, machine, stopRequested, phase,
                   i, ghosts, reported, spent>>

\* An edit of one stop point; enabling it gives it a new shot.
Edit(h, sp) ==
    /\ Command
    /\ stopPoints' = [stopPoints EXCEPT ![h] = sp]
    /\ spent' = IF sp.enabled /\ ~stopPoints[h].enabled
                THEN spent \ {h} ELSE spent
    /\ UNCHANGED <<handleCount, lastStopCycle, listeners, machine,
                   stopRequested, phase, i, ghosts, reported>>

enable(h) == Edit(h, [stopPoints[h] EXCEPT !.enabled = TRUE])

enableOnceAndDelete(h) ==
    Edit(h, [stopPoints[h] EXCEPT !.enabled = TRUE, !.temporary = TRUE])

enableOnceAndDisable(h) ==
    Edit(h, [stopPoints[h] EXCEPT !.enabled = TRUE, !.once = TRUE])

disable(h) == Edit(h, [stopPoints[h] EXCEPT !.enabled = FALSE])

setIgnore(h) ==
    \E n \in 0..MaxIgnore : Edit(h, [stopPoints[h] EXCEPT !.ignore = n])

setCondition(h) == Edit(h, [stopPoints[h] EXCEPT !.conditional = TRUE])

removeCondition(h) == Edit(h, [stopPoints[h] EXCEPT !.conditional = FALSE])

\* killSimulation: the clock starts again and the stop points stay.  Every
\* tracker takes itself out of the list and is made anew, so that they come
\* behind the manager, the only other listener, if it has stayed.
killSimulation ==
    LET Stay == IF Listens(listeners, Manager) THEN <<Manager>> ELSE <<>>
    IN  /\ AtRest /\ phase' = "rest"
        /\ clockCount' = 0
        /\ pc' \in Addresses
        /\ result' \in Values
        /\ holds' = TRUE
        /\ killed' = TRUE
        /\ listeners' = Stay \o Trackers
        /\ stopRequested' = FALSE /\ earlier' = FALSE
        /\ told' = {} /\ fired' = {} /\ due' = {} /\ reported' = {}
        /\ UNCHANGED <<manager, i, spent, edits>>

(***************************************************************************)
(* A cycle: the machine moves on and the Informer walks its list.          *)
(***************************************************************************)
\* What had to stop the simulation: the machine is where a breakpoint stands,
\* or an expression differs from the value its watch last looked at.
Due(sp) ==
    /\ sp.enabled
    /\ sp.ignore = 0
    /\ sp.conditional => holds'
    /\ \/ sp.kind = "breakpoint" /\ pc' = sp.address
       \/ sp.kind = "watch" /\ result' \in Values \ {sp.seen}

\* The cycle in which the program finishes tells nobody.
simulateCycle ==
    /\ phase = "rest"
    /\ clockCount < MaxCycles
    /\ clockCount' = clockCount + 1
    /\ pc' \in Addresses
    /\ result' \in Values \union {Fails}
    /\ holds' \in BOOLEAN
    /\ stopRequested' = FALSE /\ earlier' = FALSE
    /\ \/ phase' = "inform" /\ i' = 1
       \/ phase' = "finished" /\ UNCHANGED i
    /\ told' = {} /\ fired' = {} /\ reported' = {}
    /\ due' = {<<h, stopPoints[h].kind>> : h \in {g \in Handles :
                                                    Due(stopPoints[g])}}
    /\ UNCHANGED <<manager, listeners, killed, spent, edits>>

\* Mutant of handleEvent: temporary stop points are not deleted.
handleEventKeepsTemporary ==
    LET firing == {h \in Handles : Fires(stopPoints[h])}
    IN  /\ stopPoints' = [h \in Handles |-> AfterEvent(stopPoints[h])]
        /\ UNCHANGED listeners
        /\ stopRequested' = (stopRequested \/ firing # {})
        /\ lastStopCycle' = IF firing # {} THEN clockCount ELSE lastStopCycle
        /\ fired' = fired \union firing
        /\ spent' = spent \union {h \in firing : stopPoints[h].once
                                                 \/ stopPoints[h].temporary}

\* StopPointManager::handleEvent: the temporary ones that fire are deleted
\* after the loop, and the last deletion unregisters the manager.
handleEvent ==
    LET firing == {h \in Handles : Fires(stopPoints[h])}
        deleted == {h \in firing : stopPoints[h].temporary}
        after == [h \in Handles |-> AfterEvent(stopPoints[h])]
    IN  /\ stopPoints' = Without(after, deleted)
        /\ listeners' = ListAfterDeletion(stopPoints', deleted)
        /\ stopRequested' = (stopRequested \/ firing # {})
        /\ lastStopCycle' = IF firing # {} THEN clockCount ELSE lastStopCycle
        /\ fired' = fired \union firing
        /\ spent' = spent \union {h \in firing : stopPoints[h].once
                                                 \/ stopPoints[h].temporary}

\* One turn of the loop of Informer::handleEvent.
InformManager ==
    /\ phase = "inform" /\ i <= Len(listeners)
    /\ listeners[i] = Manager
    /\ handleEvent
    /\ told' = told \union {Manager}
    /\ i' = i + 1
    /\ UNCHANGED <<handleCount, machine, phase, due, reported, edits>>

InformTracker ==
    /\ phase = "inform" /\ i <= Len(listeners)
    /\ listeners[i] # Manager
    /\ told' = IF listeners[i][1] = "newInstruction"
               THEN told \union {listeners[i]} ELSE told
    /\ i' = i + 1
    /\ UNCHANGED <<manager, listeners, machine, stopRequested, phase, fired,
                   due, reported, spent, edits>>

\* The last cycle of a stepi, nexti or until, or of a timeout, adds a reason
\* of its own, which the enumeration StopReason lists before SRE_BREAKPOINT.
InformEnds ==
    /\ phase = "inform" /\ i > Len(listeners)
    /\ phase' = IF stopRequested THEN "report" ELSE "rest"
    /\ earlier' \in {FALSE, stopRequested}
    /\ i' = 0
    /\ UNCHANGED <<manager, listeners, clockCount, pc, result, holds, killed,
                   stopRequested, ghosts, reported, spent, edits>>

\* Mutant of printStopReasons: the enabled stop points are asked.
printStopReasonsOfEnabled ==
    /\ phase = "report"
    /\ phase' = "rest"
    /\ reported' = {h \in Handles : /\ stopPoints[h].enabled /\ ~earlier
                                    /\ isTriggered(stopPoints[h])}
    /\ UNCHANGED <<manager, listeners, machine, stopRequested, i, ghosts,
                   spent, edits>>

\* The command that ran the simulation prints the stop causing stop points;
\* asking a watch makes it look.  SimulatorFrontend::stopReasonCount is a
\* truth value: no reason but the first of the set is printed.
printStopReasons ==
    /\ phase = "report"
    /\ phase' = "rest"
    /\ IF lastStopCycle = clockCount /\ ~earlier
       THEN /\ reported' = {h \in Handles : isTriggered(stopPoints[h])}
            /\ stopPoints' = [h \in Handles |-> Checked(stopPoints[h])]
       ELSE UNCHANGED <<reported, stopPoints>>
    /\ UNCHANGED <<handleCount, lastStopCycle, listeners, machine,
                   stopRequested, i, ghosts, spent, edits>>

Next ==
    \/ \E a \in Addresses, t, c \in BOOLEAN : BPCommand(a, t, c)
    \/ WatchCommand
    \/ \E h \in Handles :
          \/ deleteStopPoint(h)
          \/ enable(h)
          \/ enableOnceAndDelete(h)
          \/ enableOnceAndDisable(h)
          \/ disable(h)
          \/ setIgnore(h)
          \/ setCondition(h)
          \/ removeCondition(h)
    \/ deleteAll
    \/ killSimulation
    \/ simulateCycle
    \/ InformManager
    \/ InformTracker
    \/ InformEnds
    \/ printStopReasons

Spec == Init /\ [][Next]_vars

(***************************************************************************)
(* Properties.                                                             *)
(***************************************************************************)

\* The variables keep their types.
TypeOK ==
    /\ handleCount \in 0..MaxHandles
    /\ Handles \subseteq 1..handleCount
    /\ \A h \in Handles : stopPoints[h] \in StopPoint
    /\ lastStopCycle \in 0..MaxCycles
    /\ clockCount \in 0..MaxCycles
    /\ pc \in Addresses
    /\ result \in Values \union {Fails}
    /\ holds \in BOOLEAN /\ stopRequested \in BOOLEAN /\ killed \in BOOLEAN
    /\ earlier \in BOOLEAN
    /\ phase \in {"rest", "inform", "report", "finished"}
    /\ i \in Nat
    /\ fired \subseteq 1..handleCount /\ reported \subseteq 1..handleCount
    /\ spent \subseteq 1..handleCount
    /\ edits \in 0..MaxEdits

\* Between deliveries the manager is in the listener list exactly once if
\* there is a stop point and not at all otherwise, whoever deleted the last
\* one: the user, or an event that was being delivered
\* (StopPointManager::add, deleteStopPoint).
ListensIffNeeded ==
    phase # "inform" =>
        Cardinality({n \in 1..Len(listeners) : listeners[n] = Manager})
            = IF Handles = {} THEN 0 ELSE 1

\* A temporary stop point, or one enabled once, that has stopped the
\* simulation is deleted or disabled, until the user enables it again; its
\* handle is never given to another stop point (StopPointManager::handleEvent).
OneShotIsSpent == \A h \in spent : h \notin Handles \/ ~stopPoints[h].enabled

\* A cycle that reaches a breakpoint stops the simulation, in any run; and in
\* the first run a cycle stops exactly when some breakpoint is reached or a
\* watched expression has changed, wherever the manager is in the list.
StopsExactlyWhenDue ==
    (phase = "inform" /\ i > Len(listeners)) =>
        /\ (\E d \in due : d[2] = "breakpoint") => stopRequested
        /\ ~killed => (stopRequested <=> due # {})

\* When a breakpoint is the reason that is printed, every stop point that
\* stopped the simulation and still exists is printed as a cause, although
\* the causes are computed again after the stop
\* (StopPointManager::stopCausingStopPoint).
FiredAreReported ==
    (phase = "rest" /\ stopRequested /\ ~earlier) =>
        fired \intersect Handles \subseteq reported

\* The listeners of the event that the loop of Informer::handleEvent has
\* passed over.
Missed ==
    {n \in 1..Len(listeners) : /\ listeners[n][1] = "newInstruction"
                               /\ listeners[n] \notin told}

\* A delivery passes over a listener only when the last stop point was
\* deleted by it, and then over one.
MissesAtMostOne ==
    (phase = "inform" /\ i > Len(listeners) /\ Missed # {}) =>
        Handles = {} /\ Manager \in told /\ Cardinality(Missed) = 1

\* What Informer::handleEvent promises: all listeners of the event are told.
InformsEveryListener ==
    (phase = "inform" /\ i > Len(listeners)) => Missed = {}
==============================================================================
