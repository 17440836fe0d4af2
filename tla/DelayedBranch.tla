---------------------------- MODULE DelayedBranch ----------------------------
(***************************************************************************)
(* What the global control unit promises: the sequence of instruction      *)
(* addresses a program executes.  A branch triggered by an instruction     *)
(* takes effect after the DelaySlots instructions that follow it, these    *)
(* being executed whatever happens, and a call leaves the address of the   *)
(* instruction after its delay slots in the return address register.       *)
(***************************************************************************)
EXTENDS ControlOperations

CONSTANTS
    DelaySlots,   \* instructions executed between a branch and its target
    Entry         \* address of the first instruction

VARIABLES
    upcoming,       \* upcoming[i]: the address executed i instructions later,
                    \* if no further branch is triggered
    ra,             \* the return address register
    trigger,        \* an operation was triggered in this cycle
    nextOperation,  \* the operation set last
    target,         \* the operand that says where it goes
    step            \* what the cycle does next

branch == <<trigger, nextOperation, target>>
vars == <<upcoming, ra, branch, step>>

\* The farthest address a branch triggered now can change.
Horizon == DelaySlots + 1

SequentialFrom(a) == [i \in 0..Horizon |-> Plus(a, i)]

Init ==
    /\ upcoming = SequentialFrom(Entry)
    /\ ra = 0
    /\ trigger = FALSE
    /\ step = "execute"

\* The moves of the instruction trigger an operation, ...
Triggers(op, t) ==
    /\ step = "execute"
    /\ trigger' = TRUE
    /\ nextOperation' = op
    /\ target' = t
    /\ step' = "endClock"
    /\ UNCHANGED <<upcoming, ra>>

\* ... or nothing.
TriggersNothing ==
    /\ step = "execute"
    /\ step' = "endClock"
    /\ UNCHANGED <<upcoming, ra, branch>>

Branch ==
    LET goal == IF nextOperation \in Relative THEN Plus(upcoming[0], target)
                ELSE target
    IN  /\ step = "endClock"
        /\ trigger
        /\ nextOperation \notin NeverBranch
        /\ upcoming' = [upcoming EXCEPT ![Horizon] = goal]
        /\ ra' = IF nextOperation \in Calls THEN Plus(upcoming[DelaySlots], 1)
                 ELSE ra
        /\ trigger' = FALSE
        /\ step' = "advanceClock"
        /\ UNCHANGED <<nextOperation, target>>

\* Nothing was triggered, or an operation that does not branch.
NoBranch ==
    /\ step = "endClock"
    /\ ~trigger \/ nextOperation \in MayNotBranch
    /\ trigger' = FALSE
    /\ step' = "advanceClock"
    /\ UNCHANGED <<upcoming, ra, nextOperation, target>>

\* The instruction is done: everything comes one instruction closer.
Advance ==
    /\ step = "advanceClock"
    /\ upcoming' = [i \in 0..Horizon |->
                       IF i = Horizon THEN Plus(upcoming[Horizon], 1)
                       ELSE upcoming[i + 1]]
    /\ step' = "execute"
    /\ UNCHANGED <<ra, branch>>

\* A runtime error stops the simulation; it may be that the operation is the
\* error.  The user may resume at the same instruction.
Abandon ==
    /\ step \in {"endClock", "advanceClock"}
    /\ trigger' \in {FALSE, trigger}
    /\ step' = "stopped"
    /\ UNCHANGED <<upcoming, ra, nextOperation, target>>

Resume ==
    /\ step = "stopped"
    /\ step' = "execute"
    /\ UNCHANGED <<upcoming, ra, branch>>

\* The simulation is killed.  Nothing is promised here of a trigger that was
\* set and not executed.
Restart ==
    /\ step \in {"execute", "stopped"}
    /\ upcoming' = SequentialFrom(Entry)
    /\ ra' = 0
    /\ step' = "execute"
    /\ UNCHANGED branch

Next ==
    \/ \E op \in AllOperations, t \in Addresses : Triggers(op, t)
    \/ TriggersNothing
    \/ Branch
    \/ NoBranch
    \/ Advance
    \/ Abandon
    \/ Resume
    \/ Restart

Spec == Init /\ [][Next]_vars
==============================================================================
