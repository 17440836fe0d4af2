------------------------------ MODULE GuardState ------------------------------
(***************************************************************************)
(* A guard with latency: a ring of the values its register had at the last *)
(* GuardLatency clock advances, read at the place written next.            *)
(***************************************************************************)
EXTENDS Integers

CONSTANT GuardLatency   \* the guard latency of the machine, not 0

ASSUME GuardLatencyAssumption == GuardLatency \in Nat \ {0}

VARIABLES
    history,    \* history_
    position    \* position_

guard == <<history, position>>

Positions == 0..(GuardLatency - 1)

\* GuardState::value.
GuardValue == history[position]

GuardInit(target) ==
    /\ history = [p \in Positions |-> target]
    /\ position = 0

\* Mutant of GuardAdvance: the ring is one element longer than it is.
GuardAdvanceWrapsLate(target) ==
    /\ history' = [p \in Positions \union {position} |->
                      IF p = position THEN target ELSE history[p]]
    /\ position' = IF position + 1 > GuardLatency THEN 0 ELSE position + 1

\* Mutant of GuardAdvance: the value is stored at the place read next.
GuardAdvanceStoresLate(target) ==
    LET next == IF position + 1 >= GuardLatency THEN 0 ELSE position + 1
    IN  /\ history' = [history EXCEPT ![next] = target]
        /\ position' = next

\* GuardState::advanceClock.
GuardAdvance(target) ==
    /\ history' = [history EXCEPT ![position] = target]
    /\ position' = IF position + 1 >= GuardLatency THEN 0 ELSE position + 1
==============================================================================
