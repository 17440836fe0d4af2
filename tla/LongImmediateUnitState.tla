------------------------ MODULE LongImmediateUnitState ------------------------
(***************************************************************************)
(* A long immediate unit: values travel in a queue with the time of their  *)
(* arrival, and the head of the queue arrives when the timer, an unsigned  *)
(* counter that wraps around, equals that time.                            *)
(***************************************************************************)
EXTENDS Integers, Sequences

CONSTANTS
    ImmRegs,        \* registers of the unit
    ImmLatency,     \* latency_
    TimerModulus    \* 2^w of the unsigned timer

ASSUME ImmediateAssumption ==
    /\ ImmLatency \in Nat \ {0}
    /\ TimerModulus \in Nat
    /\ ImmLatency < TimerModulus

VARIABLES
    values,    \* values_
    queue,     \* queue_
    timer      \* timer_

immediates == <<values, queue, timer>>

Plus(t, n) == (t + n) % TimerModulus

ImmediatesInit ==
    /\ values = [r \in ImmRegs |-> 0]
    /\ queue = <<>>
    /\ timer = 0

\* setRegisterValue for each <<register, value>> of a sequence of updates.
setRegisterValues(updates) ==
    /\ queue' = queue \o [k \in 1..Len(updates) |->
                             [index |-> updates[k][1],
                              value |-> updates[k][2],
                              arrival |-> Plus(timer, ImmLatency)]]
    /\ UNCHANGED <<values, timer>>

\* Mutant of ArrivesAt: the queue is compared with the timer before it ticks.
ArrivesAtOldTime(k) == \A j \in 1..k : queue[j].arrival = timer

\* The first k elements of the queue leave it when the timer ticks.
ArrivesAt(k) == \A j \in 1..k : queue[j].arrival = Plus(timer, 1)

\* Mutant of ImmediatesAdvance: at most one element leaves at a time.
ImmediatesAdvanceOne ==
    \E n \in 0..1 :
        /\ n <= Len(queue) /\ ArrivesAt(n)
        /\ n = 0 /\ queue # <<>> => ~ArrivesAt(1)
        /\ timer' = Plus(timer, 1)
        /\ queue' = SubSeq(queue, n + 1, Len(queue))
        /\ values' = IF n = 0 THEN values
                     ELSE [values EXCEPT ![queue[1].index] = queue[1].value]

\* LongImmediateUnitState::advanceClock.
ImmediatesAdvance ==
    \E n \in 0..Len(queue) :
        /\ ArrivesAt(n)
        /\ n < Len(queue) => ~ArrivesAt(n + 1)
        /\ timer' = Plus(timer, 1)
        /\ queue' = SubSeq(queue, n + 1, Len(queue))
        /\ values' = [r \in ImmRegs |->
                LET Last == {k \in 1..n :
                                /\ queue[k].index = r
                                /\ \A j \in (k + 1)..n : queue[j].index # r}
                IN  IF Last = {} THEN values[r]
                    ELSE queue[CHOOSE k \in Last : TRUE].value]
==============================================================================
