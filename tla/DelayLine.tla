------------------------------ MODULE DelayLine ------------------------------
(***************************************************************************)
(* What an operation executor of a function unit promises to the rest of   *)
(* the simulated machine, whatever data structure it is built from: a      *)
(* result is seen in the output port exactly Latency clock advances after  *)
(* the cycle that started the operation, results keep their order, and the *)
(* port holds its value in between.                                        *)
(*                                                                         *)
(* A cycle has two halves, as MachineState drives them: endClock, in which *)
(* at most one operation is started, and advanceClock.                     *)
(***************************************************************************)
EXTENDS Naturals

CONSTANTS
    Latency,   \* clock advances between the start and the visible result
    Values,    \* values an operation can produce
    NoResult   \* marks a stage of the line that carries nothing

VARIABLES
    line,      \* line[k]: the result that is k clock advances away
    port,      \* the value in the output port
    half       \* the half of the cycle that comes next

vars == <<line, port, half>>

Halves == {"endClock", "advanceClock", "stopped"}

TypeOK ==
    /\ line \in [1..Latency -> Values \union {NoResult}]
    /\ port \in Values
    /\ half \in Halves

Init ==
    /\ line = [k \in 1..Latency |-> NoResult]
    /\ port \in Values
    /\ half = "endClock"

\* An operation whose result is v enters the far end of the line.
Start(v) ==
    /\ half = "endClock"
    /\ line' = [line EXCEPT ![Latency] = v]
    /\ half' = "advanceClock"
    /\ UNCHANGED port

\* A cycle in which this operation is not triggered.
NoStart ==
    /\ half = "endClock"
    /\ half' = "advanceClock"
    /\ UNCHANGED <<line, port>>

\* Everything moves one stage; what leaves the line is seen in the port.
Advance ==
    /\ half = "advanceClock"
    /\ port' = IF line[1] = NoResult THEN port ELSE line[1]
    /\ line' = [k \in 1..Latency |->
                    IF k = Latency THEN NoResult ELSE line[k + 1]]
    /\ half' = "endClock"

\* The cycle is given up between its halves because something else in the
\* machine failed, and the simulation stops.
Abandon ==
    /\ half = "advanceClock"
    /\ half' = "stopped"
    /\ UNCHANGED <<line, port>>

\* The same instruction is executed again.
Resume ==
    /\ half = "stopped"
    /\ half' = "endClock"
    /\ UNCHANGED <<line, port>>

Next ==
    \/ \E v \in Values : Start(v)
    \/ NoStart
    \/ Advance
    \/ Abandon
    \/ Resume

Spec == Init /\ [][Next]_vars
==============================================================================
