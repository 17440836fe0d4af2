----------------------------- MODULE FUPipelines -----------------------------
(***************************************************************************)
(* What a simulated function unit promises: every operation started in it  *)
(* travels down the delay line of its operation, one stage in every clock  *)
(* advance, whatever else the unit executes.  When two results come out in *)
(* the same advance the one later in ExecList is left in the output port.  *)
(* There are no idle flags, executor counts or shortcuts here.             *)
(***************************************************************************)
EXTENDS Naturals, Sequences

CONSTANTS
    Ops,        \* operations of the unit, one executor each
    ExecList,   \* sequence of Ops: the order in which executors are visited
    Latency,    \* Ops -> clock advances from start to result
    Immediate,  \* operations whose executor writes the port at the start
    Detecting,  \* operations a conflict detector may stop at the start
    Values,
    NoResult,
    NoOperation \* no operation was set yet

VARIABLES
    line,           \* line[op][k]: result of op that is k advances away
    port,           \* value of the unit's output port
    trigger,        \* an operation was triggered in this cycle
    nextOperation,  \* the operation set last
    step            \* what the cycle does next

Shifted(l) ==
    [k \in DOMAIN l |-> IF k + 1 \in DOMAIN l THEN l[k + 1] ELSE NoResult]

InFlight(op) == \E k \in DOMAIN line[op] : line[op][k] # NoResult

\* Positions in ExecList of the operations of S whose result comes out now.
Arriving(S) ==
    {i \in DOMAIN ExecList :
        ExecList[i] \in S /\ line[ExecList[i]][1] # NoResult}

\* The port after the executors of the operations in S were advanced.
PortAfter(S) ==
    IF Arriving(S) = {} THEN port
    ELSE LET last == CHOOSE i \in Arriving(S) :
                        \A j \in Arriving(S) : j <= i
         IN  line[ExecList[last]][1]

AdvanceLines(S) ==
    /\ port' = PortAfter(S)
    /\ line' = [op \in Ops |->
                   IF op \in S THEN Shifted(line[op]) ELSE line[op]]

\* An operation with the result v is started.
StartLine(op, v) ==
    \/ /\ op \in Immediate
       /\ port' = v
       /\ UNCHANGED line
    \/ /\ op \notin Immediate
       /\ line' = [line EXCEPT ![op][Latency[op]] = v]
       /\ UNCHANGED port

EmptyLines == [op \in Ops |-> [k \in 1..Latency[op] |-> NoResult]]

(***************************************************************************)
(* The abstract specification.                                             *)
(***************************************************************************)
vars == <<line, port, trigger, nextOperation, step>>

Init ==
    /\ line = EmptyLines
    /\ port \in Values
    /\ trigger = FALSE
    /\ nextOperation = NoOperation
    /\ step = "execute"

\* The moves of the instruction trigger op, or nothing.
Execute(op, triggers) ==
    /\ step = "execute"
    /\ trigger' = (trigger \/ triggers)
    /\ nextOperation' = IF triggers THEN op ELSE nextOperation
    /\ step' = "endClock"
    /\ UNCHANGED <<line, port>>

Start(v) ==
    /\ step = "endClock"
    /\ trigger
    /\ nextOperation # NoOperation
    /\ StartLine(nextOperation, v)
    /\ trigger' = FALSE
    /\ step' = "advanceClock"
    /\ UNCHANGED nextOperation

NoStart ==
    /\ step = "endClock"
    /\ ~trigger
    /\ step' = "advanceClock"
    /\ UNCHANGED <<line, port, trigger, nextOperation>>

Advance ==
    /\ step = "advanceClock"
    /\ AdvanceLines(Ops)
    /\ step' = "execute"
    /\ UNCHANGED <<trigger, nextOperation>>

\* A runtime error ends the cycle, perhaps that of the triggered operation;
\* the user may resume at the same instruction.
Abandon ==
    /\ step \in {"endClock", "advanceClock"}
    /\ trigger' \in {FALSE, trigger}
    /\ step' = "stopped"
    /\ UNCHANGED <<line, port, nextOperation>>

Resume ==
    /\ step = "stopped"
    /\ step' = "execute"
    /\ UNCHANGED <<line, port, trigger, nextOperation>>

Next ==
    \/ \E op \in Ops \union {nextOperation}, b \in BOOLEAN : Execute(op, b)
    \/ \E v \in Values : Start(v)
    \/ NoStart
    \/ Advance
    \/ Abandon
    \/ Resume

Spec == Init /\ [][Next]_vars
==============================================================================
