------------------------------- MODULE FUState -------------------------------
(***************************************************************************)
(* A function unit of the simulated machine (FUState.cc, FUState.icc) and  *)
(* the calls MachineState makes to it in a cycle: the moves of an          *)
(* instruction may trigger it (execute), endClock starts the triggered     *)
(* operation in its executor, advanceClock moves the executors on.         *)
(*                                                                         *)
(* Three shortcuts make the simulator fast and are what can go wrong: an   *)
(* idle unit is not called at all, a unit without active executors returns *)
(* at once, and a unit with one active executor advances only the one that *)
(* was triggered last.  The executors are the delay lines of FUPipelines   *)
(* together with the hasPendingOperations flag each one reports: it must   *)
(* be TRUE while the line carries something and may be TRUE longer (the    *)
(* multi-latency executor reports it one advance longer, the conflict      *)
(* detecting one always, constructors before anything was started).        *)
(*                                                                         *)
(* Three things break the promise of FUPipelines, and disturbed records    *)
(* that one of them has happened: an operation that fails inside           *)
(* advanceClock; a start that throws and leaves the executor with work or  *)
(* with its pending flag set but not counted; and a restart that drops the *)
(* pending flag of an executor with work.                                  *)
(***************************************************************************)
EXTENDS FUPipelines, Integers, FiniteSets

CONSTANTS
    ContextIsEmpty,   \* no operation of the unit keeps a state
    MaxActive         \* bound on activeExecutors

ASSUME OpsAssumption ==
    /\ IsFiniteSet(Ops)
    /\ NoOperation \notin Ops
    /\ Immediate \subseteq Ops
    /\ Detecting \subseteq Ops
ASSUME LatencyAssumption == Latency \in [Ops -> Nat \ {0}]
ASSUME ValuesAssumption == NoResult \notin Values
ASSUME ContextAssumption == ContextIsEmpty \in BOOLEAN
ASSUME ExecListAssumption ==
    /\ ExecList \in Seq(Ops)
    /\ \A op \in Ops : \E i \in DOMAIN ExecList : ExecList[i] = op
ASSUME MaxActiveAssumption == MaxActive \in Nat

\* trigger and nextOperation of FUPipelines are trigger_ and nextOperation_
\* (nextExecutor_ is its executor); NoOperation is their NULL.
VARIABLES
    idle,             \* idle_
    activeExecutors,  \* activeExecutors_
    pending,          \* Ops -> hasPendingOperations() of the executor
    disturbed         \* history: see above

unit == <<trigger, idle, nextOperation, activeExecutors, pending>>
allVars == <<line, port, step, unit, disturbed>>

isIdle == idle /\ ContextIsEmpty

FUInit ==
    /\ Init
    /\ idle = FALSE
    /\ activeExecutors = 0
    /\ pending \in [Ops -> BOOLEAN]
    /\ \A op \in Immediate : ~pending[op]
    /\ disturbed = FALSE

(***************************************************************************)
(* The moves of an instruction.                                            *)
(***************************************************************************)

\* A move to an opcode-setting port: setOperation and setTriggered.
TriggerOperation(op) ==
    /\ step = "execute"
    /\ nextOperation' = op
    /\ trigger' = TRUE
    /\ idle' = FALSE
    /\ step' = "endClock"
    /\ UNCHANGED <<line, port, activeExecutors, pending,
                   disturbed>>

\* A move to the plain triggering port: the operation set last is repeated.
TriggerAgain ==
    /\ step = "execute"
    /\ trigger' = TRUE
    /\ idle' = FALSE
    /\ step' = "endClock"
    /\ UNCHANGED <<line, port, nextOperation, activeExecutors, pending,
                   disturbed>>

\* An instruction that does not trigger this unit.
NotTriggered ==
    /\ step = "execute"
    /\ step' = "endClock"
    /\ UNCHANGED <<line, port, unit, disturbed>>

(***************************************************************************)
(* MachineState::endClockOfAllFUStates and FUState::endClock.              *)
(***************************************************************************)

\* Mutant of EndClockStarts: ++activeExecutors_ is forgotten.
EndClockStartsUncounted(v, isPending) ==
    /\ step = "endClock"
    /\ ~isIdle
    /\ trigger
    /\ nextOperation # NoOperation
    /\ isPending \/ nextOperation \in Immediate
    /\ trigger' = FALSE
    /\ StartLine(nextOperation, v)
    /\ pending' = [pending EXCEPT ![nextOperation] = isPending]
    /\ idle' = FALSE
    /\ step' = "advanceClock"
    /\ UNCHANGED <<nextOperation, activeExecutors, disturbed>>

\* The trigger is consumed and the executor started; an executor that has
\* delivered its result at once need not be pending afterwards.
EndClockStarts(v, isPending) ==
    /\ step = "endClock"
    /\ ~isIdle
    /\ trigger
    /\ nextOperation # NoOperation
    /\ isPending \/ nextOperation \in Immediate
    /\ activeExecutors < MaxActive
    /\ trigger' = FALSE
    /\ StartLine(nextOperation, v)
    /\ pending' = [pending EXCEPT ![nextOperation] = isPending]
    /\ \/ /\ isPending
          /\ activeExecutors' = activeExecutors + 1
          /\ idle' = FALSE
       \/ /\ ~isPending
          /\ UNCHANGED <<activeExecutors, idle>>
    /\ step' = "advanceClock"
    /\ UNCHANGED <<nextOperation, disturbed>>

EndClockNothing ==
    /\ step = "endClock"
    /\ isIdle \/ ~trigger
    /\ step' = "advanceClock"
    /\ UNCHANGED <<line, port, unit, disturbed>>

\* "Tried to trigger FU without operation code": the exception leaves before
\* the trigger is consumed and the cycle is given up.
EndClockThrows ==
    /\ step = "endClock"
    /\ ~isIdle
    /\ trigger
    /\ nextOperation = NoOperation
    /\ step' = "stopped"
    /\ UNCHANGED <<line, port, unit, disturbed>>

\* The executor of op reports pending work it does not have, and which need
\* not have been counted: its constructor sets the flag.  (One that delivers
\* at its start is pending only when it was started and counted.)
PendingForNothing(op) == op \notin Immediate /\ pending[op] /\ ~InFlight(op)

\* startOperation throws before the executor has taken anything: a resource
\* conflict, or an operation that is executed at its start and delivers at
\* once.  The trigger is consumed and nothing is counted; an executor that is
\* pending all the same, as it is from its constructor on, is then taken for
\* the one that was counted last.
EndClockStartThrows ==
    /\ step = "endClock"
    /\ ~isIdle
    /\ trigger
    /\ nextOperation \in Immediate \union Detecting
    /\ trigger' = FALSE
    /\ step' = "stopped"
    /\ disturbed' = (disturbed \/ PendingForNothing(nextOperation))
    /\ UNCHANGED <<line, port, idle, nextOperation, activeExecutors, pending>>

\* Any other executor may be a SimpleOperationExecutor, which executes the
\* operation at its start: when that fails, the operation stays in its cell
\* with whatever result is there, and neither it nor the executor is counted.
EndClockStartFails(v) ==
    /\ step = "endClock"
    /\ ~isIdle
    /\ trigger
    /\ nextOperation \in Ops \ (Immediate \union Detecting)
    /\ trigger' = FALSE
    /\ StartLine(nextOperation, v)
    /\ step' = "stopped"
    /\ disturbed' = TRUE
    /\ UNCHANGED <<idle, nextOperation, activeExecutors, pending>>

\* Another unit's exception ends the cycle before this unit is reached.
CycleAborted ==
    /\ step \in {"endClock", "advanceClock"}
    /\ step' = "stopped"
    /\ UNCHANGED <<line, port, unit, disturbed>>

\* The user resumes the simulation: the instruction is executed again.
ResumeCycle ==
    /\ step = "stopped"
    /\ step' = "execute"
    /\ UNCHANGED <<line, port, unit, disturbed>>

(***************************************************************************)
(* MachineState::advanceClockOfAllFUStates and FUState::advanceClock.      *)
(***************************************************************************)

\* The flags executors may report once those in S have been advanced.  An
\* executor that miscounts its work since a failure may report anything.
PendingAfter(S) ==
    {p \in [Ops -> BOOLEAN] :
        \A op \in Ops :
            IF op \in S
            THEN \/ disturbed
                 \/ (\E k \in DOMAIN line[op] :
                         k > 1 /\ line[op][k] # NoResult) => p[op]
            ELSE p[op] = pending[op]}

\* MachineState does not call a unit that says it is idle.
AdvanceSkipped ==
    /\ step = "advanceClock"
    /\ isIdle
    /\ step' = "execute"
    /\ UNCHANGED <<line, port, unit, disturbed>>

NothingActive == activeExecutors = 0 /\ ContextIsEmpty

AdvanceIdle ==
    /\ step = "advanceClock"
    /\ ~isIdle
    /\ NothingActive
    /\ idle' = TRUE
    /\ step' = "execute"
    /\ UNCHANGED <<line, port, trigger, nextOperation, activeExecutors,
                   pending, disturbed>>

\* Mutant of OnlyNextActive: the shortcut is taken with several active.
OnlyNextActiveLoose ==
    /\ activeExecutors >= 1
    /\ nextOperation # NoOperation
    /\ pending[nextOperation]

\* The special case for sequential code.
OnlyNextActive ==
    /\ activeExecutors = 1
    /\ nextOperation # NoOperation
    /\ pending[nextOperation]

AdvanceOnlyNext ==
    /\ step = "advanceClock"
    /\ ~isIdle
    /\ ~NothingActive
    /\ OnlyNextActive
    /\ AdvanceLines({nextOperation})
    /\ pending' \in PendingAfter({nextOperation})
    /\ activeExecutors' = IF pending'[nextOperation] THEN 1 ELSE 0
    /\ idle' = ~pending'[nextOperation]
    /\ step' = "execute"
    /\ UNCHANGED <<trigger, nextOperation, disturbed>>

\* Mutant of AdvanceAll: the count is adjusted instead of taken anew.
AdvanceAllAdjusts ==
    LET called == {op \in Ops : pending[op]}
    IN  /\ step = "advanceClock"
        /\ ~isIdle
        /\ ~NothingActive
        /\ ~OnlyNextActive
        /\ AdvanceLines(called)
        /\ pending' \in PendingAfter(called)
        /\ activeExecutors' = activeExecutors
                - Cardinality({op \in called : ~pending'[op]})
        /\ idle' = (activeExecutors' = 0 /\ ContextIsEmpty)
        /\ step' = "execute"
        /\ UNCHANGED <<trigger, nextOperation, disturbed>>

AdvanceAll ==
    LET called == {op \in Ops : pending[op]}
    IN  /\ step = "advanceClock"
        /\ ~isIdle
        /\ ~NothingActive
        /\ ~OnlyNextActive
        /\ AdvanceLines(called)
        /\ pending' \in PendingAfter(called)
        /\ activeExecutors' = Cardinality({op \in Ops : pending'[op]})
        /\ idle' = (activeExecutors' = 0 /\ ContextIsEmpty)
        /\ step' = "execute"
        /\ UNCHANGED <<trigger, nextOperation, disturbed>>

\* The operation of the executor at position i fails at its first clock
\* advance.  In the loop over execList_ the executors before it have been
\* advanced and counted, the others neither; in the special case nothing was
\* changed.  What the failing executor itself keeps is in its own module.
AdvanceThrows(i) ==
    LET failing == ExecList[i]
        called == {op \in Ops : pending[op] /\ \E j \in 1..(i - 1) :
                                                   ExecList[j] = op}
    IN  /\ step = "advanceClock"
        /\ ~isIdle
        /\ ~NothingActive
        /\ pending[failing] /\ line[failing][Latency[failing]] # NoResult
        /\ \/ /\ OnlyNextActive
              /\ failing = nextOperation
              /\ UNCHANGED <<line, port, pending, activeExecutors>>
           \/ /\ ~OnlyNextActive
              /\ AdvanceLines(called)
              /\ pending' \in PendingAfter(called)
              /\ activeExecutors' = Cardinality({op \in called : pending'[op]})
        /\ step' = "stopped"
        /\ disturbed' = TRUE
        /\ UNCHANGED <<trigger, idle, nextOperation>>

(***************************************************************************)
(* killSimulation: SimulationController::reset, MachineState::resetAllFUs, *)
(* FUState::reset.  Only the executors are reset, and of these only the    *)
(* multi-latency ones do something: they drop their pending flag.          *)
(***************************************************************************)
Reset ==
    /\ step \in {"execute", "stopped"}
    /\ pending' \in {p \in [Ops -> BOOLEAN] :
                        \A op \in Ops : p[op] => pending[op]}
    /\ disturbed' = (disturbed \/ \E op \in Ops :
                                     InFlight(op) /\ ~pending'[op])
    /\ step' = "execute"
    /\ UNCHANGED <<line, port, trigger, idle, nextOperation, activeExecutors>>

FUNext ==
    \/ \E op \in Ops : TriggerOperation(op)
    \/ TriggerAgain
    \/ NotTriggered
    \/ \E v \in Values, b \in BOOLEAN : EndClockStarts(v, b)
    \/ EndClockNothing
    \/ EndClockThrows
    \/ EndClockStartThrows
    \/ \E v \in Values : EndClockStartFails(v)
    \/ CycleAborted
    \/ ResumeCycle
    \/ AdvanceSkipped
    \/ AdvanceIdle
    \/ AdvanceOnlyNext
    \/ AdvanceAll
    \/ \E i \in DOMAIN ExecList : AdvanceThrows(i)
    \/ Reset

FUSpec == FUInit /\ [][FUNext]_allVars

(***************************************************************************)
(* Properties.                                                             *)
(***************************************************************************)

\* Every variable keeps its type.
TypeOK ==
    /\ line = [op \in Ops |-> line[op]]
    /\ \A op \in Ops :
           line[op] \in [1..Latency[op] -> Values \union {NoResult}]
    /\ port \in Values
    /\ step \in {"execute", "endClock", "advanceClock", "stopped"}
    /\ trigger \in BOOLEAN
    /\ idle \in BOOLEAN
    /\ nextOperation \in Ops \union {NoOperation}
    /\ activeExecutors \in Nat
    /\ pending \in [Ops -> BOOLEAN]
    /\ disturbed \in BOOLEAN

\* The executors a clock advance has to reach: those with work in flight,
\* and the one triggered last while it reports pending work.
Live ==
    {op \in Ops : \/ InFlight(op)
                  \/ op = nextOperation /\ ~trigger /\ pending[op]}

\* activeExecutors_ counts a repeated start of the same executor twice, but
\* until a failure leaves work uncounted it never leaves out an executor that
\* has work: the two early exits of FUState::advanceClock are taken on this
\* count.
ActiveCoversLive == ~disturbed => Cardinality(Live) <= activeExecutors

\* Until a failure leaves work uncounted, a unit MachineState skips, or that
\* returns at once, has nothing in flight: no result is held back because its
\* unit looked idle.
IdleMeansDrained ==
    ~disturbed /\ (isIdle \/ NothingActive) =>
        \A op \in Ops : ~InFlight(op)

\* With its idle flag, active count and single-executor shortcut the unit
\* does what the unoptimised set of delay lines does (FUState::endClock,
\* FUState::advanceClock), over given-up cycles, conflicts and restarts, until
\* one of the three failures that disturbed records.
ImplementsPipelines == Init /\ [][~disturbed' => Next]_vars
==============================================================================
