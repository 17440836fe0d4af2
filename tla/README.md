# Verification of the OpenASIP instruction-set simulator

OpenASIP is a tool set for designing processors with a transport triggered
architecture (TTA): a designer, a retargetable compiler, a processor generator
and a cycle-accurate simulator. The tools share data models (machines,
programs, operations) and are, with one exception, sequential batch programs.
The exception is the simulator (`openasip/src/applibs/Simulator`, used by
`ttasim` and by the GUI `Proxim`). It keeps state over a whole session, it is
stopped, resumed and restarted by a user while other threads are running, and
it takes shortcuts for speed whose correctness rests on invariants that are
written down nowhere. It is what this project models.

Paths below are relative to `openasip/src/applibs/Simulator` unless they say
otherwise.

## Inventory

| Component | State | Operations | What makes it correct |
|---|---|---|---|
| `SimpleOperationExecutor` | ring of cells, `nextSlot_`, `pendingOperations_`, `hasPendingOperations_` | `startOperation`, `advanceClock` | a result reaches the port exactly `latency` advances after its start; the count covers the ring |
| `MultiLatencyOperationExecutor`, `ExecutingOperation` | pool of executing operations, `freeExecOp_` | `startOperation`, `advanceClock`, `reset` | a start never overwrites an operation in flight; every output operand has its own latency |
| `FUState` and its executors | `trigger_`, `idle_`, `nextOperation_`, `activeExecutors_` | `setTriggered`, `setOperation`, `endClock`, `advanceClock`, `reset` | skipping an idle unit, or all but one executor, changes nothing that can be seen |
| `GCUState`, `TransportPipeline`, control operations (`opset/base/base.cc`) | program counter, pending target and countdown, return address, state of the hardware loop | jumps, calls, conditional branches, `APC`, `HWLOOP`, `advanceClock`, `reset` | the address sequence of delayed branches; a loop repeats its body and nothing else |
| `SimulationController`, `TTASimulationController` | `state_`, `stopRequested_`, `stopReasons_`, `clockCount_` | `run`, `runUntil`, `step`, `next`, `reset`, `prepareToStop` | a stop request is honoured, and explained |
| `SimulatorFrontend`, command classes | the timeout thread, its mutex and flag | commands, `prepareToStop`, `killSimulation` | a timeout marks its own command only; commands end |
| `ProximSimulationThread` (`codesign/Proxim`) | none of its own | `requestStop`, `killSimulation` from the GUI thread | a killed simulation ends |
| stop points, `Informer` (`tools`) | stop points, `handleCount_`, `lastStopCycle_`, listener list | add, delete, enable, once, ignore, condition, `handleEvent` | the simulation stops exactly when a stop point is due, one-shot stop points fire once, causes are reported, listeners are told |
| memories, `MemorySystem` (`base/memory`) | contents, requests of the cycle | read, write, `advanceClock`, `reset` | stores are read back after the commit, in both byte orders |
| guards, long immediates | `history_`, `position_`; `queue_`, `timer_`, `values_` | `advanceClock`, `setRegisterValue` | values are seen after exactly their latency |
| `ExecutableInstruction`, `ExecutableMove`, registers, buses | register and bus values, `squashed_` | `execute` | the moves of an instruction are a parallel assignment |
| conflict detectors (`applibs/mach`, `applibs/FSA`, `base/mach`) | reserved resources, collision matrix, automaton state | `issueOperation`, `advanceCycle`, `reset` | an operation is rejected if and only if it overlaps an accepted one |
| trackers, compiled simulation, remote controllers | statistics; generated code; external hardware | | not modelled |

A simulated cycle (`SimulationController::simulateCycle`) is what connects
them: for every core the instruction's moves are executed (they trigger
units), then `endClock` of all units starts the triggered operations, then
the program counter is incremented and `advanceClock` moves every executor,
the control unit, guards and immediates. A runtime error is an exception that
leaves this sequence anywhere and is caught at its end; the state is whatever
it was at that moment, and the user may resume (which executes the same
instruction again) or kill and restart the simulation on the same objects.

What is hard, and hard to test:

* errors in the middle of a cycle followed by a resume: starts are repeated,
  counters are half updated;
* restarts on objects that are reset incompletely;
* counts, flags and remembered pointers that stand in for the data they
  summarise (`pendingOperations_`, `activeExecutors_`, `idle_`, `freeExecOp_`);
* a list that is walked while a listener takes itself out of it;
* rings, timers and unsigned comparisons at the point where they wrap around;
* the order of clearing and setting `state_`, `stopRequested_` and
  `stopReasons_` against a Ctrl-C handler, a GUI thread and a timeout thread.

`PROJECT.json` lists each such place with its line under `hazards`, and all
parts of the repository, modelled or not, under `components`.

## Modules

| Module | Models | Checked against |
|---|---|---|
| `SimpleOperationExecutor` | the ring-buffer executor | `DelayLine` |
| `MultiLatencyOperationExecutor` | the pool executor | one `DelayLine` per output |
| `FUState` | a function unit and its shortcuts | `FUPipelines` |
| `GCUState`, `ControlOperations` | the global control unit and its operations | `DelayedBranch` |
| `ConflictDetectors` | the four resource conflict detectors | the overlap of pipelines |
| `StopPoints` | breakpoints, watches, the `Informer` | its own properties |
| `Memory`, `GuardState`, `LongImmediateUnitState` | parts of a machine, without a next-state relation of their own | |
| `MachineCycle` | one machine cycle, composed of these three | `DelayLine` (immediates), its own properties |
| `SimulationControl` | simulation thread, timeout thread, user | its own properties |
| `ProximSimulation` | a kill from the GUI thread, on top of `SimulationControl` | its own property |
| `...Proofs` | theorems about the module of the same name | |
| `MC...` | instances for TLC | |

State and actions follow the code: a variable has the name of the member
without the trailing underscore, and an action is a whole method or the part
of it between two points where something else can intervene. `map` in
`PROJECT.json` gives the lines of every definition.

**Executors.** An operation is the value that `simulateTrigger` computes for
it. A cycle has the halves `endClock` and `advanceClock`; `half` says which
comes next. `CycleAborted` leaves a cycle between its halves (`"stopped"`) and
`Resume` begins it again. `DelayLine` is what an executor promises: a line of
`Latency` stages that moves at every advance. The mapping reads the ring from
`nextSlot`, and the pool through the countdowns of its operations. The size of
a ring and its count are `std::size_t`: the count is taken modulo `SizeMod`.
An operation that throws (`StartThrows`, `TriggerThrows`) and a kill (`Reset`)
are actions like the others. What the code no longer promises after one of
them is excluded in the property and not in the model: `CountCoversRing` says
by how much the count can be wrong, and the refinements hold up to the first
disturbance.

**Function unit.** `FUState` extends `FUPipelines`, so both speak of the same
lines; it adds the flags and the three shortcuts of `advanceClock`. An
executor reports `hasPendingOperations()` truthfully while it carries
something and arbitrarily otherwise, which covers all executor classes.
A start may throw after the trigger was cleared and before the executor is
counted: because of a resource conflict, or in an operation that is executed
at its start (`EndClockStartThrows`: the executor has taken nothing;
`EndClockStartFails`: the failed operation stays in the ring). Conflicts always
throw: nothing in the repository builds a detecting executor with
`throwWhenConflict` off. `AdvanceThrows` is what an exception of one executor
inside `advanceClock` does to the unit, and `Reset` is a kill: it leaves
`trigger`, `activeExecutors` and `idle` as they are, and every executor either
drops its pending flag or keeps it. `disturbed` records that a start failed
with work, or a pending flag, that is not counted, that a failure left the loop
of `advanceClock`, or that a kill dropped the flag of an executor with work. A
start that throws with nothing to count leaves the promise intact and does not
set it.
From a failure on an executor may miscount its own work and report anything,
which is the one use the model makes of that flag (`PendingAfter`).

**Conflict detectors.** Bit matrices are functions from columns (cycles) to
sets of rows. The four detectors run side by side on one stream of issues,
each with a history of what it accepted (`accepted`), so that its answer can be
compared with the question (`TrueConflict`): does the operation use a resource
in the same cycle as one that was accepted? A state of the automaton is its
collision matrix; building states lazily adds nothing to that. An issue that
is rejected sends the automaton to state 0, and `settled` counts the advances
since it last lost an operation.

**Stop points.** Everything runs in the simulation thread, but a delivery is a
loop over an index and the manager's handler can shorten the list under it, so
each turn of the loop is a step. A stop point is a record; conditions hold or
not in a cycle; the watched expression has a value or fails. The simulated
program is arbitrary: each cycle chooses a program counter and a value. When
the command has a reason of its own that `StopReason` lists before
`SRE_BREAKPOINT` (`earlier`), only that one is printed, since
`SimulatorFrontend::stopReasonCount` is a truth value. The cycle in which the
program finishes delivers no new instruction.

**Machine cycle.** `MachineCycle` extends `Memory`, `GuardState` and
`LongImmediateUnitState` and runs them in the order of `simulateCycle`:
immediates, guards and reads (`BeginCycle`), one step per write of a move, one
per store of a unit, the local memories, and the rest of the cycle, at the end
of which a shared memory is committed. An instruction is a record of updates,
moves and stores, and every instruction may follow every other, except that a
resumed cycle executes the same one again. A store out of range gives up the
cycle where it is, and so does `UnitThrows`, in the half that starts operations
or in the half that advances them. `load_data` and a kill come between cycles.

Widths are those of the code, as constants. `checkRange` subtracts in unsigned
arithmetic, so that an access longer than the memory ends away from address 0
is let through; `advanceClock` checks nothing again and writes past the
storage, which is undefined: the contents may be anything then (`CommitsTo`). A
stored word is a `ULongWord` (`LongModulus`), which both byte orders unpack;
`readLE` widens a unit to that type before it shifts it and `readBE` does not,
so a big-endian word is put together modulo `WordModulus`. A shift by the width
of its type or more is undefined and gives an unknown word.

**Control unit.** `upcoming`, the state of `DelayedBranch`, is the sequence of
addresses that will be executed next; it is a function of the program counter,
the pending target and the countdown. The unit has some of the operations of
`ControlOperations`, one name for those that differ only in their condition. A
conditional branch that is not taken and `APC` consume the trigger and change
nothing, in a delay slot too; a branch in the delay slots of another is refused
by `setProgramCounter`. `HWLOOP` keeps a state in the operation context, which
is why a unit that has it is never idle; its advance (`AdvanceLoop`) comes
after the increment of the program counter and after a branch, and takes the
counter back by the length of the loop. `body`, a history variable, is the
address of the loop's first instruction. A cycle that is given up after
`HWLOOP` and executed again is refused ("already in progress").

Targets and lengths are whatever the operands say and addresses wrap around.
Nothing checks that a target lies in the program. What is executed outside is
undefined in the code, so the model begins no cycle there: it may only be
killed. `Reset` is `SimulationController::reset`, which sets the program counter
twice and leaves the trigger and the state of the loop.

**Control.** The simulation thread, the timeout thread and the thread (or
signal handler) of a user's stop each have a place where they are (`driver`,
`timer`, `user`). A cycle is one step with an arbitrary outcome.
`SimulatorFrontend::prepareToStop` tests the state and then calls
`TTASimulationController::prepareToStop`, which sets the flag and then inserts
the reason: three steps, with everybody else in between. Variables marked
`history` are not in the code; no guard reads them.

## Runs

Runs that pass:

| Run | Bounds | What it shows |
|---|---|---|
| `simple_executor` | latency 4, 2 values, 2 aborted cycles, 1 throwing start, counter modulo 8 | `CountCoversRing`, `ImplementsDelayLine`: the ring is a delay line although advances are skipped and starts repeated |
| `multi_executor` | latency 3, outputs of latency 1 and 3, 2 values, 1 fault, any number of kills | `StartFindsFreeSlot`, `StagesDistinct`, `ImplementsDelayLines` |
| `fu_state` | operations of latency 1 (immediate), 2 and 3 (conflict detecting), each of which may fail to start; at most 4 counted executors | `ActiveCoversLive`, `IdleMeansDrained`, `ImplementsPipelines` |
| `gcu` | 2 delay slots, 5 instructions, addresses modulo 8, operands 0, 1, 3, 7, two sets of operations, loops of up to 3 iterations | `IdleMeansNoBranch`, `LoopInBody`, `ImplementsDelayedBranch` |
| `control` | all commands, counts up to 2, a timeout and a user | `TimeoutReasonIsTrue`, `StopIsExplained`, `StopIsHonoured`, and `StopEndsCommand` under fairness |
| `conflict_detectors` | 3 operations of up to 3 cycles over 3 resources | `TableIsExact`, `DCMIsExact`, `AutomatonRaisesNoFalseAlarm`, `AutomatonRecovers`, `VectorRaisesNoFalseAlarm` |
| `stop_points` | 2 stop points ever added, 3 edits, runs of 2 cycles, 2 addresses, 2 values, ignore counts up to 1, a tracker of new instructions and one of cycle ends | `ListensIffNeeded`, `OneShotIsSpent`, `StopsExactlyWhenDue`, `FiredAreReported`, `MissesAtMostOne` |
| `machine_cycle` | 2 registers, guard and immediate latency 2, timer modulo 3, a memory of 3 one-bit units, `unsigned int` of 2 and `ULongWord` of 3 bits, accesses of up to 4 units, 5 instructions, cycles resumed with at most 1 pending request | `InstructionIsParallel`, `GuardIsDelayed`, `ImmediatesOnTime`, `StoresReadBack`, `IsDelayLine` |

Why the bounds are enough to be interesting: with latency 3 or 4 the ring and the
pool wrap around and can be full, and a result can be at its first, an inner
and its last stage at the same time; two values tell a result from its
neighbour; two delay slots leave a branch room for an instruction that is
neither its first nor its last slot, and a program of 5 addresses allows a
branch over its own delay slots, off the end and, with operands up to 7, out of
the program; a loop of 3 iterations goes back twice, and an operand of 7 is a
relative jump by -1; a count of 2 distinguishes
the first, the last and a middle turn of a loop. `MaxActive` is a bound of the
model only: a repeated start of the same executor is counted again, and the
counter is recounted at the next advance of several executors.

The pipelines of `conflict_detectors` are a plain pipeline, one that keeps an
element for several cycles and one with a cycle in which it uses nothing,
which is where resource vectors differ. Two stop points make the last one and
one that is not the last; three edits make it one-shot, re-enable it and change
it again; a kill needs a second run of the same cycle numbers. The
instructions of `machine_cycle` swap two registers, guard moves to the guarded
register itself in both senses, read an immediate while another is on its way,
store two overlapping words, a word that only little-endian order reads back
and one that is longer than the address space, and store out of range after a
legal store; a timer modulo 3 wraps around within one latency of every update.

Runs that are expected to fail show disagreements between the code and its own
comments; each is described under `findings`:

| Run | Disagreement |
|---|---|
| `multi_executor_restart` | `reset` keeps the operations of the killed run |
| `control_stop_step` | `stepi` clears a stop request that was accepted after it had begun |
| `control_gui_kill` | a kill from the GUI can leave the killed simulation running |
| `stop_points_listeners` | deleting the last temporary stop point during a delivery passes over the next listener of the event |

Each property of a passing run has a mutant: an operator, placed before the
definition it replaces, that changes the code's behaviour as a plausible bug
would and makes TLC find the property violated.

More disagreements were met while modelling and have no run of their own. The
models behave as the code does, and the properties say up to where they hold:

* an operation that throws at its start stays in the ring of
  `SimpleOperationExecutor` uncounted, and the executor can later report
  nothing pending with work in the ring (`CountCoversRing` allows a count that
  is too small by one per failure);
* after a given-up cycle a start of the pool executor can meet a full pool, and
  the assertion for that case cannot fail (`StartFindsFreeSlot` is limited to
  `faults = 0`);
* an exception inside the loop of `FUState::advanceClock` leaves
  `activeExecutors_` too small, and the unit can become idle with results in
  flight (`disturbed`);
* so does a `startOperation` that throws: with another operation in flight and
  an executor that is pending from its constructor on, the shortcut for one
  active executor advances the one that failed, sets the count to zero and the
  unit idle;
* `Memory::checkRange` wraps around for a memory that ends below the size of
  the access, although `Memory::advanceClock` says of itself that it "cannot
  throw an exception, request legality is checked when request is initiated";
* `Memory::readBE` shifts 32-bit units without widening them, so that a
  big-endian word of more than 32 bits is not read back as it was written
  (`StoresReadBack` ends at the width of the byte order);
* a hardware loop survives a kill, and its counters take the restarted program
  back once they run out (`LoopInBody` ends at the kill);
* a restarted program begins at address 0 and not at its entry address:
  `SimulationController::reset` sets the program counter and then calls a reset
  that sets it again;
* the automaton of the conflict detector forgets what is in flight when it
  rejects an operation or a cycle is given up (`AutomatonRecovers` bounds for
  how long), and `ResourceVector::conflictsWith` misses conflicts behind a
  cycle without resources;
* a watch does not look in the cycle of a restarted program that has the
  number of its latest check in the killed run;
* a stop of `stepi` on a breakpoint reports only the stepping, and
  `stoppedByUser()` compares only the first reason;
* registers, guard histories, the immediates on their way, the ring of
  `SimpleOperationExecutor` and the `trigger_` of units survive a kill.

### Fairness

Only `control` and `control_gui_kill` use fairness. `Fairness` asks that each
thread that can go on does so: the simulation thread, a timeout thread that
has been woken or notified, a stop handler that has begun. This is what an
operating system's scheduler gives. Nothing is assumed of the user, of the
simulated program (it may run for ever) or of the timeout (it may never pass).

## Theorems

The proofs hold for every value of the constants that satisfies the `ASSUME`s
of the module.

**`GCUStateProofs`.** `TypeCorrect`, `IdleIsSafe`, `LoopRepeatsBody` and
`Refinement` (`ImplementsDelayedBranch`, for a program that is entered at
address 0; for others the code restarts at the wrong address), for every set of
operations, every operand and every number of delay slots and iterations.
`TypeOK` is not inductive: that the countdown does not pass zero needs that a
pending branch has cycles left, that an idle unit has none pending, and that a
trigger does not survive `endClock`. `IInv` is their conjunction with
`LoopInBody` and `LoopOK` (a loop that is under way has instructions of its
pass left, also when the program has left it). `AdvanceInBody` is the step of
the loop: program counter and `instrCount` advance together, and the end of the
body takes both back, by arithmetic of addresses that wrap. The refinement then
only needs arithmetic on `upcoming` in two actions, `BranchRefines` and
`AdvanceRefines`; the advance in which a loop goes back is excepted, as
`DelayedBranch` knows no loops.

**`SimulationControlProofs`.** `TypeCorrect`, `TimeoutsAreTrue`,
`StopsAreExplained` and `StopsAreHonoured`, for every set of commands and every
count. The invariant has four parts: `PhaseInv` (where the simulation thread
can be in which command), `TimerInv` (a notified timeout thread finds the
state no longer running, so it never asks for a stop), `StopInv` (a request
stays until its command has ended), `ReasonInv` (a request in the loop has a
reason or somebody about to record one).

**`MultiLatencyOperationExecutorProofs`.** `TypeCorrect`, `StagesStayDistinct`
and `StartIsSafe`, with kills, up to the first cycle that is given up, and
`Refinement` (`ImplementsDelayLines`). `TypeOK` and `StagesDistinct` are
inductive together; that a slot is free follows by the pigeonhole principle:
between cycles there are `Latency` slots and only `Latency - 1` stages to be at
(`SlotIsFree`). The refinement adds that what is left of every countdown
follows from the stage of its operation (`Countdown`). As stages are distinct,
each place of an output's line then holds the result of one operation at most
(`LineIs`), and an advance moves every one of them by one place (`VisitMoves`,
`AdvanceRefines`).

**`SimpleOperationExecutorProofs`.** `TypeCorrect`, `CountIsClose` and
`Refinement`, for every latency and every bound on failures and given-up
cycles that the width of the counter exceeds together with the latency. The
invariant names the excess `d` of the counter over the cells in use, bounds it
by the failures below and the given-up cycles above, and adds that while the
cell the next operation is written to is still in use, one given-up cycle is
not yet counted in `d`, so that overwriting the cell keeps the bound
(`Exceeds`); the arithmetic is that of
counters modulo `SizeMod` that go up and down without passing zero
(`UpAndDown`) and of ring indices (`RingFacts`).

**`FUStateProofs`.** `TypeCorrect`, `ActiveIsEnough`, `IdleIsDrained` and
`Refinement` for every set of executors, the last three until `disturbed`. `ActiveCoversLive` is not inductive;
`IInv` counts the live executors together with the immediate one that was
triggered last (`CountInv`), and adds when a trigger can be up (`TriggerInv`),
that an executor with work reports it (`PendingInv`) and what an idle unit
excludes (`IdleInv`). From these, taking the shortcut for one executor means
that no other one has work (`OnlyNextLive`), and the refinement follows.

**`ConflictDetectorsProofs`.** All five properties and `TypeCorrect`, for
every set of operations, resources and pipelines. The invariant says what each
detector's data mean in terms of the accepted operations: a reserved resource
is one that an accepted operation uses that many cycles ahead, a bit of a
collision matrix is an overlap with an accepted operation (`MatrixMeaning`),
and the automaton's prepared state is its current one moved on. For the
automaton the meaning is an implication, and an equivalence for the operations
younger than `settled`.

**`StopPointsProofs`.** `TypeCorrect`, `OneShots`, `CausesAreReported`,
`ListensAsNeeded`, `StopsWhenDue` and `MissesOneAtMost`: all properties of the
run, for any number of stop points, any listeners and any edits. `FiredAnswer`
is the strengthening for the reported causes: what fired in this cycle keeps
its answer until it is printed, because a watch has already looked and a
breakpoint compares a program counter that stands. The other three rest on
`RunInv`, which describes a delivery half way through:

* `ListInv`: the manager is in the list at most once (`findListenerSlot` looks
  before it adds), and exactly while there is a stop point;
* `ToldInv`: the listeners before the index are told, all but one if the
  manager has been taken out of the list, and the manager is not ahead of the
  index once it was told, so it never handles an event twice;
* `NotAhead`: in the first run no watch has looked at a later cycle. A kill
  sets the clock back and leaves `lastCheckedCycle_`, which is why
  `StopsExactlyWhenDue` promises less for watches after one;
* `DueInv`: until the manager is told what is due can be read off the stop
  points, and afterwards it has stopped the simulation.

At the end of the delivery `ListInv` and `ToldInv` give that a manager with
stop points has been told, and `DueInv` the answer.

**`MachineCycleProofs`.** `TypeCorrect`, `Parallel`, `GuardDelay`, `OnTime`,
`StoresAreReadBack` and `ImplementsDelayLine`, for every machine, set of
instructions, latency and timer width. `Parallel` needs which moves have been
written so far; `GuardDelay` that every place of the ring holds the value of
its age; `OnTime` that distances on the timer stay between 1 and the latency,
and in order. The refinement uses that the head of the queue therefore is never
passed.

`StoresAreReadBack` is about accesses that are no wider than what their byte
order is read with, in cycles all of whose requests lie inside the memory. It
needs that every request that waits holds the units of its word (`Sound`); that
the commit leaves the units of a request that no later one covers
(`CommitKeeps`); and that reading units back gives the word modulo the weight
of the access (`ReadsBack`). For the last one, weights grow with the number of
units (`WeightGrows`), so within the width no shift loses a bit and each unit
adds its digit times its weight (`ShiftedIs`). The sum of the first `k` units
is then a run of the word's digits, by the laws of division (`DivideTwice`). An
induction over data has to be written by hand, as the argument about a least
counterexample (`LeastExists`); so does the existence of the recursive function
`Weight` (`WeightExists`). The provers know no powers with a variable exponent:
`Weight[k]` is `2^(MAUSize * k)`, and `MemoryAssumption` gives `2^MAUSize` its
type.

Only model-checked: `StopEndsCommand`, a liveness property under fairness,
which is out of reach of the prover.

## Not modelled

* What operations other than those of the control unit compute, encodings, file formats, GUI windows: data or
  input and output.
* The compiler, scheduler, processor generator, estimator and explorer:
  sequential programs without concurrency or a session.
* The compiled simulation engine: its behaviour is that of generated C++ code.
* Remote debugging: the other end is hardware.
* The data race on the `std::set` of stop reasons is undefined behaviour; an
  insertion is one step here.
* Object lifetime: loading another machine or program, listeners that are
  deleted without being unregistered.
* The storage behind a memory: `IdealSRAM` allocates one unit less than the
  address space has, and a page of `PagedArray` has room behind it; a write
  past the end leaves any contents here, of that memory only.
* `DirectAccessMemory`, float accesses, guards and immediates
  without latency, registers that are constant zero, sign extension.
* The function units inside `MachineCycle`: there they are the stores they
  request and the exception they may throw; their pipelines have modules of
  their own.

## Plan

1. (done) Executors, function unit, control unit, stop protocol.
2. (done) Stop points and `Informer`; memories, guards, long immediates and the
   machine cycle; conflict detectors; reset and faults in all of them.
3. (done) Theorems about all eight components: every invariant and action
   property of the passing runs, the refinements of `DelayLine` by the ring, by
   the pool and by long immediates, of `FUPipelines` by `FUState` and of
   `DelayedBranch` by the control unit.
4. Open: the resource model of the instruction scheduler
   (`applibs/Scheduler/ResourceManager`), which is sequential but has
   assign/unassign symmetry worth stating.
