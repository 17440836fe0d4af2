----------------------------- MODULE MachineCycle -----------------------------
(***************************************************************************)
(* One simulated cycle of a machine, in the order in which simulateCycle   *)
(* runs it: the long immediates of the instruction, the guards, the reads  *)
(* and the writes of its moves, the function units with their memory       *)
(* accesses, the local memories, the advance of the units, the guards and  *)
(* the long immediate unit, and the shared memories.  A unit that throws   *)
(* ends the cycle wherever it is; the simulation may then be resumed at    *)
(* the same instruction, killed, or given a command.                       *)
(***************************************************************************)
EXTENDS GuardState, LongImmediateUnitState, Memory

CONSTANTS
    Regs,          \* registers of the register files
    GuardReg,      \* the register the guard watches
    Values,        \* values of registers, immediates and buses
    Instructions,  \* [updates, moves, accesses]: see InstructionAssumption
    Image,         \* the initialised data of the program
    UserData,      \* what the load_data command may write, and where
    MaxPending,    \* bound: requests pending when a cycle is resumed
    ImmReg,        \* any register of the long immediate unit
    NoResult       \* a stage of the delay line that carries nothing

\* A move: the kind of its source, the source, its destination and its guard.
Move ==
    LET Guard == {"none", "plain", "negated"}
    IN  [kind : {"reg"}, from : Regs, dst : Regs, guard : Guard]
        \union [kind : {"imm"}, from : ImmRegs, dst : Regs, guard : Guard]
        \union [kind : {"inline"}, from : Values, dst : Regs, guard : Guard]

\* A store that the operation behaviour of a load-store unit requests.
Access ==
    [address : Nat, count : 1..MaxAccess, word : 0..(LongModulus - 1)]

ASSUME InstructionAssumption ==
    /\ GuardReg \in Regs /\ ImmReg \in ImmRegs
    /\ Values \subseteq Nat /\ 0 \in Values /\ NoResult \notin Values
    /\ \A ins \in Instructions :
           /\ ins.updates \in Seq(ImmRegs \X Values)
           /\ ins.moves \in Seq(Move)
           /\ ins.accesses \in Seq(Access)

ASSUME DataAssumption ==
    /\ Image \in [DOMAIN Image -> MAU]
    /\ \A d \in UserData : d.address \in Nat /\ d.units \in Seq(Nat)
    /\ MaxPending \in Nat

VARIABLES
    regs,       \* the value of each RegisterState
    bus,        \* the value of each BusState; move k uses bus k
    squashed,   \* squashed_ of each move of the instruction
    instr,      \* the instruction at the program counter
    phase,      \* what simulateCycle does next
    next,       \* the move or the access that comes next
    shared,     \* the memory belongs to a shared address space
    before,     \* ghost: the registers when the guards were evaluated
    past        \* ghost: past[k]: the guarded register k clock advances ago

cycle == <<regs, bus, squashed, instr, phase, next, shared, before, past>>
vars == <<cycle, guard, immediates, memory>>

Phases == {"rest", "again", "write", "units", "advance", "stopped"}

moves == instr.moves
accesses == instr.accesses
Squashed(m) ==
    \/ m.guard = "plain" /\ GuardValue % 2 # 1
    \/ m.guard = "negated" /\ GuardValue % 2 = 1
Source(m, registers) ==
    IF m.kind = "reg" THEN registers[m.from]
    ELSE IF m.kind = "imm" THEN values[m.from] ELSE m.from

Init ==
    /\ regs = [r \in Regs |-> 0]
    /\ bus = <<>> /\ squashed = <<>>
    /\ instr \in Instructions
    /\ phase = "rest" /\ next = 1
    /\ shared \in BOOLEAN
    /\ before = regs
    /\ past = [k \in 1..GuardLatency |-> 0]
    /\ GuardInit(0) /\ ImmediatesInit /\ MemoryInit(Image)

\* Bound: a cycle is given up or resumed only while little is pending.
Pending == Len(writeRequests) <= MaxPending /\ Len(queue) <= MaxPending

Go(from, to) == phase = from /\ phase' = to
----------------------------------------------------------------------------
(* ExecutableInstruction::execute                                           *)

\* clearBuses, the update actions, evaluateGuard and executeRead of every
\* move.  The instruction is any (the control unit is not in this module),
\* but the one that was given up when the simulation was resumed.
BeginCycle(ins) ==
    /\ phase = "rest" \/ (phase = "again" /\ ins = instr)
    /\ phase' = "write" /\ next' = 1
    /\ instr' = ins
    /\ setRegisterValues(ins.updates)
    /\ squashed' = [k \in 1..Len(ins.moves) |-> Squashed(ins.moves[k])]
    /\ bus' = [k \in 1..Len(ins.moves) |->
                  IF squashed'[k] THEN 0 ELSE Source(ins.moves[k], regs)]
    /\ before' = regs
    /\ UNCHANGED <<regs, shared, past, guard, memory>>

\* Mutant of executeWrite: the source is read when it is written.
executeWriteReadsLate ==
    /\ phase = "write" /\ next <= Len(moves)
    /\ regs' = IF squashed[next] THEN regs
               ELSE [regs EXCEPT ![moves[next].dst] =
                        Source(moves[next], regs)]
    /\ next' = next + 1
    /\ UNCHANGED <<bus, squashed, instr, phase, shared, before, past>>
    /\ UNCHANGED <<guard, immediates, memory>>

executeWrite ==
    /\ phase = "write" /\ next <= Len(moves)
    /\ regs' = IF squashed[next] THEN regs
               ELSE [regs EXCEPT ![moves[next].dst] = bus[next]]
    /\ next' = next + 1
    /\ UNCHANGED <<bus, squashed, instr, phase, shared, before, past>>
    /\ UNCHANGED <<guard, immediates, memory>>

WritesDone ==
    /\ Go("write", "units") /\ next > Len(moves)
    /\ next' = 1
    /\ UNCHANGED <<regs, bus, squashed, instr, shared, before, past>>
    /\ UNCHANGED <<guard, immediates, memory>>
----------------------------------------------------------------------------
(* The clocks of the units                                                  *)

\* endClockOfAllFUStates: an operation requests a store, or it is out of
\* range and throws.
store ==
    /\ phase = "units" /\ next <= Len(accesses)
    /\ LET a == accesses[next]
       IN  \/ /\ write(a.address, a.count, a.word)
              /\ next' = next + 1
              /\ UNCHANGED phase
           \/ /\ ~checkRange(a.address, a.count)
              /\ phase' = "stopped"
              /\ UNCHANGED <<next, memory>>
    /\ UNCHANGED <<regs, bus, squashed, instr, shared, before, past>>
    /\ UNCHANGED <<guard, immediates>>

advanceClockOfLocalMemories ==
    /\ Go("units", "advance") /\ next > Len(accesses)
    /\ IF shared THEN UNCHANGED memory ELSE MemoryAdvance
    /\ UNCHANGED <<regs, bus, squashed, instr, next, shared, before, past>>
    /\ UNCHANGED <<guard, immediates>>

\* A unit throws: in endClock (a load, a conflict, the control unit), and the
\* memories are not advanced, or in advanceClock, and nothing behind it is.
UnitThrows ==
    /\ phase \in {"units", "advance"} /\ phase' = "stopped" /\ Pending
    /\ UNCHANGED <<regs, bus, squashed, instr, next, shared, before, past>>
    /\ UNCHANGED <<guard, immediates, memory>>

\* The units advance; then guards, long immediates and shared memories.
FinishCycle ==
    /\ Go("advance", "rest")
    /\ GuardAdvance(regs[GuardReg])
    /\ past' = [k \in 1..GuardLatency |->
                   IF k = 1 THEN regs[GuardReg] ELSE past[k - 1]]
    /\ ImmediatesAdvance
    /\ IF shared THEN MemoryAdvance ELSE UNCHANGED memory
    /\ next' = 1
    /\ UNCHANGED <<regs, bus, squashed, instr, shared, before>>
----------------------------------------------------------------------------
(* Commands given between the cycles                                        *)

\* The instruction that was given up is executed again.
Resume ==
    /\ Go("stopped", "again") /\ Pending
    /\ UNCHANGED <<regs, bus, squashed, instr, next, shared, before, past>>
    /\ UNCHANGED <<guard, immediates, memory>>

\* SimulatorFrontend::killSimulation: the memories start again; registers,
\* guards and immediates are left as they are.
killSimulation ==
    /\ phase \in {"rest", "stopped"} /\ phase' = "rest"
    /\ initializeDataMemories(Image)
    /\ next' = 1
    /\ UNCHANGED <<regs, bus, squashed, instr, shared, before, past>>
    /\ UNCHANGED <<guard, immediates>>

\* MemWriteCommand::execute: one request for each unit; the first one that is
\* out of range ends the command and leaves the others to the next commit.
load_data(d) ==
    LET request(k) == Request(d.address + k - 1,
                              <<d.units[k] % 2^MAUSize>>, d.units[k])
        requests(n) == writeRequests \o [k \in 1..n |-> request(k)]
        inRange(k) == checkRange(d.address + k - 1, 1)
    IN  /\ phase \in {"rest", "stopped"} /\ Pending
        /\ \/ /\ \A k \in 1..Len(d.units) : inRange(k)
              /\ contents' \in CommitsTo(requests(Len(d.units)))
              /\ writeRequests' = <<>>
           \/ \E n \in 0..(Len(d.units) - 1) :
                  /\ \A k \in 1..n : inRange(k)
                  /\ ~inRange(n + 1)
                  /\ writeRequests' = requests(n)
                  /\ UNCHANGED contents
        /\ UNCHANGED <<cycle, guard, immediates, littleEndian>>

Next ==
    \/ \E ins \in Instructions : BeginCycle(ins)
    \/ executeWrite \/ WritesDone
    \/ store \/ advanceClockOfLocalMemories
    \/ UnitThrows \/ FinishCycle
    \/ Resume \/ killSimulation
    \/ \E d \in UserData : load_data(d)

Spec == Init /\ [][Next]_vars
----------------------------------------------------------------------------
(* Properties                                                               *)

\* Types, and everything a cycle indexes with is in range: position_ of the
\* guard ring, the moves and the accesses of the instruction.
TypeOK ==
    /\ regs \in [Regs -> Values] /\ before \in [Regs -> Values]
    /\ bus \in Seq(Values) /\ squashed \in Seq(BOOLEAN)
    /\ instr \in Instructions /\ phase \in Phases /\ next \in Nat \ {0}
    /\ shared \in BOOLEAN
    /\ past \in [1..GuardLatency -> Values]
    /\ history \in [Positions -> Values] /\ position \in Positions
    /\ values \in [ImmRegs -> Values] /\ timer \in 0..(TimerModulus - 1)
    /\ queue \in Seq([index : ImmRegs, value : Values,
                      arrival : 0..(TimerModulus - 1)])
    /\ littleEndian \in BOOLEAN
    /\ DOMAIN contents = Addresses

\* ExecutableInstruction::execute is a parallel assignment: every move reads
\* the registers as they were when the guards were evaluated, and squashed
\* moves change nothing, whatever the order of the moves is.
InstructionIsParallel ==
    phase \in {"units", "advance"} =>
        \A r \in Regs :
            LET Writers == {k \in 1..Len(moves) :
                              moves[k].dst = r /\ ~Squashed(moves[k])}
            IN  \/ Writers = {} /\ regs[r] = before[r]
                \/ \E k \in Writers :
                       /\ \A j \in Writers : j <= k
                       /\ regs[r] = Source(moves[k], before)

\* The value of a guard is the one its register had GuardLatency clock
\* advances ago, across cycles that were given up and killed runs.
GuardIsDelayed == GuardValue = past[GuardLatency]

\* How many clock advances a queued immediate is away.
Distance(k) == (queue[k].arrival - timer) % TimerModulus

\* Every queued immediate arrives within the latency of the unit and none is
\* behind one that arrives later, also when the timer wraps around and when
\* a given-up instruction has queued its immediates twice: the head of the
\* queue, the only element that advanceClock compares, never blocks it.
ImmediatesOnTime ==
    /\ \A k \in 1..Len(queue) : Distance(k) \in 1..ImmLatency
    /\ \A j, k \in 1..Len(queue) : j < k => Distance(j) <= Distance(k)

\* The steps in which the memory carries out its requests.
Commits ==
    /\ phase' # "stopped"
    /\ IF shared THEN phase = "advance" ELSE phase' = "advance"

ReadBackAtCommit ==
    Commits /\ (\A k \in 1..Len(writeRequests) : Inside(writeRequests[k])) =>
        \A k \in 1..Len(writeRequests) :
            LET q == writeRequests[k]
                n == Len(q.data)
            IN  /\ Weight[n] <= Width
                /\ \A j \in (k + 1)..Len(writeRequests) :
                       \A a \in Addresses :
                           ~(Covers(q, a) /\ Covers(writeRequests[j], a))
                => readWord(contents', q.address, n) = q.word % Weight[n]

\* A store that no later one of the same queue overlaps is read back from the
\* memory after the commit, truncated to the access, in either byte order.
\* The access is no wider than what a read can hold: 32 bits in big endian
\* order, where Memory::readBE does not widen a unit before it shifts it, and
\* 64 bits in little endian order.  No request of the queue may be one that
\* the unsigned subtraction of checkRange let out of the memory.
StoresReadBack == [][ReadBackAtCommit]_vars

\* Register ImmReg of the long immediate unit as a delay line: what is k
\* clock advances away is the last element of the queue with that arrival.
OnTheWay(j, k) == queue[j].index = ImmReg /\ Distance(j) = k
Line ==
    [k \in 1..ImmLatency |->
        IF \E j \in 1..Len(queue) : OnTheWay(j, k)
        THEN queue[CHOOSE j \in 1..Len(queue) :
                      /\ OnTheWay(j, k)
                      /\ \A l \in (j + 1)..Len(queue) : ~OnTheWay(l, k)].value
        ELSE NoResult]

Half ==
    IF phase = "stopped" THEN "stopped"
    ELSE IF phase \in {"rest", "again"} THEN "endClock" ELSE "advanceClock"

Immediate == INSTANCE DelayLine WITH
    Latency <- ImmLatency, line <- Line, port <- values[ImmReg], half <- Half

\* A register of a long immediate unit is a delay line: a value is read from
\* it exactly ImmLatency clock advances after the cycle of its update.
IsDelayLine == Immediate!Spec
==============================================================================
