-------------------------- MODULE MachineCycleProofs --------------------------
(***************************************************************************)
(* Proofs about MachineCycle for every machine: any registers, any set of  *)
(* instructions, any latencies, any memory.                                *)
(***************************************************************************)
EXTENDS MachineCycle, SequenceTheorems, WellFoundedInduction, TLAPS

(***************************************************************************)
(* Sequences and arithmetic.                                               *)
(***************************************************************************)

\* A function on 1..n is a sequence of length n.
LEMMA FunctionIsSeq ==
    ASSUME NEW S, NEW n \in Nat, NEW f \in [1..n -> S]
    PROVE  f \in Seq(S) /\ Len(f) = n
OBVIOUS

\* A nonempty set of numbers has a least one.
LEMMA LeastExists ==
    ASSUME NEW D \in SUBSET Nat, D # {}
    PROVE  \E d \in D : \A e \in D : d <= e
<1> DEFINE R == {ss \in Nat \X Nat : ss[1] < ss[2]}
<1>1. IsWellFoundedOn(R, Nat)
    BY NatLessThanWellFounded, Zenon DEF OpToRel
<1>2. PICK d \in D : \A e \in D : ~(<<e, d>> \in R)
    <2> HIDE DEF R
    <2> QED BY <1>1, WFMin
<1>3. ASSUME NEW e \in D, ~(d <= e) PROVE FALSE
    <2>1. d \in Nat /\ e \in Nat /\ e < d
        BY <1>3
    <2>2. <<e, d>> \in R
        BY <2>1
    <2> QED BY <1>2, <2>2
<1> QED BY <1>3

\* A nonempty set of positions has a last one.
LEMMA LastExists ==
    ASSUME NEW n \in Nat, NEW T \in SUBSET (1..n), T # {}
    PROVE  \E k \in T : \A j \in T : j <= k
<1> DEFINE D == {n - k : k \in T}
<1>1. D \in SUBSET Nat /\ D # {}
    <2>1. \A k \in T : n - k \in Nat
        OBVIOUS
    <2> QED BY <2>1
<1>2. PICK d \in D : \A e \in D : d <= e
    <2> HIDE DEF D
    <2> QED BY <1>1, LeastExists
<1>3. PICK k \in T : d = n - k
    OBVIOUS
<1>4. ASSUME NEW j \in T PROVE j <= k
    <2>1. n - j \in D
        OBVIOUS
    <2>2. d <= n - j
        BY <1>2, <2>1
    <2> QED BY <1>3, <2>2
<1> QED BY <1>4

\* The unsigned timer: what it shows after some ticks and how far away an
\* arrival is.
LEMMA TimerFacts ==
    ASSUME NEW t \in 0..(TimerModulus - 1), NEW a \in 0..(TimerModulus - 1)
    PROVE  /\ Plus(t, 1) = IF t + 1 = TimerModulus THEN 0 ELSE t + 1
           /\ Plus(t, ImmLatency) \in 0..(TimerModulus - 1)
           /\ Plus(t, ImmLatency) = IF t + ImmLatency >= TimerModulus
                                    THEN t + ImmLatency - TimerModulus
                                    ELSE t + ImmLatency
           /\ (a - t) % TimerModulus = IF a >= t THEN a - t
                                       ELSE a - t + TimerModulus
<1> USE ImmediateAssumption DEF Plus
<1>1. \A x \in Int : 0 <= x /\ x < TimerModulus => x % TimerModulus = x
    OBVIOUS
<1>2. \A x \in Int : TimerModulus <= x /\ x < 2 * TimerModulus =>
                         x % TimerModulus = x - TimerModulus
    OBVIOUS
<1>3. \A x \in Int : -TimerModulus <= x /\ x < 0 =>
                         x % TimerModulus = x + TimerModulus
    OBVIOUS
<1> QED BY <1>1, <1>2, <1>3

(***************************************************************************)
(* Types.                                                                  *)
(***************************************************************************)

Item == [index : ImmRegs, value : Values, arrival : 0..(TimerModulus - 1)]

\* What is known of an instruction.
LEMMA InstructionFacts ==
    ASSUME NEW ins \in Instructions
    PROVE  /\ ins.updates \in Seq(ImmRegs \X Values)
           /\ ins.moves \in Seq(Move) /\ Len(ins.moves) \in Nat
           /\ ins.accesses \in Seq(Access) /\ Len(ins.accesses) \in Nat
           /\ \A k \in 1..Len(ins.moves) : ins.moves[k].dst \in Regs
<1>1. /\ ins.updates \in Seq(ImmRegs \X Values)
      /\ ins.moves \in Seq(Move)
      /\ ins.accesses \in Seq(Access)
    BY InstructionAssumption
<1>2. \A m \in Move : m.dst \in Regs
    BY DEF Move
<1> QED BY <1>1, <1>2

\* A source holds a value.
LEMMA SourceType ==
    ASSUME NEW ins \in Instructions, NEW k \in 1..Len(ins.moves),
           NEW registers \in [Regs -> Values], values \in [ImmRegs -> Values]
    PROVE  Source(ins.moves[k], registers) \in Values
<1>1. ins.moves[k] \in Move
    BY InstructionFacts
<1> DEFINE m == ins.moves[k]
<1>2. \/ m.kind = "reg" /\ m.from \in Regs
      \/ m.kind = "imm" /\ m.from \in ImmRegs
      \/ m.kind = "inline" /\ m.from \in Values
    <2> HIDE DEF m
    <2> QED BY <1>1 DEF Move, m
<1> QED BY <1>2 DEF Source

\* The queue of the long immediate unit stays a queue of arrivals.
LEMMA UpdatesType ==
    ASSUME TypeOK, NEW ins \in Instructions, setRegisterValues(ins.updates)
    PROVE  /\ queue' \in Seq(Item)
           /\ Len(queue') = Len(queue) + Len(ins.updates)
           /\ \A k \in 1..Len(queue) : queue'[k] = queue[k]
           /\ \A k \in 1..Len(ins.updates) :
                  LET e == queue'[Len(queue) + k]
                  IN  /\ e.index = ins.updates[k][1]
                      /\ e.value = ins.updates[k][2]
                      /\ e.arrival = Plus(timer, ImmLatency)
<1> DEFINE n == Len(ins.updates)
           f == [k \in 1..n |-> [index |-> ins.updates[k][1],
                                 value |-> ins.updates[k][2],
                                 arrival |-> Plus(timer, ImmLatency)]]
<1>1. n \in Nat /\ \A k \in 1..n : ins.updates[k] \in ImmRegs \X Values
    BY InstructionFacts
<1>2. Plus(timer, ImmLatency) \in 0..(TimerModulus - 1)
    BY TimerFacts DEF TypeOK
<1>3. f \in [1..n -> Item]
    BY <1>1, <1>2 DEF Item
<1>4. queue \in Seq(Item)
    BY DEF TypeOK, Item
<1>5. queue' = queue \o f
    BY DEF setRegisterValues
<1> HIDE DEF f, n
<1>6. /\ queue' \in Seq(Item) /\ Len(queue') = Len(queue) + n
      /\ \A k \in 1..Len(queue) : queue'[k] = queue[k]
      /\ \A k \in 1..n : queue'[Len(queue) + k] = f[k]
    <2>1. /\ queue \o f \in Seq(Item)
          /\ Len(queue \o f) = Len(queue) + n
          /\ \A k \in 1..Len(queue) : (queue \o f)[k] = queue[k]
          /\ \A k \in 1..n : (queue \o f)[Len(queue) + k] = f[k]
        <3>1. n \in Nat
            BY <1>1
        <3>2. f \in Seq(Item) /\ Len(f) = n
            BY <3>1, <1>3, FunctionIsSeq
        <3>3. /\ queue \o f \in Seq(Item)
              /\ Len(queue \o f) = Len(queue) + Len(f)
              /\ \A i \in 1..(Len(queue) + Len(f)) : (queue \o f)[i] =
                     IF i <= Len(queue) THEN queue[i] ELSE f[i - Len(queue)]
            BY <3>2, <1>4, ConcatProperties
        <3>4. Len(queue) \in Nat
            BY <1>4
        <3> QED BY <3>1, <3>2, <3>3, <3>4
    <2> QED BY <1>5, <2>1, Zenon
<1>7. \A k \in 1..n : /\ f[k].index = ins.updates[k][1]
                        /\ f[k].value = ins.updates[k][2]
                        /\ f[k].arrival = Plus(timer, ImmLatency)
    BY DEF f
<1>8. n = Len(ins.updates)
    BY DEF n
<1> QED BY <1>6, <1>7, <1>8

\* An advance of the long immediate unit takes elements from the front.
LEMMA AdvanceType ==
    ASSUME TypeOK, NEW n \in 0..Len(queue),
           queue' = SubSeq(queue, n + 1, Len(queue))
    PROVE  /\ queue' \in Seq(Item)
           /\ Len(queue') = Len(queue) - n
           /\ \A k \in 1..Len(queue') : queue'[k] = queue[n + k]
<1>1. queue \in Seq(Item) /\ Len(queue) \in Nat
    BY DEF TypeOK, Item
<1>2. CASE n = Len(queue)
    BY <1>1, <1>2, SubSeqProperties
<1>3. CASE n < Len(queue)
    BY <1>1, <1>3, SubSeqProperties
<1> QED BY <1>1, <1>2, <1>3

\* What is known of the queue and the timer.
LEMMA QueueFacts ==
    ASSUME TypeOK
    PROVE  /\ queue \in Seq(Item) /\ Len(queue) \in Nat
           /\ \A k \in 1..Len(queue) :
                  /\ queue[k].index \in ImmRegs
                  /\ queue[k].value \in Values
                  /\ queue[k].arrival \in 0..(TimerModulus - 1)
           /\ timer \in 0..(TimerModulus - 1)
           /\ Plus(timer, 1) \in 0..(TimerModulus - 1)
<1>1. queue \in Seq(Item) /\ timer \in 0..(TimerModulus - 1)
    BY DEF TypeOK, Item
<1>2. \A k \in 1..Len(queue) : queue[k] \in Item
    BY <1>1
<1>3. \A k \in 1..Len(queue) :
          /\ queue[k].index \in ImmRegs
          /\ queue[k].value \in Values
          /\ queue[k].arrival \in 0..(TimerModulus - 1)
    BY <1>2 DEF Item
<1>4. Plus(timer, 1) = IF timer + 1 = TimerModulus THEN 0 ELSE timer + 1
    BY <1>1, TimerFacts
<1> QED BY <1>1, <1>3, <1>4, ImmediateAssumption

\* An advance of the long immediate unit keeps its types.
LEMMA ImmediatesType ==
    ASSUME TypeOK, ImmediatesAdvance
    PROVE  /\ queue' \in Seq(Item) /\ timer' \in 0..(TimerModulus - 1)
           /\ values' \in [ImmRegs -> Values]
<1> DEFINE Last(r, n) == {k \in 1..n :
                             /\ queue[k].index = r
                             /\ \A j \in (k + 1)..n : queue[j].index # r}
<1>1. PICK n \in 0..Len(queue) :
          /\ queue' = SubSeq(queue, n + 1, Len(queue))
          /\ values' = [r \in ImmRegs |->
                 IF Last(r, n) = {} THEN values[r]
                 ELSE queue[CHOOSE k \in Last(r, n) : TRUE].value]
    BY DEF ImmediatesAdvance
<1>2. timer' = Plus(timer, 1)
    BY DEF ImmediatesAdvance
<1>3. queue' \in Seq(Item)
    BY <1>1, AdvanceType
<1>4. timer' \in 0..(TimerModulus - 1)
    BY <1>2, QueueFacts
<1>5. ASSUME NEW r \in ImmRegs, Last(r, n) # {}
      PROVE  queue[CHOOSE k \in Last(r, n) : TRUE].value \in Values
    <2>1. \A k \in 1..Len(queue) : queue[k].value \in Values
        BY QueueFacts
    <2>2. Last(r, n) \subseteq 1..Len(queue)
        BY QueueFacts
    <2>3. (CHOOSE k \in Last(r, n) : TRUE) \in Last(r, n)
        <3> HIDE DEF Last
        <3> QED BY <1>5
    <2> HIDE DEF Last
    <2> QED BY <2>1, <2>2, <2>3
<1>6. values' \in [ImmRegs -> Values]
    <2> HIDE DEF Last
    <2> QED BY <1>1, <1>5 DEF TypeOK
<1> QED BY <1>3, <1>4, <1>6

\* While the moves are written, the buses carry what the sources held when
\* the guards were evaluated.
Carried ==
    phase = "write" =>
        /\ next <= Len(moves) + 1
        /\ Len(bus) = Len(moves)
        /\ \A k \in 1..Len(moves) :
               /\ squashed[k] = Squashed(moves[k])
               /\ ~Squashed(moves[k]) =>
                      bus[k] = Source(moves[k], before)

\* A commit writes to the addresses of the memory.
LEMMA CommitDomain ==
    ASSUME NEW requests, NEW m \in CommitsTo(requests)
    PROVE  DOMAIN m = Addresses
BY DEF CommitsTo, Committed

\* TypeOK is preserved.
LEMMA TypeStep ==
    ASSUME TypeOK, Carried, [Next]_vars
    PROVE  TypeOK'
<1> USE DEF TypeOK
<1>1. ASSUME NEW ins \in Instructions, BeginCycle(ins) PROVE TypeOK'
    <2> DEFINE n == Len(ins.moves)
    <2>1. n \in Nat
        BY InstructionFacts
    <2>2. squashed' \in [1..n -> BOOLEAN]
        <3>1. \A k \in 1..n : Squashed(ins.moves[k]) \in BOOLEAN
            BY DEF Squashed
        <3> QED BY <1>1, <3>1, Zenon DEF BeginCycle
    <2>3. squashed' \in Seq(BOOLEAN)
        BY <2>1, <2>2, FunctionIsSeq
    <2>4. bus' \in Seq(Values)
        <3>1. \A k \in 1..n : Source(ins.moves[k], regs) \in Values
            BY SourceType
        <3>2. bus' \in [1..n -> Values]
            BY <1>1, <3>1, InstructionAssumption DEF BeginCycle
        <3> QED BY <2>1, <3>2, FunctionIsSeq
    <2>5. queue' \in Seq(Item) /\ UNCHANGED <<values, timer>>
        BY <1>1, UpdatesType DEF BeginCycle, setRegisterValues
    <2>6. phase' \in Phases /\ instr' \in Instructions /\ next' = 1
        BY <1>1 DEF BeginCycle, Phases
    <2>7. before' = regs
          /\ UNCHANGED <<regs, shared, past, history, position, littleEndian,
                         contents>>
        BY <1>1 DEF BeginCycle, guard, memory
    <2> QED BY <2>3, <2>4, <2>5, <2>6, <2>7 DEF Item
<1>2. CASE executeWrite
    <2>1. regs' \in [Regs -> Values]
        <3>1. CASE squashed[next]
            BY <1>2, <3>1 DEF executeWrite
        <3>2. CASE ~squashed[next]
            <4>1. regs' = [regs EXCEPT ![moves[next].dst] = bus[next]]
                BY <1>2, <3>2 DEF executeWrite
            <4>2. next \in 1..Len(bus)
                BY <1>2, InstructionFacts DEF executeWrite, Carried, moves
            <4>3. bus[next] \in Values
                BY <4>2
            <4> QED BY <4>1, <4>3
        <3> QED BY <3>1, <3>2
    <2> QED BY <1>2, <2>1
            DEF executeWrite, guard, immediates, memory
<1>3. CASE WritesDone
    BY <1>3 DEF WritesDone, Go, guard, immediates, memory, Phases
<1>4. CASE store
    BY <1>4 DEF store, write, memory, guard, immediates, Phases
<1>5. CASE advanceClockOfLocalMemories
    BY <1>5, CommitDomain DEF advanceClockOfLocalMemories, Go,
                              MemoryAdvance, memory, guard, immediates, Phases
<1>6. CASE UnitThrows
    BY <1>6 DEF UnitThrows, guard, immediates, memory, Phases
<1>7. CASE FinishCycle
    <2> USE GuardLatencyAssumption, InstructionAssumption
    <2>1. regs[GuardReg] \in Values
        OBVIOUS
    <2>2. history' \in [Positions -> Values] /\ position' \in Positions
        BY <1>7, <2>1 DEF FinishCycle, GuardAdvance, Positions
    <2>3. past' \in [1..GuardLatency -> Values]
        BY <1>7, <2>1 DEF FinishCycle
    <2>4. /\ queue' \in Seq(Item) /\ timer' \in 0..(TimerModulus - 1)
          /\ values' \in [ImmRegs -> Values]
        BY <1>7, ImmediatesType DEF FinishCycle
    <2>5. /\ littleEndian' = littleEndian
          /\ DOMAIN contents' = Addresses
        BY <1>7, CommitDomain DEF FinishCycle, MemoryAdvance, memory
    <2>6. phase' \in Phases /\ next' = 1
        BY <1>7 DEF FinishCycle, Go, Phases
    <2>7. UNCHANGED <<regs, bus, squashed, instr, shared, before>>
        BY <1>7 DEF FinishCycle
    <2> QED BY <2>2, <2>3, <2>4, <2>5, <2>6, <2>7 DEF Item
<1>8. CASE Resume
    BY <1>8 DEF Resume, Go, guard, immediates, memory, Phases
<1>9. CASE killSimulation
    BY <1>9 DEF killSimulation, initializeDataMemories, Initialised, guard,
                immediates, Phases
<1>10. ASSUME NEW d \in UserData, load_data(d) PROVE TypeOK'
    BY <1>10, CommitDomain DEF load_data, cycle, guard, immediates
<1>11. CASE UNCHANGED vars
    BY <1>11 DEF vars, cycle, guard, immediates, memory
<1> QED BY <1>1, <1>2, <1>3, <1>4, <1>5, <1>6, <1>7, <1>8, <1>9, <1>10,
           <1>11 DEF Next

(***************************************************************************)
(* The moves of an instruction.                                            *)
(***************************************************************************)

\* The first n moves have been written.
Written(n) ==
    \A r \in Regs :
        LET Writers == {k \in 1..n : moves[k].dst = r /\ ~Squashed(moves[k])}
        IN  \/ Writers = {} /\ regs[r] = before[r]
            \/ \E k \in Writers :
                   /\ \A j \in Writers : j <= k
                   /\ regs[r] = Source(moves[k], before)

MovesInv ==
    /\ Carried
    /\ phase = "write" => Written(next - 1)
    /\ phase \in {"units", "advance"} => Written(Len(moves))

\* One more move is written.
LEMMA WriteStep ==
    ASSUME TypeOK, MovesInv, executeWrite
    PROVE  Written(next - 1)'
<1>1. /\ phase = "write" /\ next \in 1..Len(moves) /\ Len(moves) \in Nat
      /\ next' = next + 1
      /\ UNCHANGED <<bus, squashed, instr, before, history, position, values>>
    BY InstructionFacts
       DEF executeWrite, TypeOK, moves, guard, immediates
<1>2. /\ squashed[next] = Squashed(moves[next])
      /\ ~Squashed(moves[next]) => bus[next] = Source(moves[next], before)
    BY <1>1 DEF MovesInv, Carried
<1>3. /\ moves' = moves /\ next' - 1 = next
      /\ \A m : Squashed(m)' = Squashed(m)
      /\ \A m : Source(m, before)' = Source(m, before)
    BY <1>1 DEF moves, Squashed, GuardValue, Source
<1>4. moves[next].dst \in Regs
    BY <1>1, InstructionFacts DEF moves, TypeOK
<1> DEFINE W(r, n) ==
        {k \in 1..n : moves[k].dst = r /\ ~Squashed(moves[k])}
<1>5. SUFFICES ASSUME NEW r \in Regs
               PROVE  \/ W(r, next) = {} /\ regs'[r] = before[r]
                      \/ \E k \in W(r, next) :
                             /\ \A j \in W(r, next) : j <= k
                             /\ regs'[r] = Source(moves[k], before)
    BY <1>1, <1>3 DEF Written
<1>6. \/ W(r, next - 1) = {} /\ regs[r] = before[r]
      \/ \E k \in W(r, next - 1) :
             /\ \A j \in W(r, next - 1) : j <= k
             /\ regs[r] = Source(moves[k], before)
    BY <1>1 DEF MovesInv, Written
<1>7. CASE squashed[next] \/ moves[next].dst # r
    <2>1. W(r, next) = W(r, next - 1)
        BY <1>1, <1>2, <1>7
    <2>2. regs'[r] = regs[r]
        BY <1>4, <1>7 DEF executeWrite, TypeOK
    <2> QED BY <1>6, <2>1, <2>2
<1>8. CASE ~squashed[next] /\ moves[next].dst = r
    <2>1. next \in W(r, next) /\ \A j \in W(r, next) : j <= next
        BY <1>1, <1>2, <1>8
    <2>2. regs'[r] = bus[next]
        BY <1>4, <1>8 DEF executeWrite, TypeOK
    <2> HIDE DEF W
    <2> QED BY <1>2, <1>8, <2>1, <2>2
<1> QED BY <1>7, <1>8

\* MovesInv is preserved.
LEMMA MovesStep ==
    ASSUME TypeOK, MovesInv, [Next]_vars
    PROVE  MovesInv'
<1>1. ASSUME NEW ins \in Instructions, BeginCycle(ins) PROVE MovesInv'
    <2> DEFINE n == Len(ins.moves)
    <2>1. /\ n \in Nat /\ phase' = "write" /\ next' = 1 /\ moves' = ins.moves
          /\ before' = regs /\ regs' = regs
          /\ UNCHANGED <<history, position, values>>
        BY <1>1, InstructionFacts
           DEF BeginCycle, moves, guard, setRegisterValues
    <2>2. /\ \A m : Squashed(m)' = Squashed(m)
          /\ \A m : Source(m, before)' = Source(m, regs)
        BY <2>1 DEF Squashed, GuardValue, Source
    <2>3. \A k \in 1..n :
              /\ squashed'[k] = Squashed(ins.moves[k])
              /\ bus'[k] = IF squashed'[k] THEN 0
                           ELSE Source(ins.moves[k], regs)
        BY <1>1 DEF BeginCycle
    <2>4. Len(bus') = n
        <3> DEFINE S == {bus'[k] : k \in 1..n}
        <3>1. bus' \in [1..n -> S]
            BY <1>1 DEF BeginCycle
        <3> HIDE DEF S
        <3> QED BY <3>1, <2>1, FunctionIsSeq
    <2>5. Carried'
        BY <2>1, <2>2, <2>3, <2>4 DEF Carried
    <2>6. Written(next - 1)'
        BY <2>1 DEF Written
    <2> QED BY <2>1, <2>5, <2>6 DEF MovesInv
<1>2. CASE executeWrite
    <2>1. Carried'
        <3>1. /\ phase = "write" /\ next \in 1..Len(moves)
              /\ Len(moves) \in Nat /\ next' = next + 1 /\ moves' = moves
              /\ UNCHANGED <<phase, bus, squashed, before>>
              /\ UNCHANGED <<history, position, values>>
            BY <1>2, InstructionFacts
               DEF executeWrite, TypeOK, moves, guard, immediates
        <3>2. /\ \A m : Squashed(m)' = Squashed(m)
              /\ \A m : Source(m, before)' = Source(m, before)
            BY <3>1 DEF Squashed, GuardValue, Source
        <3> QED BY <3>1, <3>2 DEF MovesInv, Carried
    <2>2. phase' = "write"
        BY <1>2 DEF executeWrite
    <2> QED BY <1>2, <2>1, <2>2, WriteStep DEF MovesInv
<1>3. CASE WritesDone
    <2>1. /\ phase = "write" /\ phase' = "units" /\ next = Len(moves) + 1
          /\ Len(moves) \in Nat /\ UNCHANGED <<regs, before, instr>>
          /\ UNCHANGED <<history, position, values>>
        <3>1. /\ phase = "write" /\ phase' = "units" /\ next > Len(moves)
              /\ UNCHANGED <<regs, before, instr, history, position, values>>
            BY <1>3 DEF WritesDone, Go, guard, immediates
        <3>2. next <= Len(moves) + 1
            BY <3>1 DEF MovesInv, Carried
        <3>3. Len(moves) \in Nat /\ next \in Nat
            BY InstructionFacts DEF TypeOK, moves
        <3> QED BY <3>1, <3>2, <3>3
    <2>2. Written(Len(moves))
        BY <2>1 DEF MovesInv
    <2>3. Written(Len(moves))'
        BY <2>1, <2>2 DEF Written, moves, Squashed, GuardValue, Source
    <2> QED BY <2>1, <2>3 DEF MovesInv, Carried
<1>4. ASSUME phase \in {"units", "advance"}, phase' # "write",
             UNCHANGED <<regs, before, instr, history, position, values>>
      PROVE  MovesInv'
    <2>1. Written(Len(moves))
        BY <1>4 DEF MovesInv
    <2>2. Written(Len(moves))'
        BY <1>4, <2>1 DEF Written, moves, Squashed, GuardValue, Source
    <2> QED BY <1>4, <2>2 DEF MovesInv, Carried
<1>5. CASE store \/ advanceClockOfLocalMemories \/ UnitThrows
    BY <1>4, <1>5 DEF store, advanceClockOfLocalMemories, UnitThrows, Go,
                      guard, immediates
<1>6. CASE \/ FinishCycle \/ Resume \/ killSimulation
           \/ \E d \in UserData : load_data(d)
    <2>1. phase' \in {"rest", "again", "stopped"}
        BY <1>6 DEF FinishCycle, Resume, Go, killSimulation, load_data, cycle
    <2> QED BY <2>1 DEF MovesInv, Carried
<1>7. CASE UNCHANGED vars
    <2>1. /\ UNCHANGED <<phase, next, bus, squashed, regs, before, instr>>
          /\ UNCHANGED <<history, position, values>>
        BY <1>7 DEF vars, cycle, guard, immediates
    <2>2. moves' = moves
        BY <2>1 DEF moves
    <2>3. /\ \A m : Squashed(m)' = Squashed(m)
          /\ \A m : Source(m, before)' = Source(m, before)
        BY <2>1 DEF Squashed, GuardValue, Source
    <2>4. Carried'
        BY <2>1, <2>2, <2>3 DEF MovesInv, Carried
    <2>5. \A n : Written(n)' <=> Written(n)
        BY <2>1, <2>2, <2>3 DEF Written
    <2> QED BY <2>1, <2>2, <2>4, <2>5 DEF MovesInv
<1> QED BY <1>1, <1>2, <1>3, <1>5, <1>6, <1>7 DEF Next

(***************************************************************************)
(* The guard.                                                              *)
(***************************************************************************)

\* Every place of the ring holds the value of a known age.
RingInv ==
    \A p \in Positions :
        history[p] = past[IF p < position THEN position - p
                          ELSE position - p + GuardLatency]

LEMMA RingStep ==
    ASSUME TypeOK, RingInv, [Next]_vars
    PROVE  RingInv'
<1>1. CASE UNCHANGED <<history, position, past>>
    BY <1>1 DEF RingInv
<1>2. CASE FinishCycle
    <2> USE GuardLatencyAssumption
    <2> DEFINE v == regs[GuardReg]
    <2>1. /\ history' = [history EXCEPT ![position] = v]
          /\ position' = IF position + 1 >= GuardLatency THEN 0
                         ELSE position + 1
          /\ past' = [k \in 1..GuardLatency |->
                         IF k = 1 THEN v ELSE past[k - 1]]
        BY <1>2 DEF FinishCycle, GuardAdvance
    <2>2. /\ position \in 0..(GuardLatency - 1)
          /\ history \in [0..(GuardLatency - 1) -> Values]
        BY DEF TypeOK, Positions
    <2> HIDE DEF v
    <2> QED BY <2>1, <2>2 DEF RingInv, Positions
<1> QED BY <1>1, <1>2
        DEF Next, vars, cycle, guard, BeginCycle, executeWrite, WritesDone,
            store, advanceClockOfLocalMemories, UnitThrows, Resume,
            killSimulation, load_data

(***************************************************************************)
(* The long immediates.                                                    *)
(***************************************************************************)

\* How far away an element is, without the remainder.
LEMMA DistanceIs ==
    ASSUME TypeOK, NEW k \in 1..Len(queue)
    PROVE  Distance(k) = IF queue[k].arrival >= timer
                         THEN queue[k].arrival - timer
                         ELSE queue[k].arrival - timer + TimerModulus
BY QueueFacts, TimerFacts DEF Distance

\* New elements are ImmLatency away, the others as far as before.
LEMMA UpdatesDistance ==
    ASSUME TypeOK, NEW ins \in Instructions, setRegisterValues(ins.updates)
    PROVE  /\ \A k \in 1..Len(queue) : Distance(k)' = Distance(k)
           /\ \A k \in (Len(queue) + 1)..Len(queue') :
                  Distance(k)' = ImmLatency
<1>1. /\ queue' \in Seq(Item)
      /\ Len(queue') = Len(queue) + Len(ins.updates)
      /\ \A k \in 1..Len(queue) : queue'[k] = queue[k]
      /\ \A k \in 1..Len(ins.updates) :
             queue'[Len(queue) + k].arrival = Plus(timer, ImmLatency)
    BY UpdatesType
<1>2. timer' = timer /\ timer \in 0..(TimerModulus - 1)
      /\ Len(queue) \in Nat /\ Len(ins.updates) \in Nat
    BY QueueFacts, InstructionFacts DEF setRegisterValues
<1>3. \A k \in 1..Len(queue) : Distance(k)' = Distance(k)
    BY <1>1, <1>2 DEF Distance
<1>4. ASSUME NEW k \in (Len(queue) + 1)..Len(queue')
      PROVE  Distance(k)' = ImmLatency
    <2>1. queue'[k].arrival = Plus(timer, ImmLatency)
        <3>1. k - Len(queue) \in 1..Len(ins.updates)
            BY <1>1, <1>2
        <3>2. Len(queue) + (k - Len(queue)) = k
            BY <1>2
        <3> QED BY <1>1, <3>1, <3>2
    <2> DEFINE a == Plus(timer, ImmLatency)
    <2>2. /\ a \in 0..(TimerModulus - 1)
          /\ a = IF timer + ImmLatency >= TimerModulus
                 THEN timer + ImmLatency - TimerModulus
                 ELSE timer + ImmLatency
        BY <1>2, TimerFacts
    <2> HIDE DEF a
    <2>3. (a - timer) % TimerModulus = IF a >= timer THEN a - timer
                                       ELSE a - timer + TimerModulus
        BY <1>2, <2>2, TimerFacts
    <2>4. (a - timer) % TimerModulus = ImmLatency
        BY <1>2, <2>2, <2>3, ImmediateAssumption
    <2> QED BY <1>2, <2>1, <2>4 DEF Distance, a
<1> QED BY <1>3, <1>4

\* A tick brings every element one step closer, and exactly those that are
\* one tick away arrive.
LEMMA TickDistance ==
    ASSUME TypeOK, ImmediatesOnTime, ImmediatesAdvance
    PROVE  \E n \in 0..Len(queue) :
              /\ queue' = SubSeq(queue, n + 1, Len(queue))
              /\ values' = [r \in ImmRegs |->
                     LET Last == {k \in 1..n :
                                /\ queue[k].index = r
                                /\ \A j \in (k + 1)..n : queue[j].index # r}
                     IN  IF Last = {} THEN values[r]
                         ELSE queue[CHOOSE k \in Last : TRUE].value]
              /\ \A k \in 1..n : Distance(k) = 1
              /\ \A k \in (n + 1)..Len(queue) : Distance(k) >= 2
              /\ Len(queue') = Len(queue) - n
              /\ \A k \in 1..Len(queue') :
                     /\ queue'[k] = queue[n + k]
                     /\ Distance(k)' = Distance(n + k) - 1
<1>1. PICK n \in 0..Len(queue) :
          /\ ArrivesAt(n)
          /\ n < Len(queue) => ~ArrivesAt(n + 1)
          /\ queue' = SubSeq(queue, n + 1, Len(queue))
          /\ values' = [r \in ImmRegs |->
                 LET Last == {k \in 1..n :
                                /\ queue[k].index = r
                                /\ \A j \in (k + 1)..n : queue[j].index # r}
                 IN  IF Last = {} THEN values[r]
                     ELSE queue[CHOOSE k \in Last : TRUE].value]
    BY DEF ImmediatesAdvance
<1>2. /\ timer' = Plus(timer, 1) /\ Len(queue) \in Nat
      /\ timer \in 0..(TimerModulus - 1)
      /\ Plus(timer, 1) = IF timer + 1 = TimerModulus THEN 0 ELSE timer + 1
    BY QueueFacts, TimerFacts DEF ImmediatesAdvance
<1>3. \A k \in 1..Len(queue) :
          queue[k].arrival = Plus(timer, 1) <=> Distance(k) = 1
    BY <1>2, DistanceIs, QueueFacts, ImmediateAssumption
<1>4. \A k \in 1..n : Distance(k) = 1
    BY <1>1, <1>2, <1>3 DEF ArrivesAt
<1>5. ASSUME n < Len(queue) PROVE Distance(n + 1) >= 2
    <2>1. queue[n + 1].arrival # Plus(timer, 1)
        BY <1>1, <1>2, <1>5 DEF ArrivesAt
    <2>2. n + 1 \in 1..Len(queue)
        BY <1>2, <1>5
    <2>3. Distance(n + 1) \in 1..ImmLatency
        BY <2>2 DEF ImmediatesOnTime
    <2> QED BY <1>3, <2>1, <2>2, <2>3, ImmediateAssumption
<1>6. \A k \in (n + 1)..Len(queue) : Distance(k) >= 2
    <2> SUFFICES ASSUME NEW k \in (n + 1)..Len(queue)
                 PROVE  Distance(k) >= 2
        OBVIOUS
    <2>1. CASE k = n + 1
        BY <1>2, <1>5, <2>1
    <2>2. CASE k > n + 1
        <3>1. Distance(n + 1) >= 2
            BY <1>2, <1>5, <2>2
        <3>2. n + 1 \in 1..Len(queue) /\ k \in 1..Len(queue)
            BY <1>2
        <3>3. /\ Distance(n + 1) <= Distance(k)
              /\ Distance(n + 1) \in Int /\ Distance(k) \in Int
            BY <2>2, <3>2, ImmediateAssumption DEF ImmediatesOnTime
        <3> QED BY <3>1, <3>3
    <2> QED BY <1>2, <2>1, <2>2
<1>7. /\ Len(queue') = Len(queue) - n
      /\ \A k \in 1..Len(queue') : queue'[k] = queue[n + k]
    BY <1>1, AdvanceType
<1>8. ASSUME NEW k \in 1..Len(queue')
      PROVE  Distance(k)' = Distance(n + k) - 1
    <2>1. n + k \in (n + 1)..Len(queue) /\ n + k \in 1..Len(queue)
        BY <1>2, <1>7
    <2> DEFINE a == queue[n + k].arrival
    <2>2. a \in 0..(TimerModulus - 1)
        BY <2>1, QueueFacts
    <2>3. Distance(n + k) >= 2
        BY <1>6, <2>1
    <2>4. Distance(n + k) = IF a >= timer THEN a - timer
                            ELSE a - timer + TimerModulus
        BY <2>1, DistanceIs
    <2>5. timer' \in 0..(TimerModulus - 1)
        BY <1>2, QueueFacts
    <2>6. (a - timer') % TimerModulus = IF a >= timer' THEN a - timer'
                                        ELSE a - timer' + TimerModulus
        <3> HIDE DEF a
        <3> QED BY <2>2, <2>5, TimerFacts
    <2>7. Distance(k)' = (a - timer') % TimerModulus
        BY <1>7 DEF Distance
    <2> HIDE DEF a
    <2> QED BY <1>2, <2>2, <2>3, <2>4, <2>6, <2>7, ImmediateAssumption
<1> QED BY <1>1, <1>4, <1>6, <1>7, <1>8

\* ImmediatesOnTime is preserved.
LEMMA OnTimeStep ==
    ASSUME TypeOK, ImmediatesOnTime, [Next]_vars
    PROVE  ImmediatesOnTime'
<1>1. ASSUME NEW ins \in Instructions, BeginCycle(ins)
      PROVE  ImmediatesOnTime'
    <2>1. setRegisterValues(ins.updates)
        BY <1>1 DEF BeginCycle
    <2>2. /\ Len(queue) \in Nat /\ Len(queue') \in Nat
          /\ Len(queue) <= Len(queue')
        BY <2>1, UpdatesType, QueueFacts, InstructionFacts
    <2>3. /\ \A k \in 1..Len(queue) : Distance(k)' = Distance(k)
          /\ \A k \in (Len(queue) + 1)..Len(queue') :
                 Distance(k)' = ImmLatency
        BY <2>1, UpdatesDistance
    <2>4. /\ \A k \in 1..Len(queue) : Distance(k) \in 1..ImmLatency
          /\ \A j, k \in 1..Len(queue) : j < k => Distance(j) <= Distance(k)
        BY DEF ImmediatesOnTime
    <2>5. \A k \in 1..Len(queue') :
              k \in 1..Len(queue) \/ k \in (Len(queue) + 1)..Len(queue')
        BY <2>2
    <2>6. \A k \in 1..Len(queue') : Distance(k)' \in 1..ImmLatency
        BY <2>3, <2>4, <2>5, ImmediateAssumption
    <2>7. ASSUME NEW j \in 1..Len(queue'), NEW k \in 1..Len(queue'), j < k
          PROVE  Distance(j)' <= Distance(k)'
        <3>1. CASE k \in 1..Len(queue)
            <4>1. j \in 1..Len(queue)
                BY <2>2, <2>7, <3>1
            <4> QED BY <2>3, <2>4, <2>7, <3>1, <4>1
        <3>2. CASE k \in (Len(queue) + 1)..Len(queue')
            BY <2>3, <2>6, <3>2, ImmediateAssumption
        <3> QED BY <2>5, <3>1, <3>2
    <2> QED BY <2>6, <2>7 DEF ImmediatesOnTime
<1>2. CASE FinishCycle
    <2>1. ImmediatesAdvance
        BY <1>2 DEF FinishCycle
    <2>2. PICK n \in 0..Len(queue) :
              /\ \A k \in (n + 1)..Len(queue) : Distance(k) >= 2
              /\ Len(queue') = Len(queue) - n
              /\ \A k \in 1..Len(queue') : Distance(k)' = Distance(n + k) - 1
        BY <2>1, TickDistance
    <2>3. \A k \in 1..Len(queue') :
              n + k \in 1..Len(queue) /\ n + k \in (n + 1)..Len(queue)
        BY <2>2, QueueFacts
    <2>4. \A k \in 1..Len(queue) : Distance(k) \in 1..ImmLatency
        BY DEF ImmediatesOnTime
    <2>5. \A k \in 1..Len(queue') : Distance(k)' \in 1..ImmLatency
        BY <2>2, <2>3, <2>4, ImmediateAssumption
    <2>6. ASSUME NEW j \in 1..Len(queue'), NEW k \in 1..Len(queue'), j < k
          PROVE  Distance(j)' <= Distance(k)'
        <3>1. n + j < n + k
            BY <2>2, <2>6, QueueFacts
        <3>2. Distance(n + j) <= Distance(n + k)
            BY <2>3, <3>1 DEF ImmediatesOnTime
        <3> QED BY <2>2, <2>3, <2>4, <3>2, ImmediateAssumption
    <2> QED BY <2>5, <2>6 DEF ImmediatesOnTime
<1>3. CASE UNCHANGED <<queue, timer>>
    BY <1>3 DEF ImmediatesOnTime, Distance
<1> QED BY <1>1, <1>2, <1>3
        DEF Next, vars, immediates, executeWrite, WritesDone, store,
            advanceClockOfLocalMemories, UnitThrows, Resume, killSimulation,
            load_data

(***************************************************************************)
(* The arithmetic of the byte orders.                                      *)
(***************************************************************************)

\* The quotient and the remainder of a division.
LEMMA Division ==
    ASSUME NEW x \in Nat, NEW m \in Nat \ {0}
    PROVE  /\ x \div m \in Nat /\ x % m \in 0..(m - 1)
           /\ x = m * (x \div m) + (x % m)
OBVIOUS

LEMMA Multiple ==
    ASSUME NEW m \in Nat \ {0}, NEW t \in Int, t >= 1
    PROVE  m * t >= m
OBVIOUS

\* They are the only ones.
LEMMA DivisionIsUnique ==
    ASSUME NEW m \in Nat \ {0}, NEW q \in Nat, NEW p \in Nat,
           NEW r \in 0..(m - 1), NEW s \in 0..(m - 1),
           m * q + r = m * p + s
    PROVE  q = p /\ r = s
<1>1. m * (q - p) = s - r /\ m * (p - q) = r - s
    OBVIOUS
<1>2. ASSUME q - p >= 1 PROVE FALSE
    <2>1. m * (q - p) >= m
        BY <1>2, Multiple
    <2> QED BY <1>1, <2>1
<1>3. ASSUME p - q >= 1 PROVE FALSE
    <2>1. m * (p - q) >= m
        BY <1>3, Multiple
    <2> QED BY <1>1, <2>1
<1>4. q = p
    BY <1>2, <1>3
<1> QED BY <1>4

\* Dividing by m and then by p is dividing by their product; a number modulo
\* the product is put together from its last digit and the others.
LEMMA DivideTwice ==
    ASSUME NEW x \in Nat, NEW m \in Nat \ {0}, NEW p \in Nat \ {0}
    PROVE  /\ (x \div m) \div p = x \div (p * m)
           /\ ((x \div m) % p) * m + (x % m) = x % (p * m)
<1> DEFINE a == x \div m
           b == x % m
           c == a \div p
           d == a % p
           n == p * m
           y == x \div n
           z == x % n
           e == d * m + b
<1>1. a \in Nat /\ b \in 0..(m - 1) /\ x = m * a + b
    BY Division
<1>2. c \in Nat /\ d \in 0..(p - 1) /\ a = p * c + d
    BY <1>1, Division
<1>3. n \in Nat \ {0}
    OBVIOUS
<1>4. y \in Nat /\ z \in 0..(n - 1) /\ x = n * y + z
    <2> HIDE DEF n
    <2> QED BY <1>3, Division
<1> HIDE DEF a, b, c, d, y, z
<1>5. x = n * c + e
    BY <1>1, <1>2
<1>6. e \in 0..(n - 1)
    <2>1. e >= 0 /\ e \in Int
        BY <1>1, <1>2
    <2>2. m * (p - d) >= m
        BY <1>2, Multiple
    <2> QED BY <1>1, <1>2, <2>1, <2>2
<1>7. c = y /\ e = z
    <2>1. n * c + e = n * y + z
        BY <1>4, <1>5
    <2> HIDE DEF n, e
    <2> QED BY <1>2, <1>3, <1>4, <1>6, <2>1, DivisionIsUnique
<1> QED BY <1>7 DEF a, b, c, d, y, z

\* The recursive definition of Weight has a solution, whatever its domain.
LEMMA WeightExists ==
    ASSUME NEW n \in Nat
    PROVE  \E f : f = [k \in 0..n |->
                          IF k = 0 THEN 1 ELSE f[k - 1] * 2^MAUSize]
<1> DEFINE Solves(f, m) == f = [k \in 0..m |->
                          IF k = 0 THEN 1 ELSE f[k - 1] * 2^MAUSize]
           Unsolved == {m \in Nat : ~(\E f : Solves(f, m))}
<1> SUFFICES ASSUME n \in Unsolved PROVE FALSE
    OBVIOUS
<1>1. PICK m \in Unsolved : \A l \in Unsolved : m <= l
    <2> HIDE DEF Unsolved
    <2>1. Unsolved \in SUBSET Nat
        BY DEF Unsolved
    <2> QED BY <2>1, LeastExists
<1>2. CASE m = 0
    <2>1. Solves([k \in 0..0 |-> 1], 0)
        OBVIOUS
    <2> QED BY <1>2, <2>1
<1>3. CASE m # 0
    <2>1. m - 1 \in Nat /\ ~(m <= m - 1) /\ m \in Nat
        BY <1>3
    <2>2. PICK f : Solves(f, m - 1)
        BY <1>1, <2>1
    <2> DEFINE g == [k \in 0..m |-> IF k = m THEN f[m - 1] * 2^MAUSize
                                    ELSE f[k]]
               h == [k \in 0..m |->
                        IF k = 0 THEN 1 ELSE g[k - 1] * 2^MAUSize]
    <2>3. ASSUME NEW k \in 0..m PROVE g[k] = h[k]
        <3>1. CASE k = m
            BY <1>3, <2>1, <3>1
        <3>2. CASE k = 0
            BY <1>3, <2>1, <2>2, <3>2
        <3>3. CASE k \in 1..(m - 1)
            BY <1>3, <2>1, <2>2, <3>3
        <3> QED BY <2>1, <3>1, <3>2, <3>3
    <2>4. g = h
        <3>1. DOMAIN g = 0..m /\ DOMAIN h = 0..m
            OBVIOUS
        <3>2. g = [k \in 0..m |-> g[k]] /\ h = [k \in 0..m |-> h[k]]
            OBVIOUS
        <3> HIDE DEF g, h
        <3> QED BY <2>3, <3>2
    <2>5. Solves(g, m)
        BY <2>4
    <2> HIDE DEF g, Solves
    <2> QED BY <2>5
<1> QED BY <1>2, <1>3

LEMMA WeightIs ==
    /\ Weight[0] = 1
    /\ \A k \in 1..MaxAccess : Weight[k] = Weight[k - 1] * 2^MAUSize
    /\ \A k \in 0..MaxAccess : Weight[k] \in Nat \ {0}
<1>1. Weight = [k \in 0..MaxAccess |->
                   IF k = 0 THEN 1 ELSE Weight[k - 1] * 2^MAUSize]
    BY MemoryAssumption, WeightExists DEF Weight
<1> HIDE DEF Weight
<1>2. Weight[0] = 1
    BY <1>1, MemoryAssumption
<1>3. \A k \in 1..MaxAccess : Weight[k] = Weight[k - 1] * 2^MAUSize
    BY <1>1, MemoryAssumption
<1>4. ASSUME NEW n \in 0..MaxAccess, Weight[n] \notin Nat \ {0}
      PROVE  FALSE
    <2> DEFINE Bad == {k \in 0..MaxAccess : Weight[k] \notin Nat \ {0}}
    <2>1. Bad \in SUBSET Nat /\ Bad # {}
        BY <1>4, MemoryAssumption
    <2>2. PICK m \in Bad : \A l \in Bad : m <= l
        <3> HIDE DEF Bad
        <3> QED BY <2>1, LeastExists
    <2>3. m \in 1..MaxAccess
        BY <1>2, MemoryAssumption
    <2>4. m - 1 \in 0..MaxAccess /\ m - 1 \notin Bad
        BY <2>2, <2>3, MemoryAssumption
    <2>5. Weight[m - 1] \in Nat \ {0}
        BY <2>4
    <2>6. Weight[m - 1] * 2^MAUSize \in Nat \ {0}
        BY <2>5, MemoryAssumption
    <2> QED BY <1>3, <2>3, <2>6
<1> QED BY <1>2, <1>3, <1>4

(***************************************************************************)
(* The memory.                                                             *)
(***************************************************************************)

\* The units of a request are those of the word it was made from.
Sound(q) ==
    /\ q.address \in Nat /\ q.word \in Nat /\ Len(q.data) \in 1..MaxAccess
    /\ q.data \in unpack(q.word, Len(q.data))

RequestsInv ==
    /\ \E S : writeRequests \in Seq(S)
    /\ \A i \in 1..Len(writeRequests) : Sound(writeRequests[i])

LEMMA RequestIsSound ==
    ASSUME NEW address \in Nat, NEW count \in 1..MaxAccess, NEW word \in Nat,
           NEW data \in unpack(word, count)
    PROVE  Sound(Request(address, data, word))
<1>1. data \in [1..count -> MAU] /\ count \in Nat
    BY DEF unpack
<1>2. Len(data) = count
    BY <1>1, FunctionIsSeq
<1> QED BY <1>2 DEF Sound, Request

\* A single unit is cut to its width.
LEMMA UnpackOne ==
    ASSUME NEW word \in Nat
    PROVE  <<word % 2^MAUSize>> \in unpack(word, 1)
<1> DEFINE data == <<word % 2^MAUSize>>
<1>1. word \div 1 = word /\ Weight[0] = 1
    BY WeightIs
<1>2. data \in [1..1 -> MAU]
    BY MemoryAssumption DEF MAU
<1>3. \A k \in 1..1 : Shift(k, 1) = 0
    BY DEF Shift
<1>4. \A k \in 1..1 : data[k] = (word \div Weight[Shift(k, 1)]) % 2^MAUSize
    BY <1>1, <1>3
<1> HIDE DEF data
<1> QED BY <1>2, <1>4 DEF unpack, data

\* The byte order of a memory does not change.
LEMMA SoundStays ==
    ASSUME UNCHANGED littleEndian, NEW q, Sound(q)
    PROVE  Sound(q)'
BY DEF Sound, unpack, Shift

\* Appending requests that are sound.
LEMMA MoreRequests ==
    ASSUME RequestsInv, NEW n \in Nat, NEW f, DOMAIN f = 1..n,
           f = [k \in 1..n |-> f[k]],
           \A k \in 1..n : Sound(f[k]), UNCHANGED littleEndian,
           writeRequests' = writeRequests \o f
    PROVE  RequestsInv'
<1>1. PICK T : writeRequests \in Seq(T)
    BY DEF RequestsInv
<1> DEFINE S == T \union {f[k] : k \in 1..n}
<1>2. writeRequests \in Seq(S) /\ f \in [1..n -> S]
    <2>1. f \in [1..n -> S]
        OBVIOUS
    <2>2. T \subseteq S
        OBVIOUS
    <2> HIDE DEF S
    <2> QED BY <1>1, <2>1, <2>2
<1> HIDE DEF S
<1>3. f \in Seq(S) /\ Len(f) = n
    BY <1>2, FunctionIsSeq
<1>4. /\ writeRequests' \in Seq(S)
      /\ Len(writeRequests') = Len(writeRequests) + Len(f)
      /\ \A i \in 1..(Len(writeRequests) + Len(f)) : writeRequests'[i] =
             IF i <= Len(writeRequests) THEN writeRequests[i]
             ELSE f[i - Len(writeRequests)]
    BY <1>2, <1>3, ConcatProperties
<1>5. Len(writeRequests) \in Nat
    BY <1>2
<1>6. ASSUME NEW i \in 1..Len(writeRequests')
      PROVE  Sound(writeRequests[i])'
    <2>1. PICK q : q = writeRequests'[i]
        OBVIOUS
    <2>2. CASE i <= Len(writeRequests)
        <3>1. /\ i \in 1..Len(writeRequests)
              /\ q = writeRequests[i]
            BY <1>3, <1>4, <1>5, <2>1, <2>2
        <3>2. Sound(q)
            BY <3>1 DEF RequestsInv
        <3>3. Sound(q)'
            BY <3>2, SoundStays
        <3> QED BY <2>1, <3>3 DEF Sound, unpack, Shift
    <2>3. CASE i > Len(writeRequests)
        <3>1. /\ i - Len(writeRequests) \in 1..n
              /\ q = f[i - Len(writeRequests)]
            BY <1>3, <1>4, <1>5, <2>1, <2>3
        <3>2. Sound(q)
            BY <3>1
        <3>3. Sound(q)'
            BY <3>2, SoundStays
        <3> QED BY <2>1, <3>3 DEF Sound, unpack, Shift
    <2> QED BY <1>4, <1>5, <2>2, <2>3
<1> QED BY <1>4, <1>6 DEF RequestsInv

\* Every request that waits stays sound.
LEMMA RequestsStep ==
    ASSUME TypeOK, RequestsInv, [Next]_vars
    PROVE  RequestsInv'
<1>0. UNCHANGED littleEndian
    BY DEF Next, vars, memory, BeginCycle, executeWrite, WritesDone, store,
           write, advanceClockOfLocalMemories, MemoryAdvance, UnitThrows,
           FinishCycle, Resume, killSimulation, initializeDataMemories,
           load_data
<1>1. CASE UNCHANGED writeRequests
    <2> SUFFICES ASSUME NEW i \in 1..Len(writeRequests')
                 PROVE  Sound(writeRequests[i])'
        BY <1>1 DEF RequestsInv
    <2>1. PICK q : q = writeRequests[i]
        OBVIOUS
    <2>2. Sound(q)
        BY <1>1, <2>1 DEF RequestsInv
    <2>3. Sound(q)'
        BY <1>0, <2>2, SoundStays
    <2> QED BY <1>1, <2>1, <2>3 DEF Sound, unpack, Shift
<1>2. CASE writeRequests' = <<>>
    <2>1. writeRequests' \in Seq({})
        BY <1>2
    <2> QED BY <1>2, <2>1 DEF RequestsInv
<1>3. CASE store
    <2> DEFINE a == accesses[next]
    <2>1. a.address \in Nat /\ a.count \in 1..MaxAccess /\ a.word \in Nat
        <3>1. next \in 1..Len(accesses) /\ accesses \in Seq(Access)
            BY <1>3, InstructionFacts DEF store, TypeOK, accesses
        <3>2. a \in Access
            BY <3>1
        <3> HIDE DEF a
        <3> QED BY <3>2 DEF Access
    <2>2. CASE write(a.address, a.count, a.word)
        <3>0. PICK data \in unpack(a.word, a.count) :
                  writeRequests' =
                      Append(writeRequests, Request(a.address, data, a.word))
            BY <2>2 DEF write
        <3> DEFINE q == Request(a.address, data, a.word)
                   f == [k \in 1..1 |-> q]
        <3>1. writeRequests' = Append(writeRequests, q)
            BY <3>0
        <3>2. Sound(q)
            BY <2>1, RequestIsSound
        <3>3. writeRequests' = writeRequests \o f
            <4> HIDE DEF q
            <4>1. PICK T : writeRequests \in Seq(T)
                BY DEF RequestsInv
            <4> QED BY <3>1, <4>1
        <3>4. DOMAIN f = 1..1 /\ f = [k \in 1..1 |-> f[k]]
              /\ \A k \in 1..1 : Sound(f[k])
            BY <3>2
        <3> HIDE DEF f
        <3> QED BY <1>0, <3>3, <3>4, MoreRequests
    <2> QED BY <1>1, <1>3, <2>2 DEF store, memory
<1>4. ASSUME NEW d \in UserData, load_data(d) PROVE RequestsInv'
    <2> DEFINE data(k) == <<d.units[k] % 2^MAUSize>>
               request(k) == Request(d.address + k - 1, data(k), d.units[k])
               inRange(k) == checkRange(d.address + k - 1, 1)
    <2>1. CASE writeRequests' = <<>>
        BY <1>2, <2>1
    <2>2. ASSUME NEW n \in 0..(Len(d.units) - 1),
                 \A k \in 1..n : inRange(k),
                 writeRequests' = writeRequests \o [k \in 1..n |-> request(k)]
          PROVE  RequestsInv'
        <3>1. d.address \in Nat /\ Len(d.units) \in Nat /\ n \in Nat
            BY DataAssumption
        <3>2. ASSUME NEW k \in 1..n PROVE Sound(request(k))
            <4>1. d.address + k - 1 \in Nat /\ 1 \in 1..MaxAccess
                BY <3>1, MemoryAssumption
            <4>2. d.units[k] \in Nat
                BY <3>1, DataAssumption
            <4>3. data(k) \in unpack(d.units[k], 1)
                BY <4>2, UnpackOne
            <4> HIDE DEF data
            <4> QED BY <4>1, <4>2, <4>3, RequestIsSound
        <3> DEFINE f == [k \in 1..n |-> request(k)]
        <3>3. /\ DOMAIN f = 1..n /\ f = [k \in 1..n |-> f[k]]
              /\ \A k \in 1..n : Sound(f[k])
              /\ writeRequests' = writeRequests \o f
            <4> HIDE DEF request, data
            <4> QED BY <2>2, <3>2
        <3> HIDE DEF f
        <3> QED BY <1>0, <3>1, <3>3, MoreRequests
    <2> QED BY <1>4, <2>1, <2>2 DEF load_data
<1> QED BY <1>1, <1>2, <1>3, <1>4
        DEF Next, vars, memory, BeginCycle, executeWrite, WritesDone,
            advanceClockOfLocalMemories, MemoryAdvance, UnitThrows,
            FinishCycle, Resume, killSimulation, initializeDataMemories

(***************************************************************************)
(* The theorems.                                                           *)
(***************************************************************************)

Inv ==
    TypeOK /\ MovesInv /\ RingInv /\ ImmediatesOnTime /\ RequestsInv

LEMMA InitInv ==
    ASSUME Init
    PROVE  Inv
<1> USE GuardLatencyAssumption, ImmediateAssumption, InstructionAssumption
<1>1. TypeOK
    BY DEF Init, TypeOK, GuardInit, ImmediatesInit, MemoryInit, Initialised,
           Phases, Positions
<1>2. MovesInv
    BY DEF Init, MovesInv, Carried
<1>3. RingInv
    BY DEF Init, RingInv, GuardInit, Positions
<1>4. ImmediatesOnTime
    BY DEF Init, ImmediatesInit, ImmediatesOnTime
<1>5. RequestsInv
    <2>1. writeRequests = <<>>
        BY DEF Init, MemoryInit
    <2>2. writeRequests \in Seq({})
        BY <2>1
    <2> QED BY <2>1, <2>2 DEF RequestsInv
<1> QED BY <1>1, <1>2, <1>3, <1>4, <1>5 DEF Inv

LEMMA Invariance == Spec => []Inv
<1>1. Inv /\ [Next]_vars => Inv'
    BY TypeStep, MovesStep, RingStep, OnTimeStep, RequestsStep
       DEF Inv, MovesInv
<1> QED BY <1>1, InitInv, PTL DEF Spec

\* Types, and the bounds of everything a cycle indexes with.
THEOREM TypeCorrect == Spec => []TypeOK
<1>1. Inv => TypeOK
    BY DEF Inv
<1> QED BY <1>1, Invariance, PTL

\* ExecutableInstruction::execute is a parallel assignment, whatever moves an
\* instruction has and whatever their guards.
THEOREM Parallel == Spec => []InstructionIsParallel
<1>1. Inv => InstructionIsParallel
    BY DEF Inv, MovesInv, Written, InstructionIsParallel
<1> QED BY <1>1, Invariance, PTL

\* The ring of GuardState delays the register by exactly its latency.
THEOREM GuardDelay == Spec => []GuardIsDelayed
<1>1. Inv => GuardIsDelayed
    BY GuardLatencyAssumption
       DEF Inv, RingInv, TypeOK, GuardIsDelayed, GuardValue, Positions
<1> QED BY <1>1, Invariance, PTL

\* No immediate is late or blocked behind another one, for every latency and
\* every width of the timer that can hold it.
THEOREM OnTime == Spec => []ImmediatesOnTime
<1>1. Inv => ImmediatesOnTime
    BY DEF Inv
<1> QED BY <1>1, Invariance, PTL

(***************************************************************************)
(* What a store writes is what is read.                                    *)
(***************************************************************************)

\* Weights grow.
LEMMA WeightGrows ==
    ASSUME NEW j \in 0..MaxAccess, NEW l \in 0..MaxAccess, j < l
    PROVE  Weight[j] < Weight[l]
<1> HIDE DEF Weight
<1>0. MaxAccess \in Nat /\ 2^MAUSize \in Nat /\ 2^MAUSize >= 2
    BY MemoryAssumption
<1>1. ASSUME NEW k \in 1..MaxAccess PROVE Weight[k - 1] < Weight[k]
    <2>1. k - 1 \in 0..MaxAccess
        BY <1>0
    <2>2. Weight[k - 1] \in Nat \ {0} /\ Weight[k] = Weight[k - 1] * 2^MAUSize
        BY <2>1, WeightIs
    <2> DEFINE v == Weight[k - 1]
               B == 2^MAUSize
    <2>3. v * B >= 2 * v
        <3>1. v \in Nat \ {0} /\ B \in Nat /\ B >= 2
            BY <1>0, <2>2
        <3> HIDE DEF v, B
        <3> QED BY <3>1
    <2>4. v \in Nat \ {0} /\ Weight[k] = v * B
        BY <2>2
    <2>5. v * B \in Nat /\ v < v * B
        <3> HIDE DEF v, B
        <3>1. B \in Nat
            BY <1>0 DEF B
        <3>2. v * B \in Nat
            BY <2>4, <3>1
        <3> QED BY <2>3, <2>4, <3>2
    <2> QED BY <2>4, <2>5
<1> DEFINE Bad == {k \in 0..MaxAccess : j < k /\ ~(Weight[j] < Weight[k])}
<1> SUFFICES ASSUME l \in Bad PROVE FALSE
    OBVIOUS
<1>2. PICK k \in Bad : \A i \in Bad : k <= i
    <2>1. Bad \in SUBSET Nat
        BY <1>0
    <2> HIDE DEF Bad
    <2> QED BY <2>1, LeastExists
<1>3. k \in 1..MaxAccess /\ k - 1 \in 0..MaxAccess /\ k - 1 \notin Bad
    BY <1>0, <1>2
<1>4. Weight[j] \in Nat /\ Weight[k - 1] \in Nat /\ Weight[k] \in Nat
    BY <1>3, WeightIs
<1>5. k - 1 = j \/ Weight[j] < Weight[k - 1]
    BY <1>0, <1>3
<1>6. Weight[k - 1] < Weight[k]
    BY <1>1, <1>3
<1> QED BY <1>4, <1>5, <1>6

\* A unit that stands for digit j of the word w, shifted into its place: an
\* access that fits the width loses no bit.
LEMMA ShiftedIs ==
    ASSUME NEW n \in 1..MaxAccess, NEW j \in 0..(n - 1), NEW w \in Nat,
           Weight[n] <= Width
    PROVE  Shifted((w \div Weight[j]) % 2^MAUSize, j)
               = (w % Weight[j + 1]) - (w % Weight[j])
<1> DEFINE B == 2^MAUSize
           v == Weight[j]
           d == (w \div v) % B
           x == w % Weight[j + 1]
           y == w % v
<1> HIDE DEF Weight
<1>1. /\ j \in 0..MaxAccess /\ j + 1 \in 1..MaxAccess /\ n \in 0..MaxAccess
      /\ j + 1 \in 0..MaxAccess /\ (j + 1) - 1 = j
      /\ (j + 1 = n \/ j + 1 < n)
    BY MemoryAssumption
<1>2. /\ v \in Nat \ {0} /\ Weight[j + 1] = v * B /\ B \in Nat \ {0}
      /\ Weight[j + 1] \in Nat \ {0} /\ Weight[n] \in Nat
    BY <1>1, WeightIs, MemoryAssumption
<1>3. Width \in Nat
    BY MemoryAssumption DEF Width
<1>4. v < Weight[j + 1] /\ Weight[j + 1] <= Width
    <2>1. v < Weight[j + 1]
        BY <1>1, WeightGrows
    <2>2. Weight[j + 1] <= Weight[n]
        BY <1>1, <1>2, WeightGrows
    <2> QED BY <1>2, <1>3, <2>1, <2>2
<1>5. x \in 0..(Weight[j + 1] - 1) /\ y \in 0..(v - 1)
    BY <1>2, Division
<1>6. d * v + y = x
    <2>1. B * v = v * B
        BY <1>2
    <2>2. d * v + y = w % (B * v)
        <3> HIDE DEF B, v
        <3> QED BY <1>2, DivideTwice
    <2> QED BY <1>2, <2>1, <2>2
<1>7. d \in Nat
    <2>1. w \div v \in Nat
        BY <1>2, Division
    <2> HIDE DEF v, B
    <2> QED BY <1>2, <2>1, Division
<1>8. Shifted(d, j) = (d * v) % Width
    BY <1>2, <1>3, <1>4 DEF Shifted
<1>9. d * v \in Nat /\ d * v < Width
    <2>1. d * v \in Nat
        BY <1>2, <1>7
    <2> DEFINE z == d * v
    <2> HIDE DEF z, d, v, x, y
    <2>2. z \in Nat /\ z + y = x
        BY <1>6, <2>1 DEF z
    <2> QED BY <1>2, <1>3, <1>4, <1>5, <2>2 DEF z
<1> DEFINE z == d * v
<1>10. z % Width = z
    <2> HIDE DEF z
    <2>1. z \in Nat /\ z < Width
        BY <1>9 DEF z
    <2> QED BY <1>3, <2>1
<1>11. z = x - y
    <2> HIDE DEF d, v, x, y
    <2>1. x \in Int /\ y \in Int /\ z \in Int /\ z + y = x
        BY <1>2, <1>5, <1>6, <1>9
    <2> QED BY <2>1
<1> QED BY <1>8, <1>10, <1>11

\* Units that hold the word w, in the byte order of the memory, are read back
\* as w modulo the weight of the access: each unit adds its digit.
LEMMA ReadsBack ==
    ASSUME NEW m, NEW address \in Nat, NEW n \in 1..MaxAccess, NEW w \in Nat,
           Weight[n] <= Width,
           \A k \in 1..n :
               m[address + k - 1] =
                   (w \div Weight[Shift(k, n)]) % 2^MAUSize
    PROVE  readWord(m, address, n) = w % Weight[n]
<1> DEFINE part(k) == Shifted(m[address + k - 1], Shift(k, n))
           Solves(f) == f = [k \in 0..n |->
                                IF k = 0 THEN 0 ELSE f[k - 1] + part(k)]
           rest(k) == w % Weight[k]
           g == [k \in 0..n |-> IF littleEndian THEN rest(k)
                                ELSE rest(n) - rest(n - k)]
           h == [k \in 0..n |-> IF k = 0 THEN 0 ELSE g[k - 1] + part(k)]
<1> HIDE DEF Weight
<1>0. n \in Nat /\ n >= 1 /\ MaxAccess \in Nat /\ n <= MaxAccess
    BY MemoryAssumption
<1>1. \A k \in 0..n : rest(k) \in Nat
    <2>1. \A k \in 0..n : Weight[k] \in Nat \ {0}
        BY <1>0, WeightIs
    <2> QED BY <2>1, Division
<1>2. rest(0) = 0
    <2>1. Weight[0] = 1
        BY WeightIs
    <2> QED BY <2>1
<1>3. ASSUME NEW k \in 1..n
      PROVE  part(k) = rest(Shift(k, n) + 1) - rest(Shift(k, n))
    <2>1. Shift(k, n) \in 0..(n - 1)
        BY <1>0 DEF Shift
    <2> QED BY <2>1, ShiftedIs
<1> HIDE DEF part, rest
<1>4. ASSUME NEW k \in 0..n PROVE g[k] = h[k]
    <2>1. CASE k = 0
        BY <1>0, <1>1, <1>2, <2>1
    <2>2. CASE k # 0 /\ littleEndian
        <3>1. k \in 1..n /\ k - 1 \in 0..n /\ (k - 1) + 1 = k
            BY <1>0, <2>2
        <3>2. part(k) = rest(k) - rest(k - 1)
            BY <1>3, <2>2, <3>1 DEF Shift
        <3> QED BY <1>0, <1>1, <2>2, <3>1, <3>2
    <2>3. CASE k # 0 /\ ~littleEndian
        <3>1. /\ k \in 1..n /\ k - 1 \in 0..n /\ n - k \in 0..n
              /\ n - (k - 1) \in 0..n /\ (n - k) + 1 = n - (k - 1)
            BY <1>0, <2>3
        <3>2. part(k) = rest(n - (k - 1)) - rest(n - k)
            BY <1>3, <2>3, <3>1 DEF Shift
        <3>3. rest(n) \in Nat
            BY <1>0, <1>1
        <3> QED BY <1>0, <1>1, <2>3, <3>1, <3>2, <3>3
    <2> QED BY <2>1, <2>2, <2>3
<1>5. Solves(g)
    <2>1. g = [k \in 0..n |-> g[k]] /\ h = [k \in 0..n |-> h[k]]
        OBVIOUS
    <2>2. g = h
        <3> HIDE DEF g, h
        <3> QED BY <1>4, <2>1
    <2> QED BY <2>2
<1> DEFINE word == CHOOSE f : Solves(f)
<1>6. readWord(m, address, n) = word[n]
    BY DEF readWord, part
<1>7. Solves(word)
    <2> HIDE DEF g, Solves
    <2> QED BY <1>5
<1>8. word[n] = g[n]
    <2> DEFINE Bad == {k \in 0..n : word[k] # g[k]}
    <2> SUFFICES ASSUME n \in Bad PROVE FALSE
        BY <1>0
    <2>1. Bad \in SUBSET Nat /\ Bad # {}
        <3> HIDE DEF word, g
        <3> QED BY <1>0
    <2>2. PICK k \in Bad : \A l \in Bad : k <= l
        <3> HIDE DEF Bad
        <3> QED BY <2>1, LeastExists
    <2>3. word[k] = IF k = 0 THEN 0 ELSE word[k - 1] + part(k)
        <3> HIDE DEF word
        <3> QED BY <1>7
    <2>4. g[k] = IF k = 0 THEN 0 ELSE g[k - 1] + part(k)
        <3> HIDE DEF g
        <3> QED BY <1>5
    <2> HIDE DEF word, g
    <2>5. k # 0
        BY <2>3, <2>4
    <2>6. k - 1 \in 0..n /\ k - 1 \notin Bad
        BY <1>0, <2>2, <2>5
    <2>7. word[k - 1] = g[k - 1]
        BY <2>6
    <2> QED BY <2>3, <2>4, <2>5, <2>7
<1>9. g[n] = rest(n)
    <2>1. n - n = 0 /\ n \in 0..n /\ rest(n) \in Nat
        BY <1>0, <1>1
    <2> QED BY <1>2, <2>1
<1> QED BY <1>6, <1>8, <1>9 DEF rest

\* The commit leaves in memory the units of a request that no later request
\* covers.
LEMMA CommitKeeps ==
    ASSUME RequestsInv, NEW k \in 1..Len(writeRequests),
           Inside(writeRequests[k]), contents' = Committed(writeRequests),
           \A j \in (k + 1)..Len(writeRequests) : \A a \in Addresses :
               ~(Covers(writeRequests[k], a) /\ Covers(writeRequests[j], a)),
           NEW i \in 1..Len(writeRequests[k].data)
    PROVE  contents'[writeRequests[k].address + i - 1]
               = writeRequests[k].data[i]
<1> DEFINE q == writeRequests[k]
           a == q.address + i - 1
           Last == {l \in 1..Len(writeRequests) :
                       /\ Covers(writeRequests[l], a)
                       /\ \A j \in (l + 1)..Len(writeRequests) :
                              ~Covers(writeRequests[j], a)}
<1>1. Len(writeRequests) \in Nat
    BY DEF RequestsInv
<1>2. /\ q.address \in Nat /\ Len(q.data) \in Nat
      /\ i \in Nat /\ i >= 1 /\ i <= Len(q.data)
      /\ q.address >= FirstAddress
      /\ q.address + Len(q.data) - 1 <= LastAddress
    <2>1. /\ Inside(q) /\ q.address \in Nat
          /\ Len(q.data) \in 1..MaxAccess
        BY DEF RequestsInv, Sound
    <2> QED BY <2>1, MemoryAssumption DEF Inside
<1>3. a \in Addresses /\ a - q.address + 1 = i
    <2> HIDE DEF q
    <2> QED BY <1>2, MemoryAssumption DEF Addresses
<1>4. Covers(q, a)
    <2> HIDE DEF q
    <2> QED BY <1>2 DEF Covers
<1>5. k \in Last
    BY <1>3, <1>4
<1>6. \A l \in Last : l = k
    <2> SUFFICES ASSUME NEW l \in Last, l # k PROVE FALSE
        OBVIOUS
    <2>1. l \in 1..Len(writeRequests) /\ (l < k \/ k < l)
        BY <1>1
    <2>2. CASE l < k
        <3>1. k \in (l + 1)..Len(writeRequests)
            BY <1>1, <2>1, <2>2
        <3> QED BY <1>4, <3>1
    <2>3. CASE k < l
        <3>1. l \in (k + 1)..Len(writeRequests)
            BY <1>1, <2>1, <2>3
        <3> QED BY <1>3, <1>4, <3>1
    <2> QED BY <2>1, <2>2, <2>3
<1>7. (CHOOSE l \in Last : TRUE) = k /\ Last # {}
    <2> HIDE DEF Last
    <2> QED BY <1>5, <1>6
<1>8. contents'[a] = IF Last = {} THEN contents[a]
                     ELSE LET r == writeRequests[CHOOSE l \in Last : TRUE]
                          IN  r.data[a - r.address + 1]
    <2> HIDE DEF a
    <2> QED BY <1>3 DEF Committed
<1> HIDE DEF Last, a
<1>9. contents'[a] = q.data[a - q.address + 1]
    BY <1>7, <1>8
<1> QED BY <1>3, <1>9 DEF a

\* Memory::write, advanceClock and read in either byte order: at the end of
\* the cycle a store that no later one overlaps is read back, truncated to
\* its access, for every memory and width of a unit and every access that
\* fits what a read can hold, unless a request reaches out of the memory.
THEOREM StoresAreReadBack == Spec => StoresReadBack
<1>1. ASSUME Next, Commits,
             \A k \in 1..Len(writeRequests) : Inside(writeRequests[k])
      PROVE  contents' = Committed(writeRequests)
    <2>0. CommitsTo(writeRequests) = {Committed(writeRequests)}
        BY <1>1 DEF CommitsTo
    <2>1. CASE advanceClockOfLocalMemories
        BY <1>1, <2>0, <2>1 DEF Commits, advanceClockOfLocalMemories, Go,
                                MemoryAdvance
    <2>2. CASE FinishCycle
        BY <1>1, <2>0, <2>2 DEF Commits, FinishCycle, Go, MemoryAdvance
    <2>3. CASE ~advanceClockOfLocalMemories /\ ~FinishCycle
        BY <1>1, <2>3 DEF Commits, Next, BeginCycle, executeWrite,
            WritesDone, store, UnitThrows, Resume, killSimulation, load_data,
            Go, cycle
    <2> QED BY <2>1, <2>2, <2>3
<1>2. ASSUME Inv, Next, Commits,
             \A k \in 1..Len(writeRequests) : Inside(writeRequests[k]),
             NEW k \in 1..Len(writeRequests),
             Weight[Len(writeRequests[k].data)] <= Width,
             \A j \in (k + 1)..Len(writeRequests) : \A a \in Addresses :
                 ~(/\ Covers(writeRequests[k], a)
                   /\ Covers(writeRequests[j], a))
      PROVE  readWord(contents', writeRequests[k].address,
                      Len(writeRequests[k].data))
                 = writeRequests[k].word % Weight[Len(writeRequests[k].data)]
    <2> DEFINE q == writeRequests[k]
               n == Len(q.data)
    <2>1. RequestsInv
        BY <1>2 DEF Inv
    <2>2. Sound(q)
        BY <2>1 DEF RequestsInv
    <2>3. contents' = Committed(writeRequests)
        BY <1>1, <1>2
    <2>4. \A i \in 1..n : contents'[q.address + i - 1] = q.data[i]
        BY <1>2, <2>1, <2>3, CommitKeeps
    <2>5. Weight[n] <= Width
        BY <1>2
    <2> HIDE DEF q, n, Weight
    <2>6. /\ q.address \in Nat /\ n \in 1..MaxAccess /\ q.word \in Nat
          /\ q.data \in unpack(q.word, n)
        BY <2>2 DEF Sound, n
    <2>7. ASSUME NEW i \in 1..n
          PROVE  contents'[q.address + i - 1] =
                     (q.word \div Weight[Shift(i, n)]) % 2^MAUSize
        <3>1. Shift(i, n) \in 0..(n - 1) /\ Shift(i, n) < n
            BY <2>6 DEF Shift
        <3>2. Shift(i, n) \in 0..MaxAccess /\ n \in 0..MaxAccess
            BY <2>6, <3>1, MemoryAssumption
        <3>3. Weight[Shift(i, n)] < Weight[n]
            BY <3>1, <3>2, WeightGrows
        <3>4. Weight[Shift(i, n)] < LongModulus
            <4>1. /\ Weight[Shift(i, n)] \in Nat /\ Weight[n] \in Nat
                  /\ Width \in Nat /\ Width <= LongModulus
                BY <3>2, WeightIs, MemoryAssumption DEF Width
            <4> QED BY <2>5, <3>3, <4>1, MemoryAssumption
        <3>5. q.data[i] = (q.word \div Weight[Shift(i, n)]) % 2^MAUSize
            BY <2>6, <3>4 DEF unpack
        <3> QED BY <2>4, <3>5
    <2>8. readWord(contents', q.address, n) = q.word % Weight[n]
        <3>1. \A i \in 1..n :
                  contents'[q.address + i - 1] =
                      (q.word \div Weight[Shift(i, n)]) % 2^MAUSize
            BY <2>7
        <3>2. PICK m, address, w : /\ m = contents' /\ address = q.address
                                   /\ w = q.word
            OBVIOUS
        <3>3. /\ address \in Nat /\ w \in Nat
              /\ \A i \in 1..n :
                     m[address + i - 1] =
                         (w \div Weight[Shift(i, n)]) % 2^MAUSize
            BY <2>6, <3>1, <3>2
        <3>4. readWord(m, address, n) = w % Weight[n]
            BY <2>5, <2>6, <3>3, ReadsBack
        <3> QED BY <3>2, <3>4
    <2> QED BY <2>8 DEF q, n
<1>3. Inv /\ [Next]_vars => [ReadBackAtCommit]_vars
    BY <1>2 DEF ReadBackAtCommit
<1> QED BY <1>3, Invariance, PTL DEF Spec, StoresReadBack

(***************************************************************************)
(* The refinement: a register of the long immediate unit is a delay line.  *)
(***************************************************************************)

IsLast(j, k) ==
    OnTheWay(j, k) /\ \A l \in (j + 1)..Len(queue) : ~OnTheWay(l, k)

\* What the mapped line holds.
LineIs ==
    \A k \in 1..ImmLatency :
        /\ (\A j \in 1..Len(queue) : ~OnTheWay(j, k)) => Line[k] = NoResult
        /\ \A j \in 1..Len(queue) :
               IsLast(j, k) => Line[k] = queue[j].value
        /\ (\E j \in 1..Len(queue) : OnTheWay(j, k)) =>
               \E j \in 1..Len(queue) : IsLast(j, k)

LEMMA LineFacts == TypeOK => LineIs
<1> SUFFICES ASSUME TypeOK, NEW k \in 1..ImmLatency
             PROVE  /\ (\A j \in 1..Len(queue) : ~OnTheWay(j, k)) =>
                           Line[k] = NoResult
                    /\ \A j \in 1..Len(queue) :
                           IsLast(j, k) => Line[k] = queue[j].value
                    /\ (\E j \in 1..Len(queue) : OnTheWay(j, k)) =>
                           \E j \in 1..Len(queue) : IsLast(j, k)
    BY DEF LineIs
<1>1. ASSUME \A j \in 1..Len(queue) : ~OnTheWay(j, k)
      PROVE  Line[k] = NoResult
    BY <1>1 DEF Line
<1>2. ASSUME NEW j \in 1..Len(queue), IsLast(j, k)
      PROVE  Line[k] = queue[j].value
    <2> DEFINE c == CHOOSE i \in 1..Len(queue) : IsLast(i, k)
    <2>1. c \in 1..Len(queue) /\ IsLast(c, k)
        BY <1>2
    <2>2. Line[k] = queue[c].value
        <3>1. \E i \in 1..Len(queue) : OnTheWay(i, k)
            BY <1>2 DEF IsLast
        <3> QED BY <3>1 DEF Line, IsLast
    <2> HIDE DEF c
    <2>3. c = j
        BY <1>2, <2>1, QueueFacts DEF IsLast
    <2> QED BY <2>2, <2>3
<1>3. ASSUME NEW i \in 1..Len(queue), OnTheWay(i, k)
      PROVE  \E j \in 1..Len(queue) : IsLast(j, k)
    <2> DEFINE T == {j \in 1..Len(queue) : OnTheWay(j, k)}
    <2>1. T \in SUBSET (1..Len(queue)) /\ T # {}
        BY <1>3
    <2>2. PICK j \in T : \A l \in T : l <= j
        <3> HIDE DEF T
        <3> QED BY <2>1, QueueFacts, LastExists
    <2>3. IsLast(j, k)
        BY <2>2, QueueFacts DEF IsLast
    <2> QED BY <2>3
<1> QED BY <1>1, <1>2, <1>3

\* A step that leaves the unit alone leaves the line alone.
LEMMA LineStands ==
    ASSUME UNCHANGED immediates
    PROVE  UNCHANGED <<Line, values[ImmReg]>>
BY DEF immediates, Line, OnTheWay, Distance

\* An instruction starts at most one value on its way to the register.
LEMMA LineStarts ==
    ASSUME TypeOK, TypeOK', ImmediatesOnTime, LineIs, LineIs',
           NEW ins \in Instructions, setRegisterValues(ins.updates)
    PROVE  \/ Line' = Line
           \/ \E v \in Values : Line' = [Line EXCEPT ![ImmLatency] = v]
<1> DEFINE N == Len(queue)
           N2 == Len(queue')
<1>1. /\ N \in Nat /\ N2 \in Nat /\ N <= N2
      /\ \A j \in 1..N : queue'[j] = queue[j] /\ Distance(j)' = Distance(j)
      /\ \A j \in (N + 1)..N2 : Distance(j)' = ImmLatency
    BY UpdatesType, UpdatesDistance, QueueFacts, InstructionFacts
<1>2. /\ \A j \in 1..N, k \in 1..ImmLatency :
             OnTheWay(j, k)' <=> OnTheWay(j, k)
      /\ \A j \in (N + 1)..N2, k \in 1..ImmLatency :
             OnTheWay(j, k)' <=>
                 k = ImmLatency /\ queue'[j].index = ImmReg
    BY <1>1 DEF OnTheWay
<1>3. ASSUME NEW k \in 1..ImmLatency,
             \A j \in (N + 1)..N2 : ~(OnTheWay(j, k)')
      PROVE  Line'[k] = Line[k]
    <2>1. CASE \A j \in 1..N : ~OnTheWay(j, k)
        <3>1. \A j \in 1..N2 : ~(OnTheWay(j, k)')
            BY <1>1, <1>2, <1>3, <2>1
        <3> QED BY <2>1, <3>1 DEF LineIs
    <2>2. CASE \E j \in 1..N : OnTheWay(j, k)
        <3>1. PICK j \in 1..N : IsLast(j, k)
            BY <2>2 DEF LineIs
        <3>2. j \in 1..N2 /\ IsLast(j, k)'
            BY <1>1, <1>2, <1>3, <3>1 DEF IsLast
        <3>3. Line[k] = queue[j].value
            BY <3>1 DEF LineIs
        <3>4. Line'[k] = queue'[j].value
            BY <3>2 DEF LineIs
        <3> QED BY <1>1, <3>3, <3>4
    <2> QED BY <2>1, <2>2
<1>4. /\ Line = [k \in 1..ImmLatency |-> Line[k]]
      /\ Line' = [k \in 1..ImmLatency |-> Line'[k]]
    BY DEF Line
<1>5. CASE \A j \in (N + 1)..N2 : queue'[j].index # ImmReg
    <2>1. \A k \in 1..ImmLatency : Line'[k] = Line[k]
        BY <1>2, <1>3, <1>5
    <2> QED BY <1>4, <2>1
<1>6. CASE \E j \in (N + 1)..N2 : queue'[j].index = ImmReg
    <2>1. ImmLatency \in 1..ImmLatency
        BY ImmediateAssumption
    <2>2. PICK i \in (N + 1)..N2 : OnTheWay(i, ImmLatency)'
        BY <1>2, <1>6, <2>1
    <2>3. PICK j \in 1..N2 : IsLast(j, ImmLatency)'
        BY <1>1, <2>1, <2>2 DEF LineIs
    <2>4. Line'[ImmLatency] = queue'[j].value /\ queue'[j].value \in Values
        <3>1. Line'[ImmLatency] = queue'[j].value
            BY <2>1, <2>3 DEF LineIs
        <3>2. queue' \in Seq(Item) /\ queue'[j] \in Item
            BY UpdatesType
        <3> QED BY <3>1, <3>2 DEF Item
    <2>5. \A k \in 1..ImmLatency : k # ImmLatency => Line'[k] = Line[k]
        BY <1>2, <1>3
    <2>6. Line' = [Line EXCEPT ![ImmLatency] = queue'[j].value]
        BY <1>4, <2>1, <2>4, <2>5
    <2> QED BY <2>4, <2>6
<1> QED BY <1>5, <1>6

\* A tick of the unit moves the line by one stage.
LEMMA LineAdvances ==
    ASSUME TypeOK, TypeOK', ImmediatesOnTime, LineIs, LineIs',
           ImmediatesAdvance
    PROVE  /\ values'[ImmReg] = IF Line[1] = NoResult THEN values[ImmReg]
                                ELSE Line[1]
           /\ Line' = [k \in 1..ImmLatency |->
                          IF k = ImmLatency THEN NoResult ELSE Line[k + 1]]
<1> DEFINE N == Len(queue)
           N2 == Len(queue')
           Last(n) == {k \in 1..n :
                          /\ queue[k].index = ImmReg
                          /\ \A j \in (k + 1)..n : queue[j].index # ImmReg}
<1>1. PICK n \in 0..N :
          /\ values'[ImmReg] = IF Last(n) = {} THEN values[ImmReg]
                               ELSE queue[CHOOSE k \in Last(n) : TRUE].value
          /\ \A k \in 1..n : Distance(k) = 1
          /\ \A k \in (n + 1)..N : Distance(k) >= 2
          /\ N2 = N - n
          /\ \A k \in 1..N2 : /\ queue'[k] = queue[n + k]
                              /\ Distance(k)' = Distance(n + k) - 1
    <2>1. ImmReg \in ImmRegs
        BY InstructionAssumption
    <2> QED BY <2>1, TickDistance
<1>2. /\ N \in Nat /\ N2 \in Nat /\ ImmLatency \in Nat /\ ImmLatency >= 1
      /\ \A k \in 1..N : Distance(k) \in 1..ImmLatency
    BY <1>1, QueueFacts, ImmediateAssumption DEF ImmediatesOnTime
<1>3. \A j \in 1..N :
          OnTheWay(j, 1) <=> j \in 1..n /\ queue[j].index = ImmReg
    BY <1>1, <1>2 DEF OnTheWay
<1>4. values'[ImmReg] = IF Line[1] = NoResult THEN values[ImmReg]
                        ELSE Line[1]
    <2>1. CASE Last(n) = {}
        <3>1. \A j \in 1..N : ~IsLast(j, 1)
            <4> SUFFICES ASSUME NEW j \in 1..N, IsLast(j, 1) PROVE FALSE
                OBVIOUS
            <4>1. j \in 1..n /\ queue[j].index = ImmReg
                BY <1>3 DEF IsLast
            <4>2. \A l \in (j + 1)..n : queue[l].index # ImmReg
                BY <1>2, <1>3, <4>1 DEF IsLast
            <4> QED BY <2>1, <4>1, <4>2
        <3>2. Line[1] = NoResult
            BY <1>2, <3>1 DEF LineIs
        <3> QED BY <1>1, <2>1, <3>2
    <2>2. CASE Last(n) # {}
        <3> DEFINE c == CHOOSE k \in Last(n) : TRUE
        <3>1. c \in Last(n)
            <4> HIDE DEF Last
            <4> QED BY <2>2
        <3>2. values'[ImmReg] = queue[c].value
            BY <1>1, <2>2
        <3> HIDE DEF c
        <3>3. c \in 1..N /\ IsLast(c, 1)
            BY <1>2, <1>3, <3>1 DEF IsLast
        <3>4. Line[1] = queue[c].value /\ queue[c].value \in Values
            BY <1>2, <3>3, QueueFacts DEF LineIs
        <3> QED BY <3>2, <3>4, InstructionAssumption
    <2> QED BY <2>1, <2>2
<1>5. \A j \in 1..N2 : n + j \in 1..N /\ n + j \in (n + 1)..N
    BY <1>1, <1>2
<1>6. ASSUME NEW k \in 1..(ImmLatency - 1)
      PROVE  Line'[k] = Line[k + 1]
    <2>1. k \in 1..ImmLatency /\ k + 1 \in 1..ImmLatency /\ k + 1 >= 2
        BY <1>2
    <2>2. \A j \in 1..N2 : OnTheWay(j, k)' <=> OnTheWay(n + j, k + 1)
        BY <1>1, <1>2, <1>5, <2>1 DEF OnTheWay
    <2>3. \A j \in 1..N : OnTheWay(j, k + 1) => j - n \in 1..N2
        BY <1>1, <1>2, <2>1 DEF OnTheWay
    <2>4. CASE \A j \in 1..N : ~OnTheWay(j, k + 1)
        <3>1. \A j \in 1..N2 : ~(OnTheWay(j, k)')
            BY <1>5, <2>2, <2>4
        <3>2. Line[k + 1] = NoResult
            BY <2>1, <2>4 DEF LineIs
        <3>3. Line'[k] = NoResult
            BY <2>1, <3>1 DEF LineIs
        <3> QED BY <3>2, <3>3
    <2>5. CASE \E j \in 1..N : OnTheWay(j, k + 1)
        <3>1. PICK j \in 1..N : IsLast(j, k + 1)
            BY <2>1, <2>5 DEF LineIs
        <3> DEFINE i == j - n
        <3>2. i \in 1..N2 /\ n + i = j
            BY <1>1, <1>2, <2>3, <3>1 DEF IsLast
        <3> HIDE DEF i
        <3>3. OnTheWay(i, k)'
            BY <2>2, <3>1, <3>2 DEF IsLast
        <3>4. ASSUME NEW l \in (i + 1)..N2 PROVE ~(OnTheWay(l, k)')
            <4>1. l \in 1..N2 /\ n + l \in (j + 1)..N
                BY <1>1, <1>2, <3>2
            <4> QED BY <2>2, <3>1, <4>1 DEF IsLast
        <3>5. IsLast(i, k)'
            BY <3>3, <3>4 DEF IsLast
        <3>6. Line[k + 1] = queue[j].value
            BY <2>1, <3>1 DEF LineIs
        <3>7. Line'[k] = queue'[i].value
            BY <2>1, <3>2, <3>5 DEF LineIs
        <3> QED BY <1>1, <3>2, <3>6, <3>7
    <2> QED BY <2>4, <2>5
<1>7. Line'[ImmLatency] = NoResult
    <2>1. \A j \in 1..N2 : Distance(j)' # ImmLatency
        BY <1>1, <1>2, <1>5
    <2>2. \A j \in 1..N2 : ~(OnTheWay(j, ImmLatency)')
        BY <2>1 DEF OnTheWay
    <2> QED BY <1>2, <2>2 DEF LineIs
<1>8. Line' = [k \in 1..ImmLatency |-> Line'[k]]
    BY DEF Line
<1>9. \A k \in 1..ImmLatency :
          Line'[k] = IF k = ImmLatency THEN NoResult ELSE Line[k + 1]
    BY <1>2, <1>6, <1>7
<1> QED BY <1>4, <1>8, <1>9

\* Every step of the machine is a step of the delay line or a stutter.
LEMMA DelayLineStep ==
    ASSUME Inv, Inv', LineIs, LineIs', [Next]_vars
    PROVE  [Immediate!Next]_(Immediate!vars)
<1> USE DEF Immediate!Next, Immediate!vars
<1>1. ASSUME NEW ins \in Instructions, BeginCycle(ins)
      PROVE  Immediate!Next
    <2>1. /\ setRegisterValues(ins.updates)
          /\ Half = "endClock" /\ Half' = "advanceClock"
        BY <1>1 DEF BeginCycle, Half
    <2>2. \/ Line' = Line
          \/ \E v \in Values : Line' = [Line EXCEPT ![ImmLatency] = v]
        BY <2>1, LineStarts DEF Inv
    <2>3. UNCHANGED values[ImmReg]
        BY <2>1 DEF setRegisterValues
    <2> QED BY <2>1, <2>2, <2>3 DEF Immediate!Start, Immediate!NoStart
<1>2. CASE FinishCycle
    <2>1. ImmediatesAdvance /\ Half = "advanceClock" /\ Half' = "endClock"
        BY <1>2 DEF FinishCycle, Go, Half
    <2>2. /\ values'[ImmReg] = IF Line[1] = NoResult THEN values[ImmReg]
                               ELSE Line[1]
          /\ Line' = [k \in 1..ImmLatency |->
                         IF k = ImmLatency THEN NoResult ELSE Line[k + 1]]
        BY <2>1, LineAdvances DEF Inv
    <2> QED BY <2>1, <2>2 DEF Immediate!Advance
<1>3. ASSUME UNCHANGED immediates,
             \/ UNCHANGED Half
             \/ Half = "advanceClock" /\ Half' = "stopped"
             \/ Half = "stopped" /\ Half' = "endClock"
      PROVE  [Immediate!Next]_(Immediate!vars)
    <2>1. UNCHANGED <<Line, values[ImmReg]>>
        BY <1>3, LineStands
    <2> QED BY <1>3, <2>1 DEF Immediate!Abandon, Immediate!Resume
<1>4. CASE executeWrite \/ WritesDone \/ advanceClockOfLocalMemories
           \/ UnitThrows
    BY <1>3, <1>4 DEF executeWrite, WritesDone, advanceClockOfLocalMemories,
                      UnitThrows, Go, Half
<1>5. CASE store
    BY <1>3, <1>5 DEF store, Half
<1>6. CASE Resume \/ killSimulation
    BY <1>3, <1>6 DEF Resume, killSimulation, Go, Half
<1>7. CASE \/ \E d \in UserData : load_data(d)
           \/ UNCHANGED vars
    BY <1>3, <1>7 DEF load_data, vars, cycle, Half
<1> QED BY <1>1, <1>2, <1>4, <1>5, <1>6, <1>7 DEF Next

\* A register of a long immediate unit implements a delay line of the unit's
\* latency, for every set of instructions, with cycles given up and killed.
THEOREM ImplementsDelayLine == Spec => IsDelayLine
<1>1. Init => Immediate!Init
    <2> SUFFICES ASSUME Init PROVE Immediate!Init
        OBVIOUS
    <2>1. queue = <<>> /\ values = [r \in ImmRegs |-> 0] /\ phase = "rest"
        BY DEF Init, ImmediatesInit
    <2>2. Line = [k \in 1..ImmLatency |-> NoResult]
        BY <2>1 DEF Line
    <2> QED BY <2>1, <2>2, InstructionAssumption DEF Immediate!Init, Half
<1>2. Inv => LineIs
    BY LineFacts DEF Inv
<1>3. Inv /\ Inv' /\ LineIs /\ LineIs' /\ [Next]_vars =>
          [Immediate!Next]_(Immediate!vars)
    BY DelayLineStep
<1> QED BY <1>1, <1>2, <1>3, Invariance, PTL
        DEF Spec, IsDelayLine, Immediate!Spec
==============================================================================
