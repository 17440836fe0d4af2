-------------------- MODULE SimpleOperationExecutorProofs --------------------
(***************************************************************************)
(* For every latency the ring-buffer executor is a delay line, and its     *)
(* count stays as close to what is in the ring as the number of repeated   *)
(* and of failed starts allows.                                            *)
(***************************************************************************)
EXTENDS SimpleOperationExecutor, FiniteSetTheorems, TLAPS

(***************************************************************************)
(* Arithmetic.                                                             *)
(***************************************************************************)

\* Remainders of positions in the ring.
LEMMA LatencyMod ==
    /\ \A x \in Int : 0 <= x /\ x < Latency => x % Latency = x
    /\ \A x \in Int :
           Latency <= x /\ x < 2 * Latency => x % Latency = x - Latency
<1> USE LatencyAssumption
<1>1. \A x \in Int : 0 <= x /\ x < Latency => x % Latency = x
  OBVIOUS
<1>2. \A x \in Int :
          Latency <= x /\ x < 2 * Latency => x % Latency = x - Latency
  OBVIOUS
<1> QED
  BY <1>1, <1>2

\* Remainders of counts.
LEMMA SizeMods ==
    /\ SizeMod \in Nat \ {0}
    /\ \A x \in Int : 0 <= x /\ x < SizeMod => x % SizeMod = x
    /\ \A x \in Int :
           SizeMod <= x /\ x < 2 * SizeMod => x % SizeMod = x - SizeMod
    /\ \A x \in Int : -SizeMod <= x /\ x < 0 => x % SizeMod = x + SizeMod
<1>1. SizeMod \in Nat \ {0}
  BY SizeModAssumption, BoundsAssumption, LatencyAssumption
<1>2. \A x \in Int : 0 <= x /\ x < SizeMod => x % SizeMod = x
  BY <1>1
<1>3. \A x \in Int :
          SizeMod <= x /\ x < 2 * SizeMod => x % SizeMod = x - SizeMod
  BY <1>1
<1>4. \A x \in Int : -SizeMod <= x /\ x < 0 => x % SizeMod = x + SizeMod
  BY <1>1
<1> QED
  BY <1>1, <1>2, <1>3, <1>4

\* The cell k places after n.
After(n, k) == (n + k) % Latency

\* Going round the ring.
LEMMA RingFacts ==
    ASSUME NEW n \in Cells
    PROVE  /\ \A k \in 1..Latency : After(n, k) \in Cells
           /\ \A j, k \in 1..Latency : After(n, j) = After(n, k) => j = k
           /\ After(n, Latency) = n
           /\ \A k \in 1..(Latency - 1) :
                  After(After(n, 1), k) = After(n, k + 1)
           /\ After(After(n, 1), Latency) = After(n, 1)
<1> USE LatencyAssumption DEF Cells
<1>1. \A m \in Cells, k \in 1..Latency :
          After(m, k) = IF m + k < Latency THEN m + k ELSE m + k - Latency
  BY LatencyMod DEF After
<1>2. After(n, 1) \in Cells
  BY <1>1
<1>3. \A k \in 1..Latency : After(n, k) \in Cells
  BY <1>1
<1>4. \A j, k \in 1..Latency : After(n, j) = After(n, k) => j = k
  BY <1>1
<1>5. \A k \in 1..(Latency - 1) : After(After(n, 1), k) = After(n, k + 1)
  BY <1>1, <1>2
<1>6. After(n, Latency) = n /\ After(After(n, 1), Latency) = After(n, 1)
  BY <1>1, <1>2
<1> QED
  BY <1>3, <1>4, <1>5, <1>6

(***************************************************************************)
(* The inductive invariant.  The count exceeds the ring by d.  A cell that *)
(* is in use when an operation may be started in it was marked in a cycle  *)
(* that was given up, by a start that is not yet accounted for in d.       *)
(***************************************************************************)
Exceeds(d) ==
    /\ pendingOperations = (Cardinality(Busy) + d) % SizeMod
    /\ /\ buffer[nextSlot].busy
       /\ half # "advanceClock" \/ ~hasPendingOperations
       => d < aborts

IInv ==
    /\ TypeOK
    /\ \E d \in (0 - throws)..aborts : Exceeds(d)
    /\ throws = 0 /\ Busy # {} => hasPendingOperations

\* The number of cells in a part of the ring.
LEMMA CellCount ==
    ASSUME NEW S \in SUBSET Cells
    PROVE  /\ IsFiniteSet(S) /\ Cardinality(S) \in 0..Latency
           /\ S # {} => Cardinality(S) > 0
<1>1. IsFiniteSet(Cells) /\ Cardinality(Cells) = Latency
  <2>1. Latency - 1 \in Int /\ 0 \in Int /\ ~(0 > Latency - 1)
    BY LatencyAssumption
  <2>2. IsFiniteSet(Cells) /\ Cardinality(Cells) = (Latency - 1) - 0 + 1
    BY <2>1, FS_Interval DEF Cells
  <2> QED
    BY <2>2, LatencyAssumption
<1>2. IsFiniteSet(S) /\ Cardinality(S) <= Latency
  BY <1>1, FS_Subset
<1>3. Cardinality(S) \in Nat
  BY <1>2, FS_CardinalityType
<1>4. S # {} => Cardinality(S) # 0
  BY <1>2, FS_EmptySet
<1> QED
  BY <1>2, <1>3, <1>4, LatencyAssumption

\* The cells in use are a part of the ring, before and after a step.
LEMMA BusyCells == Busy \in SUBSET Cells /\ Busy' \in SUBSET Cells
BY DEF Busy

\* The difference between count and ring is too small for the count to be
\* mistaken: it is what is in the ring, plus d, or wrapped once below zero.
LEMMA CountFacts ==
    ASSUME NEW b \in 0..Latency, NEW t \in 0..MaxThrows,
           NEW a \in 0..MaxAborts, NEW d \in (0 - t)..a
    PROVE  /\ b + d \in Int /\ -SizeMod < b + d /\ b + d < SizeMod
           /\ (b + d) % SizeMod = IF b + d < 0 THEN b + d + SizeMod ELSE b + d
<1>1. b + d \in Int /\ -SizeMod < b + d /\ b + d < SizeMod
  BY SizeModAssumption, BoundsAssumption, LatencyAssumption
<1> QED
  BY <1>1, SizeMods

\* Counting up and down modulo the size of std::size_t.
LEMMA UpAndDown ==
    ASSUME NEW p \in 0..(SizeMod - 1), NEW n \in Int,
           -SizeMod < n, n < SizeMod, p = n % SizeMod
    PROVE  /\ n + 1 < SizeMod => (p + 1) % SizeMod = (n + 1) % SizeMod
           /\ -SizeMod < n - 1 =>
                  (p + SizeMod - 1) % SizeMod = (n - 1) % SizeMod
<1>1. p = IF n < 0 THEN n + SizeMod ELSE n
  BY SizeMods
<1>2. ASSUME n + 1 < SizeMod
      PROVE  (p + 1) % SizeMod = (n + 1) % SizeMod
  BY <1>1, <1>2, SizeMods
<1>3. ASSUME -SizeMod < n - 1
      PROVE  (p + SizeMod - 1) % SizeMod = (n - 1) % SizeMod
  BY <1>1, <1>3, SizeMods
<1> QED
  BY <1>2, <1>3

(***************************************************************************)
(* One lemma for each kind of step.                                        *)
(***************************************************************************)

\* The ring as constructed.
LEMMA InitInv == Init => IInv
<1> SUFFICES ASSUME Init PROVE IInv
  OBVIOUS
<1>1. hasPendingOperations = TRUE /\ hasPendingOperations \in BOOLEAN
  BY Zenon DEF Init
<1>2. /\ buffer \in [Cells -> Cell] /\ \A i \in Cells : ~buffer[i].busy
      /\ nextSlot = 0 /\ pendingOperations = 0 /\ port \in Values
      /\ half = "endClock" /\ throws = 0 /\ aborts = 0
  BY DEF Init
<1>3. 0 \in Cells /\ 0 \in 0..(SizeMod - 1) /\ 0 \in 0..MaxThrows
      /\ 0 \in 0..MaxAborts
  BY LatencyAssumption, SizeMods, BoundsAssumption DEF Cells
<1>4. TypeOK
  BY <1>1, <1>2, <1>3 DEF TypeOK
<1>5. Busy = {} /\ ~buffer[nextSlot].busy
  BY <1>2, <1>3 DEF Busy
<1>6. Cardinality(Busy) = 0
  BY <1>5, FS_EmptySet
<1>7. Exceeds(0)
  BY <1>2, <1>5, <1>6, SizeMods DEF Exceeds
<1>8. 0 \in (0 - throws)..aborts
  BY <1>2
<1> QED
  BY <1>4, <1>5, <1>7, <1>8 DEF IInv

\* Marking the cell that takes the next operation adds it to the ring, if it
\* was not in use.
LEMMA MarkFacts ==
    ASSUME TypeOK, buffer' \in [Cells -> Cell], buffer'[nextSlot].busy,
           \A i \in Cells : i # nextSlot => buffer'[i] = buffer[i]
    PROVE  Cardinality(Busy') = IF buffer[nextSlot].busy
                                THEN Cardinality(Busy)
                                ELSE Cardinality(Busy) + 1
<1>1. Busy' = Busy \union {nextSlot}
  BY DEF Busy, TypeOK
<1>2. buffer[nextSlot].busy <=> nextSlot \in Busy
  BY DEF Busy, TypeOK
<1> QED
  BY <1>1, <1>2, BusyCells, CellCount, FS_AddElement

\* An operation is started and counted.
LEMMA StartStep ==
    ASSUME IInv, NEW v \in Values, StartOperation(v)
    PROVE  IInv'
<1> DEFINE c == [busy |-> TRUE, out |-> v]
<1>1. /\ half = "endClock" /\ half' = "advanceClock"
      /\ buffer' = [buffer EXCEPT ![nextSlot] = c]
      /\ pendingOperations' = (pendingOperations + 1) % SizeMod
      /\ UNCHANGED <<nextSlot, port, throws, aborts>>
  BY DEF StartOperation
<1>2. hasPendingOperations' /\ hasPendingOperations' \in BOOLEAN
  BY Zenon DEF StartOperation
<1>3. c \in Cell /\ c.busy
  BY DEF Cell
<1> HIDE DEF c
<1>4. /\ nextSlot \in Cells /\ buffer' \in [Cells -> Cell]
      /\ buffer'[nextSlot].busy
      /\ \A i \in Cells : i # nextSlot => buffer'[i] = buffer[i]
  BY <1>1, <1>3 DEF IInv, TypeOK
<1>5. pendingOperations' \in 0..(SizeMod - 1)
  BY <1>1, SizeMods DEF IInv, TypeOK
<1>6. TypeOK'
  BY <1>1, <1>2, <1>4, <1>5 DEF IInv, TypeOK
<1>7. PICK d \in (0 - throws)..aborts : Exceeds(d)
  BY DEF IInv
<1> DEFINE b == Cardinality(Busy)
           f == Cardinality(Busy')
<1>8. /\ d \in Int /\ throws \in 0..MaxThrows /\ aborts \in 0..MaxAborts
      /\ buffer[nextSlot].busy => d < aborts
  BY <1>1, <1>7 DEF Exceeds, IInv, TypeOK
<1>9. PICK e \in Int : e = IF buffer[nextSlot].busy THEN d + 1 ELSE d
  BY <1>8
<1>10. e \in (0 - throws)..aborts
  BY <1>8, <1>9, BoundsAssumption
<1>11. b \in 0..Latency /\ f \in 0..Latency
  BY BusyCells, CellCount
<1>12. f + e = b + d + 1
  BY <1>4, <1>8, <1>9, <1>11, MarkFacts DEF IInv
<1> HIDE DEF b, f
<1>13. b + d \in Int /\ -SizeMod < b + d /\ b + d < SizeMod
       /\ b + d + 1 < SizeMod
  BY <1>8, <1>10, <1>11, <1>12, CountFacts
<1>14. pendingOperations \in 0..(SizeMod - 1)
       /\ pendingOperations = (b + d) % SizeMod
  BY <1>7 DEF Exceeds, IInv, TypeOK, b
<1>15. pendingOperations' = (f + e) % SizeMod
  BY <1>1, <1>12, <1>13, <1>14, UpAndDown
<1>16. Exceeds(e)'
  BY <1>1, <1>2, <1>15 DEF Exceeds, f
<1> QED
  BY <1>1, <1>2, <1>6, <1>10, <1>16 DEF IInv

\* A start that throws: the cell is marked and not counted.
LEMMA ThrowStep ==
    ASSUME IInv, StartThrows
    PROVE  IInv'
<1>1. /\ half = "endClock" /\ half' = "stopped"
      /\ buffer' = [buffer EXCEPT ![nextSlot].busy = TRUE]
      /\ throws < MaxThrows /\ throws' = throws + 1
      /\ UNCHANGED <<nextSlot, pendingOperations, hasPendingOperations,
                     port, aborts>>
  BY DEF StartThrows
<1>2. /\ nextSlot \in Cells /\ buffer' \in [Cells -> Cell]
      /\ buffer'[nextSlot].busy
      /\ \A i \in Cells : i # nextSlot => buffer'[i] = buffer[i]
  <2>1. nextSlot \in Cells /\ buffer[nextSlot] \in Cell
        /\ buffer \in [Cells -> Cell]
    BY DEF IInv, TypeOK
  <2>2. /\ [buffer[nextSlot] EXCEPT !.busy = TRUE] \in Cell
        /\ [buffer[nextSlot] EXCEPT !.busy = TRUE].busy
    BY <2>1 DEF Cell
  <2> QED
    BY <1>1, <2>1, <2>2
<1>3. /\ throws \in 0..MaxThrows /\ aborts \in 0..MaxAborts
      /\ throws' \in 0..MaxThrows /\ throws' # 0
  BY <1>1, BoundsAssumption DEF IInv, TypeOK
<1>4. TypeOK'
  BY <1>1, <1>2, <1>3 DEF IInv, TypeOK
<1>5. PICK d \in (0 - throws)..aborts : Exceeds(d)
  BY DEF IInv
<1> DEFINE b == Cardinality(Busy)
           f == Cardinality(Busy')
<1>6. d \in Int /\ (buffer[nextSlot].busy => d < aborts)
  BY <1>1, <1>3, <1>5 DEF Exceeds
<1>7. PICK e \in Int : e = IF buffer[nextSlot].busy THEN d ELSE d - 1
  BY <1>6
<1>8. e \in (0 - throws')..aborts /\ e < aborts
  BY <1>1, <1>3, <1>6, <1>7
<1>9. b \in 0..Latency /\ f \in 0..Latency
  BY BusyCells, CellCount
<1>10. f + e = b + d
  BY <1>2, <1>6, <1>7, <1>9, MarkFacts DEF IInv
<1> HIDE DEF b, f
<1>11. pendingOperations' = (f + e) % SizeMod
  BY <1>1, <1>5, <1>10 DEF Exceeds, b
<1>12. Exceeds(e)'
  BY <1>1, <1>8, <1>11 DEF Exceeds, f
<1> QED
  BY <1>1, <1>3, <1>4, <1>8, <1>12 DEF IInv

\* The oldest entry, if any, leaves the ring.
LEMMA AdvanceStep ==
    ASSUME IInv, AdvanceClock
    PROVE  IInv'
<1> DEFINE o == (nextSlot + 1) % Latency
           left == (pendingOperations + SizeMod - 1) % SizeMod
           b == Cardinality(Busy)
           f == Cardinality(Busy')
<1>1. /\ half = "advanceClock" /\ half' = "endClock"
      /\ nextSlot' = o
      /\ UNCHANGED <<throws, aborts>>
      /\ hasPendingOperations
  BY DEF AdvanceClock
<1>2. o \in Cells
  <2>1. 1 \in 1..Latency /\ nextSlot \in Cells
    BY LatencyAssumption DEF IInv, TypeOK
  <2> QED
    BY <2>1, RingFacts DEF After
<1>3. \/ /\ buffer[o].busy /\ port' = buffer[o].out
         /\ buffer' = [buffer EXCEPT ![o].busy = FALSE]
         /\ pendingOperations' = left /\ hasPendingOperations' = (left > 0)
      \/ /\ ~buffer[o].busy
         /\ UNCHANGED <<buffer, port, pendingOperations,
                        hasPendingOperations>>
  BY DEF AdvanceClock
<1> HIDE DEF o
<1>4. PICK d \in (0 - throws)..aborts : Exceeds(d)
  BY DEF IInv
<1>5. /\ d \in Int /\ throws \in 0..MaxThrows /\ aborts \in 0..MaxAborts
      /\ pendingOperations \in 0..(SizeMod - 1)
      /\ pendingOperations = (b + d) % SizeMod
  BY <1>4 DEF Exceeds, IInv, TypeOK
<1>6. b \in 0..Latency /\ f \in 0..Latency
  BY BusyCells, CellCount
<1>7. CASE ~buffer[o].busy
  <2>1. UNCHANGED <<buffer, port, pendingOperations, hasPendingOperations>>
    BY <1>3, <1>7
  <2>2. Busy' = Busy
    BY <2>1 DEF Busy
  <2>3. TypeOK'
    BY <1>1, <1>2, <2>1 DEF IInv, TypeOK
  <2>4. Exceeds(d)'
    BY <1>1, <1>5, <1>7, <2>1, <2>2 DEF Exceeds
  <2> QED
    BY <1>1, <2>1, <2>2, <2>3, <2>4 DEF IInv
<1>8. CASE buffer[o].busy
  <2>1. /\ port' = buffer[o].out
        /\ buffer' = [buffer EXCEPT ![o].busy = FALSE]
        /\ pendingOperations' = left
    BY <1>3, <1>8
  <2>2. hasPendingOperations' = (left > 0)
    BY <1>3, <1>8
  <2>3. hasPendingOperations' \in BOOLEAN
    <3>1. (left > 0) \in BOOLEAN
      OBVIOUS
    <3> HIDE DEF left
    <3> QED
      BY <2>2, <3>1
  <2>4. /\ buffer' \in [Cells -> Cell] /\ ~buffer'[o].busy
        /\ \A i \in Cells : i # o => buffer'[i] = buffer[i]
        /\ port' \in Values
    <3>1. buffer[o] \in Cell /\ buffer \in [Cells -> Cell]
      BY <1>2 DEF IInv, TypeOK
    <3>2. /\ [buffer[o] EXCEPT !.busy = FALSE] \in Cell
          /\ ~[buffer[o] EXCEPT !.busy = FALSE].busy
          /\ buffer[o].out \in Values
      BY <3>1 DEF Cell
    <3> QED
      BY <1>2, <2>1, <3>1, <3>2
  <2>5. left \in 0..(SizeMod - 1)
    BY <1>5, SizeMods
  <2>6. TypeOK'
    <3> HIDE DEF left
    <3> QED
      BY <1>1, <1>2, <2>1, <2>3, <2>4, <2>5 DEF IInv, TypeOK
  <2>7. Busy' = Busy \ {o} /\ o \in Busy
    BY <1>2, <1>8, <2>4 DEF Busy
  <2>8. f = b - 1
    BY <2>7, BusyCells, CellCount, FS_RemoveElement
  <2> HIDE DEF b, f
  <2>9. b + d \in Int /\ -SizeMod < b + d /\ b + d < SizeMod
    BY <1>5, <1>6, CountFacts
  <2>10. f + d = b + d - 1 /\ -SizeMod < b + d - 1
    BY <1>5, <1>6, <2>8, CountFacts
  <2>11. left = (f + d) % SizeMod
    <3>1. PICK n \in Int : n = b + d
      BY <2>9
    <3>2. pendingOperations = n % SizeMod
      BY <1>5, <3>1 DEF b
    <3>3. -SizeMod < n /\ n < SizeMod /\ -SizeMod < n - 1
      BY <1>5, <1>6, <2>9, <2>10, <3>1, SizeMods
    <3>4. f + d = n - 1
      BY <1>5, <1>6, <2>8, <3>1
    <3>5. /\ -SizeMod < n /\ n < SizeMod /\ -SizeMod < n - 1
          /\ pendingOperations = n % SizeMod /\ f + d = n - 1
      BY <3>2, <3>3, <3>4
    <3>6. -SizeMod < n - 1 => (pendingOperations + SizeMod - 1) % SizeMod
                                  = (n - 1) % SizeMod
      BY <1>5, <3>1, <3>5, UpAndDown
    <3>7. left = (n - 1) % SizeMod
      BY <3>5, <3>6
    <3> HIDE DEF left
    <3> QED
      BY <3>5, <3>7
  <2>12. Exceeds(d)'
    <3>1. pendingOperations' = (f + d) % SizeMod
      BY <2>1, <2>11
    <3>2. ~buffer'[nextSlot'].busy
      BY <1>1, <2>4
    <3> QED
      BY <3>1, <3>2 DEF Exceeds, f
  <2>13. ASSUME throws' = 0, Busy' # {} PROVE hasPendingOperations'
    <3>1. f > 0
      BY <2>13, BusyCells, CellCount DEF f
    <3>2. d \in 0..aborts
      BY <1>1, <1>5, <2>13
    <3>3. left = f + d
      BY <1>1, <1>5, <1>6, <2>11, <2>13, CountFacts, <3>1, <3>2
    <3>4. left > 0
      BY <1>5, <1>6, <3>1, <3>2, <3>3
    <3> QED
      BY <2>2, <3>4
  <2> QED
    BY <1>1, <2>6, <2>12, <2>13 DEF IInv
<1> QED
  BY <1>7, <1>8

\* A step that leaves the ring and its count alone.
LEMMA QuietStep ==
    ASSUME IInv,
           \/ NotTriggered \/ NotAdvanced \/ CycleAborted \/ Resume
           \/ UNCHANGED vars
    PROVE  IInv'
<1>1. /\ UNCHANGED <<buffer, nextSlot, pendingOperations,
                     hasPendingOperations, port, throws>>
      /\ half' \in {"endClock", "advanceClock", "stopped"}
  BY DEF NotTriggered, NotAdvanced, CycleAborted, Resume, vars, IInv, TypeOK
<1>2. \/ aborts' = aborts /\ ~CycleAborted
      \/ aborts' = aborts + 1 /\ aborts < MaxAborts
  BY BoundsAssumption
     DEF NotTriggered, NotAdvanced, CycleAborted, Resume, vars, IInv, TypeOK
<1>3. /\ aborts \in 0..MaxAborts /\ aborts' \in 0..MaxAborts
      /\ throws \in 0..MaxThrows
  BY <1>2, BoundsAssumption DEF IInv, TypeOK
<1>4. TypeOK'
  BY <1>1, <1>3 DEF IInv, TypeOK
<1>5. Busy' = Busy
  BY <1>1 DEF Busy
<1>6. PICK d \in (0 - throws)..aborts : Exceeds(d)
  BY DEF IInv
<1>7. d \in Int /\ d <= aborts /\ d \in (0 - throws')..aborts'
  BY <1>1, <1>2, <1>3
<1>8. pendingOperations' = (Cardinality(Busy') + d) % SizeMod
  BY <1>1, <1>5, <1>6 DEF Exceeds
<1>9. ASSUME buffer[nextSlot].busy,
             half' # "advanceClock" \/ ~hasPendingOperations
      PROVE  d < aborts'
  <2>1. CASE aborts' = aborts + 1
    BY <1>3, <1>7, <2>1
  <2>2. CASE aborts' = aborts /\ ~NotAdvanced
    <3>1. half # "advanceClock" \/ ~hasPendingOperations
      BY <1>2, <1>3, <1>9, <2>2 DEF NotTriggered, Resume, vars
    <3> QED
      BY <1>6, <1>9, <2>2, <3>1 DEF Exceeds
  <2>3. CASE aborts' = aborts /\ NotAdvanced /\ ~hasPendingOperations
    BY <1>6, <1>9, <2>3 DEF Exceeds
  <2>4. CASE aborts' = aborts /\ pendingOperations = 0
    <3> DEFINE b == Cardinality(Busy)
    <3>1. nextSlot \in Busy
      BY <1>9 DEF Busy, IInv, TypeOK
    <3>2. b \in 0..Latency /\ b > 0
      BY <3>1, BusyCells, CellCount
    <3>3. (b + d) % SizeMod = 0
      BY <1>6, <2>4 DEF Exceeds
    <3> HIDE DEF b
    <3>4. /\ b + d \in Int /\ -SizeMod < b + d
          /\ (b + d) % SizeMod = IF b + d < 0 THEN b + d + SizeMod ELSE b + d
      BY <1>3, <3>2, CountFacts
    <3>5. b + d = 0
      BY <3>3, <3>4, SizeMods
    <3> QED
      BY <1>3, <1>7, <2>4, <3>2, <3>5
  <2> QED
    BY <1>2, <2>1, <2>2, <2>3, <2>4 DEF NotAdvanced
<1>10. Exceeds(d)'
  BY <1>1, <1>8, <1>9 DEF Exceeds
<1> QED
  BY <1>1, <1>4, <1>5, <1>7, <1>10 DEF IInv

\* Every reachable state.
THEOREM Invariance == Spec => []IInv
<1>1. IInv /\ [Next]_vars => IInv'
  BY StartStep, ThrowStep, AdvanceStep, QuietStep DEF Next
<1> QED
  BY <1>1, InitInv, PTL DEF Spec

\* The ring keeps its types, whatever fails: nextSlot_ stays inside the
\* buffer for every latency.
THEOREM TypeCorrect == Spec => []TypeOK
<1>1. IInv => TypeOK
  BY DEF IInv
<1> QED
  BY <1>1, Invariance, PTL

\* For every latency the count differs from the ring by no more than the
\* repeated and the failed starts, and the executor asks for clock advances
\* while something is in the ring and nothing has failed
\* (SimpleOperationExecutor::startOperation, advanceClock).
THEOREM CountIsClose == Spec => []CountCoversRing
<1>1. IInv => CountCoversRing
  BY DEF IInv, Exceeds, CountCoversRing
<1> QED
  BY <1>1, Invariance, PTL

(***************************************************************************)
(* The refinement.                                                         *)
(***************************************************************************)

\* What the line shows of a ring.
LEMMA LineFacts ==
    ASSUME TypeOK
    PROVE  /\ nextSlot \in Cells
           /\ \A k \in 1..Latency :
                  /\ line[k] = IF buffer[After(nextSlot, k)].busy
                               THEN buffer[After(nextSlot, k)].out
                               ELSE NoResult
                  /\ After(nextSlot, k) \in Cells
                  /\ buffer[After(nextSlot, k)].out \in Values
<1>1. nextSlot \in Cells
  BY DEF TypeOK
<1>2. \A k \in 1..Latency : After(nextSlot, k) \in Cells
  BY <1>1, RingFacts
<1>3. \A i \in Cells : buffer[i].out \in Values
  BY DEF TypeOK, Cell
<1> QED
  BY <1>1, <1>2, <1>3 DEF line, Stage, After

\* A start enters at the far end of the line.
LEMMA StartRefines ==
    ASSUME TypeOK, NEW v \in Values, StartOperation(v)
    PROVE  Abstract!Start(v)
<1> DEFINE c == [busy |-> TRUE, out |-> v]
           n == nextSlot
<1>1. /\ half = "endClock" /\ half' = "advanceClock"
      /\ buffer' = [buffer EXCEPT ![n] = c]
      /\ UNCHANGED <<nextSlot, port>>
  BY DEF StartOperation
<1>2. n \in Cells /\ buffer \in [Cells -> Cell]
  BY DEF TypeOK
<1>3. /\ buffer'[n].busy /\ buffer'[n].out = v
      /\ \A i \in Cells : i # n => buffer'[i] = buffer[i]
  BY <1>1, <1>2
<1> HIDE DEF n, c
<1>4. line' = [k \in 1..Latency |->
                  IF buffer'[After(n, k)].busy THEN buffer'[After(n, k)].out
                  ELSE NoResult]
  BY <1>1 DEF line, Stage, After, n
<1>5. line = [k \in 1..Latency |->
                 IF buffer[After(n, k)].busy THEN buffer[After(n, k)].out
                 ELSE NoResult]
  BY DEF line, Stage, After, n
<1>6. Latency \in 1..Latency /\ After(n, Latency) = n
  BY <1>2, LatencyAssumption, RingFacts
<1>7. \A k \in 1..Latency :
          k # Latency => After(n, k) \in Cells /\ After(n, k) # n
  BY <1>2, <1>6, RingFacts
<1>8. line' = [line EXCEPT ![Latency] = v]
  BY <1>3, <1>4, <1>5, <1>6, <1>7
<1> QED
  BY <1>1, <1>8 DEF Abstract!Start

\* The ring is turned by one cell: the line moves by one stage.
LEMMA AdvanceRefines ==
    ASSUME TypeOK, AdvanceClock
    PROVE  Abstract!Advance
<1> DEFINE n == nextSlot
           o == After(n, 1)
<1>1. /\ half = "advanceClock" /\ half' = "endClock" /\ nextSlot' = o
      /\ \/ /\ buffer[o].busy /\ port' = buffer[o].out
            /\ buffer' = [buffer EXCEPT ![o].busy = FALSE]
         \/ /\ ~buffer[o].busy
            /\ UNCHANGED <<buffer, port>>
  BY DEF AdvanceClock, After
<1>2. n \in Cells /\ buffer \in [Cells -> Cell] /\ 1 \in 1..Latency
  BY LatencyAssumption DEF TypeOK
<1>3. o \in Cells
  BY <1>2, RingFacts
<1> HIDE DEF n, o
<1>4. /\ ~buffer'[o].busy
      /\ \A i \in Cells : i # o => buffer'[i] = buffer[i]
  <2>1. ~[buffer[o] EXCEPT !.busy = FALSE].busy
    BY <1>2, <1>3 DEF Cell
  <2> QED
    BY <1>1, <1>2, <1>3, <2>1
<1>5. line' = [k \in 1..Latency |->
                  IF buffer'[After(o, k)].busy THEN buffer'[After(o, k)].out
                  ELSE NoResult]
  BY <1>1 DEF line, Stage, After
<1>6. line = [k \in 1..Latency |->
                 IF buffer[After(n, k)].busy THEN buffer[After(n, k)].out
                 ELSE NoResult]
  BY DEF line, Stage, After, n
<1>7. \A k \in 1..(Latency - 1) :
          /\ k + 1 \in 1..Latency /\ k \in 1..Latency /\ k # Latency
          /\ After(o, k) = After(n, k + 1)
          /\ After(n, k + 1) \in Cells /\ After(n, k + 1) # o
  <2> TAKE k \in 1..(Latency - 1)
  <2>1. k + 1 \in 1..Latency /\ k \in 1..Latency /\ k # Latency /\ k + 1 # 1
    BY LatencyAssumption
  <2>2. /\ After(After(n, 1), k) = After(n, k + 1)
        /\ After(n, k + 1) \in Cells
        /\ After(n, k + 1) = After(n, 1) => k + 1 = 1
    BY <1>2, <2>1, RingFacts
  <2> QED
    BY <2>1, <2>2 DEF o
<1>8. \A k \in 1..(Latency - 1) : line'[k] = line[k + 1]
  BY <1>4, <1>5, <1>6, <1>7
<1>9. Latency \in 1..Latency /\ line'[Latency] = NoResult
  <2>1. Latency \in 1..Latency /\ After(o, Latency) = o
    BY <1>3, LatencyAssumption, RingFacts
  <2> QED
    BY <1>4, <1>5, <2>1
<1>10. line' = [k \in 1..Latency |->
                   IF k = Latency THEN NoResult ELSE line[k + 1]]
  <2>1. \A k \in 1..Latency : k = Latency \/ k \in 1..(Latency - 1)
    BY LatencyAssumption
  <2>2. \A k \in 1..Latency :
            line'[k] = IF k = Latency THEN NoResult ELSE line[k + 1]
    BY <1>8, <1>9, <2>1
  <2>3. line' = [k \in 1..Latency |-> line'[k]]
    BY <1>5
  <2> QED
    BY <2>2, <2>3
<1>11. port' = IF line[1] = NoResult THEN port ELSE line[1]
  <2>1. line[1] = IF buffer[o].busy THEN buffer[o].out ELSE NoResult
    BY <1>2, <1>6 DEF o
  <2>2. buffer[o].out # NoResult
    BY <1>2, <1>3, NoResultAssumption DEF Cell
  <2> QED
    BY <1>1, <2>1, <2>2
<1> QED
  BY <1>1, <1>10, <1>11 DEF Abstract!Advance

\* A skipped advance: as long as nothing has thrown the ring is empty then.
LEMMA SkipRefines ==
    ASSUME IInv, throws = 0, NotAdvanced
    PROVE  Abstract!Advance
<1>1. Busy = {}
  <2>1. CASE ~hasPendingOperations
    BY <2>1 DEF IInv
  <2>2. CASE pendingOperations = 0
    <3>1. PICK d \in (0 - throws)..aborts : Exceeds(d)
      BY DEF IInv
    <3>2. /\ throws \in 0..MaxThrows /\ aborts \in 0..MaxAborts
          /\ d \in Nat /\ Cardinality(Busy) \in 0..Latency
      <4>1. throws \in 0..MaxThrows /\ aborts \in 0..MaxAborts
        BY DEF IInv, TypeOK
      <4>2. d \in Nat
        BY <3>1, <4>1
      <4> QED
        BY <4>1, <4>2, BusyCells, CellCount
    <3>3. (Cardinality(Busy) + d) % SizeMod = Cardinality(Busy) + d
      BY <3>1, <3>2, CountFacts
    <3>4. Cardinality(Busy) = 0
      BY <2>2, <3>1, <3>2, <3>3 DEF Exceeds
    <3> QED
      BY <3>4, BusyCells, CellCount
  <2> QED
    BY <2>1, <2>2 DEF NotAdvanced
<1>2. \A k \in 1..Latency : line[k] = NoResult
  <2>1. \A i \in Cells : ~buffer[i].busy
    BY <1>1 DEF Busy
  <2>2. TypeOK
    BY DEF IInv
  <2> QED
    BY <2>1, <2>2, LineFacts
<1>3. line = [k \in 1..Latency |-> line[k]]
  BY DEF line
<1>4. line' = line /\ port' = port /\ half = "advanceClock"
      /\ half' = "endClock"
  BY DEF NotAdvanced, line, Stage
<1>5. line' = [k \in 1..Latency |->
                  IF k = Latency THEN NoResult ELSE line[k + 1]]
  <2>1. \A k \in 1..Latency : k # Latency => k + 1 \in 1..Latency
    BY LatencyAssumption
  <2> QED
    BY <1>2, <1>3, <1>4, <2>1
<1>6. line[1] = NoResult
  BY <1>2, LatencyAssumption
<1> QED
  BY <1>4, <1>5, <1>6 DEF Abstract!Advance

\* Every step until a start throws is one of the line.
LEMMA NextRefines ==
    ASSUME IInv, [Next]_vars, throws' = 0
    PROVE  [Abstract!Next]_(Abstract!vars)
<1>1. throws = 0 /\ ~StartThrows
  <2>1. throws \in Nat
    BY BoundsAssumption DEF IInv, TypeOK
  <2> QED
    BY <2>1 DEF Next, StartOperation, StartThrows, NotTriggered, AdvanceClock,
                NotAdvanced, CycleAborted, Resume, vars
<1>2. CASE \E v \in Values : StartOperation(v)
  BY <1>2, StartRefines DEF IInv, Abstract!Next
<1>3. CASE NotTriggered
  BY <1>3 DEF NotTriggered, line, Stage, Abstract!NoStart, Abstract!Next
<1>4. CASE AdvanceClock
  BY <1>4, AdvanceRefines DEF IInv, Abstract!Next
<1>5. CASE NotAdvanced
  BY <1>1, <1>5, SkipRefines DEF Abstract!Next
<1>6. CASE CycleAborted
  BY <1>6 DEF CycleAborted, line, Stage, Abstract!Abandon, Abstract!Next
<1>7. CASE Resume
  BY <1>7 DEF Resume, line, Stage, Abstract!Resume, Abstract!Next
<1>8. CASE UNCHANGED vars
  BY <1>8 DEF vars, line, Stage, Abstract!vars
<1> QED
  BY <1>1, <1>2, <1>3, <1>4, <1>5, <1>6, <1>7, <1>8 DEF Next

\* For every latency the ring, with its skipped clock advances and repeated
\* starts, is a delay line until a start throws.
THEOREM Refinement == Spec => ImplementsDelayLine
<1>1. Init => Abstract!Init
  <2> SUFFICES ASSUME Init PROVE Abstract!Init
    OBVIOUS
  <2>1. IInv
    BY InitInv
  <2>2. \A i \in Cells : ~buffer[i].busy
    BY DEF Init
  <2>3. \A k \in 1..Latency : line[k] = NoResult
    BY <2>1, <2>2, LineFacts DEF IInv
  <2>4. line = [k \in 1..Latency |-> line[k]]
    BY DEF line
  <2> QED
    BY <2>3, <2>4 DEF Init, Abstract!Init
<1>2. IInv /\ [Next]_vars => [throws' = 0 => Abstract!Next]_(Abstract!vars)
  BY NextRefines
<1> QED
  BY <1>1, <1>2, Invariance, PTL DEF Spec, ImplementsDelayLine
==============================================================================
