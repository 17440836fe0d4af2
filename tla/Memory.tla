-------------------------------- MODULE Memory --------------------------------
(***************************************************************************)
(* A data memory of the simulator: minimum addressable units (MAUs) of     *)
(* MAUSize bits, words unpacked into them in either byte order, and write  *)
(* requests that wait for the end of the cycle.                            *)
(***************************************************************************)
EXTENDS Integers, Sequences

CONSTANTS
    FirstAddress,  \* start_
    LastAddress,   \* end_
    MAUSize,       \* bits of a minimum addressable unit
    MaxAccess,     \* largest access in MAUs
    WordModulus,   \* 2^w of unsigned int: of checkRange and of a MAU
    LongModulus    \* 2^w of ULongWord: of the words that are stored

ASSUME MemoryAssumption ==
    /\ FirstAddress \in Nat /\ LastAddress \in Nat
    /\ FirstAddress <= LastAddress
    /\ MAUSize \in Nat \ {0} /\ 2^MAUSize \in Nat \ {0, 1}
    /\ MaxAccess \in Nat \ {0}
    /\ WordModulus \in Nat /\ LongModulus \in Nat
    /\ LastAddress < WordModulus /\ MaxAccess <= WordModulus
    /\ 2^MAUSize <= WordModulus /\ WordModulus <= LongModulus

VARIABLES
    littleEndian,   \* littleEndian_
    contents,       \* what the memory holds: address -> MAU
    writeRequests   \* writeRequests_: what the end of the cycle writes

memory == <<littleEndian, contents, writeRequests>>

Addresses == FirstAddress..LastAddress
MAU == 0..(2^MAUSize - 1)

\* Shifting by k units multiplies or divides by Weight[k].
Weight[k \in 0..MaxAccess] ==
    IF k = 0 THEN 1 ELSE Weight[k - 1] * 2^MAUSize

\* Unsigned arithmetic of checkRange.
Unsigned(x) == IF x < 0 THEN x + WordModulus ELSE x

\* An access that is longer than LastAddress + 1 makes the subtraction wrap
\* around, and is let through.
checkRange(address, count) ==
    address >= FirstAddress /\ address <= Unsigned(LastAddress - count + 1)

\* The k-th unit of an access is shifted by this many units.
Shift(k, count) == IF littleEndian THEN k - 1 ELSE count - k

\* Mutant of unpack: both byte orders are unpacked alike.
unpackBigEndian(word, count) ==
    {data \in [1..count -> MAU] :
        \A k \in 1..count :
            data[k] = (word \div Weight[count - k]) % 2^MAUSize}

\* unpackBE and unpackLE: the units that may come out.  A shift by the width
\* of a ULongWord or more is undefined and leaves any unit.
unpack(word, count) ==
    {data \in [1..count -> MAU] :
        \A k \in 1..count :
            Weight[Shift(k, count)] < LongModulus =>
                data[k] = (word \div Weight[Shift(k, count)]) % 2^MAUSize}

\* readLE widens a unit to a ULongWord before it shifts it; readBE shifts it
\* as the unsigned int it is.
Width == IF littleEndian THEN LongModulus ELSE WordModulus

\* What is shifted out is lost; a shift by the width or more is undefined:
\* nothing is known of the word that comes out.
Shifted(unit, k) ==
    IF Weight[k] < Width THEN (unit * Weight[k]) % Width
    ELSE CHOOSE word \in 0..(Width - 1) : TRUE

\* readBE and readLE, of memory contents m.
readWord(m, address, count) ==
    LET word[k \in 0..count] ==
            IF k = 0 THEN 0
            ELSE word[k - 1] + Shifted(m[address + k - 1], Shift(k, count))
    IN  word[count]

\* A request keeps the word it was made from, for the properties.
Request(address, data, word) ==
    [address |-> address, data |-> data, word |-> word]

Covers(request, a) ==
    a >= request.address /\ a < request.address + Len(request.data)

\* Every unit of the request lies inside the memory.
Inside(request) ==
    /\ FirstAddress <= request.address
    /\ request.address + Len(request.data) - 1 <= LastAddress

\* Memory::write: the request is checked now and carried out later.
write(address, count, word) ==
    /\ checkRange(address, count)
    /\ \E data \in unpack(word, count) :
           writeRequests' =
               Append(writeRequests, Request(address, data, word))
    /\ UNCHANGED <<littleEndian, contents>>

\* The contents after the requests are carried out in order: the last one
\* that covers an address decides.
Committed(requests) ==
    [a \in Addresses |->
        LET Last == {k \in 1..Len(requests) :
                        /\ Covers(requests[k], a)
                        /\ \A j \in (k + 1)..Len(requests) :
                               ~Covers(requests[j], a)}
        IN  IF Last = {} THEN contents[a]
            ELSE LET r == requests[CHOOSE k \in Last : TRUE]
                 IN  r.data[a - r.address + 1]]

\* Nothing is checked again: a request that reaches past the end of the
\* memory is written past the end of its storage, which is undefined.
CommitsTo(requests) ==
    {Committed(requests)} \union
    {m \in [Addresses -> MAU] :
        \E k \in 1..Len(requests) : ~Inside(requests[k])}

\* Memory::advanceClock.
MemoryAdvance ==
    /\ contents' \in CommitsTo(writeRequests)
    /\ writeRequests' = <<>>
    /\ UNCHANGED littleEndian

\* initializeDataMemories, with zeroFillMemoriesOnReset_ as it is by default:
\* the memory is filled with zeros and the initialised data is written.
Initialised(image) ==
    [a \in Addresses |-> IF a \in DOMAIN image THEN image[a] ELSE 0]

MemoryInit(image) ==
    /\ littleEndian \in BOOLEAN
    /\ contents = Initialised(image)
    /\ writeRequests = <<>>

\* The same again: pending requests are dropped.
initializeDataMemories(image) ==
    /\ contents' = Initialised(image)
    /\ writeRequests' = <<>>
    /\ UNCHANGED littleEndian
==============================================================================
