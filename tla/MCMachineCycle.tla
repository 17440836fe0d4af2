---------------------------- MODULE MCMachineCycle ----------------------------
(***************************************************************************)
(* A machine with two registers, one of them guarded, one immediate        *)
(* register and a memory of three one-bit units, words of two and three    *)
(* bits: each instruction is one thing that can go wrong.                  *)
(***************************************************************************)
EXTENDS MachineCycle

Mv(k, f, d, g) == [kind |-> k, from |-> f, dst |-> d, guard |-> g]
St(a, n, w) == [address |-> a, count |-> n, word |-> w]
Ins(u, m, a) == [updates |-> u, moves |-> m, accesses |-> a]

MCInstructions == {
    \* swap two registers
    Ins(<<>>, <<Mv("reg", "g", "r", "none"), Mv("reg", "r", "g", "none")>>,
        <<>>),
    \* a guarded and an inverted move to the register that is guarded; a
    \* store longer than the address space: its range check wraps around
    Ins(<<>>, <<Mv("inline", 1, "g", "negated"),
                Mv("inline", 0, "g", "plain")>>, <<St(1, 4, 5)>>),
    \* an immediate on its way while it is read; a store that a load can
    \* hold in little endian order only
    Ins(<<<<"i", 1>>>>, <<Mv("imm", "i", "r", "none")>>, <<St(0, 3, 6)>>),
    \* a store, and one over a part of it that does not fit the access
    Ins(<<<<"i", 0>>>>, <<>>, <<St(1, 2, 2), St(2, 1, 3)>>),
    \* a store and one that is out of range
    Ins(<<>>, <<>>, <<St(0, 2, 1), St(2, 2, 3)>>)}

MCImage == [a \in {2} |-> 1]
MCUserData == {[address |-> 1, units |-> <<1, 0>>],
               [address |-> 2, units |-> <<0, 1>>]}
==============================================================================
