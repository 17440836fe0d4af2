-------------------------- MODULE ControlOperations --------------------------
(***************************************************************************)
(* The operations of a global control unit (opset/base/base.cc) and the    *)
(* arithmetic of the addresses they work on: InstructionAddress is an      *)
(* unsigned integer that wraps.                                            *)
(***************************************************************************)
EXTENDS Naturals

CONSTANT AddressModulus  \* 2^32 in the code

Addresses == 0..(AddressModulus - 1)

\* Mutant of Plus: the sum of two addresses is not cut to their width.
PlusUncut(a, b) == a + b

Plus(a, b) == IF a + b < AddressModulus THEN a + b
              ELSE a + b - AddressModulus

Minus(a, b) == IF a >= b THEN a - b ELSE a + AddressModulus - b

\* BZ stands for BZ, BNZ, BZ1 and BNZ1, BZR for BZR and BNZR.
AllOperations ==
    {"JUMP", "JUMPR", "CALL", "CALLR", "BZ", "BZR", "APC", "HWLOOP"}

\* Those that save the return address.
Calls == {"CALL", "CALLR"}

\* Those whose target is an offset from the program counter.
Relative == {"JUMPR", "CALLR", "BZR"}

\* Those that need not set the program counter, the conditional ones
\* depending on their condition; and those that never do.
MayNotBranch == {"BZ", "BZR", "APC", "HWLOOP"}
NeverBranch == {"APC", "HWLOOP"}
==============================================================================
