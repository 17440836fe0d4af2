------------------------------ MODULE MCFUState ------------------------------
(* Instance of FUState for TLC: a unit with a short and a long operation    *)
(* and one whose executor delivers at the start.                            *)
EXTENDS FUState

CONSTANTS add, mul, move

MCOps == {add, mul, move}
MCExecList == <<mul, move, add>>
MCLatency == [op \in MCOps |-> CASE op = add -> 2 [] op = mul -> 3
                                 [] op = move -> 1]
==============================================================================
