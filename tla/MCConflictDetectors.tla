------------------------- MODULE MCConflictDetectors -------------------------
(***************************************************************************)
(* A unit with three operations over three resources: a two-cycle          *)
(* pipelined one, one that keeps the same element for three cycles, and    *)
(* one with a cycle in which it uses nothing.                              *)
(***************************************************************************)
EXTENDS ConflictDetectors

MCUsage ==
    [op \in Operations |-> [c \in Columns |->
        CASE op = "add" /\ c = 0 -> {"in"}
          [] op = "add" /\ c = 1 -> {"out"}
          [] op = "mul" /\ c = 0 -> {"in", "unit"}
          [] op = "mul" /\ c = 1 -> {"unit"}
          [] op = "mul" /\ c = 2 -> {"unit", "out"}
          [] op = "wait" /\ c = 0 -> {"in"}
          [] op = "wait" /\ c = 2 -> {"out"}
          [] OTHER -> {}]]
==============================================================================
