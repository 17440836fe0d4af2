----------------------------- MODULE MCStopPoints -----------------------------
(***************************************************************************)
(* Two addresses, two values, at most two stop points, a tracker of new    *)
(* instructions and one of cycle ends.                                     *)
(***************************************************************************)
EXTENDS StopPoints

MCTrackers == <<<<"newInstruction", "ngram">>, <<"cycleEnd", "cycles">>>>
==============================================================================
