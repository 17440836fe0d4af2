------------------- MODULE MCMultiLatencyOperationExecutor -------------------
(* Instance of MultiLatencyOperationExecutor for TLC: a quick and a slow    *)
(* output operand.                                                          *)
EXTENDS MultiLatencyOperationExecutor

CONSTANTS quick, slow

MCOutputs == {quick, slow}
MCOutLatency == [o \in MCOutputs |-> IF o = quick THEN 1 ELSE Latency]
==============================================================================
