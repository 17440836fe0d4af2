--------------------- MODULE MCSimpleOperationExecutor -----------------------
(* Instance of SimpleOperationExecutor for TLC; constants in the .cfg.      *)
EXTENDS SimpleOperationExecutor
==============================================================================
