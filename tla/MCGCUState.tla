----------------------------- MODULE MCGCUState ------------------------------
(* Instance of GCUState for TLC; constants in the .cfg.                     *)
EXTENDS GCUState
==============================================================================
