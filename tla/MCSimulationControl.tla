------------------------- MODULE MCSimulationControl -------------------------
(* Instance of SimulationControl for TLC; constants in the .cfg.            *)
EXTENDS SimulationControl
==============================================================================
