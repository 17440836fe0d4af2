-------------------------- MODULE ProximSimulation ---------------------------
(***************************************************************************)
(* The simulator under its graphical front end: the kill command of Proxim *)
(* runs in the GUI thread (ProximKillCmd, ProximSimulationThread), beside  *)
(* the simulation thread of SimulationControl that may be in the middle of *)
(* a command.                                                              *)
(***************************************************************************)
EXTENDS SimulationControl

VARIABLE kill   \* where the GUI thread is in killSimulation

guiVars == <<vars, kill>>

GuiInit == Init /\ kill = "none"

\* ProximKillCmd::isEnabled, and the first test of killSimulation.
KillStarts ==
    /\ kill = "none"
    /\ state \in {"RUNNING", "STOPPED", "FINISHED"}
    /\ kill' = IF state = "RUNNING" THEN "accepted" ELSE "asked"
    /\ UNCHANGED vars

\* The GUI thread's prepareToStop(SRE_USER_REQUESTED).
KillRequests ==
    /\ kill = "accepted"
    /\ Requests
    /\ kill' = "requested"
    /\ UNCHANGED <<timer, user>>

KillRecords ==
    /\ kill = "requested"
    /\ Records("USER_REQUESTED")
    /\ kill' = "asked"
    /\ UNCHANGED <<timer, user>>

\* SimulatorFrontend::killSimulation, which resets the controller at once.
KillResets ==
    /\ kill = "asked"
    /\ stopRequested' = FALSE
    /\ state' = "INITIALIZED"
    /\ kill' = "done"
    /\ UNCHANGED <<stopReasons, thread, timer, done, user, history>>

\* The GUI is told that the simulation has stopped; bound: one kill.
KillReturns ==
    /\ kill = "done"
    /\ kill' = "returned"
    /\ UNCHANGED vars

Kills == KillRequests \/ KillRecords \/ KillResets \/ KillReturns

GuiNext ==
    \/ Next /\ UNCHANGED kill
    \/ KillStarts
    \/ Kills

\* Both threads are scheduled.
GuiSpec ==
    /\ GuiInit
    /\ [][GuiNext]_guiVars
    /\ WF_guiVars(Drive /\ UNCHANGED kill)
    /\ WF_guiVars(Time /\ UNCHANGED kill)
    /\ WF_guiVars(Kills)

\* "Kills the current simulation." (ProximSimulationThread::killSimulation):
\* the command that was running when the kill asked it to stop comes to its
\* end.
KillEndsSimulation == (kill = "requested") ~> (driver = "idle")
==============================================================================
