------------------------ MODULE MCMissionCoordinator ------------------------
(* MissionCoordinator on small instances; the runs differ in their .cfg,   *)
(* which gives every constant its value.                                   *)
EXTENDS MissionCoordinator
=============================================================================
