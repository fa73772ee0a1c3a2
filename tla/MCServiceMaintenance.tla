------------------------ MODULE MCServiceMaintenance ------------------------
(* An instance of ServiceMaintenance for TLC.                              *)
EXTENDS ServiceMaintenance
============================================================================
