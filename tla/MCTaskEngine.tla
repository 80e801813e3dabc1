--------------------------- MODULE MCTaskEngine ---------------------------
(***************************************************************************)
(* Instances of TaskEngine for TLC.                                        *)
(***************************************************************************)
EXTENDS TaskReplay, MCReports
=============================================================================
