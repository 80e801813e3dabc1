--------------------------- MODULE MCSendMessage ---------------------------
(***************************************************************************)
(* Instances of SendMessage for TLC.                                       *)
(***************************************************************************)
EXTENDS SendMessage, MCReports
=============================================================================
