--------------------------- MODULE MCPushDelivery ---------------------------
(***************************************************************************)
(* The instance of PushDelivery for TLC.                                   *)
(***************************************************************************)
EXTENDS PushDelivery
=============================================================================
