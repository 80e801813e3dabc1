--------------------------- MODULE MCTaskListing ---------------------------
(***************************************************************************)
(* The instance of TaskListing for TLC: the caller may not see two tasks   *)
(* of four, so that pages need several store pages to fill up.             *)
(***************************************************************************)
EXTENDS TaskListing

FourIds == 1 .. 4
TwoHidden == {2, 3}
OneOrTwo == {1, 2}
=============================================================================
