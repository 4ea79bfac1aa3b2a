--------------------------- MODULE MCAsyncDelete ---------------------------
(***************************************************************************)
(* An instance of AsyncDelete for TLC.                                     *)
(***************************************************************************)
EXTENDS AsyncDelete, TLC

=============================================================================
