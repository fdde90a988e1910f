----------------------------- MODULE MCAccounts -----------------------------
(***************************************************************************)
(* Accounts for TLC.  Liveness is checked in the same run as safety, so no *)
(* symmetry is used.                                                       *)
(***************************************************************************)
EXTENDS Accounts, TLC
=============================================================================
