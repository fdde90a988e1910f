-------------------------- MODULE MCRefreshTokens --------------------------
(***************************************************************************)
(* RefreshTokens for TLC.  Request slots are interchangeable in the safety *)
(* properties, so are users; liveness is checked without symmetry.         *)
(***************************************************************************)
EXTENDS RefreshTokens, TLC

Symmetry == Permutations(Requests) \cup Permutations(Users)
=============================================================================
