---------------------------- MODULE MCWatchlists ----------------------------
(***************************************************************************)
(* Watchlists for TLC.  Liveness is checked in the same run as safety, so  *)
(* no symmetry is used.                                                    *)
(***************************************************************************)
EXTENDS Watchlists, TLC
=============================================================================
