---------------------------- MODULE MCWebClient ----------------------------
(* WebClient for TLC: the slots for calls are interchangeable, so are users. *)
EXTENDS WebClient, TLC

Symmetry == Permutations(Calls) \cup Permutations(Users)
=============================================================================
