----------------------------- MODULE MCCatalog -----------------------------
(***************************************************************************)
(* Catalog for TLC.  TMDB gives both movies the same IMDb ID, and for the  *)
(* second it may also have none.                                           *)
(***************************************************************************)
EXTENDS Catalog, TLC

CONSTANTS m1, m2, i1

MCMovies == {m1, m2}
MCImdb   == {i1}
MCImdbOf == (m1 :> {i1}) @@ (m2 :> {i1, NoId})
=============================================================================
