---------------------------- MODULE CatalogProofs ----------------------------
(***************************************************************************)
(* Proofs about Catalog, for every set of movies, IMDb IDs and requests    *)
(* and every limit: its inductive invariant, that job rows tell the truth, *)
(* and that the catalog only grows.                                        *)
(***************************************************************************)
EXTENDS Catalog, TLAPS

ProcState == [pc : PC, item : Movies \cup {Absent}, want : Imdb \cup {NoId},
              todo : SUBSET Movies, wrote : [Movies -> Value], named : SUBSET Movies,
              found : SUBSET Movies, done : 0..ReportEvery]

JobState == {"none", "queued", "processing", "completed", "failed"}

LEMMA Types ==
  ASSUME CatalogInv
  PROVE  /\ NoId \notin Imdb /\ Absent \notin Imdb /\ Absent # NoId /\ Requests \cap Tasks = {}
         /\ ImdbOf \in [Movies -> (SUBSET (Imdb \cup {NoId})) \ {{}}]
         /\ ReportEvery \in Nat \ {0}
         /\ imdb \in [Movies -> Value] /\ bare \subseteq {t \in Movies : imdb[t] # Absent}
         /\ job \in [Tasks -> JobState] /\ proc \in [Procs -> ProcState]
         /\ \A p \in Procs : Flushed(p) /\ AtHand(p)
  BY CatalogAssumption DEF CatalogAssumption, CatalogInv, TypeOK, ProcState, JobState

LEMMA IdleIs ==
  ASSUME CatalogInv
  PROVE  /\ Idle \in ProcState /\ Idle.pc = "idle" /\ Idle.want = NoId /\ Idle.named = {}
         /\ Idle.wrote = Untouched /\ \A t \in Movies : Untouched[t] = Absent
  BY Types DEF Idle, ProcState, PC, Untouched, Value

\* The part of FromTMDB that is about one process.
Sourced(s) ==
  /\ \A t \in Movies : s.wrote[t] \in Imdb => s.wrote[t] \in ImdbOf[t]
  /\ s.pc # "find" /\ s.want \in Imdb => s.want \in ImdbOf[s.item]

\* What the other processes, and those who look at the jobs, see of a step of p: nothing.
Quiet(p) == UNCHANGED job /\ (\A q \in Procs \ {p} : proc'[q] = proc[q]) /\ proc'[p].pc # "queued"

(***************************************************************************)
(* A step of process p that commits nothing keeps the invariant if it      *)
(* keeps what the invariant says of p, and takes no row or key of another. *)
(***************************************************************************)
LEMMA LocalStep ==
  ASSUME CatalogInv, NEW p \in Procs, NEW s \in ProcState, Become(p, s),
         UNCHANGED <<imdb, bare>>, job' \in [Tasks -> JobState],
         Flushed(p)', AtHand(p)', Sourced(s),
         \A q \in Procs \ {p} : /\ \A t \in Movies : HoldsRow(p, t)' => ~HoldsRow(q, t)
                                /\ \A i \in Imdb : HoldsKey(p, i)' => ~HoldsKey(q, i)
  PROVE  CatalogInv' /\ (UNCHANGED job /\ s.pc # "queued" => Quiet(p))
<1> USE Types
<1>1. /\ proc' \in [Procs -> ProcState] /\ proc'[p] = s
      /\ \A q \in Procs \ {p} : proc'[q] = proc[q]
  BY DEF Become
<1>2. TypeOK'
  BY <1>1 DEF TypeOK, ProcState, JobState
<1>3. NoDuplicates'
  BY DEF CatalogInv, NoDuplicates
<1>4. ASSUME NEW q \in Procs \ {p}
      PROVE  /\ Flushed(q)' /\ AtHand(q)'
             /\ \A t \in Movies : HoldsRow(q, t)' = HoldsRow(q, t)
             /\ \A i \in Imdb : HoldsKey(q, i)' = HoldsKey(q, i)
  BY <1>1 DEF Flushed, AtHand, At, Taken, Row, HoldsRow, HoldsKey, Wrote
<1>5. RowsApart' /\ KeysApart'
  BY <1>4 DEF CatalogInv, RowsApart, KeysApart
<1>6. FromTMDB'
  <2>1. \A q \in Procs : Sourced(proc'[q])
    BY <1>1 DEF CatalogInv, FromTMDB, Sourced
  <2> QED  BY <2>1 DEF CatalogInv, FromTMDB, Sourced
<1> QED  BY <1>1, <1>2, <1>3, <1>4, <1>5, <1>6 DEF CatalogInv, Quiet

\* A step that flushes nothing.
LEMMA PlainStep ==
  ASSUME CatalogInv, NEW p \in Procs, NEW s \in ProcState, Become(p, s),
         UNCHANGED <<imdb, bare>>, job' \in [Tasks -> JobState],
         s.wrote = proc[p].wrote \/ s.wrote = Untouched,
         s.named = proc[p].named \/ s.named = {},
         s.pc \notin {"insertRow", "fillKey"}, Sourced(s),
         s.pc \in {"insert", "details", "fill"} => s.item \in Movies,
         s.pc = "fill" => s.want \in Imdb,
         s.pc \notin {"find", "insert", "fill"} => s.want = NoId
  PROVE  CatalogInv' /\ (UNCHANGED job /\ s.pc # "queued" => Quiet(p))
<1> USE Types, IdleIs
<1>1. proc'[p] = s
  BY DEF Become
<1>2. AtHand(p)'
  BY <1>1 DEF AtHand
<1>3. Flushed(p)'
  BY <1>1 DEF Flushed, At, Taken, Row
<1>4. \A t \in Movies : HoldsRow(p, t)' => HoldsRow(p, t)
  BY <1>1 DEF HoldsRow, Wrote, At
<1>5. \A i \in Imdb : HoldsKey(p, i)' => HoldsKey(p, i)
  BY <1>1 DEF HoldsKey, At
<1>6. \A q \in Procs \ {p} : /\ \A t \in Movies : HoldsRow(p, t)' => ~HoldsRow(q, t)
                             /\ \A i \in Imdb : HoldsKey(p, i)' => ~HoldsKey(q, i)
  BY <1>4, <1>5 DEF CatalogInv, RowsApart, KeysApart
<1> QED  BY <1>2, <1>3, <1>6, LocalStep

\* The end of a transaction that leaves no trace in the catalog.
LEMMA IdleStep ==
  ASSUME CatalogInv, NEW p \in Procs, Rollback(p)
  PROVE  CatalogInv' /\ Quiet(p)
<1> USE Types, IdleIs
<1>1. Sourced(Idle)
  BY DEF Sourced
<1>2. Become(p, Idle) /\ UNCHANGED <<imdb, bare, job>>
  BY DEF Rollback, Step
<1> QED  BY <1>1, <1>2, PlainStep

\* A commit: what p flushed becomes visible, and p holds nothing any more.
LEMMA PublishStep ==
  ASSUME CatalogInv, NEW p \in Procs, NEW s \in ProcState, Become(p, s), Publish(p),
         job' \in [Tasks -> JobState],
         s.wrote = Untouched, s.named \subseteq proc[p].named, s.want = NoId,
         s.pc \in {"idle", "imdbRows"}
  PROVE  CatalogInv'
<1> USE Types, IdleIs
<1> DEFINE wrote == proc[p].wrote
<1>1. /\ proc' \in [Procs -> ProcState] /\ proc'[p] = s
      /\ \A q \in Procs \ {p} : proc'[q] = proc[q]
  BY DEF Become
<1>2. /\ imdb' \in [Movies -> Value]
      /\ \A t \in Movies : imdb'[t] = IF wrote[t] = Absent THEN imdb[t] ELSE wrote[t]
  BY DEF Publish, ProcState
<1>3. bare' \subseteq {t \in Movies : imdb'[t] # Absent}
  BY <1>2 DEF Publish
<1>4. TypeOK'
  BY <1>1, <1>2, <1>3 DEF TypeOK, ProcState, JobState
<1>5. \A t \in Movies : wrote[t] # Absent => HoldsRow(p, t)
  BY DEF HoldsRow, Wrote
<1>6. \A t \in Movies : wrote[t] \in Imdb =>
         /\ HoldsKey(p, wrote[t])
         /\ \A u \in Movies \ {t} : imdb[u] # wrote[t] /\ wrote[u] # wrote[t]
  BY DEF HoldsKey, Flushed, Taken
<1>7. NoDuplicates'
  BY <1>2, <1>6 DEF CatalogInv, NoDuplicates
<1>8. ASSUME NEW q \in Procs \ {p} PROVE Flushed(q)' /\ AtHand(q)'
  <2>1. ASSUME NEW t \in Movies \cup {Absent}, NEW i \in Imdb \cup {NoId},
               ~Taken(q, t, i), HoldsKey(q, i) \/ i = NoId
        PROVE  ~Taken(q, t, i)'
    <3>1. i # NoId => \A u \in Movies : wrote[u] # i
      BY <1>6, <2>1 DEF CatalogInv, KeysApart
    <3> QED  BY <1>1, <1>2, <2>1, <3>1 DEF Taken
  <2>2. ASSUME NEW t \in Movies, proc[q].wrote[t] = NoId PROVE ~Row(t)'
    <3>1. HoldsRow(q, t) /\ ~Row(t)
      BY <2>2 DEF HoldsRow, Wrote, Flushed
    <3>2. wrote[t] = Absent
      BY <1>5, <3>1 DEF CatalogInv, RowsApart
    <3> QED  BY <1>2, <3>1, <3>2 DEF Row
  <2>3. \A t \in Movies : proc[q].wrote[t] \in Imdb => HoldsKey(q, proc[q].wrote[t])
    BY DEF HoldsKey
  <2>4. At(q, "insertRow") =>
           HoldsKey(q, proc[q].want) /\ proc[q].item \in Movies /\ proc[q].want \in Imdb \cup {NoId}
    BY DEF HoldsKey, AtHand, At, ProcState
  <2>5. Flushed(q)'
    BY <1>1, <2>1, <2>2, <2>3, <2>4 DEF Flushed, At
  <2>6. AtHand(q)'
    BY <1>1 DEF AtHand
  <2> QED  BY <2>5, <2>6
<1>9. Flushed(p)' /\ AtHand(p)'
  BY <1>1 DEF Flushed, AtHand, At
<1>10. RowsApart' /\ KeysApart'
  <2>1. \A q \in Procs : /\ \A t \in Movies : HoldsRow(q, t)' => HoldsRow(q, t)
                         /\ \A i \in Imdb : HoldsKey(q, i)' => HoldsKey(q, i)
    BY <1>1 DEF HoldsRow, HoldsKey, Wrote, At
  <2> QED  BY <2>1 DEF CatalogInv, RowsApart, KeysApart
<1>11. FromTMDB'
  <2>1. \A q \in Procs : Sourced(proc'[q])
    BY <1>1 DEF CatalogInv, FromTMDB, Sourced
  <2>2. \A t \in Movies : imdb'[t] \in Imdb => imdb'[t] \in ImdbOf[t]
    BY <1>2 DEF CatalogInv, FromTMDB
  <2> QED  BY <2>1, <2>2 DEF FromTMDB, Sourced
<1> QED  BY <1>4, <1>7, <1>8, <1>9, <1>10, <1>11 DEF CatalogInv

-----------------------------------------------------------------------------
(* Flushes: the steps that take a key, a row, or both *)

LEMMA InsertKeyStep ==
  ASSUME CatalogInv, NEW p \in Procs, InsertKey(p)
  PROVE  CatalogInv' /\ Quiet(p)
<1> USE Types
<1>1. CASE Rollback(p)
  BY <1>1, IdleStep
<1>2. ASSUME ~Rollback(p) PROVE CatalogInv' /\ Quiet(p)
  <2> DEFINE t == proc[p]
             s == [t EXCEPT !.pc = "insertRow"]
  <2>1. /\ t.pc = "insert" /\ KeyFree(p, t.want) /\ ~Taken(p, t.item, t.want)
        /\ t \in ProcState /\ t.item \in Movies
        /\ Become(p, s) /\ UNCHANGED <<imdb, bare, job>>
    BY <1>2 DEF InsertKey, Step, At, AtHand
  <2>2. Sourced(t)
    BY DEF CatalogInv, FromTMDB, Sourced
  <2> HIDE DEF t
  <2>3. /\ s \in ProcState /\ s.pc = "insertRow" /\ s.item = t.item /\ s.want = t.want
        /\ s.wrote = t.wrote /\ s.named = t.named
    BY <2>1 DEF ProcState, PC
  <2> HIDE DEF s
  <2>4. Sourced(s)
    BY <2>1, <2>2, <2>3 DEF Sourced
  <2>5. proc'[p] = s
    BY <2>1 DEF Become
  <2>6. Flushed(p)' /\ AtHand(p)'
    BY <2>1, <2>3, <2>5 DEF Flushed, AtHand, At, Taken, Row, t
  <2>7. \A m \in Movies : HoldsRow(p, m)' => HoldsRow(p, m)
    BY <2>3, <2>5 DEF HoldsRow, Wrote, At, t
  <2>8. \A i \in Imdb : HoldsKey(p, i)' => HoldsKey(p, i) \/ i = t.want
    BY <2>3, <2>5 DEF HoldsKey, At, t
  <2>9. \A q \in Procs \ {p} : /\ \A m \in Movies : HoldsRow(p, m)' => ~HoldsRow(q, m)
                               /\ \A i \in Imdb : HoldsKey(p, i)' => ~HoldsKey(q, i)
    BY <2>1, <2>7, <2>8 DEF CatalogInv, RowsApart, KeysApart, KeyFree
  <2> QED  BY <2>1, <2>3, <2>4, <2>6, <2>9, LocalStep
<1> QED  BY <1>1, <1>2

(***************************************************************************)
(* What INSERT and UPDATE have in common: the row at hand gets its ID,     *)
(* which p holds or nobody does, and is p's from now on.                   *)
(***************************************************************************)
LEMMA WriteRow ==
  ASSUME CatalogInv, NEW p \in Procs, NEW next \in PC \ {"queued", "find", "insert",
                                                 "details", "insertRow", "fill", "fillKey"},
         proc[p].item \in Movies, ~Taken(p, proc[p].item, proc[p].want),
         proc[p].pc \in {"insertRow", "fillKey"},
         proc[p].want = NoId => ~Row(proc[p].item),
         \A q \in Procs \ {p} : /\ ~HoldsRow(q, proc[p].item)
                                /\ proc[p].want \in Imdb => ~HoldsKey(q, proc[p].want),
         Step(p, [proc[p] EXCEPT !.pc = next, !.wrote[proc[p].item] = proc[p].want,
                                 !.want = NoId])
  PROVE  CatalogInv' /\ Quiet(p)
<1> USE Types
<1> DEFINE t == proc[p]
           i == t.want
           m == t.item
           s == [t EXCEPT !.pc = next, !.wrote[m] = i, !.want = NoId]
<1>1. /\ t \in ProcState /\ m \in Movies /\ i \in Imdb \cup {NoId}
      /\ Become(p, s) /\ UNCHANGED <<imdb, bare, job>>
  BY DEF Step, ProcState
<1>2. Sourced(t) /\ t.pc # "find"
  BY DEF CatalogInv, FromTMDB, Sourced
<1> HIDE DEF t
<1>3. /\ s \in ProcState /\ s.pc = next /\ s.want = NoId /\ s.named = t.named
      /\ s.wrote = [t.wrote EXCEPT ![m] = i]
  BY <1>1 DEF ProcState, Value
<1> HIDE DEF s
<1>4. /\ proc'[p] = s /\ s.wrote[m] = i
      /\ \A u \in Movies \ {m} : s.wrote[u] = t.wrote[u]
  BY <1>1, <1>3 DEF Become, ProcState
<1>5. Sourced(s)
  BY <1>1, <1>2, <1>3, <1>4 DEF Sourced
<1>6. AtHand(p)'
  BY <1>3, <1>4 DEF AtHand
<1>7. Flushed(p)'
  <2>1. \A u \in Movies \ {m} : i \in Imdb => imdb[u] # i /\ t.wrote[u] # i
    BY DEF Taken, t
  <2>2. \A u \in Movies : t.wrote[u] \in Imdb =>
           \A v \in Movies \ {u} : imdb[v] # t.wrote[u] /\ t.wrote[v] # t.wrote[u]
    BY DEF Flushed, Taken, t
  <2>3. ASSUME NEW u \in Movies, s.wrote[u] \in Imdb, NEW v \in Movies \ {u}
        PROVE  imdb[v] # s.wrote[u] /\ s.wrote[v] # s.wrote[u]
    BY <1>1, <1>4, <2>1, <2>2, <2>3
  <2>4. ASSUME NEW u \in Movies, s.wrote[u] = NoId PROVE ~Row(u)
    <3>1. CASE u = m
      BY <1>4, <2>4, <3>1 DEF t
    <3>2. CASE u # m
      BY <1>4, <2>4, <3>2 DEF Flushed, t
    <3> QED  BY <3>1, <3>2
  <2> QED  BY <1>1, <1>3, <1>4, <2>3, <2>4 DEF Flushed, Taken, Row, At
<1>8. \A u \in Movies : HoldsRow(p, u)' => HoldsRow(p, u) \/ u = m
  BY <1>3, <1>4 DEF HoldsRow, Wrote, At, t
<1>9. \A j \in Imdb : HoldsKey(p, j)' => HoldsKey(p, j) \/ j = i
  BY <1>1, <1>3, <1>4 DEF HoldsKey, At, t
<1>10. \A q \in Procs \ {p} : /\ \A u \in Movies : HoldsRow(p, u)' => ~HoldsRow(q, u)
                              /\ \A j \in Imdb : HoldsKey(p, j)' => ~HoldsKey(q, j)
  BY <1>8, <1>9 DEF CatalogInv, RowsApart, KeysApart, t
<1> QED  BY <1>1, <1>3, <1>5, <1>6, <1>7, <1>10, LocalStep

LEMMA InsertRowStep ==
  ASSUME CatalogInv, NEW p \in Procs, NEW next \in {"commit", "popularRows"},
         InsertRow(p, next)
  PROVE  CatalogInv' /\ Quiet(p)
<1> USE Types
<1>1. CASE Rollback(p)
  BY <1>1, IdleStep
<1>2. ASSUME ~Rollback(p) PROVE CatalogInv' /\ Quiet(p)
  <2>1. /\ proc[p].pc = "insertRow" /\ proc[p].item \in Movies /\ ~Row(proc[p].item)
        /\ ~Taken(p, proc[p].item, proc[p].want)
    BY <1>2 DEF InsertRow, At, AtHand, Flushed
  <2>2. \A q \in Procs \ {p} : /\ ~HoldsRow(q, proc[p].item)
                               /\ proc[p].want \in Imdb => ~HoldsKey(q, proc[p].want)
    BY <2>1 DEF InsertRow, FreeFor, HoldsKey, At, CatalogInv, KeysApart
  <2>3. next \in PC \ {"queued", "find", "insert", "details", "insertRow", "fill", "fillKey"}
    BY DEF PC
  <2>4. Step(p, [proc[p] EXCEPT !.pc = next, !.wrote[proc[p].item] = proc[p].want,
                                !.want = NoId])
    BY <1>2 DEF InsertRow
  <2> QED  BY <2>1, <2>2, <2>3, <2>4, WriteRow
<1> QED  BY <1>1, <1>2

LEMMA FillKeyStep ==
  ASSUME CatalogInv, NEW p \in Procs, NEW next \in {"commit", "report"}, FillKey(p, next)
  PROVE  CatalogInv' /\ Quiet(p)
<1> USE Types
<1>1. CASE Rollback(p)
  BY <1>1, IdleStep
<1>2. ASSUME ~Rollback(p) PROVE CatalogInv' /\ Quiet(p)
  <2>1. /\ proc[p].pc = "fillKey" /\ proc[p].item \in Movies /\ proc[p].want \in Imdb
        /\ ~Taken(p, proc[p].item, proc[p].want)
    BY <1>2 DEF FillKey, At, AtHand
  <2>2. \A q \in Procs \ {p} : /\ ~HoldsRow(q, proc[p].item)
                               /\ proc[p].want \in Imdb => ~HoldsKey(q, proc[p].want)
    BY <2>1 DEF FillKey, KeyFree, HoldsRow, At, CatalogInv, RowsApart
  <2>3. next \in PC \ {"queued", "find", "insert", "details", "insertRow", "fill", "fillKey"}
    BY DEF PC
  <2>4. Step(p, [proc[p] EXCEPT !.pc = next, !.wrote[proc[p].item] = proc[p].want,
                                !.want = NoId])
    BY <1>2 DEF FillKey
  <2> QED  BY <2>1, <2>2, <2>3, <2>4, WriteRow
<1> QED  BY <1>1, <1>2

LEMMA FillRowStep ==
  ASSUME CatalogInv, NEW p \in Procs, FillRow(p)
  PROVE  CatalogInv' /\ Quiet(p)
<1> USE Types
<1> DEFINE t == proc[p]
           s == [t EXCEPT !.pc = "fillKey"]
<1>1. /\ t.pc = "fill" /\ FreeFor(p, t.item) /\ t \in ProcState
      /\ t.item \in Movies /\ t.want \in Imdb
      /\ Become(p, s) /\ UNCHANGED <<imdb, bare, job>>
  BY DEF FillRow, Step, At, AtHand
<1>2. Sourced(t)
  BY DEF CatalogInv, FromTMDB, Sourced
<1> HIDE DEF t
<1>3. /\ s \in ProcState /\ s.pc = "fillKey" /\ s.item = t.item /\ s.want = t.want
      /\ s.wrote = t.wrote /\ s.named = t.named
  BY <1>1 DEF ProcState, PC
<1> HIDE DEF s
<1>4. Sourced(s)
  BY <1>1, <1>2, <1>3 DEF Sourced
<1>5. proc'[p] = s
  BY <1>1 DEF Become
<1>6. Flushed(p)' /\ AtHand(p)'
  BY <1>1, <1>3, <1>5 DEF Flushed, AtHand, At, Taken, Row, t
<1>7. \A m \in Movies : HoldsRow(p, m)' => HoldsRow(p, m) \/ m = t.item
  BY <1>3, <1>5 DEF HoldsRow, Wrote, At, t
<1>8. \A i \in Imdb : HoldsKey(p, i)' => HoldsKey(p, i)
  BY <1>3, <1>5 DEF HoldsKey, At, t
<1>9. \A q \in Procs \ {p} : /\ \A m \in Movies : HoldsRow(p, m)' => ~HoldsRow(q, m)
                             /\ \A i \in Imdb : HoldsKey(p, i)' => ~HoldsKey(q, i)
  BY <1>1, <1>7, <1>8 DEF CatalogInv, RowsApart, KeysApart, FreeFor
<1> QED  BY <1>1, <1>3, <1>4, <1>6, <1>9, LocalStep

LEMMA FlushGenresStep ==
  ASSUME CatalogInv, NEW p \in Procs, NEW m \in Movies, FlushGenres(p, m)
  PROVE  CatalogInv' /\ Quiet(p)
<1> USE Types
<1> DEFINE t == proc[p]
           found == t.found \ {m}
           named == t.named \cup {m}
           s == [t EXCEPT !.found = found, !.named = named]
<1>1. /\ t.pc \in {"failing", "genreRows"} /\ FreeFor(p, m) /\ t \in ProcState
      /\ found \in SUBSET Movies /\ named \in SUBSET Movies
      /\ Become(p, s) /\ UNCHANGED <<imdb, bare, job>>
  BY DEF FlushGenres, Step, At, ProcState
<1>2. Sourced(t) /\ named = t.named \cup {m}
  BY DEF CatalogInv, FromTMDB, Sourced
<1> HIDE DEF t, found, named
<1>3. /\ s \in ProcState /\ s.pc = t.pc /\ s.item = t.item /\ s.want = t.want
      /\ s.wrote = t.wrote /\ s.named = named
  BY <1>1 DEF ProcState
<1> HIDE DEF s
<1>4. Sourced(s)
  BY <1>1, <1>2, <1>3 DEF Sourced
<1>5. proc'[p] = s
  BY <1>1 DEF Become
<1>6. Flushed(p)' /\ AtHand(p)'
  BY <1>1, <1>3, <1>5 DEF Flushed, AtHand, At, Taken, Row, t
<1>7. \A u \in Movies : HoldsRow(p, u)' => HoldsRow(p, u) \/ u = m
  BY <1>1, <1>2, <1>3, <1>5 DEF HoldsRow, Wrote, At, t
<1>8. \A i \in Imdb : HoldsKey(p, i)' => HoldsKey(p, i)
  BY <1>1, <1>3, <1>5 DEF HoldsKey, At, t
<1>9. \A q \in Procs \ {p} : /\ \A u \in Movies : HoldsRow(p, u)' => ~HoldsRow(q, u)
                             /\ \A i \in Imdb : HoldsKey(p, i)' => ~HoldsKey(q, i)
  BY <1>1, <1>7, <1>8 DEF CatalogInv, RowsApart, KeysApart, FreeFor
<1> QED  BY <1>1, <1>3, <1>4, <1>6, <1>9, LocalStep

-----------------------------------------------------------------------------
(* The steps that flush nothing *)

\* A step within a transaction, to a point where no answer of TMDB is waiting to be written.
LEMMA Onward ==
  ASSUME CatalogInv, NEW p \in Procs, NEW s \in ProcState, Step(p, s),
         proc[p].want = NoId, s.want = NoId,
         s.wrote = proc[p].wrote, s.named = proc[p].named,
         s.pc \notin {"queued", "insertRow", "fill", "fillKey"},
         s.pc \in {"insert", "details"} => s.item \in Movies
  PROVE  CatalogInv' /\ Quiet(p)
<1> USE Types
<1>1. Sourced(s)
  BY DEF CatalogInv, FromTMDB, Sourced
<1> QED  BY <1>1, PlainStep DEF Step

LEMMA ArriveStep ==
  ASSUME CatalogInv, NEW r \in Procs,
         \/ \E i \in Imdb : Import(r, i)
         \/ \E t \in Movies : GetMovie(r, t)
  PROVE  CatalogInv'
<1> USE Types, IdleIs
<1> DEFINE t == Idle
<1>1. t \in ProcState /\ t.want = NoId /\ t.wrote = Untouched /\ t.named = {}
  OBVIOUS
<1>2. ASSUME NEW i \in Imdb, Import(r, i) PROVE CatalogInv'
  <2> DEFINE s == [t EXCEPT !.pc = "find", !.want = i]
  <2>1. Become(r, s) /\ UNCHANGED <<imdb, bare, job>>
    BY <1>2 DEF Import, Step
  <2> HIDE DEF t
  <2>2. /\ s \in ProcState /\ s.pc = "find" /\ s.wrote = Untouched /\ s.named = {}
    BY <1>1 DEF ProcState, PC
  <2> HIDE DEF s
  <2>3. Sourced(s)
    BY <2>2 DEF Sourced
  <2> QED  BY <2>1, <2>2, <2>3, PlainStep
<1>3. ASSUME NEW m \in Movies, GetMovie(r, m) PROVE CatalogInv'
  <2> DEFINE s == [t EXCEPT !.pc = "details", !.item = m]
  <2>1. Become(r, s) /\ UNCHANGED <<imdb, bare, job>>
    BY <1>3 DEF GetMovie, Step
  <2> HIDE DEF t
  <2>2. /\ s \in ProcState /\ s.pc = "details" /\ s.item = m /\ s.want = NoId
        /\ s.wrote = Untouched /\ s.named = {}
    BY <1>1 DEF ProcState, PC
  <2> HIDE DEF s
  <2>3. Sourced(s)
    BY <2>2 DEF Sourced
  <2> QED  BY <2>1, <2>2, <2>3, PlainStep
<1> QED  BY <1>2, <1>3

LEMMA FindStep ==
  ASSUME CatalogInv, NEW r \in Procs, Find(r)
  PROVE  CatalogInv'
<1> USE Types
<1>1. CASE Rollback(r)
  BY <1>1, IdleStep
<1>2. ASSUME NEW m \in Movies, proc[r].want \in ImdbOf[m],
             Step(r, [proc[r] EXCEPT !.pc = "insert", !.item = m])
      PROVE  CatalogInv'
  <2> DEFINE t == proc[r]
             s == [t EXCEPT !.pc = "insert", !.item = m]
  <2>1. Become(r, s) /\ UNCHANGED <<imdb, bare, job>> /\ t \in ProcState
    BY <1>2 DEF Step
  <2> HIDE DEF t
  <2>2. /\ s \in ProcState /\ s.pc = "insert" /\ s.item = m /\ s.want = t.want
        /\ s.wrote = t.wrote /\ s.named = t.named
    BY <2>1 DEF ProcState, PC
  <2> HIDE DEF s
  <2>3. Sourced(s)
    BY <1>2, <2>2 DEF CatalogInv, FromTMDB, Sourced, t
  <2> QED  BY <2>1, <2>2, <2>3, PlainStep DEF t
<1>3. Step(r, Idle) => Rollback(r)
  BY DEF Rollback
<1> QED  BY <1>1, <1>2, <1>3 DEF Find

LEMMA FailingStep ==
  ASSUME CatalogInv, NEW k \in Procs, proc[k].want = NoId, Step(k, Failing(k))
  PROVE  CatalogInv' /\ Quiet(k)
<1> USE Types
<1> DEFINE t == proc[k]
           s == [t EXCEPT !.pc = "failing"]
<1>1. Step(k, s) /\ t \in ProcState
  BY DEF Failing
<1> HIDE DEF t
<1>2. /\ s \in ProcState /\ s.pc = "failing" /\ s.want = t.want
      /\ s.wrote = t.wrote /\ s.named = t.named
  BY <1>1 DEF ProcState, PC
<1> HIDE DEF s
<1> QED  BY <1>1, <1>2, Onward DEF t

LEMMA DetailsStep ==
  ASSUME CatalogInv, NEW p \in Procs,
         \/ Details(p, Idle, Idle)
         \/ Details(p, [proc[p] EXCEPT !.pc = "report"], Failing(p))
  PROVE  CatalogInv' /\ Quiet(p)
<1> USE Types
<1> DEFINE t == proc[p]
<1>1. t.pc = "details" /\ t.item \in Movies /\ t.want = NoId /\ t \in ProcState
  BY DEF Details, At, AtHand
<1>2. Step(p, Idle) => CatalogInv' /\ Quiet(p)
  BY IdleStep DEF Rollback
<1>3. Step(p, Failing(p)) => CatalogInv' /\ Quiet(p)
  BY <1>1, FailingStep
<1>4. ASSUME Step(p, [t EXCEPT !.pc = "report"]) PROVE CatalogInv' /\ Quiet(p)
  <2> DEFINE s == [t EXCEPT !.pc = "report"]
  <2>1. Step(p, s)
    BY <1>4
  <2> HIDE DEF t
  <2>2. /\ s \in ProcState /\ s.pc = "report" /\ s.want = t.want
        /\ s.wrote = t.wrote /\ s.named = t.named
    BY <1>1 DEF ProcState, PC
  <2> HIDE DEF s
  <2> QED  BY <1>1, <2>1, <2>2, Onward DEF t
<1>5. ASSUME NEW i \in ImdbOf[t.item], i # NoId, Step(p, [t EXCEPT !.pc = "fill", !.want = i])
      PROVE  CatalogInv' /\ Quiet(p)
  <2> DEFINE s == [t EXCEPT !.pc = "fill", !.want = i]
  <2>1. Become(p, s) /\ UNCHANGED <<imdb, bare, job>> /\ i \in Imdb
    BY <1>1, <1>5 DEF Step
  <2> HIDE DEF t
  <2>2. /\ s \in ProcState /\ s.pc = "fill" /\ s.item = t.item /\ s.want = i
        /\ s.wrote = t.wrote /\ s.named = t.named
    BY <1>1, <2>1 DEF ProcState, PC
  <2> HIDE DEF s
  <2>3. Sourced(s)
    BY <1>5, <2>2 DEF CatalogInv, FromTMDB, Sourced, t
  <2> QED  BY <1>1, <2>1, <2>2, <2>3, PlainStep DEF t
<1> QED  BY <1>2, <1>3, <1>4, <1>5 DEF Details

\* A run begins: queued, then at work.
LEMMA StartStep ==
  ASSUME CatalogInv, NEW k \in Tasks, Start(k) \/ Process(k)
  PROVE  CatalogInv'
<1> USE Types, IdleIs
<1>1. PICK point \in {"queued", "genres", "select"} :
         Become(k, [Idle EXCEPT !.pc = point]) /\ UNCHANGED <<imdb, bare>>
  BY DEF Start, Process
<1>2. job' \in [Tasks -> JobState]
  BY DEF Start, Process, SetJob, JobState
<1> DEFINE t == Idle
           s == [t EXCEPT !.pc = point]
<1>3. Become(k, s) /\ t \in ProcState /\ t.want = NoId /\ t.wrote = Untouched /\ t.named = {}
  BY <1>1
<1> HIDE DEF t
<1>4. /\ s \in ProcState /\ s.pc = point /\ s.want = NoId /\ s.wrote = Untouched /\ s.named = {}
  BY <1>3 DEF ProcState, PC
<1> HIDE DEF s
<1>5. Sourced(s)
  BY <1>4 DEF Sourced
<1> QED  BY <1>1, <1>2, <1>3, <1>4, <1>5, PlainStep DEF Procs

LEMMA GenresStep ==
  ASSUME CatalogInv, NEW k \in Procs, Genres(k) \/ Popular(k) \/ Select(k)
  PROVE  CatalogInv' /\ Quiet(k)
<1> USE Types
<1>1. proc[k].want = NoId
  BY DEF AtHand, Genres, Popular, Select, At
<1>2. CASE Step(k, Failing(k))
  BY <1>1, <1>2, FailingStep
<1>3. ASSUME NEW point \in {"genreRows", "popularRows", "imdbRows"}, NEW B \in SUBSET Movies,
             Step(k, [proc[k] EXCEPT !.pc = point, !.todo = B])
      PROVE  CatalogInv' /\ Quiet(k)
  <2> DEFINE t == proc[k]
             s == [t EXCEPT !.pc = point, !.todo = B]
  <2>1. Step(k, s) /\ t \in ProcState
    BY <1>3
  <2> HIDE DEF t
  <2>2. /\ s \in ProcState /\ s.pc = point /\ s.want = t.want
        /\ s.wrote = t.wrote /\ s.named = t.named
    BY <2>1 DEF ProcState, PC
  <2> HIDE DEF s
  <2> QED  BY <1>1, <2>1, <2>2, Onward DEF t
<1>4. \A rows, limit : \A B \in Batch(rows, limit) : B \subseteq rows
  BY DEF Batch
<1>5. bare \subseteq Movies /\ Missing \subseteq Movies
  BY DEF Missing
<1>6. CASE Genres(k) /\ ~Step(k, Failing(k))
  <2>1. PICK B \in Batch(bare, GenreLimit) :
           Step(k, [proc[k] EXCEPT !.pc = "genreRows", !.todo = B])
    BY <1>6 DEF Genres
  <2>2. B \in SUBSET Movies
    BY <1>4, <1>5
  <2> QED  BY <1>3, <2>1, <2>2
<1>7. CASE Popular(k) /\ ~Step(k, Failing(k))
  BY <1>3, <1>7 DEF Popular
<1>8. CASE Select(k)
  <2>1. PICK B \in Batch(Missing, ImdbLimit) :
           Step(k, [proc[k] EXCEPT !.pc = "imdbRows", !.todo = B])
    BY <1>8 DEF Select
  <2>2. B \in SUBSET Movies
    BY <1>4, <1>5
  <2> QED  BY <1>3, <2>1, <2>2
<1> QED  BY <1>2, <1>6, <1>7, <1>8

LEMMA RowStep ==
  ASSUME CatalogInv, NEW k \in Procs, NEW m \in Movies,
         GenreRow(k, m) \/ PopularRow(k, m) \/ ImdbRow(k, m)
  PROVE  CatalogInv' /\ Quiet(k)
<1> USE Types
<1> DEFINE t == proc[k]
           todo == t.todo \ {m}
<1>1. t.want = NoId /\ t \in ProcState /\ todo \in SUBSET Movies
  BY DEF AtHand, GenreRow, PopularRow, ImdbRow, At, ProcState
<1>2. CASE Step(k, Failing(k))
  BY <1>1, <1>2, FailingStep
<1>3. CASE GenreRow(k, m) /\ ~Step(k, Failing(k))
  <2>1. PICK F \in SUBSET {m} : Step(k, [t EXCEPT !.todo = todo, !.found = t.found \cup F])
    BY <1>3 DEF GenreRow
  <2> DEFINE found == t.found \cup F
             s == [t EXCEPT !.todo = todo, !.found = found]
  <2>2. Step(k, s) /\ found \in SUBSET Movies /\ t.pc = "genreRows"
    BY <1>3, <2>1 DEF GenreRow, At, ProcState
  <2> HIDE DEF t, todo, found
  <2>3. /\ s \in ProcState /\ s.pc = t.pc /\ s.want = t.want
        /\ s.wrote = t.wrote /\ s.named = t.named
    BY <1>1, <2>2 DEF ProcState
  <2> HIDE DEF s
  <2> QED  BY <1>1, <2>2, <2>3, Onward DEF t
<1>4. CASE PopularRow(k, m) /\ Row(m)
  <2> DEFINE s == [t EXCEPT !.todo = todo]
  <2>1. Step(k, s) /\ t.pc = "popularRows"
    BY <1>4 DEF PopularRow, At
  <2> HIDE DEF t, todo
  <2>2. /\ s \in ProcState /\ s.pc = t.pc /\ s.want = t.want
        /\ s.wrote = t.wrote /\ s.named = t.named
    BY <1>1 DEF ProcState
  <2> HIDE DEF s
  <2> QED  BY <1>1, <2>1, <2>2, Onward DEF t
<1>5. CASE PopularRow(k, m) /\ ~Row(m)
  <2> DEFINE s == [t EXCEPT !.todo = todo, !.pc = "insert", !.item = m]
  <2>1. Step(k, s)
    BY <1>5 DEF PopularRow
  <2> HIDE DEF t, todo
  <2>2. /\ s \in ProcState /\ s.pc = "insert" /\ s.item = m /\ s.want = t.want
        /\ s.wrote = t.wrote /\ s.named = t.named
    BY <1>1 DEF ProcState, PC
  <2> HIDE DEF s
  <2> QED  BY <1>1, <2>1, <2>2, Onward DEF t
<1>6. CASE ImdbRow(k, m)
  <2> DEFINE s == [t EXCEPT !.pc = "details", !.item = m, !.todo = todo]
  <2>1. Step(k, s)
    BY <1>6 DEF ImdbRow
  <2> HIDE DEF t, todo
  <2>2. /\ s \in ProcState /\ s.pc = "details" /\ s.item = m /\ s.want = t.want
        /\ s.wrote = t.wrote /\ s.named = t.named
    BY <1>1 DEF ProcState, PC
  <2> HIDE DEF s
  <2> QED  BY <1>1, <2>1, <2>2, Onward DEF t
<1> QED  BY <1>2, <1>3, <1>4, <1>5, <1>6

\* The steps that commit rows together with the row of the job.
LEMMA CommitStep ==
  ASSUME CatalogInv, NEW p \in Procs, Commit(p) \/ (p \in Tasks /\ (Complete(p) \/ Fail(p)))
  PROVE  CatalogInv'
<1> USE Types, IdleIs
<1>1. job' \in [Tasks -> JobState] /\ Publish(p) /\ Become(p, Idle)
  BY DEF Commit, Complete, Fail, SetJob, JobState
<1> QED  BY <1>1, PublishStep

LEMMA ReportStep ==
  ASSUME CatalogInv, NEW k \in Tasks, Report(k)
  PROVE  CatalogInv'
<1> USE Types, IdleIs
<1> DEFINE t == proc[k]
           done == t.done + 1
<1>1. /\ t \in ProcState /\ t.want = NoId /\ k \in Procs /\ Untouched \in [Movies -> Value]
      /\ t.done \in 0..ReportEvery
  BY DEF Report, AtHand, At, Procs, ProcState, Untouched, Value
<1>2. ASSUME done < ReportEvery, Step(k, [t EXCEPT !.pc = "imdbRows", !.done = done])
      PROVE  CatalogInv'
  <2> DEFINE s == [t EXCEPT !.pc = "imdbRows", !.done = done]
  <2>1. Step(k, s) /\ done \in 0..ReportEvery
    BY <1>1, <1>2
  <2> HIDE DEF t, done
  <2>2. /\ s \in ProcState /\ s.pc = "imdbRows" /\ s.want = t.want
        /\ s.wrote = t.wrote /\ s.named = t.named
    BY <1>1, <2>1 DEF ProcState, PC
  <2> HIDE DEF s
  <2> QED  BY <1>1, <2>1, <2>2, Onward DEF t
<1>3. ASSUME SetJob(k, "processing"), Publish(k),
             Become(k, [t EXCEPT !.pc = "imdbRows", !.done = 0, !.wrote = Untouched])
      PROVE  CatalogInv'
  <2> DEFINE s == [t EXCEPT !.pc = "imdbRows", !.done = 0, !.wrote = Untouched]
  <2>1. Become(k, s) /\ 0 \in 0..ReportEvery
    BY <1>1, <1>3
  <2>2. job' \in [Tasks -> JobState]
    BY <1>3 DEF SetJob, JobState
  <2> HIDE DEF t
  <2>3. /\ s \in ProcState /\ s.pc = "imdbRows" /\ s.want = t.want
        /\ s.wrote = Untouched /\ s.named = t.named
    BY <1>1, <2>1 DEF ProcState, PC
  <2> HIDE DEF s
  <2> QED  BY <1>1, <1>3, <2>1, <2>2, <2>3, PublishStep DEF t
<1> QED  BY <1>2, <1>3 DEF Report

-----------------------------------------------------------------------------
(* The theorems *)

LEMMA InitInv ==
  ASSUME Init
  PROVE  CatalogInv
<1> USE CatalogAssumption DEF CatalogAssumption
<1>1. /\ imdb \in [Movies -> Value] /\ bare = {} /\ job \in [Tasks -> JobState]
      /\ \A t \in Movies : imdb[t] = Absent
  BY DEF Init, Untouched, Value, JobState
<1>2. /\ Idle \in ProcState /\ Idle.pc = "idle" /\ Idle.want = NoId /\ Idle.named = {}
      /\ \A t \in Movies : Idle.wrote[t] = Absent
  BY DEF Idle, ProcState, PC, Untouched, Value
<1>3. proc \in [Procs -> ProcState] /\ \A p \in Procs : proc[p] = Idle
  BY <1>2 DEF Init
<1>4. TypeOK
  BY <1>1, <1>3 DEF TypeOK, ProcState, JobState
<1>5. NoDuplicates
  BY <1>1 DEF NoDuplicates
<1>6. RowsApart /\ KeysApart
  BY <1>2, <1>3 DEF RowsApart, KeysApart, HoldsRow, HoldsKey, Wrote, At
<1>7. FromTMDB
  BY <1>1, <1>2, <1>3 DEF FromTMDB
<1>8. \A p \in Procs : Flushed(p) /\ AtHand(p)
  BY <1>2, <1>3 DEF Flushed, AtHand, At
<1> QED  BY <1>4, <1>5, <1>6, <1>7, <1>8 DEF CatalogInv

LEMMA NextInv ==
  ASSUME CatalogInv, [Next]_vars
  PROVE  CatalogInv'
<1>1. CASE UNCHANGED vars
  BY <1>1 DEF vars, CatalogInv, TypeOK, NoDuplicates, RowsApart, KeysApart, FromTMDB, Flushed,
              AtHand, At, Taken, Row, HoldsRow, HoldsKey, Wrote
<1>2. \A r \in Requests : r \in Procs
  BY DEF Procs
<1>3. \A k \in Tasks : k \in Procs
  BY DEF Procs
<1>4. ASSUME NEW r \in Requests, RequestStep(r) PROVE CatalogInv'
  BY <1>2, <1>4, FindStep, InsertKeyStep, InsertRowStep, DetailsStep, FillRowStep, FillKeyStep,
     CommitStep DEF RequestStep
<1>5. ASSUME NEW r \in Requests,
             (\E i \in Imdb : Import(r, i)) \/ (\E t \in Movies : GetMovie(r, t))
      PROVE  CatalogInv'
  BY <1>2, <1>5, ArriveStep
<1>6. ASSUME NEW k \in Tasks, Start(k) \/ TaskStep(k) PROVE CatalogInv'
  <2>1. CASE \E t \in Movies : GenreRow(k, t) \/ FlushGenres(k, t) \/ PopularRow(k, t) \/ ImdbRow(k, t)
    BY <1>3, <2>1, RowStep, FlushGenresStep
  <2>2. CASE InsertKey(k) \/ InsertRow(k, "popularRows") \/ FillRow(k) \/ FillKey(k, "report")
    BY <1>3, <2>2, InsertKeyStep, InsertRowStep, FillRowStep, FillKeyStep
  <2>3. CASE Details(k, [proc[k] EXCEPT !.pc = "report"], Failing(k))
    BY <1>3, <2>3, DetailsStep
  <2>4. CASE Start(k) \/ Process(k)
    BY <2>4, StartStep
  <2>5. CASE Genres(k) \/ Popular(k) \/ Select(k)
    BY <1>3, <2>5, GenresStep
  <2>6. CASE Report(k) \/ Complete(k) \/ Fail(k)
    BY <1>3, <2>6, ReportStep, CommitStep
  <2> QED  BY <1>6, <2>1, <2>2, <2>3, <2>4, <2>5, <2>6 DEF TaskStep
<1>7. ASSUME NEW p \in Procs, DeadlockAbort(p) \/ Die(p) PROVE CatalogInv'
  BY <1>7, IdleStep DEF DeadlockAbort, Die
<1> QED  BY <1>1, <1>4, <1>5, <1>6, <1>7 DEF Next

(***************************************************************************)
(* No two rows of the catalog have the same IMDb ID, for any number of     *)
(* imports, backfills on GET and overlapping jobs, and whatever fails: the *)
(* checks of import_by_imdb, backfill_imdb and sync_popular may be out of  *)
(* date when they write, the unique index then refuses.                    *)
(***************************************************************************)
THEOREM CatalogInvariant == Spec => []CatalogInv
<1>1. Init => CatalogInv
  BY InitInv
<1>2. CatalogInv /\ [Next]_vars => CatalogInv'
  BY NextInv
<1> QED  BY <1>1, <1>2, PTL DEF Spec

\* Committed rows change by a commit only.
LEMMA OnlyPublishWrites ==
  ASSUME Next
  PROVE  (\E p \in Procs : Publish(p)) \/ UNCHANGED imdb
<1>1. ASSUME NEW r \in Requests, RequestStep(r), ~Publish(r) PROVE UNCHANGED imdb
  BY <1>1 DEF RequestStep, Find, InsertKey, InsertRow, Details, FillRow, FillKey, Commit,
              Rollback, Step
<1>2. ASSUME NEW k \in Tasks, Start(k) \/ TaskStep(k), ~Publish(k) PROVE UNCHANGED imdb
  BY <1>2 DEF Start, TaskStep, Process, Genres, Popular, Select, GenreRow, FlushGenres,
              PopularRow, ImdbRow, InsertKey, InsertRow, Details, FillRow, FillKey, Report,
              Complete, Fail, Rollback, Step
<1>3. ASSUME NEW r \in Requests,
             (\E i \in Imdb : Import(r, i)) \/ (\E t \in Movies : GetMovie(r, t))
      PROVE  UNCHANGED imdb
  BY <1>3 DEF Import, GetMovie, Step
<1>4. ASSUME NEW p \in Procs, DeadlockAbort(p) \/ Die(p) PROVE UNCHANGED imdb
  BY <1>4 DEF DeadlockAbort, Die, Rollback, Step
<1> QED  BY <1>1, <1>2, <1>3, <1>4 DEF Next, Procs

\* What a step makes of a committed row: another answer of TMDB at most.
LEMMA RowKept ==
  ASSUME CatalogInv, [Next]_vars, NEW t \in Movies, Row(t)
  PROVE  /\ imdb'[t] # Absent
         /\ imdb[t] \in Imdb => /\ imdb'[t] \in Imdb \cap ImdbOf[t]
                                /\ imdb[t] \in ImdbOf[t]
<1> USE Types
<1>1. ASSUME NEW p \in Procs, Publish(p)
      PROVE  /\ proc[p].wrote[t] \in Imdb \cup {NoId, Absent} /\ proc[p].wrote[t] # NoId
             /\ imdb'[t] = IF proc[p].wrote[t] = Absent THEN imdb[t] ELSE proc[p].wrote[t]
             /\ proc[p].wrote[t] \in Imdb => proc[p].wrote[t] \in ImdbOf[t]
  BY <1>1 DEF Publish, ProcState, Value, Flushed, CatalogInv, FromTMDB
<1>2. imdb[t] \in Imdb => imdb[t] \in ImdbOf[t]
  BY DEF CatalogInv, FromTMDB
<1>3. CASE UNCHANGED imdb
  BY <1>2, <1>3 DEF Row
<1>4. CASE \E p \in Procs : Publish(p)
  BY <1>1, <1>2, <1>4 DEF Row
<1> QED  BY <1>3, <1>4, OnlyPublishWrites DEF vars

(***************************************************************************)
(* No row and no IMDb ID goes away, whatever TMDB answers: a backfill or   *)
(* sync_popular that read a row before another filled it may at most write *)
(* another answer of TMDB over the one that is there.                      *)
(***************************************************************************)
THEOREM RowsAndIdsStay ==
  Spec => [][\A t \in Movies : Row(t) => /\ imdb'[t] # Absent
                                         /\ imdb[t] \in Imdb => imdb'[t] \in Imdb \cap ImdbOf[t]]_vars
<1> DEFINE Stays == \A t \in Movies :
               Row(t) => /\ imdb'[t] # Absent
                         /\ imdb[t] \in Imdb => imdb'[t] \in Imdb \cap ImdbOf[t]
<1>1. CatalogInv /\ [Next]_vars => [Stays]_vars
  BY RowKept
<1> QED  BY <1>1, CatalogInvariant, PTL DEF Spec

(***************************************************************************)
(* External: TMDB knows one IMDb ID of a movie, which it may not give yet. *)
(***************************************************************************)
OneAnswer == \A t \in Movies : \A i, j \in ImdbOf[t] \cap Imdb : i = j

(***************************************************************************)
(* The catalog only grows: what a backfill read before its call to TMDB    *)
(* may be out of date when it writes, and what sync_popular inserts without*)
(* an ID may have got one: nothing that was committed is lost by it.       *)
(***************************************************************************)
THEOREM NothingIsLost == ASSUME OneAnswer PROVE Spec => CatalogGrows
<1> DEFINE Grows == \A t \in Movies : /\ Row(t) => imdb'[t] # Absent
                                      /\ imdb[t] \in Imdb => imdb'[t] = imdb[t]
<1>1. ASSUME CatalogInv, [Next]_vars PROVE [Grows]_vars
  <2>1. ASSUME NEW t \in Movies, imdb[t] \in Imdb PROVE imdb'[t] = imdb[t]
    BY <1>1, <2>1, RowKept, OneAnswer, Types DEF Row, OneAnswer
  <2>2. ASSUME NEW t \in Movies, Row(t) PROVE imdb'[t] # Absent
    BY <1>1, <2>2, RowKept
  <2> QED  BY <2>1, <2>2
<1> QED  BY <1>1, CatalogInvariant, PTL DEF Spec, CatalogGrows

\* A step within a run finds it at work.
LEMMA AtWork ==
  ASSUME NEW k \in Tasks, TaskStep(k), ~Process(k), ~Report(k), ~Complete(k), ~Fail(k)
  PROVE  proc[k].pc \notin {"idle", "queued"}
  BY DEF TaskStep, Genres, Popular, Select, GenreRow, FlushGenres, PopularRow, ImdbRow, InsertKey,
         InsertRow, Details, FillRow, FillKey, At

(***************************************************************************)
(* What the admin page shows of the latest run of a task is true: a job    *)
(* that is completed or failed is over (_run_tracked_job commits the end   *)
(* of a job with its last rows).                                           *)
(***************************************************************************)
THEOREM JobsTellTheTruth == Spec => []FinishedMeansOver
<1> DEFINE Shown(k) == ~At(k, "idle") =>
                          job[k] = IF At(k, "queued") THEN "queued" ELSE "processing"
<1>1. Init => FinishedMeansOver
  BY DEF Init, FinishedMeansOver, At, Procs, Idle
<1>2. ASSUME CatalogInv, FinishedMeansOver, [Next]_vars PROVE FinishedMeansOver'
  <2> USE Types, <1>2
  <2>1. \A k \in Tasks : Shown(k) /\ k \in Procs /\ k \notin Requests
    BY <1>2 DEF FinishedMeansOver, Procs
  <2>2. CASE UNCHANGED <<job, proc>>
    BY <1>2, <2>2 DEF FinishedMeansOver, At
  <2>3. ASSUME NEW p \in Procs, NEW s, Become(p, s), UNCHANGED job,
               p \in Tasks => \/ s.pc = "idle"
                              \/ proc[p].pc \notin {"idle", "queued"} /\ s.pc # "queued"
        PROVE  FinishedMeansOver'
    <3>1. proc'[p] = s /\ \A q \in Procs \ {p} : proc'[q] = proc[q]
      BY <2>3 DEF Become
    <3> QED  BY <2>1, <2>3, <3>1 DEF FinishedMeansOver, At
  <2>4. ASSUME NEW r \in Requests, NEW s, Become(r, s), UNCHANGED job PROVE FinishedMeansOver'
    <3>1. r \in Procs /\ r \notin Tasks
      BY DEF Procs
    <3> QED  BY <2>3, <2>4, <3>1
  <2>5. ASSUME NEW r \in Requests,
               \/ RequestStep(r)
               \/ \E i \in Imdb : Import(r, i)
               \/ \E t \in Movies : GetMovie(r, t)
        PROVE  FinishedMeansOver'
    <3>1. \E s : Become(r, s) /\ UNCHANGED job
      BY <2>5 DEF RequestStep, Import, GetMovie, Find, InsertKey, InsertRow, Details, FillRow,
                  FillKey, Commit, Rollback, Step
    <3> QED  BY <2>4, <3>1
  <2>6. ASSUME NEW p \in Procs, Rollback(p) PROVE FinishedMeansOver'
    BY <2>3, <2>6, IdleIs, <1>2 DEF Rollback, Step
  <2>7. ASSUME NEW k \in Tasks, NEW status, NEW s, SetJob(k, status), Become(k, s),
               s.pc # "idle" => status = IF s.pc = "queued" THEN "queued" ELSE "processing"
        PROVE  FinishedMeansOver'
    <3>1. /\ proc'[k] = s /\ \A q \in Procs \ {k} : proc'[q] = proc[q]
          /\ job'[k] = status /\ \A j \in Tasks \ {k} : job'[j] = job[j]
      BY <2>1, <2>7 DEF Become, SetJob
    <3> QED  BY <2>1, <2>7, <3>1 DEF FinishedMeansOver, At
  <2>8. ASSUME NEW k \in Tasks, Report(k) PROVE FinishedMeansOver'
    <3>1. /\ k \in Procs /\ proc[k].pc = "report" /\ proc'[k].pc = "imdbRows"
          /\ \A q \in Procs \ {k} : proc'[q] = proc[q]
      BY <2>1, <2>8 DEF Report, Step, Become, At, ProcState
    <3>2. job'[k] = "processing" /\ \A j \in Tasks \ {k} : job'[j] = job[j]
      BY <2>1, <2>8, <3>1 DEF Report, Step, SetJob, At
    <3> QED  BY <2>1, <3>1, <3>2 DEF FinishedMeansOver, At
  <2>9. ASSUME NEW k \in Tasks, Start(k) \/ TaskStep(k) PROVE FinishedMeansOver'
    <3>1. CASE Start(k)
      BY <2>7, <3>1, IdleIs DEF Start, Idle
    <3>2. CASE Process(k)
      BY <2>7, <3>2, IdleIs DEF Process, Idle
    <3>3. CASE Complete(k) \/ Fail(k)
      BY <2>7, <3>3, IdleIs DEF Complete, Fail
    <3>4. CASE TaskStep(k) /\ ~Process(k) /\ ~Report(k) /\ ~Complete(k) /\ ~Fail(k)
      <4>1. Quiet(k)
        <5>1. CASE \E t \in Movies :
                 GenreRow(k, t) \/ FlushGenres(k, t) \/ PopularRow(k, t) \/ ImdbRow(k, t)
          BY <2>1, <5>1, RowStep, FlushGenresStep
        <5>2. CASE Genres(k) \/ Popular(k) \/ Select(k) \/ InsertKey(k) \/ FillRow(k)
                   \/ InsertRow(k, "popularRows") \/ FillKey(k, "report")
          BY <2>1, <5>2, GenresStep, InsertKeyStep, InsertRowStep, FillRowStep, FillKeyStep
        <5>3. CASE Details(k, [proc[k] EXCEPT !.pc = "report"], Failing(k))
          BY <2>1, <5>3, DetailsStep
        <5> QED  BY <3>4, <5>1, <5>2, <5>3 DEF TaskStep
      <4>2. proc[k].pc \notin {"idle", "queued"}
        BY <3>4, AtWork
      <4> QED  BY <2>1, <4>1, <4>2 DEF FinishedMeansOver, At, Quiet
    <3> QED  BY <2>8, <2>9, <3>1, <3>2, <3>3, <3>4
  <2>10. ASSUME NEW p \in Procs, DeadlockAbort(p) \/ Die(p) PROVE FinishedMeansOver'
    BY <2>6, <2>10 DEF DeadlockAbort, Die
  <2> QED  BY <2>2, <2>5, <2>9, <2>10 DEF Next, vars
<1> QED  BY <1>1, <1>2, CatalogInvariant, PTL DEF Spec
=============================================================================
