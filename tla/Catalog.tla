------------------------------- MODULE Catalog -------------------------------
(***************************************************************************)
(* The movie catalog and the background jobs that fill it.                 *)
(*                                                                         *)
(* Requests import a movie or fill the missing IMDb ID of one; two Celery  *)
(* tasks run every six hours: sync_popular adds rows and genres,           *)
(* sync_imdb_ids fills IMDb IDs.  Each process works in one transaction at *)
(* a time (READ COMMITTED); what it has flushed holds the rows and the     *)
(* unique keys until it commits, and a writer of the same row or key waits *)
(* for it.  A statement that breaks a unique index fails, and the session  *)
(* it fails in can then only be rolled back.                               *)
(***************************************************************************)
EXTENDS Naturals, FiniteSets

CONSTANTS
    Movies,     \* movies by tmdb_id
    Imdb,       \* IMDb IDs
    NoId,       \* imdb_id is null
    Absent,     \* there is no row
    Requests,   \* slots for requests in flight at the same time
    ImdbOf,     \* external: the answers TMDB may give for a movie: an IMDb ID, or NoId
    Gone,       \* external: movies whose details TMDB answers with 404
    ImdbLimit,  \* IMDB_SYNC_BATCH_LIMIT
    GenreLimit, \* BACKFILL_BATCH_LIMIT
    ReportEvery,\* rows of sync_imdb_ids between two progress reports
    Faults      \* "outage": TMDB may fail; "crash": a worker or a request may die

Tasks == {"sync_popular", "sync_imdb_ids"}

ASSUME CatalogAssumption ==
    /\ NoId \notin Imdb /\ Absent \notin Imdb \cup {NoId} /\ Requests \cap Tasks = {}
    /\ ImdbOf \in [Movies -> (SUBSET (Imdb \cup {NoId})) \ {{}}] /\ Gone \subseteq Movies
    /\ ImdbLimit \in Nat \ {0} /\ GenreLimit \in Nat \ {0} /\ ReportEvery \in Nat \ {0}
    /\ Faults \subseteq {"outage", "crash"}

VARIABLES
    imdb,       \* committed movies: the imdb_id of each row
    bare,       \* committed rows without genres
    job,        \* the status in jobs of the latest run of each task
    proc        \* each process: where it is, and its transaction

vars == <<imdb, bare, job, proc>>

Procs == Requests \cup Tasks
Value == Imdb \cup {NoId, Absent}
Untouched == [t \in Movies |-> Absent]

(***************************************************************************)
(* item is the row at hand and want the ID for it; todo are the rows still *)
(* to visit.  wrote has the rows flushed with their imdb_id, named those   *)
(* flushed with genres, found those whose genres are not flushed yet.      *)
(* done counts the rows attempted since the last progress report.          *)
(***************************************************************************)
Idle == [pc |-> "idle", item |-> Absent, want |-> NoId, todo |-> {},
         wrote |-> Untouched, named |-> {}, found |-> {}, done |-> 0]

PC == {"idle", "find", "insert", "insertRow", "details", "fill", "fillKey", "commit",
       "queued", "genres", "genreRows", "popularRows", "select", "imdbRows", "report",
       "failing"}

TypeOK ==
    /\ imdb \in [Movies -> Value]
    /\ bare \subseteq {t \in Movies : imdb[t] # Absent}
    /\ job \in [Tasks -> {"none", "queued", "processing", "completed", "failed"}]
    /\ proc \in [Procs -> [pc : PC, item : Movies \cup {Absent}, want : Imdb \cup {NoId},
                           todo : SUBSET Movies, wrote : [Movies -> Value],
                           named : SUBSET Movies, found : SUBSET Movies,
                           done : 0..ReportEvery]]

Init ==
    /\ imdb = Untouched
    /\ bare = {}
    /\ job = [k \in Tasks |-> "none"]
    /\ proc = [p \in Procs |-> Idle]

-----------------------------------------------------------------------------
(* Rows, keys and locks *)

At(p, point) == proc[p].pc = point

Row(t) == imdb[t] # Absent

Missing == {t \in Movies : imdb[t] = NoId}

Wrote(q, t) == proc[q].wrote[t] # Absent \/ t \in proc[q].named

\* A flush that waits for its key has the row already, and the other way round.
HoldsRow(q, t) == Wrote(q, t) \/ (At(q, "fillKey") /\ proc[q].item = t)

HoldsKey(q, i) ==
    (\E t \in Movies : proc[q].wrote[t] = i) \/ (At(q, "insertRow") /\ proc[q].want = i)

FreeFor(p, t) == \A q \in Procs \ {p} : ~HoldsRow(q, t)

\* Faulty: only committed keys are looked at, as the checks in the code do.
NeverWaits(p, i) == TRUE

\* Null is no key: any number of rows may have it.
KeyFree(p, i) == i # NoId => \A q \in Procs \ {p} : ~HoldsKey(q, i)

\* Another row that p sees has the ID: the unique index refuses a second one.
Taken(p, t, i) == i # NoId /\ \E s \in Movies \ {t} : imdb[s] = i \/ proc[p].wrote[s] = i

Outage == "outage" \in Faults

-----------------------------------------------------------------------------
(* Steps of a transaction *)

Become(p, state) == proc' = [proc EXCEPT ![p] = state]

Step(p, state) == Become(p, state) /\ UNCHANGED <<imdb, bare, job>>

\* The session is gone: nothing it flushed since its last commit stays.
Rollback(p) == Step(p, Idle)

\* The commit; a new row may lack genres.
Publish(p) ==
    LET wrote == proc[p].wrote
        added == {t \in Movies : ~Row(t) /\ wrote[t] # Absent}
    IN
    /\ imdb' = [t \in Movies |-> IF wrote[t] = Absent THEN imdb[t] ELSE wrote[t]]
    /\ \E B \in SUBSET added : bare' = (bare \ proc[p].named) \cup B

\* Faulty: a row that is already there is written over.
Overwrite(p, next) ==
    LET s == proc[p] IN
    /\ At(p, "insertRow") /\ FreeFor(p, s.item)
    /\ Step(p, [s EXCEPT !.pc = next, !.wrote[s.item] = s.want, !.want = NoId])

(* INSERT of the row at hand: the entry in the index of imdb_id comes      *)
(* first, then that of tmdb_id; a duplicate in either is an error.         *)
InsertKey(p) ==
    LET s == proc[p] IN
    /\ At(p, "insert") /\ KeyFree(p, s.want)
    /\ \/ Taken(p, s.item, s.want) /\ Rollback(p)
       \/ ~Taken(p, s.item, s.want) /\ Step(p, [s EXCEPT !.pc = "insertRow"])

InsertRow(p, next) ==
    LET s == proc[p] IN
    /\ At(p, "insertRow") /\ FreeFor(p, s.item)
    /\ \/ Row(s.item) /\ Rollback(p)
       \/ /\ ~Row(s.item)
          /\ Step(p, [s EXCEPT !.pc = next, !.wrote[s.item] = s.want, !.want = NoId])

(* backfill_imdb: the details of the row at hand; without an answer the    *)
(* caller goes to `error', without an IMDb ID to `next'.                   *)
Details(p, next, error) ==
    LET s == proc[p] IN
    /\ At(p, "details")
    /\ \/ (Outage \/ s.item \in Gone) /\ Step(p, error)
       \/ /\ s.item \notin Gone
          /\ \E i \in ImdbOf[s.item] :
                Step(p, IF i = NoId THEN next ELSE [s EXCEPT !.pc = "fill", !.want = i])

(* backfill_imdb: UPDATE of the row, whatever it has become since it was   *)
(* read; its new entry in the index of imdb_id comes after the row's lock. *)
FillRow(p) ==
    /\ At(p, "fill") /\ FreeFor(p, proc[p].item)
    /\ Step(p, [proc[p] EXCEPT !.pc = "fillKey"])

FillKey(p, next) ==
    LET s == proc[p] IN
    /\ At(p, "fillKey") /\ KeyFree(p, s.want)
    /\ \/ Taken(p, s.item, s.want) /\ Rollback(p)
       \/ /\ ~Taken(p, s.item, s.want)
          /\ Step(p, [s EXCEPT !.pc = next, !.wrote[s.item] = s.want, !.want = NoId])

-----------------------------------------------------------------------------
(* Requests *)

\* POST /movies/import: 409 if the ID is known.
Import(r, i) ==
    /\ At(r, "idle")
    /\ \A t \in Movies : imdb[t] # i
    /\ Step(r, [Idle EXCEPT !.pc = "find", !.want = i])

\* import_by_imdb: TMDB fails (502), knows no such movie (404), or it is here (409).
Find(r) ==
    LET i == proc[r].want IN
    /\ At(r, "find")
    /\ \/ (Outage \/ \A t \in Movies : ImdbOf[t] # {i}) /\ Rollback(r)
       \/ \E t \in Movies :
             /\ i \in ImdbOf[t]
             /\ Step(r, IF Row(t) THEN Idle
                        ELSE [proc[r] EXCEPT !.pc = "insert", !.item = t])

\* GET /movies/{id} of a row that lacks its IMDb ID.
GetMovie(r, t) ==
    /\ At(r, "idle")
    /\ t \in Missing
    /\ Step(r, [Idle EXCEPT !.pc = "details", !.item = t])

Commit(r) ==
    /\ At(r, "commit")
    /\ Publish(r)
    /\ Become(r, Idle)
    /\ UNCHANGED job

RequestStep(r) ==
    \/ Find(r)
    \/ InsertKey(r) \/ InsertRow(r, "commit")
    \/ Details(r, Idle, Idle) \/ FillRow(r) \/ FillKey(r, "commit")
    \/ Commit(r)

-----------------------------------------------------------------------------
(* Jobs: _run_tracked_job and the two tasks *)

SetJob(k, status) == job' = [job EXCEPT ![k] = status]

\* A subset to visit: the first rows, in no particular order, up to the limit.
Batch(rows, limit) ==
    {B \in SUBSET rows : Cardinality(B) = IF Cardinality(rows) < limit
                                          THEN Cardinality(rows) ELSE limit}

\* The scheduler starts a run: its row is committed as queued, then as processing.
Start(k) ==
    /\ At(k, "idle")
    /\ SetJob(k, "queued")
    /\ Become(k, [Idle EXCEPT !.pc = "queued"])
    /\ UNCHANGED <<imdb, bare>>

Process(k) ==
    /\ At(k, "queued")
    /\ SetJob(k, "processing")
    /\ Become(k, [Idle EXCEPT !.pc = IF k = "sync_popular" THEN "genres" ELSE "select"])
    /\ UNCHANGED <<imdb, bare>>

Failing(k) == [proc[k] EXCEPT !.pc = "failing"]

\* sync_genres: refresh the genre cache, select rows without genres.
Genres(k) ==
    /\ At(k, "genres")
    /\ \/ Outage /\ Step(k, Failing(k))
       \/ \E B \in Batch(bare, GenreLimit) :
             Step(k, [proc[k] EXCEPT !.pc = "genreRows", !.todo = B])

\* sync_genres: the details of each row, with or without genres.
GenreRow(k, t) ==
    /\ At(k, "genreRows") /\ t \in proc[k].todo
    /\ \/ (Outage \/ t \in Gone) /\ Step(k, Failing(k))
       \/ /\ t \notin Gone
          /\ \E F \in SUBSET {t} :
                Step(k, [proc[k] EXCEPT !.todo = @ \ {t}, !.found = @ \cup F])

\* The flush that ends sync_genres, or that of update_status when it failed.
FlushGenres(k, t) ==
    /\ At(k, "failing") \/ (At(k, "genreRows") /\ proc[k].todo = {})
    /\ t \in proc[k].found
    /\ FreeFor(k, t)
    /\ Step(k, [proc[k] EXCEPT !.found = @ \ {t}, !.named = @ \cup {t}])

\* sync_popular: any list of movies may be popular today.
Popular(k) ==
    /\ At(k, "genreRows") /\ proc[k].todo = {} /\ proc[k].found = {}
    /\ \/ Outage /\ Step(k, Failing(k))
       \/ \E L \in SUBSET Movies :
             Step(k, [proc[k] EXCEPT !.pc = "popularRows", !.todo = L])

\* Faulty: a movie that is here already is not passed over.
KeepsKnown(k, t) ==
    /\ At(k, "popularRows") /\ t \in proc[k].todo
    /\ ~Row(t)
    /\ Step(k, [proc[k] EXCEPT !.todo = @ \ {t}, !.pc = "insert", !.item = t])

\* sync_popular: a movie that is not here yet is to be inserted.
PopularRow(k, t) ==
    /\ At(k, "popularRows") /\ t \in proc[k].todo
    /\ Step(k, IF Row(t) THEN [proc[k] EXCEPT !.todo = @ \ {t}]
               ELSE [proc[k] EXCEPT !.todo = @ \ {t}, !.pc = "insert", !.item = t])

\* sync_imdb_ids: some of the rows without an ID; the count before it changes nothing.
Select(k) ==
    /\ At(k, "select")
    /\ \E B \in Batch(Missing, ImdbLimit) :
          Step(k, [proc[k] EXCEPT !.pc = "imdbRows", !.todo = B])

ImdbRow(k, t) ==
    /\ At(k, "imdbRows") /\ t \in proc[k].todo
    /\ Step(k, [proc[k] EXCEPT !.pc = "details", !.item = t, !.todo = @ \ {t}])

\* Faulty: the report of the last row says that the job is completed.
ReportCompleted(k) ==
    /\ At(k, "report")
    /\ SetJob(k, IF proc[k].todo = {} THEN "completed" ELSE "processing")
    /\ Publish(k)
    /\ Become(k, [proc[k] EXCEPT !.pc = "imdbRows", !.wrote = Untouched])

\* One more row attempted; every so often the progress and the rows are committed.
Report(k) ==
    LET done == proc[k].done + 1 IN
    /\ At(k, "report")
    /\ \/ /\ done < ReportEvery
          /\ Step(k, [proc[k] EXCEPT !.pc = "imdbRows", !.done = done])
       \/ /\ done = ReportEvery
          /\ SetJob(k, "processing")
          /\ Publish(k)
          /\ Become(k, [proc[k] EXCEPT !.pc = "imdbRows", !.done = 0, !.wrote = Untouched])

Complete(k) ==
    /\ At(k, "popularRows") \/ At(k, "imdbRows")
    /\ proc[k].todo = {}
    /\ SetJob(k, "completed")
    /\ Publish(k)
    /\ Become(k, Idle)

\* TMDB failed: the job is failed, and what was flushed before is committed with it.
Fail(k) ==
    /\ At(k, "failing") /\ proc[k].found = {}
    /\ SetJob(k, "failed")
    /\ Publish(k)
    /\ Become(k, Idle)

TaskStep(k) ==
    \/ Process(k) \/ Genres(k) \/ Popular(k) \/ Select(k)
    \/ \E t \in Movies : \/ GenreRow(k, t) \/ FlushGenres(k, t)
                         \/ PopularRow(k, t) \/ ImdbRow(k, t)
    \/ InsertKey(k) \/ InsertRow(k, "popularRows")
    \/ Details(k, [proc[k] EXCEPT !.pc = "report"], Failing(k))
    \/ FillRow(k) \/ FillKey(k, "report")
    \/ Report(k) \/ Complete(k) \/ Fail(k)

-----------------------------------------------------------------------------
(* Failures *)

\* The processes that p waits for at its next flush.
WaitsFor(p) ==
    LET s == proc[p] IN
    {q \in Procs \ {p} :
        \/ s.pc \in {"insertRow", "fill"} /\ HoldsRow(q, s.item)
        \/ s.pc \in {"insert", "fillKey"} /\ s.want # NoId /\ HoldsKey(q, s.want)
        \/ (s.pc = "failing" \/ (s.pc = "genreRows" /\ s.todo = {}))
             /\ \E t \in s.found : HoldsRow(q, t)}

\* PostgreSQL breaks a cycle of waits: an error like any other of the database.
DeadlockAbort(p) ==
    /\ \A C \in SUBSET Procs :
          WaitsFor(p) \subseteq C /\ (\A q \in C : WaitsFor(q) \subseteq C) => p \in C
    /\ Rollback(p)

\* The worker is killed, or the client of a request goes away.
Die(p) == "crash" \in Faults /\ ~At(p, "idle") /\ Rollback(p)

-----------------------------------------------------------------------------
Next ==
    \/ \E r \in Requests : \/ RequestStep(r)
                           \/ \E i \in Imdb : Import(r, i)
                           \/ \E t \in Movies : GetMovie(r, t)
    \/ \E k \in Tasks : Start(k) \/ TaskStep(k)
    \/ \E p \in Procs : DeadlockAbort(p) \/ Die(p)

Spec == Init /\ [][Next]_vars

(***************************************************************************)
(* Waiters of a row or key are served in turn, and deadlocks are detected. *)
(***************************************************************************)
Fairness ==
    /\ \A r \in Requests : SF_vars(RequestStep(r))
    /\ \A k \in Tasks : SF_vars(TaskStep(k))
    /\ WF_vars(\E p \in Procs : DeadlockAbort(p))

FairSpec == Spec /\ Fairness

-----------------------------------------------------------------------------
(* Properties *)

(***************************************************************************)
(* .specify/memory/constitution.md, IX: imports do not create duplicates.  *)
(* No two rows have the same IMDb ID, though backfill_imdb, import_by_imdb *)
(* and sync_popular look before a call to TMDB and write after it.         *)
(***************************************************************************)
NoDuplicates ==
    \A s, t \in Movies : imdb[s] = imdb[t] /\ imdb[s] \in Imdb => s = t

(* What makes it inductive: no row and no key has two holders, a key that  *)
(* is held is that of no other row, and a row that is new is not there.    *)
RowsApart == \A p, q \in Procs : \A t \in Movies : HoldsRow(p, t) /\ HoldsRow(q, t) => p = q

KeysApart == \A p, q \in Procs : \A i \in Imdb : HoldsKey(p, i) /\ HoldsKey(q, i) => p = q

Flushed(p) ==
    /\ \A t \in Movies : LET i == proc[p].wrote[t] IN
          /\ i \in Imdb => ~Taken(p, t, i)
          /\ i = NoId => ~Row(t)
    /\ At(p, "insertRow") => ~Taken(p, proc[p].item, proc[p].want)

\* What each process is about, at each point.
AtHand(p) ==
    LET s == proc[p] IN
    /\ s.pc \in {"insert", "insertRow", "details", "fill", "fillKey"} => s.item \in Movies
    /\ s.pc \in {"fill", "fillKey"} => s.want \in Imdb
    /\ s.pc \notin {"find", "insert", "insertRow", "fill", "fillKey"} => s.want = NoId

\* Each IMDb ID, committed or not, is one that TMDB gave for its movie.
FromTMDB ==
    /\ \A t \in Movies : imdb[t] \in Imdb => imdb[t] \in ImdbOf[t]
    /\ \A p \in Procs : LET s == proc[p] IN
          /\ \A t \in Movies : s.wrote[t] \in Imdb => s.wrote[t] \in ImdbOf[t]
          /\ s.pc # "find" /\ s.want \in Imdb => s.want \in ImdbOf[s.item]

CatalogInv ==
    /\ TypeOK /\ NoDuplicates /\ RowsApart /\ KeysApart /\ FromTMDB
    /\ \A p \in Procs : Flushed(p) /\ AtHand(p)

(***************************************************************************)
(* A job the admin page shows as completed or failed is over, and one that *)
(* is at work is shown as queued or processing (_run_tracked_job).         *)
(***************************************************************************)
FinishedMeansOver ==
    \A k \in Tasks :
        ~At(k, "idle") => job[k] = IF At(k, "queued") THEN "queued" ELSE "processing"

(***************************************************************************)
(* The catalog only grows: no overlap of jobs and requests makes a row or  *)
(* an IMDb ID that was committed disappear (IntakeService: sync_popular    *)
(* inserts rows without an ID, others fill it meanwhile).                  *)
(***************************************************************************)
CatalogGrows ==
    [][\A t \in Movies : /\ Row(t) => imdb'[t] # Absent
                         /\ imdb[t] \in Imdb => imdb'[t] = imdb[t]]_vars

(***************************************************************************)
(* Each process comes to an end, whatever it waits for: a run of a task is *)
(* never stuck behind a request or behind the other task.                  *)
(***************************************************************************)
EveryRunEnds == \A p \in Procs : []<>At(p, "idle")
=============================================================================
