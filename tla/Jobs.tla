-------------------------------- MODULE Jobs --------------------------------
(***************************************************************************)
(* The runs of the two background tasks and their rows in `jobs'.          *)
(*                                                                         *)
(* The scheduler puts both tasks on the queue every six hours, and each    *)
(* worker process takes the next one when it is free: runs of the two      *)
(* tasks, and of the same task, overlap.  A run draws the id of its job    *)
(* from the clock, commits the job as queued and as processing, works, and *)
(* commits it as completed or failed.  The work on the rows of `movies' is *)
(* in Catalog, key by key; here a statement that the database refuses is   *)
(* a case of the fault "break", and a wait for a lock is a step taken      *)
(* later.  What is kept of the work is which movies lack an IMDb ID.       *)
(***************************************************************************)
EXTENDS Naturals, FiniteSets

CONSTANTS
    Workers,    \* worker processes, each with one run at a time
    Ids,        \* the milliseconds job ids are drawn from, up to renaming
    NoId,       \* the process has not had a run yet
    Nobody,     \* there is no such row
    Movies,     \* movies by tmdb_id
    Hopeless,   \* external: movies that have no IMDb ID at TMDB
    Limit,      \* IMDB_SYNC_BATCH_LIMIT
    ReportEvery,\* rows of sync_imdb_ids between two progress reports
    Faults      \* "outage": TMDB may fail; "break": a run may end without its last words

ASSUME JobsAssumption ==
    /\ NoId \notin Ids /\ Nobody \notin Workers
    /\ Ids \subseteq Nat /\ IsFiniteSet(Movies)
    /\ Hopeless \subseteq Movies
    /\ Limit \in Nat \ {0} /\ ReportEvery \in Nat \ {0}
    /\ Faults \subseteq {"outage", "break"}

VARIABLES
    movie,      \* each movie: absent, lacking its IMDb ID, or filled
    now,        \* the current millisecond
    jobs,       \* the table: the job with each id
    pc,         \* the next statement of each process's run
    id,         \* the id its latest run has drawn
    work        \* how far the run is in sync_imdb_ids

vars == <<movie, now, jobs, pc, id, work>>

PC == {"idle", "create", "queued", "popular", "count", "select", "rows"}

\* The run has a job, and is to settle it.
Tracked == {"queued", "popular", "count", "select", "rows"}

Status == {"none", "queued", "processing", "completed", "failed"}

Row(w, status, progress) == [run |-> w, status |-> status, progress |-> progress]
NoRow == Row(Nobody, "none", 0)

(***************************************************************************)
(* popular says which task it is.  total is the COUNT, todo the selected   *)
(* rows still to visit, tried how many were visited, filled those flushed  *)
(* with an IMDb ID since the last commit.                                  *)
(***************************************************************************)
Untried(popular) ==
    [popular |-> popular, total |-> 0, tried |-> 0, todo |-> {}, filled |-> {}]
NoWork == Untried(FALSE)

\* The least of a set of ids, in a set of its own; nothing if there is none.
First(S) == {i \in S : \A j \in S : i <= j}

TypeOK ==
    /\ movie \in [Movies -> {"absent", "lacking", "filled"}]
    /\ now \in Ids
    /\ jobs \in [Ids -> [run : Workers \cup {Nobody}, status : Status, progress : Nat]]
    /\ pc \in [Workers -> PC]
    /\ id \in [Workers -> Ids \cup {NoId}]
    /\ work \in [Workers -> [popular : BOOLEAN, total : Nat, tried : Nat,
                             todo : SUBSET Movies, filled : SUBSET Movies]]

Init ==
    /\ movie \in [Movies -> {"absent", "lacking"}]
    /\ now \in First(Ids)
    /\ jobs = [i \in Ids |-> NoRow]
    /\ pc = [w \in Workers |-> "idle"]
    /\ id = [w \in Workers |-> NoId]
    /\ work = [w \in Workers |-> NoWork]

-----------------------------------------------------------------------------
(* The clock and the table *)

Lacking == {t \in Movies : movie[t] = "lacking"}

\* Ids of which the model has neither a row nor a run.
Unused == {i \in Ids : jobs[i] = NoRow /\ \A w \in Workers : id[w] # i}

(* Time passes; that the id of a later millisecond is an unused one is all *)
(* that matters of it, so let it be the first.                             *)
Tick ==
    /\ now' \in First(Unused)
    /\ \E w \in Workers : id[w] = now
    /\ UNCHANGED <<movie, jobs, pc, id, work>>

\* JobRepository.update_status and the commit: the row with the id of the run.
SetJob(w, status, progress) ==
    jobs' = [jobs EXCEPT ![id[w]] = Row(@.run, status, progress)]

\* The commit: other runs see the IDs that w has flushed.
Publish(w) ==
    movie' = [t \in Movies |-> IF t \in work[w].filled THEN "filled" ELSE movie[t]]

\* The run is over, and its worker process is free.
End(w) ==
    /\ pc' = [pc EXCEPT ![w] = "idle"]
    /\ work' = [work EXCEPT ![w] = NoWork]
    /\ UNCHANGED <<now, id>>

-----------------------------------------------------------------------------
(* _run_tracked_job *)

(* A free process takes a run off the queue, which draws its id; a run     *)
(* lasts a millisecond or more.  Of the jobs of its earlier runs, which    *)
(* are settled or left for good, the model keeps none.                     *)
Start(w, popular) ==
    /\ pc[w] = "idle" /\ id[w] # now
    /\ pc' = [pc EXCEPT ![w] = "create"]
    /\ id' = [id EXCEPT ![w] = now]
    /\ jobs' = [i \in Ids |-> IF jobs[i].run = w THEN NoRow ELSE jobs[i]]
    /\ work' = [work EXCEPT ![w] = Untried(popular)]
    /\ UNCHANGED <<movie, now>>

\* Faulty: an INSERT that takes over a row with the same id.
Upsert(w) ==
    /\ pc[w] = "create"
    /\ jobs' = [jobs EXCEPT ![id[w]] = Row(w, "queued", 0)]
    /\ pc' = [pc EXCEPT ![w] = "queued"]
    /\ UNCHANGED <<movie, now, id, work>>

\* JobRepository.create and its commit, when no job has the id.
Create(w) ==
    /\ pc[w] = "create"
    /\ jobs[id[w]] = NoRow
    /\ jobs' = [jobs EXCEPT ![id[w]] = Row(w, "queued", 0)]
    /\ pc' = [pc EXCEPT ![w] = "queued"]
    /\ UNCHANGED <<movie, now, id, work>>

\* A second job of the same millisecond: IntegrityError, before the inner try.
CreateClashes(w) ==
    /\ pc[w] = "create"
    /\ jobs[id[w]] # NoRow
    /\ End(w)
    /\ UNCHANGED <<movie, jobs>>

Process(w) ==
    /\ pc[w] = "queued"
    /\ SetJob(w, "processing", jobs[id[w]].progress)
    /\ pc' = [pc EXCEPT ![w] = IF work[w].popular THEN "popular" ELSE "count"]
    /\ UNCHANGED <<movie, now, id, work>>

\* sync_popular_movies: some movies that are not here are, without an IMDb ID.
Discover ==
    \E A \in SUBSET {t \in Movies : movie[t] = "absent"} :
        movie' = [t \in Movies |-> IF t \in A THEN "lacking" ELSE movie[t]]

CompletePopular(w) ==
    /\ pc[w] = "popular"
    /\ Discover
    /\ SetJob(w, "completed", 100)
    /\ End(w)

\* sync_imdb_ids: the COUNT of all rows without an ID.
Count(w) ==
    /\ pc[w] = "count"
    /\ pc' = [pc EXCEPT ![w] = "select"]
    /\ work' = [work EXCEPT ![w].total = Cardinality(Lacking)]
    /\ UNCHANGED <<movie, now, jobs, id>>

\* Faulty: one row less than the limit.
BatchMinusOne(rows) ==
    {B \in SUBSET rows : Cardinality(B) = IF Cardinality(rows) < Limit
                                          THEN Cardinality(rows) ELSE Limit - 1}

\* The SELECT with its LIMIT, in no particular order.
Batch(rows) ==
    {B \in SUBSET rows : Cardinality(B) = IF Cardinality(rows) < Limit
                                          THEN Cardinality(rows) ELSE Limit}

Select(w) ==
    /\ pc[w] = "select"
    /\ \E B \in Batch(Lacking) : work' = [work EXCEPT ![w].todo = B]
    /\ pc' = [pc EXCEPT ![w] = "rows"]
    /\ UNCHANGED <<movie, now, jobs, id>>

Progress(tried, total) == (100 * tried) \div (IF total > 1 THEN total ELSE 1)

\* Faulty: a row that TMDB has no ID for is asked for until it has one.
VisitUntilFilled(w, t) ==
    /\ pc[w] = "rows" /\ t \in work[w].todo \ Hopeless
    /\ work' = [work EXCEPT ![w].todo = @ \ {t}, ![w].filled = @ \cup {t}]
    /\ UNCHANGED <<movie, now, jobs, pc, id>>

(* backfill_imdb of one row, and on_progress: every so often the progress  *)
(* and the rows flushed so far are committed.                              *)
Visit(w, t) ==
    LET s      == work[w]
        tried  == s.tried + 1
        filled == IF t \in Hopeless THEN s.filled ELSE s.filled \cup {t}
    IN
    /\ pc[w] = "rows" /\ t \in s.todo
    /\ \/ /\ tried % ReportEvery # 0
          /\ work' = [work EXCEPT ![w].tried = tried, ![w].todo = @ \ {t},
                                  ![w].filled = filled]
          /\ UNCHANGED <<movie, jobs>>
       \/ /\ tried % ReportEvery = 0
          /\ movie' = [m \in Movies |-> IF m \in filled THEN "filled" ELSE movie[m]]
          /\ SetJob(w, "processing", Progress(tried, s.total))
          /\ work' = [work EXCEPT ![w].tried = tried, ![w].todo = @ \ {t},
                                  ![w].filled = {}]
    /\ UNCHANGED <<now, pc, id>>

Complete(w) ==
    /\ pc[w] = "rows" /\ work[w].todo = {}
    /\ Publish(w)
    /\ SetJob(w, "completed", 100)
    /\ End(w)

\* Faulty: the job of a failed run is put back to be tried again.
FailRequeues(w) ==
    /\ "outage" \in Faults /\ pc[w] = "popular"
    /\ SetJob(w, "queued", 0)
    /\ End(w)
    /\ UNCHANGED movie

\* TMDB fails: what was flushed is committed along with the failed status.
Fail(w) ==
    /\ "outage" \in Faults
    /\ \/ pc[w] = "popular" /\ Discover
       \/ pc[w] = "rows" /\ work[w].todo # {} /\ Publish(w)
    /\ SetJob(w, "failed", jobs[id[w]].progress)
    /\ End(w)

-----------------------------------------------------------------------------
(* Failures *)

(* The database or its driver refuses a statement: a unique key, a         *)
(* deadlock, a lost connection, a pooled connection whose event loop ended *)
(* with an earlier asyncio.run of the process.  The transaction is void,   *)
(* update_status in the handler fails in it too, and the row stays as it   *)
(* was committed last.  Or the worker process is killed, to the same end.  *)
Break(w) ==
    /\ "break" \in Faults
    /\ pc[w] # "idle"
    /\ End(w)
    /\ UNCHANGED <<movie, jobs>>

-----------------------------------------------------------------------------
Step(w) ==
    \/ Create(w) \/ CreateClashes(w) \/ Process(w)
    \/ CompletePopular(w) \/ Count(w) \/ Select(w)
    \/ \E t \in Movies : Visit(w, t)
    \/ Complete(w)

Next ==
    \/ Tick
    \/ \E w \in Workers :
          \/ \E popular \in BOOLEAN : Start(w, popular)
          \/ Step(w) \/ Fail(w) \/ Break(w)

Spec == Init /\ [][Next]_vars

\* A process goes on with its run; nothing is assumed of the scheduler, the clock
\* and the faults.
Fairness == \A w \in Workers : WF_vars(Step(w))

FairSpec == Spec /\ Fairness

-----------------------------------------------------------------------------
(* Properties *)

(***************************************************************************)
(* The inductive invariant.  A run past the creation of its job is the one *)
(* its job belongs to, the job says what the run does, and a process has   *)
(* at most one job, the one with the id its run has drawn.                 *)
(***************************************************************************)
OwnJob(w) ==
    /\ pc[w] \in Tracked =>
          /\ id[w] \in Ids /\ jobs[id[w]].run = w
          /\ jobs[id[w]].status = IF pc[w] = "queued" THEN "queued" ELSE "processing"
    /\ pc[w] = "create" => id[w] \in Ids

OneJobPerRun ==
    /\ \A i \in Ids : \A w \in Workers :
          jobs[i].run = w => id[w] = i /\ pc[w] # "create"
    /\ \A i \in Ids : jobs[i].run = Nobody <=> jobs[i] = NoRow

\* The progress last reported is that of the rows tried by then.
Reported(w) ==
    /\ pc[w] \in {"queued", "popular", "count", "select"} => jobs[id[w]].progress = 0
    /\ pc[w] \notin {"idle", "rows"} => work[w].tried = 0
    /\ pc[w] = "rows" => jobs[id[w]].progress <= Progress(work[w].tried, work[w].total)

JobsInv ==
    /\ TypeOK
    /\ OneJobPerRun
    /\ \A w \in Workers : OwnJob(w) /\ Reported(w)

(***************************************************************************)
(* However runs overlap, each job lives the life of a sync job as if its   *)
(* run were alone: no run writes the job of another, though two may draw   *)
(* the same id (JobRepository.create), no job is reopened, and the         *)
(* progress shown does not go back while the run lasts.                    *)
(***************************************************************************)
HasRow(w) == id[w] \in Ids /\ jobs[id[w]].run = w

Active == {w \in Workers : pc[w] # "idle"}

LatestJob ==
    [w \in Workers |-> IF HasRow(w)
                       THEN [status |-> jobs[id[w]].status, progress |-> jobs[id[w]].progress]
                       ELSE [status |-> "none", progress |-> 0]]

L == INSTANCE JobLife WITH Workers <- Workers, active <- Active, job <- LatestJob

RefinesJobLife == L!LifeSpec

(***************************************************************************)
(* sync_imdb_ids, "fill missing IMDb IDs": although a run takes a limited  *)
(* batch in no particular order and rows without an ID at TMDB come up     *)
(* again and again, the backlog drains as long as such rows are fewer than *)
(* the limit and runs complete again and again.                            *)
(***************************************************************************)
BacklogDrains ==
    Cardinality(Hopeless) < Limit
        => (([]<><<\E w \in Workers : Complete(w)>>_vars)
                => []<>(Lacking \subseteq Hopeless))

\* Each run is over at last, whatever failed: no worker process is lost to it.
EveryRunIsOver == \A w \in Workers : []<>(pc[w] = "idle")

(***************************************************************************)
(* CONTEXT.md, "Sync job": a record of one background run, from queued     *)
(* through processing to completed or failed.  When a run is over, there   *)
(* is such a record of it.                                                 *)
(***************************************************************************)
RunsAreTracked ==
    \A w \in Workers :
        pc[w] = "idle" /\ id[w] # NoId =>
            HasRow(w) /\ jobs[id[w]].status \in {"completed", "failed"}
=============================================================================
