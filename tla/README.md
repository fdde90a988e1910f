# Movie discovery: models and proofs

TLA+ modules for the movie-discovery service (FastAPI and PostgreSQL back end,
Celery jobs, React front end), checked with TLC and proved
with TLAPS. Paths below are relative to the repository; `app/` stands for
`backend/app/`.

## The system

| Component | State | Operations | Speaks to |
|---|---|---|---|
| Session service: `app/services/auth_service.py`, `repositories/refresh_token_repo.py`, `api/auth.py` | table `refresh_tokens` (owner, family, revoked_at, expires_at), `users.is_active` | login, refresh with rotation and reuse detection, logout, logout-all | PostgreSQL, one transaction per request |
| Authentication: `app/dependencies.py`, `security/` | none | `get_db` (commit or rollback), `get_current_user`, `require_admin` | every gated route |
| Browser session: `frontend/src/context/AuthContext.jsx`, `services/api.js`, pages | access token, user and ready in React state, refresh token in sessionStorage, a refresh promise per API client | mount effect, login, logout, `request` with refresh and retry | session service over HTTP |
| Catalog intake: `app/services/intake.py`, `api/movies.py`, `movie_repo.py` | table `movies` (unique tmdb_id and imdb_id), `genres` | import, backfill on GET, sync_popular, sync_genres, sync_imdb_ids | TMDB, jobs |
| Jobs: `app/tasks/`, `job_repo.py` | table `jobs` | run a task, report progress, settle | scheduler (beat), intake |
| Watchlists: `app/services/watchlist_service.py`, `api/watchlist.py` | tables `watchlists`, `watchlist_entries` | create, rename, delete, add, update status, remove, list | movies, users |
| Accounts: `register`, `app/seed_admin.py`, `user_repo.py` | table `users` (unique lower(email)) | register, seed the first admin | all gated components |
| Start-up: `docker-entrypoint.sh`, `backend/alembic/` | schema revision | upgrade in a retry loop, in three containers | PostgreSQL |
| Search, listings, schemas, middleware, rate limits | none of their own | reads, validation, wiring | |

What is hard about it: every handler is several SQL statements at READ
COMMITTED, interleaved with those of other requests and of jobs; many of them
look before they write, some with a call to TMDB in between; the browser's
continuations interleave with each other and outlive the render that made them;
containers race at boot; a session that failed in a flush can only be rolled
back. `PROJECT.json` lists the hazards at their lines. What makes each component
correct:

* sessions: one live token per session, single use, a revocation reaches what it
  must, no request hangs;
* browser: one identity in all places of the tab, no needless logout, each call
  returns, the page becomes ready;
* catalog and jobs: no duplicate, nothing lost, a job tells the truth about its
  run and settles, the backlog drains;
* watchlists: no orphan, no duplicate, only the owner writes;
* accounts and start-up: one account per address, an owner for each watchlist,
  every container comes up or gives up.

## The modules

| Module | Models | Extends or instantiates |
|---|---|---|
| `Sessions` | what the session service promises: each operation one atomic step | |
| `SessionsProofs` | its invariant, proved | `Sessions`, TLAPS |
| `RefreshTokens` | the session service statement by statement, under row locks | `S == INSTANCE Sessions` (refinement) |
| `RefreshTokensProofs` | invariant, action property and refinement, proved | `RefreshTokens`, `INSTANCE SessionsProofs` |
| `WebClient` | one browser tab against the atomic session service | `Sessions` |
| `WebClientProofs` | in any weather its steps on the server, in most its invariant, in calm weather its action properties, proved | `WebClient`, `SessionsProofs` |
| `Catalog` | imports, backfills and the work of the two jobs, key by key | |
| `CatalogProofs` | its invariant, that nothing is lost, that job rows tell the truth, proved | `Catalog`, TLAPS |
| `JobLife` | what the jobs table promises of one run | |
| `Jobs` | overlapping runs of both tasks and their rows in `jobs` | `L == INSTANCE JobLife` (refinement) |
| `JobsProofs` | invariant and refinement, proved | `Jobs`, TLAPS |
| `WatchlistStore` | what the watchlist tables promise: each operation one atomic step | |
| `Watchlists` | watchlists and entries of several users, statement by statement | `Store == INSTANCE WatchlistStore` (refinement) |
| `WatchlistsProofs` | its invariant, the owner rule and the refinement, proved | `Watchlists`, TLAPS |
| `Accounts` | migrations in the containers' retry loops, seeding, registration | |
| `AccountsProofs` | its invariant, proved | `Accounts`, TLAPS |
| `MC*` | symmetry sets and constant values for TLC (`Sessions` is checked in `MCWebClient`) | the module of that name |

Definitions marked `Faulty:` are not part of any specification. Each is what a
plausible mistake in the operation beside it would be; put in its place, it must
make a named property fail (`mutants` in `PROJECT.json`).

### Sessions and RefreshTokens

`status`, `owner`, `family` and `expired` are the columns of `refresh_tokens`;
`parent` and `doomed` are history. Tokens are numbered at the commit that makes
their row visible. In `Sessions` each of login (`OpenSession`), rotation
(`Rotate`), revocation (`RevokeSome`) and expiry is one step.

In `RefreshTokens` a request has a program counter `pc` over the statements of its
handler, the rows its transaction holds (`locks`) and what it has written but not
committed (`revokes`, `deletes`). A bulk UPDATE or DELETE takes its snapshot
(`BeginPurge`, `BeginRevokeFamily`, `BeginRevokeAll`) and then visits the rows one
by one in any order, waiting for those that others hold and trying its condition
again (`VisitPurge`, `VisitRevoke`), as PostgreSQL does at READ COMMITTED.
`CommitPair` is the commit of login and refresh, `CommitRevocation` that of logout,
logout-all and of the reuse answer, whose handler commits before its 401.
`Abort` (a lost client or worker), `DeadlockAbort`, `Expire` and `Deactivate` may
happen at any time.

`purge_expired` is called before the commit in both login and refresh; the model
keeps that, so that purges of all users' rows take part in the deadlocks.

### WebClient

A tab has React state (`access`, `user`, `ready`), `stored` in sessionStorage, the
exchange of the mount effect (`boot`), of the login form (`form`), of API calls
(`call`) and one refresh promise per API client (`flight`). `useMemo` makes a client
per access token, so clients are identified by the token they closed over; that is
what `call[c].api` is, and what the retry uses. A fetch is sent, served by one
atomic step of `Sessions`, and answered; each answer runs one continuation. A request
whose fetch has failed or whose page has gone is in `late`: the server may serve it
afterwards, and nobody hears of the answer.
`Faults` says what may go wrong: `reject` (a fetch fails), `busy` (429 or 5xx),
`reload` (a reload while fetches are pending), `slow` (a fetch that is still pending
when the user has logged in anew or a later access token has expired). "Calm
weather" is the empty set. Without `slow` the actions `AccessExpires` and
`SubmitLogin` require that older exchanges are over; without `reload` the tab is
reloaded and closed only when no fetch is pending.

### Catalog

`imdb` and `bare` are the committed rows; a process (a request or a task) has what it
flushed in `wrote` and `named`, which holds rows and unique keys until it commits.
An INSERT takes its key before its row (`InsertKey`, `InsertRow`), an UPDATE its row
before its key (`FillRow`, `FillKey`); each waits for the holders and fails on what is
taken. A process whose flush failed can only roll back. For a task that is the point: `_run_tracked_job`
then cannot write `failed` either, and the run ends with its job as it was.
`ImdbOf` has the answers that TMDB may give for a movie and `Gone` the movies it has
lost; the popular list is any set. Genres are a row having them or not, and a job's progress is left out but for the
commit that goes with every report. There is one run of each task at a time here: overlaps of
runs are in `Jobs`.

`CatalogInv` says, besides `NoDuplicates`, who may hold what: no two processes have
flushed the same row or hold the same key (`RowsApart`, `KeysApart`), a flushed
key is that of no other row and a flushed new row is not there yet (`Flushed`), each process is at a row it may
be at (`AtHand`), and all IDs are answers of TMDB (`FromTMDB`).

### Jobs and JobLife

`jobs` is the table, by id; a worker process `w` has at most one run, at statement `pc[w]`
of `_run_tracked_job` and its task, with the id it drew from the clock (`id`) and its way
through `sync_imdb_ids` (`work`: the count, the rows selected, tried and flushed).
`Start` takes a run off the queue, `Create` and `Process` are the commits of queued and
processing, `Visit` is one row with the report and commit that every `ReportEvery`th row
brings, `Complete`, `CompletePopular` and `Fail` settle the job. Two runs that start in
the same millisecond draw the same id: the second INSERT fails, outside the try
(`CreateClashes`). `Tick` moves the clock to a millisecond whose id is unused, so ids are
reused only when neither a row nor a run has them. `Break` is a run that ends without
its last words: a refused statement, after which `update_status` in the handler fails in
the void transaction too, or a killed process; the row stays as it was committed last.

`JobLife` has the life of one job, with all others left out: no job, queued,
processing with progress that does not go back, settled, never touched again. `Jobs`
implements it for every process at once, with `active` the processes that have a run
and `job` the row with the id of each one's run. That is where overlaps would show: a run
that wrote the row of another would be a step `JobLife` does not have.

### Watchlists

Each request reads with its owner check and then writes; `took` are entries it has
written, `lock` its lock on the watchlist (foreign-key share, update, delete); locks of
two requests on one list are `Compatible` or one of them waits. A
delete visits the entries the ORM loaded, deletes the list and then the entries
that were committed since (`cascade`). `Written` has the ORM's dirty tracking: only
columns that differ from what was read are written.

`WatchlistStore` has the committed tables alone: a list is created or renamed, an entry
is put, marked or taken out, a list is dropped with exactly the entries it has at that
moment. `Watchlists` implements it: each commit is one of these steps, and the
statements before it leave the tables alone.

### Accounts

A container (`svc`) reads the revision, takes the schema's locks, and commits all
revisions or none; a failure counts towards the limit of the entrypoint. From most revisions the
first object an upgrade creates has a unique key, which the others wait for
(`LockSchema`). From `e40b4a4c320c` it is not so: upgrades share the ROW EXCLUSIVE lock
of `UPDATE watchlists` (`UpdateWatchlists`) before each asks for ACCESS EXCLUSIVE with
`ALTER TABLE` (`AlterWatchlists`), a deadlock in which all but the first to ask are aborted
before anybody has committed. An aborted one may come back with the revision it
read before, and lose to the one that has been committed. PostgreSQL aborts
the second to ask at once; one that waits in its UPDATE for rows of the first began to wait
earlier, so its detector runs earlier too. Should the detector of the first find the deadlock
nevertheless (an UPDATE that takes longer than `deadlock_timeout`), that is an `Outage` of the first one. `run` is a
registration or a `seed_admin`; whoever is past the unique key is alone with the
address, whoever is past `LockSchema` is alone with the schema. `MigrateUsers` is the deploy order that revision
`e9666efb6bf6` names: migrate to `e40b4a4c320c` by hand, seed, then start.

## What is checked

All bounds are constants of the configurations. Slots (`Requests`, `Calls`,
`People`) are reused or abandoned, so two of them give every pairwise
interleaving, and a third thing to fight about is added where it matters.

| Run | Bounds | Shows |
|---|---|---|
| `tokens_safety` | 1 user, 3 tokens, 2 transactions at a time | invariant, revocations, refinement of `Sessions` |
| `tokens_live` | 1 user, 3 tokens, 2 transactions, no symmetry, no deactivation | every request is answered |
| `web_calm` | 2 users, 2 calls, 3 tokens, no faults | one identity, the stored token stays good, single flight, nobody thrown out, reloads keep the session; the sessions of the server keep the invariant that is proved for all sizes |
| `web_live` | 1 user, 2 tokens, all faults but `reload` | calls end, the page becomes ready |
| `catalog` | 2 movies that may share an IMDb ID, 1 request, both tasks, outages and crashes | no duplicates, nothing lost, job rows truthful, each run ends |
| `watchlists` | 2 users, 2 movies, 1 list, 2 entries, 2 requests | no orphan, no duplicate, only the owner writes, refinement of `WatchlistStore`, each request ends |
| `jobs` | 2 worker processes, 3 ids, 3 movies of which 1 has no ID at TMDB, batches of 2, outages and broken runs | invariant, refinement of `JobLife`, the backlog drains, each process comes free again |
| `accounts` | 3 containers, 2 people, 1 address, 1 outage, 4 attempts | unique addresses, owned watchlists, each container serves or exits, lost races and deadlocks are survived |

Two processes and three ids let two runs collide while the next one finds a free id;
the hopeless movie comes up in batch after batch and still leaves room, as `BacklogDrains`
asks. One request beside two tasks gives the catalog three writers of two rows and a key.
One list is enough in `watchlists`, as the rules are about a list and its entries,
and about who owns it: the other user has none. Two movies are needed for a delete
that holds one entry and waits for the next. In `accounts` two people are
all a race for an address takes; the run starts from the release without users, which
migrates as an empty database does.

`MaxToken` bounds how many tokens are issued; a request that would need one more is
not accepted (`RefreshTokens!RoomForToken`), or stays unanswered (`WebClient!AtBound`),
which is why the liveness of `WebClient` is stated of calls and of readiness and not of
logins. Lists and entries of `Watchlists` are drawn from a finite stock and never
reused. Three tokens let a request whose purge finds two expired rows wait for a bulk revocation
that waits for it, as well as two revocations for each other; two purges that do so would take a
fourth. `Leavers`, the users an operator may deactivate, is empty in `tokens_live`, to halve its
states: a deactivation only turns an arrival or a rotation into an answer. Four attempts stand
for the ten of the entrypoint: a container may lose once in a deadlock, once more for `MaxOutages = 1`, which
opens the race again or is its own, and once to the revision the winner has committed; the fourth succeeds.
With three, or with two and no outage, TLC finds a container that gives up, so the
hypothesis `MaxOutages + 2 < MaxAttempts` of `RacesAreSurvived` is as weak as it can be. `ReportEvery`, `Limit`, `ImdbLimit` and `GenreLimit` are 2 where the code has 10, 40,
40 and 500, so that reports and full batches happen with two or three rows.

### Where code and documents differ

Each of these runs checks one statement of the documents or tests and finds it
violated; the finding quotes the line.

| Run | Statement | What happens |
|---|---|---|
| `logout_all` | every device must log in again | a rotation in flight during logout-all commits a successor its UPDATE did not see |
| `web_retry` | the retry after a refresh succeeds | it carries the access token of the old render |
| `runs_tracked` | each run has a job, from queued to completed or failed | ids are milliseconds: of two runs that start in the same one, the second dies before it has a row. The run has no faults |
| `watched_at` | watched_at follows the status | two updates write different columns |

The models have further behaviours of this kind, which no run singles out: a rotation
at the live end of a chain survives the detection of a reuse (`BeginRevokeFamily` locks
the presented row only); a logout that refreshes on the way leaves the successor
alive (`Logout`, `Settle`); a page reloaded during its silent refresh presents a spent
token (`Reload` with the fault `reload`); rows committed between the COUNT and the SELECT
of sync_imdb_ids take its percentage over 100 (`Progress`); where `Limit` or more rows have no ID at TMDB, they may fill every `Batch`, and
the backlog stays (the hypothesis of `BacklogDrains` is needed); after a failed flush
nothing can be written, so the job stays processing although its run has failed
(`Break`); on an empty database that nobody migrates to `e40b4a4c320c` by hand there is
never an admin, every upgrade rolls back, and no container serves (`NeedsAdmin`); the loser of a
race for an address ends in an unhandled IntegrityError (`Insert`); two commands that
see no admin both insert one, if their addresses differ (`Seed`), though FR-011 asks for exactly one
initial admin. No property above claims otherwise:
`RevocationCoversSnapshot` speaks of tokens that were live when the request was
accepted, `ReloadKeepsSession` of reloads with no fetch pending.

### Fairness

No arrival, user action, expiry, fault, crash or deactivation is ever assumed.
Database steps have strong fairness per request (`SF_vars(Step(r))`): PostgreSQL
serves the waiters of a row in turn, so a request that is again and again able to
take its row does. Deadlock detection has weak fairness: the detector runs after
`deadlock_timeout` while a wait lasts. In the browser each server answer and each
continuation has weak fairness: a fetch settles and the event loop runs what was
queued. In `Jobs` each process goes on with its run (weak fairness of `Step(w)`); nothing is assumed
of the scheduler, the clock and the faults. That runs complete again and again is therefore
a hypothesis of `BacklogDrains`, written in the property. In `Accounts` the boot steps of
each container have strong fairness, the operator has none.

## What is proved

For every value of the constants, from the named assumptions of each module, which TLC
evaluates in each run (they say which model values differ, that bounds are natural
numbers, and that `Ids` are natural numbers and `Movies` finite):

* `SessionsProofs`: `SessionsInvariant`, from which `OneLiveToken` and
  `TokensAreSingleUse`. That a family has one live token is not inductive: a
  rotation makes a second token of the family live in the same step, which is safe
  only as it spends the first. Single use needs that a token with a successor is not
  live (`Descent`), and the numbering of tokens (`NumberedInOrder`) that a new token
  is nobody's successor or parent yet.
* `RefreshTokensProofs`: `TokensInvariant`, and from it `TypeCorrect`,
  `SessionsAreChains`, `NoTokenIsExchangedTwice`,
  `RevocationIsThorough` and `Refinement`.
  The invariant adds to that of `Sessions` that rows are held by one request at a time
  and written by their holder only (`LocksDisjoint`, `WritesUnderLock`), what each
  request holds and has written at each point of its handler (`Shape`), and that a
  revocation still has in its scan, or has already written, each live token it is to
  revoke (`DoomedReached`). Refinement then is: the commits are `OpenSession`,
  `Rotate` or `RevokeSome`, and all other steps leave the table alone or are expiry.
  The proof has one lemma per action; `Frame` says what keeps the invariant of the
  requests a step does not take, and `LocalStep` what suffices for a step within one
  transaction.
* `JobsProofs`: `JobsInvariant` and `JobsRefinement`, for any number of processes and
  ids. The refinement needs that a job belongs to the run whose id it has and that a
  run past its INSERT has a job in the status its next statement expects (`OneJobPerRun`,
  `OwnJob`), and that progress was computed from no more rows than are tried by now
  (`Reported`): that, with a lemma on `\div`, is why reports do not go back.
* `CatalogProofs`: `CatalogInvariant`, and from it `JobsTellTheTruth` (a job row that says
  completed or failed is of a run that is over) and `RowsAndIdsStay`: whatever
  TMDB answers, a committed row stays, and an IMDb ID on it is only ever replaced by
  another one TMDB gave for the movie. `NothingIsLost` follows from it and from
  `OneAnswer`, that TMDB knows one IMDb ID for a movie: with two answers a request
  and a task may both fill the row, one after the other.
* `WatchlistsProofs`: `EntriesInvariant` (with `NoOrphans` and `NoDuplicates`),
  `OnlyTheOwnerWrites` and `StoreRefinement`. The owner check is made statements before the write it
  licenses, so the invariant carries it (`Entitled`); that no entry outlives its list rests
  on the locks being `Compatible`, and on the cascade reading again what was committed
  since the ORM loaded the entries. For the refinement the invariant also has what a
  request has written when it comes to its commit: a delete then holds exactly the
  entries of its list (`DroppedIsDrop`), and no other statement changes a table
  (`OnlyCommitsWrite`).
* `AccountsProofs`: `AccountsInvariant`, with `OneAccountPerEmail` and `SchemaIsOwned`, for
  any number of containers and people and any limit of attempts. It needs that upgrades are
  `Apart`: one at a time asks for ACCESS EXCLUSIVE, and whoever has the schema to itself
  shares no lock and upgrades from the revision that is there.
* `WebClientProofs`, in three weathers. In any: `TabUsesSessions`, that every step of the
  tab and of its late requests is a step of `Sessions` or leaves the server alone,
  so that `SessionsInv` holds (cited from `SessionsProofs`), and `TabHoldsIssued`, with
  what that needs: whatever the tab holds or sends was issued (`Known`). With
  `Steady` (`"slow" \notin Faults`): `TabInvariant` and `RefreshesCoalesce`. Each API client
  has a refresh promise of its own, and clients outlive renders; that there is one
  refresh nevertheless rests on an ordering: of two pending calls, the one whose
  access token has expired bears the older or the same one (`CallInv`), and a refresh
  has a call waiting for it whose token has expired (`FlightInv`), so two refreshes would
  be of one client. A rotation's answer is newer than all the tab has, and of the user
  shown. The mount effect and the form have the tab to themselves (`Alone`); the steps
  taken then are proved on the shorter `Solo`. With `Calm` (`Faults = {}`): `StoredStaysGood`,
  and from it `HonestTabStays` and `ReloadStaysIn`. The stored token can be exchanged unless a logout
  or a rotation is under way, which is why a refused refresh means that it has expired
  or that the user is leaving.

The hypotheses are as weak as the code allows. `OneIdentity` and `SingleFlight` fail with
`slow`: a refresh that settles after another login stores its pair beside the new user. `NeverThrownOut`
and `ReloadKeepsSession` fail with any fault: after a lost answer or a reload during a
refresh the stored token is spent, and a 429 or 5xx to a refresh or to GET /me is
taken for a refusal (`api.js:25`, `AuthContext.jsx:54, 74`).

Only model-checked: liveness, as the prover has no fairness or ENABLED. `TabInv` with faults
is proved, and no run has it with them.

## What is not modelled

* Search and listings (`search_service.py`, `movie_service.py`, the GET routes): they
  read only.
* `watchlist_repo.py`: nothing uses it. `DELETE /movies/{id}` answers without doing
  anything.
* Payloads, schemas, password hashing, JWT encoding, rate-limit windows: external or
  pure; a refusal by the limiter is the fault `busy`.
* The genres cache table (`sync_genres` fills it, nothing else writes it), and two runs
  of the same task inside each other's transactions: `Jobs` has the overlap of runs,
  `Catalog` the conflicts between statements of one run of each task and a request.
* The state of the jobs page: an answer to an older client may overwrite a newer one.
  Listings are cut by OFFSET from rows in no total order, and promise nothing of it.
* Several tabs sharing a session: sessionStorage is per tab; a duplicated tab would
  copy it.

## Plan

1. Done: `Sessions`, `RefreshTokens`, `WebClient`, `Catalog`, `Jobs`, `Watchlists`, `Accounts`,
   and the proofs of their safety properties.
2. `Tabs`: a duplicated tab and the double mount effect of StrictMode, two `WebClient`s on
   one family.
3. Composition of `Accounts` and `RefreshTokens`: deactivation and the revocation that
   `spec.md` promises with it.
4. `WebClient` with `slow`: what is left of one identity when a refresh outlasts a login.
