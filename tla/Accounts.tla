------------------------------ MODULE Accounts ------------------------------
(***************************************************************************)
(* How a deployment comes up and how it gets its accounts: the containers  *)
(* race to migrate the database (docker-entrypoint.sh, alembic), an        *)
(* operator seeds the first admin (seed_admin.py), visitors register       *)
(* (AuthService.register).                                                 *)
(*                                                                         *)
(* One `alembic upgrade head' is one transaction over all its revisions:   *)
(* it reads the current revision, takes the locks of its first statements, *)
(* which another upgrade may hold, and commits everything or nothing.      *)
(* From revision e40b4a4c320c upgrades share a lock before each asks for   *)
(* it alone: they deadlock, and PostgreSQL aborts all but one.             *)
(***************************************************************************)
EXTENDS Naturals

CONSTANTS
    Services,       \* containers: api, worker, scheduler
    People,         \* each registers once, or runs seed_admin once
    Emails,         \* addresses, equal up to case
    NoEmail,        \* address of nobody
    Start,          \* revision the database is at when the containers start
    MaxAttempts,    \* upgrades that may fail before a container exits
    MaxOutages      \* bound: upgrades that fail for reasons of their own

\* Revisions in order; 0 is the empty database and 1 the release without users.
WithUsers  == 2     \* e40b4a4c320c: users, watchlists.owner_id
WithOwners == 3     \* e9666efb6bf6: owner_id NOT NULL, old lists to the first admin
Head       == 4     \* 7c2a1b9d4e5f: genres

ASSUME AccountsAssumption ==
    /\ NoEmail \notin Emails /\ Start \in 0..Head
    /\ MaxAttempts \in Nat \ {0} /\ MaxOutages \in Nat

VARIABLES
    schema,     \* committed revision
    users,      \* what each person has committed: their row of users, or NoUser
    svc,        \* each container's entrypoint
    run,        \* each person's request or command
    outages     \* upgrades that have failed for reasons of their own

vars == <<schema, users, svc, run, outages>>

NoUser == [email |-> NoEmail, role |-> "user"]

Waiting == [pc |-> "idle", email |-> NoEmail, role |-> "user"]

Attempt(pc, n) == [pc |-> pc, failures |-> n, seen |-> 0]
Booting == Attempt("upgrade", 0)
Serving == Attempt("serving", 0)    \* exec "$@": nothing is left of the loop

TypeOK ==
    /\ schema \in 0..Head
    /\ users \in [People -> [email : Emails \cup {NoEmail}, role : {"user", "admin"}]]
    /\ svc \in [Services -> [pc : {"upgrade", "migrate", "updated", "altering", "locked",
                                   "serving", "exited"},
                             failures : 0..MaxAttempts, seen : 0..Head]]
    /\ run \in [People -> [pc : {"idle", "insert", "commit", "created", "refused", "error"},
                           email : Emails \cup {NoEmail}, role : {"user", "admin"}]]
    /\ outages \in 0..MaxOutages

Init ==
    /\ schema = Start
    /\ users = [p \in People |-> NoUser]
    /\ svc = [s \in Services |-> Booting]
    /\ run = [p \in People |-> Waiting]
    /\ outages = 0

Taken(e)    == \E p \in People : users[p].email = e
AdminExists == \E p \in People : users[p] # NoUser /\ users[p].role = "admin"

-----------------------------------------------------------------------------
(* docker-entrypoint.sh and alembic *)

\* Faulty: the entrypoint counts its attempts from one too many.
GiveUpEarly(s) ==
    LET n == svc[s].failures + 1 IN
    /\ svc' = [svc EXCEPT ![s] = Attempt(IF n + 1 < MaxAttempts THEN "upgrade" ELSE "exited", n)]
    /\ UNCHANGED <<schema, users, run>>

\* Faulty: the entrypoint without its limit on the attempts.
RetryForever(s) ==
    /\ svc' = [svc EXCEPT ![s] = Attempt("upgrade", svc[s].failures)]
    /\ UNCHANGED <<schema, users, run>>

\* The upgrade is rolled back and tried again, unless it was the last attempt.
UpgradeFails(s) ==
    LET n == svc[s].failures + 1 IN
    /\ svc' = [svc EXCEPT ![s] = Attempt(IF n < MaxAttempts THEN "upgrade" ELSE "exited", n)]
    /\ UNCHANGED <<schema, users, run>>

\* alembic reads the revision; at the head there is nothing to do: exec "$@".
ReadRevision(s) ==
    /\ svc[s].pc = "upgrade"
    /\ svc' = [svc EXCEPT ![s] = IF schema = Head THEN Serving
                                 ELSE [@ EXCEPT !.pc = "migrate", !.seen = schema]]
    /\ UNCHANGED <<schema, users, run, outages>>

\* Faulty: the backfill goes on without an admin.
NeedsNobody(s) == FALSE

\* RuntimeError of the backfill: no admin to own the watchlists there are.
NeedsAdmin(s) == svc[s].seen < WithOwners /\ ~AdminExists

Reach(s, point) ==
    /\ svc' = [svc EXCEPT ![s].pc = point]
    /\ UNCHANGED <<schema, users, run>>

\* The other upgrades at one of these points.
OthersAt(s, points) == {o \in Services \ {s} : svc[o].pc \in points}

(* From e40b4a4c320c: look for an admin, then UPDATE watchlists, whose     *)
(* ROW EXCLUSIVE lock upgrades share, behind any that asked for more.      *)
UpdateWatchlists(s) ==
    /\ svc[s].pc = "migrate" /\ svc[s].seen = WithUsers
    /\ \/ NeedsAdmin(s) /\ UpgradeFails(s)
       \/ /\ ~NeedsAdmin(s)
          /\ OthersAt(s, {"altering", "locked"}) = {}
          /\ Reach(s, "updated")
    /\ UNCHANGED outages

(* ALTER TABLE watchlists asks for ACCESS EXCLUSIVE.  Whoever is not the   *)
(* first to ask, or still waits in its UPDATE for rows of the first, is in *)
(* a deadlock with it and is aborted.  (Should the detector find the first *)
(* one instead, that is an Outage of the first one.)                       *)
AlterWatchlists(s) ==
    /\ svc[s].pc = "updated"
    /\ IF OthersAt(s, {"altering"}) # {} THEN UpgradeFails(s) ELSE Reach(s, "altering")
    /\ UNCHANGED outages

(* The upgrade has the schema to itself: by ACCESS EXCLUSIVE, or, from     *)
(* other revisions, by the unique key of the first object it creates.  If  *)
(* another one has committed, the object exists or the revision is no      *)
(* longer the one read, and this upgrade fails.                            *)
LockSchema(s) ==
    /\ \/ svc[s].pc = "migrate" /\ svc[s].seen # WithUsers
       \/ svc[s].pc = "altering"
    /\ OthersAt(s, {"updated", "altering", "locked"}) = {}
    /\ IF schema # svc[s].seen THEN UpgradeFails(s) ELSE Reach(s, "locked")
    /\ UNCHANGED outages

FinishUpgrade(s) ==
    /\ svc[s].pc = "locked"
    /\ \/ NeedsAdmin(s) /\ UpgradeFails(s)
       \/ /\ ~NeedsAdmin(s)
          /\ schema' = Head
          /\ svc' = [svc EXCEPT ![s] = Serving]
          /\ UNCHANGED <<users, run>>
    /\ UNCHANGED outages

\* The database, or the container's connection to it, is away.
Outage(s) ==
    /\ outages < MaxOutages
    /\ svc[s].pc \in {"upgrade", "migrate", "updated", "altering", "locked"}
    /\ outages' = outages + 1
    /\ UpgradeFails(s)

\* The operator runs `alembic upgrade e40b4a4c320c' before the containers start.
MigrateUsers ==
    /\ schema < WithUsers
    /\ \A s \in Services : svc[s] = Booting
    /\ schema' = WithUsers
    /\ UNCHANGED <<users, svc, run, outages>>

-----------------------------------------------------------------------------
(* AuthService.register and seed_admin *)

Go(p, point) ==
    /\ run' = [run EXCEPT ![p].pc = point]
    /\ UNCHANGED <<schema, users, svc, outages>>

Ask(p, point, e, role) ==
    /\ run' = [run EXCEPT ![p] = [pc |-> point, email |-> e, role |-> role]]
    /\ UNCHANGED <<schema, users, svc, outages>>

\* POST /register: 409 if get_by_email finds the address.
Register(p, e) ==
    /\ run[p].pc = "idle"
    /\ \E s \in Services : svc[s].pc = "serving"
    /\ Ask(p, IF Taken(e) THEN "refused" ELSE "insert", e, "user")

\* python -m app.seed_admin [--force]: refuses if there is an admin or the address is taken.
Seed(p, e, force) ==
    /\ run[p].pc = "idle"
    /\ schema >= WithUsers
    /\ Ask(p, IF (AdminExists /\ ~force) \/ Taken(e) THEN "refused" ELSE "insert",
           e, "admin")

\* Faulty: users without uq_users_email_lower.
InsertAnyway(p) == run[p].pc = "insert" /\ Go(p, "commit")

(* UserRepository.create: waits for the one who inserts the same address;  *)
(* if it is committed, IntegrityError, which nothing catches.              *)
Insert(p) ==
    LET e == run[p].email IN
    /\ run[p].pc = "insert"
    /\ \A q \in People \ {p} : ~(run[q].pc = "commit" /\ run[q].email = e)
    /\ Go(p, IF Taken(e) THEN "error" ELSE "commit")

Commit(p) ==
    /\ run[p].pc = "commit"
    /\ users' = [users EXCEPT ![p] = [email |-> run[p].email, role |-> run[p].role]]
    /\ run' = [run EXCEPT ![p].pc = "created"]
    /\ UNCHANGED <<schema, svc, outages>>

\* The client, the worker or the connection goes before the commit.
Abort(p) == run[p].pc \in {"insert", "commit"} /\ Go(p, "idle")

-----------------------------------------------------------------------------
Boot(s) ==
    \/ ReadRevision(s) \/ UpdateWatchlists(s) \/ AlterWatchlists(s)
    \/ LockSchema(s) \/ FinishUpgrade(s)

Next ==
    \/ \E s \in Services : Boot(s) \/ Outage(s)
    \/ MigrateUsers
    \/ \E p \in People :
          \/ \E e \in Emails : Register(p, e) \/ \E force \in BOOLEAN : Seed(p, e, force)
          \/ Insert(p) \/ Commit(p) \/ Abort(p)

Spec == Init /\ [][Next]_vars

\* A container that can go on does, and gets the locks in turn; nobody need act.
Fairness == \A s \in Services : SF_vars(Boot(s))

FairSpec == Spec /\ Fairness

-----------------------------------------------------------------------------
(* Properties *)

(***************************************************************************)
(* FR-001: an address belongs to one account, though register and          *)
(* seed_admin look for it before they insert.  And watchlists are made to  *)
(* have an owner only when there is an admin to own the old ones; no       *)
(* service is up without the whole schema, whoever has migrated it.        *)
(***************************************************************************)
OneAccountPerEmail ==
    \A p, q \in People : users[p] # NoUser /\ users[p].email = users[q].email => p = q

SchemaIsOwned ==
    /\ schema >= WithOwners /\ Start < WithOwners => AdminExists
    /\ (\E s \in Services : svc[s].pc = "serving") => schema = Head

(* What makes them inductive: whoever is past the unique key is alone with *)
(* an address that nobody has, whoever has the schema's locks is alone and *)
(* upgrades from the revision that is there, and one at a time asks.       *)
Inserting(p) ==
    /\ users[p] # NoUser <=> run[p].pc = "created"
    /\ users[p] # NoUser => users[p].email \in Emails
    /\ run[p].pc \in {"insert", "commit"} => run[p].email \in Emails
    /\ run[p].pc = "commit" =>
          /\ ~Taken(run[p].email)
          /\ \A q \in People \ {p} : run[q].pc = "commit" => run[q].email # run[p].email

Apart(s, o) ==
    /\ svc[s].pc \in {"altering", "locked"} => svc[o].pc \notin {"altering", "locked"}
    /\ svc[s].pc = "locked" => svc[o].pc # "updated"

Upgrading(s) ==
    /\ svc[s].pc \notin {"serving", "exited"} => svc[s].failures < MaxAttempts
    /\ svc[s].pc = "locked" => svc[s].seen = schema
    /\ \A o \in Services \ {s} : Apart(s, o)

AccountsInv ==
    /\ TypeOK /\ OneAccountPerEmail /\ SchemaIsOwned
    /\ \A p \in People : Inserting(p)
    /\ \A s \in Services : Upgrading(s)

\* docker-entrypoint.sh: each container serves at last, or gives up with exit 1.
EveryBootEnds == \A s \in Services : <>(svc[s].pc \in {"serving", "exited"})

(***************************************************************************)
(* docker-entrypoint.sh, 3-5: the retries make up for the lost race.  If   *)
(* the users and an admin are there before a container starts, all serve,  *)
(* though one may lose twice, in a deadlock and then to the revision the   *)
(* winner has committed, and an outage of the winner opens the race again. *)
(***************************************************************************)
RacesAreSurvived ==
    MaxOutages + 2 < MaxAttempts
        => (AdminExists /\ (\A s \in Services : svc[s] = Booting)
                ~> \A s \in Services : svc[s].pc = "serving")
=============================================================================
