---------------------------- MODULE RefreshTokens ----------------------------
(***************************************************************************)
(* The refresh-token table under concurrent HTTP requests.                 *)
(*                                                                         *)
(* Each request runs its handler (api/auth.py) in one PostgreSQL           *)
(* transaction at READ COMMITTED: a statement sees the rows committed when *)
(* it starts, waits for the rows other transactions hold, and looks again  *)
(* at the committed version of a row it waited for.  What a transaction    *)
(* writes is pending in `revokes' and `deletes' until it commits; the row  *)
(* of a new token is visible to nobody before, so the token gets its       *)
(* number at the commit.  A bulk UPDATE or DELETE visits the rows of its   *)
(* snapshot one by one, in any order, locking each as it goes.             *)
(***************************************************************************)
EXTENDS Naturals, FiniteSets

CONSTANTS
    Users,      \* users.id
    Requests,   \* slots for requests in flight at the same time
    NoUser,     \* no user
    Leavers,    \* bound: the users an operator may deactivate
    MaxToken    \* bound: how many refresh tokens are ever issued

ASSUME TokensAssumption ==
    NoUser \notin Users /\ Leavers \subseteq Users /\ MaxToken \in Nat

VARIABLES
    \* committed state of the database
    status, owner, family, parent, issued, expired,
    active,     \* users.is_active
    \* state of each request
    pc,         \* the next statement of its handler, "idle" when the slot is free
    tok,        \* the refresh token it was given, 0 for none
    usr,        \* the user it acts for
    locks,      \* rows of refresh_tokens its transaction holds
    revokes,    \* rows it has set revoked_at on, not yet committed
    deletes,    \* rows it has deleted, not yet committed
    scan,       \* rows its running bulk statement has still to visit
    doomed      \* history: the live tokens a revocation found when it was accepted

db   == <<status, owner, family, parent, issued, expired>>
vars == <<db, active, pc, tok, usr, locks, revokes, deletes, scan, doomed>>

\* The refinement mapping: the committed columns are the abstract sessions.
S == INSTANCE Sessions WITH
        status  <- status,
        owner   <- owner,
        family  <- family,
        parent  <- parent,
        issued  <- issued,
        expired <- expired

Token == 1..MaxToken

PC == {"idle", "lookup", "rotate", "family", "logoutAll", "revoking",
       "purge", "purging", "logoutRead", "logoutUpdate"}

TypeOK ==
    /\ S!SessionsTypeOK
    /\ active \in [Users -> BOOLEAN]
    /\ pc  \in [Requests -> PC]
    /\ tok \in [Requests -> 0..MaxToken]
    /\ usr \in [Requests -> Users \cup {NoUser}]
    /\ locks   \in [Requests -> SUBSET Token]
    /\ revokes \in [Requests -> SUBSET Token]
    /\ deletes \in [Requests -> SUBSET Token]
    /\ scan    \in [Requests -> SUBSET Token]
    /\ doomed  \in [Requests -> SUBSET Token]

Init ==
    /\ S!SessionsInit
    /\ active = [u \in Users |-> TRUE]
    /\ pc  = [r \in Requests |-> "idle"]
    /\ tok = [r \in Requests |-> 0]
    /\ usr = [r \in Requests |-> NoUser]
    /\ locks   = [r \in Requests |-> {}]
    /\ revokes = [r \in Requests |-> {}]
    /\ deletes = [r \in Requests |-> {}]
    /\ scan    = [r \in Requests |-> {}]
    /\ doomed  = [r \in Requests |-> {}]

-----------------------------------------------------------------------------
(* Rows and locks *)

LiveOf(u)       == {t \in Token : status[t] = "live" /\ owner[t] = u}
LiveInFamily(f) == {t \in Token : status[t] = "live" /\ family[t] = f}

\* Faulty: the comparison with expires_at the wrong way round.
UnexpiredRows == {t \in Token \ expired : status[t] \in {"live", "revoked"}}

ExpiredRows == {t \in expired : status[t] # "purged"}

\* Faulty: SELECT without FOR UPDATE and writes that do not wait.
NeverWaits(r, t) == TRUE

\* Faulty: the row is wanted from a second session, which waits for the first.
WaitsForItself(r, t) == \A q \in Requests : t \notin locks[q]

FreeFor(r, t) == \A q \in Requests \ {r} : t \notin locks[q]

\* The row each request needs next: it may be waiting for any of them.
Wanted(r) == IF pc[r] \in {"lookup", "logoutUpdate"} THEN {tok[r]} ELSE scan[r]

WaitsFor(r) == {q \in Requests \ {r} : Wanted(r) \cap locks[q] # {}}

\* Requests that may still issue a token: they have a share of the bound.
Issuing == {r \in Requests : \/ pc[r] \in {"rotate", "purge", "purging"}
                             \/ pc[r] = "lookup" /\ status[tok[r]] = "live"}

RoomForToken == issued + Cardinality(Issuing) < MaxToken

-----------------------------------------------------------------------------
(* Requests arrive and leave *)

Accept(r, point, t, u, D) ==
    /\ pc[r] = "idle"
    /\ pc'  = [pc  EXCEPT ![r] = point]
    /\ tok' = [tok EXCEPT ![r] = t]
    /\ usr' = [usr EXCEPT ![r] = u]
    /\ doomed' = [doomed EXCEPT ![r] = D]
    /\ UNCHANGED <<db, active, locks, revokes, deletes, scan>>

\* The transaction is over: its locks are released and its slot is free.
Finish(r) ==
    /\ pc'  = [pc  EXCEPT ![r] = "idle"]
    /\ tok' = [tok EXCEPT ![r] = 0]
    /\ usr' = [usr EXCEPT ![r] = NoUser]
    /\ locks'   = [locks   EXCEPT ![r] = {}]
    /\ revokes' = [revokes EXCEPT ![r] = {}]
    /\ deletes' = [deletes EXCEPT ![r] = {}]
    /\ scan'    = [scan    EXCEPT ![r] = {}]
    /\ doomed'  = [doomed  EXCEPT ![r] = {}]
    /\ UNCHANGED active

\* An answer that leaves no trace in the database.
Reject(r) == Finish(r) /\ UNCHANGED db

(* POST /login: authenticate and issue_pair up to its purge_expired; the   *)
(* row it inserts appears at CommitPair.                                   *)
Login(r, u) ==
    /\ active[u]
    /\ RoomForToken
    /\ Accept(r, "purge", 0, u, {})

\* POST /refresh with a token that was handed out at some time.
Refresh(r, t) ==
    /\ status[t] # "unissued"
    /\ status[t] = "live" => RoomForToken
    /\ Accept(r, "lookup", t, owner[t], {})

\* POST /logout: get_current_user lets u in; the body may hold any token.
Logout(r, u, t) ==
    /\ active[u]
    /\ status[t] # "unissued"
    /\ Accept(r, "logoutRead", t, owner[t], {})

\* POST /logout-all: get_current_user lets u in.
LogoutAll(r, u) ==
    /\ active[u]
    /\ Accept(r, "logoutAll", 0, u, LiveOf(u))

-----------------------------------------------------------------------------
(* Statements of the handlers *)

(* rotate_refresh: SELECT ... FOR UPDATE by hash, then the checks on the   *)
(* row.  A row that is missing or past expires_at is answered 401; a       *)
(* revoked one is a reuse and its family is to be revoked.                 *)
RefreshLookup(r) ==
    LET t == tok[r] IN
    /\ pc[r] = "lookup"
    /\ FreeFor(r, t)
    /\ \/ /\ status[t] = "purged" \/ (status[t] = "live" /\ t \in expired)
          /\ Reject(r)
       \/ /\ status[t] = "revoked"
          /\ pc' = [pc EXCEPT ![r] = "family"]
          /\ locks' = [locks EXCEPT ![r] = {t}]
          /\ doomed' = [doomed EXCEPT ![r] = LiveInFamily(family[t])]
          /\ UNCHANGED <<db, active, tok, usr, revokes, deletes, scan>>
       \/ /\ status[t] = "live" /\ t \notin expired
          /\ pc' = [pc EXCEPT ![r] = "rotate"]
          /\ locks' = [locks EXCEPT ![r] = {t}]
          /\ UNCHANGED <<db, active, tok, usr, revokes, deletes, scan, doomed>>

\* Faulty: the successor is stored, the presented token is not revoked.
RotateUnspent(r) ==
    /\ pc[r] = "rotate" /\ active[usr[r]]
    /\ pc' = [pc EXCEPT ![r] = "purge"]
    /\ UNCHANGED <<db, active, tok, usr, locks, revokes, deletes, scan, doomed>>

\* rotate_refresh: the owner must be active; then the token is spent.
RefreshRotate(r) ==
    /\ pc[r] = "rotate"
    /\ \/ ~active[usr[r]] /\ Reject(r)
       \/ /\ active[usr[r]]
          /\ pc' = [pc EXCEPT ![r] = "purge"]
          /\ revokes' = [revokes EXCEPT ![r] = {tok[r]}]
          /\ UNCHANGED <<db, active, tok, usr, locks, deletes, scan, doomed>>

\* A bulk statement starts: its snapshot selects the rows it will visit.
BeginScan(r, from, to, rows) ==
    /\ pc[r] = from
    /\ pc' = [pc EXCEPT ![r] = to]
    /\ scan' = [scan EXCEPT ![r] = rows]
    /\ UNCHANGED <<db, active, tok, usr, locks, revokes, deletes, doomed>>

\* purge_expired: DELETE ... WHERE expires_at < now, of whatever user.
BeginPurge(r) == BeginScan(r, "purge", "purging", ExpiredRows)

\* Faulty: only the reused token is revoked, not its family.
RevokeReused(r) == BeginScan(r, "family", "revoking", {tok[r]})

\* revoke_family: UPDATE ... WHERE family_id = f AND revoked_at IS NULL.
BeginRevokeFamily(r) ==
    BeginScan(r, "family", "revoking", LiveInFamily(family[tok[r]]))

\* revoke_all_for_user: UPDATE ... WHERE user_id = u AND revoked_at IS NULL.
BeginRevokeAll(r) == BeginScan(r, "logoutAll", "revoking", LiveOf(usr[r]))

\* The DELETE reaches row t: it takes the row unless it has gone meanwhile.
VisitPurge(r, t) ==
    /\ pc[r] = "purging"
    /\ t \in scan[r]
    /\ FreeFor(r, t)
    /\ scan' = [scan EXCEPT ![r] = @ \ {t}]
    /\ \/ /\ status[t] # "purged"
          /\ locks'   = [locks   EXCEPT ![r] = @ \cup {t}]
          /\ deletes' = [deletes EXCEPT ![r] = @ \cup {t}]
       \/ status[t] = "purged" /\ UNCHANGED <<locks, deletes>>
    /\ UNCHANGED <<db, active, pc, tok, usr, revokes, doomed>>

\* The UPDATE reaches row t: its condition is tried again on the row as it is now.
VisitRevoke(r, t) ==
    /\ pc[r] = "revoking"
    /\ t \in scan[r]
    /\ FreeFor(r, t)
    /\ scan' = [scan EXCEPT ![r] = @ \ {t}]
    /\ \/ /\ status[t] = "live"
          /\ locks'   = [locks   EXCEPT ![r] = @ \cup {t}]
          /\ revokes' = [revokes EXCEPT ![r] = @ \cup {t}]
       \/ status[t] # "live" /\ UNCHANGED <<locks, revokes>>
    /\ UNCHANGED <<db, active, pc, tok, usr, deletes, doomed>>

\* logout: a plain SELECT; a row that is missing or revoked is left alone.
LogoutRead(r) ==
    /\ pc[r] = "logoutRead"
    /\ \/ status[tok[r]] # "live" /\ Reject(r)
       \/ /\ status[tok[r]] = "live"
          /\ pc' = [pc EXCEPT ![r] = "logoutUpdate"]
          /\ UNCHANGED <<db, active, tok, usr, locks, revokes, deletes, scan, doomed>>

(* logout: UPDATE by primary key, whatever became of the row since it was  *)
(* read; on a deleted row the ORM raises StaleDataError.                   *)
LogoutUpdate(r) ==
    LET t == tok[r] IN
    /\ pc[r] = "logoutUpdate"
    /\ FreeFor(r, t)
    /\ \/ status[t] = "purged" /\ Reject(r)
       \/ /\ status[t] # "purged"
          /\ pc' = [pc EXCEPT ![r] = "revoking"]
          /\ locks'   = [locks   EXCEPT ![r] = {t}]
          /\ revokes' = [revokes EXCEPT ![r] = {t}]
          /\ UNCHANGED <<db, active, tok, usr, deletes, scan, doomed>>

\* login and refresh: the commit makes the new row and every change visible.
CommitPair(r) ==
    LET new == issued + 1
        t   == tok[r]
    IN
    /\ pc[r] = "purging"
    /\ scan[r] = {}
    /\ issued < MaxToken
    /\ issued' = new
    /\ status' = [k \in Token |-> IF k = new THEN "live"
                                  ELSE IF k \in deletes[r] THEN "purged"
                                  ELSE IF k \in revokes[r] THEN "revoked"
                                  ELSE status[k]]
    /\ owner'  = [owner  EXCEPT ![new] = usr[r]]
    /\ family' = [family EXCEPT ![new] = IF t = 0 THEN new ELSE family[t]]
    /\ parent' = [parent EXCEPT ![new] = t]
    /\ UNCHANGED expired
    /\ Finish(r)

\* logout, logout-all, and the commit before the 401 that answers a reuse.
CommitRevocation(r) ==
    /\ pc[r] = "revoking"
    /\ scan[r] = {}
    /\ status' = [k \in Token |-> IF k \in revokes[r] THEN "revoked" ELSE status[k]]
    /\ UNCHANGED <<owner, family, parent, issued, expired>>
    /\ Finish(r)

-----------------------------------------------------------------------------
(* Failures and the environment *)

\* get_db rolls back: the client, the worker or the connection is gone.
Abort(r) == pc[r] # "idle" /\ Reject(r)

\* PostgreSQL breaks a cycle of waiting transactions by aborting one of them.
DeadlockAbort(r) ==
    /\ \A C \in SUBSET Requests :
          WaitsFor(r) \subseteq C /\ (\A q \in C : WaitsFor(q) \subseteq C) => r \in C
    /\ Reject(r)

(* A token passes its expires_at.  The lifetime is read from the settings  *)
(* at each issue, so tokens need not expire in the order of their numbers. *)
Expire(t) ==
    /\ status[t] # "unissued"
    /\ t \notin expired
    /\ expired' = expired \cup {t}
    /\ UNCHANGED <<status, owner, family, parent, issued, active,
                   pc, tok, usr, locks, revokes, deletes, scan, doomed>>

\* An operator clears users.is_active; no endpoint does.
Deactivate(u) ==
    /\ u \in Leavers
    /\ active[u]
    /\ active' = [active EXCEPT ![u] = FALSE]
    /\ UNCHANGED <<db, pc, tok, usr, locks, revokes, deletes, scan, doomed>>

-----------------------------------------------------------------------------
Arrive(r) ==
    \/ \E u \in Users : Login(r, u) \/ LogoutAll(r, u)
    \/ \E t \in Token : Refresh(r, t) \/ \E u \in Users : Logout(r, u, t)

Step(r) ==
    \/ RefreshLookup(r) \/ RefreshRotate(r)
    \/ BeginPurge(r) \/ BeginRevokeFamily(r) \/ BeginRevokeAll(r)
    \/ \E t \in Token : VisitPurge(r, t) \/ VisitRevoke(r, t)
    \/ LogoutRead(r) \/ LogoutUpdate(r)
    \/ CommitPair(r) \/ CommitRevocation(r)

Next ==
    \/ \E r \in Requests : Arrive(r) \/ Step(r) \/ Abort(r) \/ DeadlockAbort(r)
    \/ \E t \in Token : Expire(t)
    \/ \E u \in Users : Deactivate(u)

Spec == Init /\ [][Next]_vars

(***************************************************************************)
(* PostgreSQL queues the waiters of a row first come, first served, so a   *)
(* request that can proceed again and again does (strong fairness), and it *)
(* looks for deadlocks whenever a wait lasts (weak fairness).  Nothing is  *)
(* assumed of arrivals, aborts, expiry or deactivation.                    *)
(***************************************************************************)
Fairness ==
    /\ \A r \in Requests : SF_vars(Step(r))
    /\ WF_vars(\E r \in Requests : DeadlockAbort(r))

FairSpec == Spec /\ Fairness

-----------------------------------------------------------------------------
(* Properties *)

(***************************************************************************)
(* The inductive invariant.  Rows are locked by one request at a time and  *)
(* written under lock; each request keeps to the shape of its handler; a   *)
(* revocation still has in its scan, or has already written, what it is to *)
(* revoke.                                                                 *)
(***************************************************************************)
LocksDisjoint == \A r, q \in Requests : r # q => locks[r] \cap locks[q] = {}

WritesUnderLock(r) ==
    /\ revokes[r] \cup deletes[r] \subseteq locks[r]
    /\ deletes[r] \subseteq expired
    /\ \A t \in locks[r] : status[t] \in {"live", "revoked"}
    /\ \A t \in scan[r] : t <= issued

Shape(r) ==
    /\ tok[r] # 0 => tok[r] <= issued /\ usr[r] = owner[tok[r]]
    /\ pc[r] # "idle" => usr[r] \in Users
    /\ pc[r] \in {"lookup", "rotate", "family", "logoutRead", "logoutUpdate"}
         => tok[r] # 0
    /\ pc[r] \in {"rotate", "purge", "purging"} /\ tok[r] # 0
         => status[tok[r]] = "live" /\ tok[r] \in locks[r]
    /\ pc[r] \in {"purge", "purging"}
         => revokes[r] = IF tok[r] = 0 THEN {} ELSE {tok[r]}
    /\ pc[r] \notin {"purge", "purging", "revoking"} => revokes[r] = {}
    /\ pc[r] \in {"idle", "lookup", "logoutAll", "logoutRead", "logoutUpdate"}
         => locks[r] = {}
    /\ pc[r] \in {"logoutRead", "logoutUpdate"} => doomed[r] = {}
    /\ pc[r] = "purging" => scan[r] \subseteq expired
    /\ pc[r] \notin {"purging", "revoking"} => scan[r] = {}
    /\ pc[r] = "revoking"
         => \A t \in scan[r] \cup revokes[r] : owner[t] = usr[r]

DoomedReached(r) ==
    \A t \in doomed[r] :
        /\ t <= issued
        /\ pc[r] = "family" => family[t] = family[tok[r]]
        /\ pc[r] = "logoutAll" => owner[t] = usr[r]
        /\ pc[r] = "revoking" /\ status[t] = "live" => t \in scan[r] \cup revokes[r]

RequestInv(r) == WritesUnderLock(r) /\ Shape(r) /\ DoomedReached(r)

TokensInv ==
    /\ TypeOK
    /\ S!SessionsInv
    /\ LocksDisjoint
    /\ \A r \in Requests : RequestInv(r)

\* Each request is a transaction of the Sessions module, done in one step.
RefinesSessions == S!SessionsSpec

\* The promises of Sessions, of the concurrent table: see there.
OneLivePerFamily == S!OneLivePerFamily
SingleUse        == S!SingleUse

(***************************************************************************)
(* When a logout-all or a reuse-detection commits, each token that was     *)
(* live when the request was accepted has stopped being live, even those   *)
(* whose rows other transactions held meanwhile                            *)
(* (refresh_token_repo._revoke_where).                                     *)
(***************************************************************************)
RevocationCoversSnapshot ==
    [][\A r \in Requests :
          CommitRevocation(r) => \A t \in doomed[r] : status'[t] # "live"]_vars

(***************************************************************************)
(* specs/002-user-auth/spec.md, User Story 2, scenario 4: after logout-all *)
(* every device must log in again: no session that was live when the       *)
(* request was accepted has a live token when it is answered.              *)
(***************************************************************************)
LogoutAllEndsSessions ==
    [][\A r \in Requests :
          CommitRevocation(r) /\ tok[r] = 0
            => \A t \in Token : \A d \in doomed[r] :
                  family[t] = family[d] => status'[t] # "live"]_vars

(***************************************************************************)
(* Every request is answered: waits for row locks, deadlocks between a     *)
(* purge and a bulk revocation, or of two revocations, included, no        *)
(* request stays in flight.                                                *)
(***************************************************************************)
EveryRequestAnswered == \A r \in Requests : []<>(pc[r] = "idle")
=============================================================================
