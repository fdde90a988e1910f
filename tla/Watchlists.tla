----------------------------- MODULE Watchlists -----------------------------
(***************************************************************************)
(* Watchlists and their entries under concurrent requests of several users *)
(* (WatchlistService, api/watchlist.py).                                   *)
(*                                                                         *)
(* Each request reads what it is about, with the owner check, and then     *)
(* writes in the same transaction (READ COMMITTED).  A write waits for the *)
(* transactions that hold the row or the unique key; the ORM writes the    *)
(* columns that differ from what it has read, and raises when an UPDATE    *)
(* meets no row.  Identifiers are never used twice.                        *)
(***************************************************************************)
EXTENDS Naturals, FiniteSets

CONSTANTS
    Users,      \* users.id
    NoUser,     \* owner of a watchlist that is not there
    Movies,     \* movies.id
    Lists,      \* watchlists.id: bound on how many are ever created
    Entries,    \* watchlist_entries.id: bound on how many are ever created
    Requests,   \* slots for requests in flight at the same time
    None        \* no list, entry or movie

ASSUME WatchlistsAssumption ==
    NoUser \notin Users /\ None \notin Lists \cup Entries \cup Movies

VARIABLES
    owner,      \* committed watchlists: owner_id, NoUser if there is no row
    entry,      \* committed entries, Gone if there is no row
    fresh,      \* identifiers not drawn from the sequences yet
    req         \* each request: where it is, and its transaction

vars == <<owner, entry, fresh, req>>

Gone == [list |-> None, movie |-> None, status |-> "to_watch", watched |-> FALSE]

Row == [list : Lists, movie : Movies, status : {"to_watch", "watched"}, watched : BOOLEAN]

(***************************************************************************)
(* list, item and movie are what the request is about; seen is the row it  *)
(* has read and new the values it sets.  kids are the entries a delete     *)
(* still has to visit.  took are the entries it has written, added,        *)
(* changed or deleted.  `shared' is a foreign-key lock on list, `held' a   *)
(* lock for UPDATE and `dropped' for DELETE.                               *)
(***************************************************************************)
Idle == [pc |-> "idle", usr |-> NoUser, list |-> None, item |-> None, movie |-> None,
         seen |-> Gone, new |-> "to_watch", kids |-> {}, took |-> {}, lock |-> "none"]

PC == {"idle", "rename", "load", "kids", "cascade", "insert", "update", "remove",
       "commit"}

TypeOK ==
    /\ owner \in [Lists -> Users \cup {NoUser}]
    /\ entry \in [Entries -> Row \cup {Gone}]
    /\ fresh \subseteq Lists \cup Entries
    /\ req \in [Requests -> [pc : PC, usr : Users \cup {NoUser},
                             list : Lists \cup {None}, item : Entries \cup {None},
                             movie : Movies \cup {None}, seen : Row \cup {Gone},
                             new : {"to_watch", "watched"}, kids : SUBSET Entries,
                             took : SUBSET Entries,
                             lock : {"none", "shared", "held", "dropped"}]]

Init ==
    /\ owner = [w \in Lists |-> NoUser]
    /\ entry = [e \in Entries |-> Gone]
    /\ fresh = Lists \cup Entries
    /\ req = [r \in Requests |-> Idle]

-----------------------------------------------------------------------------
(* Rows and locks *)

At(r, point) == req[r].pc = point

There(e) == entry[e] # Gone

EntriesOf(w) == {e \in Entries : entry[e].list = w}

FreeEntry(r, e) == \A q \in Requests \ {r} : e \notin req[q].took

\* The lock modes of others on list w that do not stop r from taking its own.
ListFree(r, w, modes) ==
    \A q \in Requests \ {r} : req[q].list = w => req[q].lock \in {"none"} \cup modes

Step(r, state) == req' = [req EXCEPT ![r] = state] /\ UNCHANGED <<owner, entry, fresh>>

\* The transaction ends without a trace: 404, 409, 500, or nothing to write.
Quit(r) == Step(r, Idle)

-----------------------------------------------------------------------------
(* Requests arrive: the reads with their owner checks *)

Start(r, u, point) == [Idle EXCEPT !.pc = point, !.usr = u]

\* create_watchlist: the new row is seen by nobody before its commit.
Create(r, u, w) ==
    /\ At(r, "idle") /\ w \in fresh
    /\ owner' = [owner EXCEPT ![w] = u]
    /\ fresh' = fresh \ {w}
    /\ UNCHANGED <<entry, req>>

\* rename_watchlist and delete_watchlist: get_watchlist, 404 unless it is u's.
Rename(r, u, w) ==
    /\ At(r, "idle") /\ owner[w] = u
    /\ Step(r, [Start(r, u, "rename") EXCEPT !.list = w])

Delete(r, u, w) ==
    /\ At(r, "idle") /\ owner[w] = u
    /\ Step(r, [Start(r, u, "load") EXCEPT !.list = w])

\* add_to_watchlist: 404 unless the list is u's, 409 if the movie is in it.
Add(r, u, w, m) ==
    /\ At(r, "idle") /\ owner[w] = u
    /\ \A e \in EntriesOf(w) : entry[e].movie # m
    /\ \E e \in fresh \cap Entries :
          /\ fresh' = fresh \ {e}
          /\ req' = [req EXCEPT ![r] = [Start(r, u, "insert") EXCEPT
                                          !.list = w, !.item = e, !.movie = m]]
    /\ UNCHANGED <<owner, entry>>

\* Faulty: _get_entry without the join on the owner.
AnyEntry(u, e) == There(e)

\* _get_entry: 404 unless the entry is in a list of u.
Mine(u, e) == There(e) /\ owner[entry[e].list] = u

SetStatus(r, u, e, s) ==
    /\ At(r, "idle") /\ Mine(u, e)
    /\ Step(r, [Start(r, u, "update") EXCEPT !.item = e, !.seen = entry[e], !.new = s])

Remove(r, u, e) ==
    /\ At(r, "idle") /\ Mine(u, e)
    /\ Step(r, [Start(r, u, "remove") EXCEPT !.item = e])

-----------------------------------------------------------------------------
(* Writes *)

\* UPDATE watchlists SET name: StaleDataError if the row has gone.
RenameRow(r) ==
    LET w == req[r].list IN
    /\ At(r, "rename")
    /\ ListFree(r, w, {"shared"})
    /\ \/ owner[w] = NoUser /\ Quit(r)
       \/ owner[w] # NoUser /\ Step(r, [req[r] EXCEPT !.pc = "commit", !.lock = "held"])

\* Session.delete loads the entries, which the flush deletes one by one.
Load(r) ==
    /\ At(r, "load")
    /\ Step(r, [req[r] EXCEPT !.pc = "kids", !.kids = EntriesOf(req[r].list)])

\* DELETE of an entry, by the flush or by the foreign key; one that has gone is passed over.
DeleteKid(r, e) ==
    /\ At(r, "kids") \/ At(r, "cascade")
    /\ e \in req[r].kids
    /\ FreeEntry(r, e)
    /\ Step(r, [req[r] EXCEPT !.kids = @ \ {e}, !.took = @ \cup ({e} \cap {k \in Entries : There(k)})])

\* Faulty: the list is deleted without ON DELETE CASCADE.
DropOnly(r) ==
    LET w == req[r].list IN
    /\ At(r, "kids") /\ req[r].kids = {}
    /\ ListFree(r, w, {})
    /\ Step(r, [req[r] EXCEPT !.pc = "cascade", !.lock = "dropped"])

(* DELETE FROM watchlists: waits for those who rename the list or add to   *)
(* it.  The foreign key then takes the entries committed since the load.   *)
DropList(r) ==
    LET w == req[r].list IN
    /\ At(r, "kids") /\ req[r].kids = {}
    /\ ListFree(r, w, {})
    /\ Step(r, [req[r] EXCEPT !.pc = "cascade", !.lock = "dropped",
                              !.kids = EntriesOf(w) \ req[r].took])

\* One who adds the same movie, or deletes the list or its entry, is waited for.
InsertTurn(r) ==
    LET s == req[r] IN
    /\ At(r, "insert")
    /\ ListFree(r, s.list, {"shared", "held"})
    /\ \A q \in Requests \ {r} :
          ~(req[q].lock = "shared" /\ req[q].list = s.list /\ req[q].movie = s.movie)
    /\ \A e \in EntriesOf(s.list) : entry[e].movie = s.movie => FreeEntry(r, e)

\* IntegrityError: the list has gone, or the movie is in it by now.
Refused(r) ==
    \/ owner[req[r].list] = NoUser
    \/ \E e \in EntriesOf(req[r].list) : entry[e].movie = req[r].movie

Inserted(r) == Step(r, [req[r] EXCEPT !.pc = "commit", !.lock = "shared", !.took = {req[r].item}])

\* Faulty: a refused INSERT is tried again and again.
InsertUntilItFits(r) == InsertTurn(r) /\ ~Refused(r) /\ Inserted(r)

\* INSERT of an entry in add_to_watchlist; nothing catches its IntegrityError.
InsertEntry(r) ==
    /\ InsertTurn(r)
    /\ \/ Refused(r) /\ Quit(r)
       \/ ~Refused(r) /\ Inserted(r)

Watched(s) == s = "watched"

\* update_status writes watched_at unless it was null and stays null.
Writes(r) == req[r].new # req[r].seen.status \/ Watched(req[r].new) \/ req[r].seen.watched

\* UPDATE of an entry: no statement without a change, StaleDataError if it has gone.
UpdateEntry(r) ==
    LET e == req[r].item IN
    /\ At(r, "update")
    /\ \/ ~Writes(r) /\ Quit(r)
       \/ Writes(r) /\ FreeEntry(r, e) /\ ~There(e) /\ Quit(r)
       \/ /\ Writes(r) /\ FreeEntry(r, e) /\ There(e)
          /\ Step(r, [req[r] EXCEPT !.pc = "commit", !.took = {e}])

\* remove_from_watchlist: DELETE of an entry; one that has gone is only warned about.
RemoveEntry(r) ==
    LET e == req[r].item IN
    /\ At(r, "remove")
    /\ FreeEntry(r, e)
    /\ \/ ~There(e) /\ Quit(r)
       \/ There(e) /\ Step(r, [req[r] EXCEPT !.took = {e}, !.pc = "commit"])

-----------------------------------------------------------------------------
(* Commits *)

\* The row the ORM writes: columns that r found as they should be are left alone.
Written(r, row) ==
    LET s == req[r] IN
    [row EXCEPT !.status  = IF s.new = s.seen.status THEN @ ELSE s.new,
                !.watched = IF Watched(s.new) \/ s.seen.watched THEN Watched(s.new) ELSE @]

Deleting(r) == At(r, "cascade") \/ (At(r, "commit") /\ req[r].seen = Gone /\ req[r].lock = "none")

Value(r, e) ==
    LET s == req[r] IN
    IF Deleting(r) THEN Gone
    ELSE IF s.lock = "shared"
         THEN [list |-> s.list, movie |-> s.movie, status |-> "to_watch", watched |-> FALSE]
         ELSE Written(r, entry[e])

Commit(r) ==
    /\ At(r, "commit") \/ (At(r, "cascade") /\ req[r].kids = {})
    /\ owner' = [w \in Lists |-> IF w = req[r].list /\ req[r].lock = "dropped"
                                 THEN NoUser ELSE owner[w]]
    /\ entry' = [e \in Entries |-> IF e \in req[r].took THEN Value(r, e) ELSE entry[e]]
    /\ req' = [req EXCEPT ![r] = Idle]
    /\ UNCHANGED fresh

-----------------------------------------------------------------------------
(* Failures *)

\* get_db rolls back: the client or the worker is gone.
Abort(r) == ~At(r, "idle") /\ Quit(r)

\* Whom r waits for.
WaitsFor(r) ==
    LET s == req[r]
        next == IF s.pc \in {"kids", "cascade"} THEN s.kids
                ELSE IF s.pc \in {"update", "remove"} THEN {s.item}
                ELSE IF s.pc = "insert" THEN {e \in EntriesOf(s.list) : entry[e].movie = s.movie}
                ELSE {}
    IN
    {q \in Requests \ {r} :
        \/ next \cap req[q].took # {}
        \/ /\ req[q].list = s.list
           /\ \/ s.pc = "rename" /\ req[q].lock \in {"held", "dropped"}
              \/ s.pc = "kids" /\ s.kids = {} /\ req[q].lock # "none"
              \/ s.pc = "insert" /\ req[q].lock = "dropped"
              \/ s.pc = "insert" /\ req[q].lock = "shared" /\ req[q].movie = s.movie}

\* PostgreSQL breaks a cycle of waits.
DeadlockAbort(r) ==
    /\ \A C \in SUBSET Requests :
          WaitsFor(r) \subseteq C /\ (\A q \in C : WaitsFor(q) \subseteq C) => r \in C
    /\ Quit(r)

-----------------------------------------------------------------------------
Arrive(r) ==
    \E u \in Users :
        \/ \E w \in Lists : \/ Create(r, u, w) \/ Rename(r, u, w) \/ Delete(r, u, w)
                            \/ \E m \in Movies : Add(r, u, w, m)
        \/ \E e \in Entries : \/ Remove(r, u, e)
                              \/ \E s \in {"to_watch", "watched"} : SetStatus(r, u, e, s)

Proceed(r) ==
    \/ RenameRow(r) \/ Load(r) \/ DropList(r) \/ (\E e \in Entries : DeleteKid(r, e))
    \/ InsertEntry(r) \/ UpdateEntry(r) \/ RemoveEntry(r) \/ Commit(r)

Next == \E r \in Requests : Arrive(r) \/ Proceed(r) \/ Abort(r) \/ DeadlockAbort(r)

Spec == Init /\ [][Next]_vars

\* Waiters are served in turn and deadlocks are detected; nothing is assumed of arrivals.
Fairness ==
    /\ \A r \in Requests : SF_vars(Proceed(r))
    /\ WF_vars(\E r \in Requests : DeadlockAbort(r))

FairSpec == Spec /\ Fairness

-----------------------------------------------------------------------------
(* Properties *)

(***************************************************************************)
(* No orphan and no duplicate: an entry is in a watchlist that exists, and *)
(* a movie is at most once in a watchlist, though add_to_watchlist looks   *)
(* for both before it inserts and a delete of the list may come between.   *)
(***************************************************************************)
NoOrphans == \A e \in Entries : There(e) => owner[entry[e].list] # NoUser

NoDuplicates ==
    \A d, e \in Entries : There(d) /\ There(e) /\ entry[d].list = entry[e].list
                            /\ entry[d].movie = entry[e].movie => d = e

(* What makes them inductive.  Of the entries a request is about:          *)
Touches(r) == req[r].kids \cup req[r].took \cup {req[r].item}

\* An INSERT is under way: nobody else knows of its entry.
Inserting(r) == At(r, "insert") \/ req[r].lock = "shared"

\* Identifiers in fresh are those of no row and no request.
FreshUnused ==
    /\ \A e \in Entries \cap fresh : entry[e] = Gone
    /\ \A w \in Lists \cap fresh : owner[w] = NoUser
    /\ \A r \in Requests : Touches(r) \cap fresh = {} /\ req[r].list \notin fresh

\* What r holds at each point, and what the rows it holds are like.
Holds(r) ==
    LET s == req[r] IN
    /\ s.pc \notin {"kids", "cascade", "commit"} => s.took = {}
    /\ s.pc \notin {"cascade", "commit"} => s.lock = "none"
    /\ s.pc = "commit" => s.lock # "dropped"
    /\ s.pc = "cascade" => s.lock = "dropped" /\ EntriesOf(s.list) \subseteq s.kids \cup s.took
    /\ s.pc \in {"kids", "cascade"} =>
          \A e \in s.kids \cup s.took : There(e) => entry[e].list = s.list
    /\ s.pc = "commit" /\ s.lock = "none" => s.took = {s.item}
    /\ s.pc \in {"rename", "load", "kids", "cascade", "insert"} \/ s.lock # "none"
          => s.list \in Lists
    /\ s.pc \in {"update", "remove"} => s.item \in Entries
    /\ Inserting(r) => s.item \in Entries /\ s.movie \in Movies /\ ~There(s.item)
    /\ s.lock = "held" => s.took = {}
    /\ s.lock # "shared" => \A e \in s.took : There(e)
    /\ s.lock = "shared" =>
          /\ s.took = {s.item} /\ owner[s.list] # NoUser
          /\ \A e \in EntriesOf(s.list) : entry[e].movie # s.movie

\* The owner r has checked is still the owner, as long as the row is there.
Entitled(r) ==
    /\ req[r].list \in Lists => owner[req[r].list] \in {req[r].usr, NoUser}
    /\ \A e \in Touches(r) \cap Entries : There(e) => owner[entry[e].list] = req[r].usr

\* Rows, keys and foreign keys of two requests.
Compatible(r, q) ==
    /\ req[r].took \cap req[q].took = {}
    /\ Inserting(r) => req[r].item \notin Touches(q)
    /\ req[r].list = req[q].list =>
          /\ req[r].lock = "dropped" => req[q].lock = "none"
          /\ req[r].lock = "shared" /\ req[q].lock = "shared" => req[r].movie # req[q].movie

EntriesInv ==
    /\ TypeOK /\ NoOrphans /\ NoDuplicates /\ FreshUnused
    /\ \A r \in Requests : Holds(r) /\ Entitled(r)
    /\ \A r \in Requests : \A q \in Requests \ {r} : Compatible(r, q)

(***************************************************************************)
(* specs/002-user-auth/spec.md, FR-007: a watchlist and its entries change *)
(* only by requests of its owner, though the owner is checked by another   *)
(* statement than the one that writes.                                     *)
(***************************************************************************)
OnlyTheOwner ==
    [][/\ \A e \in Entries :
             There(e) /\ entry'[e] # entry[e]
               => \E r \in Requests : req[r].usr = owner[entry[e].list] /\ req'[r] = Idle
       /\ \A w \in Lists :
             owner[w] # NoUser /\ owner'[w] # owner[w]
               => \E r \in Requests : req[r].usr = owner[w] /\ req'[r] = Idle]_vars

(***************************************************************************)
(* The requests of Watchlists, each of several statements under READ       *)
(* COMMITTED, do what the atomic operations of WatchlistStore do: a list   *)
(* deleted by the ORM and the foreign key together goes with exactly its   *)
(* entries, and no statement that waited finds its row another's.          *)
(***************************************************************************)
Store == INSTANCE WatchlistStore

RefinesStore == Store!StoreSpec

\* Every request is answered, whatever rows, keys and foreign keys it waits for.
EveryRequestAnswered == \A r \in Requests : []<>At(r, "idle")

(***************************************************************************)
(* CONTEXT.md and test_unwatch_clears_watched_at: watched_at is set on the *)
(* transition to watched and cleared on the way back: it is set exactly in *)
(* the entries that are watched.                                           *)
(***************************************************************************)
WatchedAtMatchesStatus ==
    \A e \in Entries : entry[e].watched = Watched(entry[e].status)
=============================================================================
