---------------------------- MODULE WatchlistStore ----------------------------
(***************************************************************************)
(* What the users of the watchlists may rely on: each of their requests    *)
(* takes effect at once and as a whole, or not at all.  A deleted list     *)
(* goes with all of its entries, the ones added during the delete too, and *)
(* with nothing else; an entry never moves to another list or movie; a     *)
(* removed entry does not come back by a status update under way.          *)
(***************************************************************************)
CONSTANTS
    Users,      \* users.id
    NoUser,     \* owner of a watchlist that is not there
    Movies,     \* movies.id
    Lists,      \* watchlists.id
    Entries,    \* watchlist_entries.id
    None        \* no list, no movie

VARIABLES
    owner,      \* the owner of each watchlist, NoUser if there is none
    entry       \* each entry, Gone if there is none

svars == <<owner, entry>>

Entry(w, m, status, watched) ==
    [list |-> w, movie |-> m, status |-> status, watched |-> watched]

Gone == Entry(None, None, "to_watch", FALSE)

StoreInit ==
    /\ owner = [w \in Lists |-> NoUser]
    /\ entry = [e \in Entries |-> Gone]

\* A new watchlist is empty.
Create(w, u) ==
    /\ owner[w] = NoUser
    /\ owner' = [owner EXCEPT ![w] = u]
    /\ \A e \in Entries : entry[e].list # w
    /\ UNCHANGED entry

Drop(w) ==
    /\ owner[w] # NoUser
    /\ owner' = [owner EXCEPT ![w] = NoUser]
    /\ entry' = [e \in Entries |-> IF entry[e].list = w THEN Gone ELSE entry[e]]

\* A movie is added to a list that is there and does not have it.
Put(e, w, m) ==
    /\ entry[e] = Gone /\ owner[w] # NoUser
    /\ \A d \in Entries : ~(entry[d].list = w /\ entry[d].movie = m)
    /\ entry' = [entry EXCEPT ![e] = Entry(w, m, "to_watch", FALSE)]
    /\ UNCHANGED owner

\* Only what is said of the movie changes.
Mark(e, status, watched) ==
    /\ entry[e] # Gone
    /\ entry' = [entry EXCEPT ![e] = Entry(entry[e].list, entry[e].movie, status, watched)]
    /\ UNCHANGED owner

TakeOut(e) ==
    /\ entry[e] # Gone
    /\ entry' = [entry EXCEPT ![e] = Gone]
    /\ UNCHANGED owner

StoreNext ==
    \/ \E w \in Lists : Drop(w) \/ (\E u \in Users : Create(w, u))
    \/ \E e \in Entries :
          \/ \E w \in Lists, m \in Movies : Put(e, w, m)
          \/ \E status \in {"to_watch", "watched"}, watched \in BOOLEAN : Mark(e, status, watched)
          \/ TakeOut(e)

StoreSpec == StoreInit /\ [][StoreNext]_svars
===============================================================================
