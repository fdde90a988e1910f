-------------------------- MODULE WatchlistsProofs --------------------------
(***************************************************************************)
(* Proofs about Watchlists, for every set of users, movies, lists, entries *)
(* and requests: its inductive invariant EntriesInv, that watchlists and   *)
(* entries change only by requests of their owner, and that the requests   *)
(* implement WatchlistStore.                                               *)
(***************************************************************************)
EXTENDS Watchlists, TLAPS

ReqState == [pc : PC, usr : Users \cup {NoUser}, list : Lists \cup {None},
             item : Entries \cup {None}, movie : Movies \cup {None}, seen : Row \cup {Gone},
             new : {"to_watch", "watched"}, kids : SUBSET Entries, took : SUBSET Entries,
             lock : {"none", "shared", "held", "dropped"}]

\* The pieces of the invariant that the proofs below cite most.
LEMMA Types ==
  ASSUME EntriesInv
  PROVE  /\ NoUser \notin Users /\ None \notin Lists /\ None \notin Entries /\ None \notin Movies
         /\ owner \in [Lists -> Users \cup {NoUser}]
         /\ entry \in [Entries -> Row \cup {Gone}]
         /\ fresh \subseteq Lists \cup Entries
         /\ req \in [Requests -> ReqState]
         /\ \A r \in Requests : Holds(r) /\ Entitled(r)
         /\ \A r \in Requests : Touches(r) \cap fresh = {} /\ req[r].list \notin fresh
         /\ \A r \in Requests : \A q \in Requests \ {r} : Compatible(r, q)
  BY WatchlistsAssumption DEF WatchlistsAssumption, EntriesInv, TypeOK, ReqState, FreshUnused

\* A row and its absence are told apart by the list.
LEMMA Rows ==
  ASSUME EntriesInv
  PROVE  /\ Gone.list = None /\ Gone \notin Row
         /\ \A e \in Entries : /\ There(e) <=> entry[e] \in Row
                               /\ There(e) <=> entry[e].list \in Lists
                               /\ There(e) => owner[entry[e].list] # NoUser
         /\ \A w \in Lists : \A e \in EntriesOf(w) : There(e) /\ e \in Entries
         /\ \A e \in Entries \cap fresh : ~There(e)
<1>1. Gone.list = None
  BY DEF Gone
<1>2. \A row \in Row : row.list \in Lists /\ row.movie \in Movies
  BY DEF Row
<1>3. Gone \notin Row
  BY <1>1, <1>2, Types
<1>4. \A e \in Entries : There(e) <=> entry[e] \in Row
  BY <1>3, Types DEF There
<1>5. \A e \in Entries : There(e) <=> entry[e].list \in Lists
  BY <1>1, <1>2, <1>4, Types DEF There
<1>6. \A w \in Lists : \A e \in EntriesOf(w) : There(e) /\ e \in Entries
  BY <1>5 DEF EntriesOf
<1> QED  BY <1>1, <1>3, <1>4, <1>5, <1>6 DEF EntriesInv, NoOrphans, FreshUnused, There

LEMMA IdleIs ==
         /\ Idle \in ReqState /\ Idle.pc = "idle" /\ Idle.list = None /\ Idle.item = None
         /\ Idle.kids = {} /\ Idle.took = {} /\ Idle.lock = "none" /\ Idle.usr = NoUser
         /\ Idle.seen = Gone
  BY DEF Idle, ReqState, PC

\* A request as it arrives.
LEMMA StartIs ==
  ASSUME NEW r, NEW u \in Users, NEW point \in PC
  PROVE  LET s == Start(r, u, point) IN
         /\ s \in ReqState /\ s.pc = point /\ s.usr = u /\ s.list = None /\ s.item = None
         /\ s.kids = {} /\ s.took = {} /\ s.lock = "none"
  BY IdleIs DEF Start, ReqState

(***************************************************************************)
(* A step of request r within its transaction keeps the invariant if it    *)
(* keeps what the invariant says of r, alone and beside each other one.    *)
(***************************************************************************)
LEMMA LocalStep ==
  ASSUME EntriesInv, NEW r \in Requests, req' \in [Requests -> ReqState],
         \A q \in Requests \ {r} : req'[q] = req[q],
         UNCHANGED <<owner, entry>>, fresh' \subseteq fresh,
         Holds(r)', Entitled(r)',
         Touches(r)' \cap fresh' = {}, req'[r].list \notin fresh',
         \A q \in Requests \ {r} : Compatible(r, q)' /\ Compatible(q, r)'
  PROVE  EntriesInv'
<1> USE Types
<1>1. TypeOK'
  BY DEF EntriesInv, TypeOK, ReqState
<1>2. NoOrphans' /\ NoDuplicates'
  BY DEF EntriesInv, NoOrphans, NoDuplicates, There
<1>3. \A q \in Requests \ {r} : Touches(q)' = Touches(q)
  BY DEF Touches
<1>4. FreshUnused'
  <2>1. /\ \A e \in Entries \cap fresh' : entry'[e] = Gone
        /\ \A w \in Lists \cap fresh' : owner'[w] = NoUser
    BY DEF EntriesInv, FreshUnused
  <2>2. \A q \in Requests : Touches(q)' \cap fresh' = {} /\ req'[q].list \notin fresh'
    BY <1>3
  <2> QED  BY <2>1, <2>2 DEF FreshUnused
<1>5. ASSUME NEW q \in Requests \ {r} PROVE Holds(q)' /\ Entitled(q)'
  <2>1. Holds(q)'
    BY DEF Holds, Inserting, At, There, EntriesOf
  <2>2. Entitled(q)'
    BY <1>3 DEF Entitled, There
  <2> QED  BY <2>1, <2>2
<1>6. ASSUME NEW q \in Requests, NEW p \in Requests \ {q} PROVE Compatible(q, p)'
  <2>1. CASE q # r /\ p # r
    BY <1>3, <2>1 DEF Compatible, Inserting, At
  <2> QED  BY <2>1
<1> QED  BY <1>1, <1>2, <1>4, <1>5, <1>6 DEF EntriesInv

\* A request that holds nothing is in nobody's way.
LEMMA Harmless ==
  ASSUME EntriesInv, NEW r \in Requests, NEW q \in Requests \ {r}, req'[q] = req[q],
         req'[r].took = {}, req'[r].lock = "none", req'[r].pc # "insert",
         \A e \in Touches(r)' \cap Entries : e \in Touches(r) \/ There(e)
  PROVE  Compatible(r, q)' /\ Compatible(q, r)'
<1> USE Types
<1>1. Compatible(r, q)'
  BY DEF Compatible, Inserting, At
<1>2. Inserting(q) => req[q].item \in Entries /\ ~There(req[q].item)
                      /\ req[q].item \notin Touches(r)
  BY DEF Holds, Compatible
<1>3. Compatible(q, r)'
  BY <1>2 DEF Compatible, Inserting, At
<1> QED  BY <1>1, <1>3

-----------------------------------------------------------------------------
(* One lemma per step *)

\* The transaction is over, and nothing is left of it.
LEMMA QuitStep ==
  ASSUME EntriesInv, NEW r \in Requests, Quit(r)
  PROVE  EntriesInv'
<1> USE Types, IdleIs
<1>1. /\ req' \in [Requests -> ReqState] /\ req'[r] = Idle
      /\ \A q \in Requests \ {r} : req'[q] = req[q]
      /\ UNCHANGED <<owner, entry>> /\ fresh' = fresh
  BY DEF Quit, Step
<1>2. Touches(r)' = {None}
  BY <1>1 DEF Touches
<1>3. Holds(r)'
  BY <1>1 DEF Holds, Inserting, At
<1>4. Entitled(r)'
  BY <1>1, <1>2 DEF Entitled
<1>5. \A q \in Requests \ {r} : Compatible(r, q)' /\ Compatible(q, r)'
  BY <1>1, <1>2, Harmless
<1>6. None \notin fresh /\ req'[r].list = None
  BY <1>1
<1> QED  BY <1>1, <1>2, <1>3, <1>4, <1>5, <1>6, LocalStep

\* Rename and Delete begin: a watchlist that is u's.
LEMMA ListStep ==
  ASSUME EntriesInv, NEW r \in Requests, NEW u \in Users, NEW w \in Lists,
         Rename(r, u, w) \/ Delete(r, u, w)
  PROVE  EntriesInv'
<1> USE Types
<1>1. PICK point \in {"rename", "load"} : Step(r, [Start(r, u, point) EXCEPT !.list = w])
  BY DEF Rename, Delete
<1>2. owner[w] = u /\ w \notin fresh
  BY DEF Rename, Delete, EntriesInv, FreshUnused
<1> DEFINE s == [Start(r, u, point) EXCEPT !.list = w]
<1>3. /\ s \in ReqState /\ s.pc = point /\ s.usr = u /\ s.list = w /\ s.item = None
      /\ s.kids = {} /\ s.took = {} /\ s.lock = "none"
  BY StartIs DEF ReqState, PC
<1>4. req' = [req EXCEPT ![r] = s] /\ UNCHANGED <<owner, entry>> /\ fresh' = fresh
  BY <1>1 DEF Step
<1> HIDE DEF s
<1>5. /\ req' \in [Requests -> ReqState] /\ req'[r] = s
      /\ \A q \in Requests \ {r} : req'[q] = req[q]
  BY <1>3, <1>4
<1>6. Touches(r)' = {None}
  BY <1>3, <1>5 DEF Touches
<1>7. Holds(r)'
  BY <1>3, <1>5 DEF Holds, Inserting, At
<1>8. Entitled(r)'
  BY <1>2, <1>3, <1>4, <1>5, <1>6 DEF Entitled
<1>9. \A q \in Requests \ {r} : Compatible(r, q)' /\ Compatible(q, r)'
  BY <1>3, <1>5, <1>6, Harmless
<1> QED  BY <1>2, <1>3, <1>4, <1>5, <1>6, <1>7, <1>8, <1>9, LocalStep

\* SetStatus and Remove begin: an entry in a watchlist of u.
LEMMA EntryStep ==
  ASSUME EntriesInv, NEW r \in Requests, NEW u \in Users, NEW e \in Entries,
         \/ Remove(r, u, e)
         \/ \E new \in {"to_watch", "watched"} : SetStatus(r, u, e, new)
  PROVE  EntriesInv'
<1> USE Types
<1>1. There(e) /\ owner[entry[e].list] = u /\ entry[e] \in Row /\ e \notin fresh
  BY Rows DEF Remove, SetStatus, Mine
<1>2. PICK s \in ReqState :
         /\ Step(r, s)
         /\ s.pc \in {"update", "remove"} /\ s.usr = u /\ s.list = None /\ s.item = e
         /\ s.kids = {} /\ s.took = {} /\ s.lock = "none"
  <2>1. CASE Remove(r, u, e)
    <3> DEFINE s == [Start(r, u, "remove") EXCEPT !.item = e]
    <3>1. /\ s \in ReqState /\ s.pc = "remove" /\ s.usr = u /\ s.list = None /\ s.item = e
          /\ s.kids = {} /\ s.took = {} /\ s.lock = "none"
      BY StartIs DEF ReqState, PC
    <3>2. Step(r, s)
      BY <2>1 DEF Remove
    <3> HIDE DEF s
    <3> QED  BY <3>1, <3>2
  <2>2. ASSUME NEW new \in {"to_watch", "watched"}, SetStatus(r, u, e, new)
        PROVE  \E s \in ReqState :
                  /\ Step(r, s)
                  /\ s.pc \in {"update", "remove"} /\ s.usr = u /\ s.list = None
                  /\ s.item = e /\ s.kids = {} /\ s.took = {} /\ s.lock = "none"
    <3> DEFINE s == [Start(r, u, "update") EXCEPT !.item = e, !.seen = entry[e], !.new = new]
    <3>1. /\ s \in ReqState /\ s.pc = "update" /\ s.usr = u /\ s.list = None /\ s.item = e
          /\ s.kids = {} /\ s.took = {} /\ s.lock = "none"
      <4> DEFINE t == Start(r, u, "update")
      <4>1. /\ t \in ReqState /\ t.pc = "update" /\ t.usr = u /\ t.list = None
            /\ t.kids = {} /\ t.took = {} /\ t.lock = "none"
        BY StartIs DEF PC
      <4>2. entry[e] \in Row \cup {Gone} /\ e \in Entries \cup {None}
        BY <1>1
      <4> HIDE DEF t
      <4>3. [t EXCEPT !.item = e, !.seen = entry[e], !.new = new] \in ReqState
        BY <4>1, <4>2, <2>2 DEF ReqState
      <4> QED  BY <4>1, <4>3 DEF t, ReqState
    <3>2. Step(r, s)
      BY <2>2 DEF SetStatus
    <3> HIDE DEF s
    <3> QED  BY <3>1, <3>2
  <2> QED  BY <2>1, <2>2
<1>3. /\ req' \in [Requests -> ReqState] /\ req'[r] = s
      /\ \A q \in Requests \ {r} : req'[q] = req[q]
      /\ UNCHANGED <<owner, entry>> /\ fresh' = fresh
  BY <1>2 DEF Step
<1>4. Touches(r)' = {e}
  BY <1>2, <1>3 DEF Touches
<1>5. Holds(r)'
  BY <1>2, <1>3 DEF Holds, Inserting, At
<1>6. Entitled(r)'
  BY <1>1, <1>2, <1>3, <1>4 DEF Entitled, There
<1>7. \A q \in Requests \ {r} : Compatible(r, q)' /\ Compatible(q, r)'
  BY <1>1, <1>2, <1>3, <1>4, Harmless
<1>8. None \notin fresh
  OBVIOUS
<1> QED  BY <1>1, <1>2, <1>3, <1>4, <1>5, <1>6, <1>7, <1>8, LocalStep

\* Add begins: its entry is one that nobody knows of.
LEMMA AddStep ==
  ASSUME EntriesInv, NEW r \in Requests, NEW u \in Users, NEW w \in Lists, NEW m \in Movies,
         Add(r, u, w, m)
  PROVE  EntriesInv'
<1> USE Types
<1>1. PICK e \in fresh \cap Entries :
         /\ fresh' = fresh \ {e}
         /\ req' = [req EXCEPT ![r] = [Start(r, u, "insert") EXCEPT
                                         !.list = w, !.item = e, !.movie = m]]
  BY DEF Add
<1>2. /\ owner[w] = u /\ w \notin fresh /\ UNCHANGED <<owner, entry>> /\ ~There(e)
  BY Rows DEF Add, EntriesInv, FreshUnused
<1> DEFINE t == Start(r, u, "insert")
           s == [t EXCEPT !.list = w, !.item = e, !.movie = m]
<1>3. /\ t \in ReqState /\ t.pc = "insert" /\ t.usr = u /\ t.kids = {} /\ t.took = {}
      /\ t.lock = "none"
  BY StartIs DEF PC
<1>4. req' = [req EXCEPT ![r] = s]
  BY <1>1
<1> HIDE DEF t
<1>5. /\ s \in ReqState /\ s.pc = "insert" /\ s.usr = u /\ s.list = w /\ s.item = e
      /\ s.movie = m /\ s.kids = {} /\ s.took = {} /\ s.lock = "none"
  BY <1>3 DEF ReqState
<1> HIDE DEF s
<1>6. /\ req' \in [Requests -> ReqState] /\ req'[r] = s
      /\ \A q \in Requests \ {r} : req'[q] = req[q]
  BY <1>4, <1>5
<1>7. Touches(r)' = {e}
  BY <1>5, <1>6 DEF Touches
<1>8. Holds(r)'
  BY <1>2, <1>5, <1>6 DEF Holds, Inserting, At, There
<1>9. Entitled(r)'
  BY <1>2, <1>5, <1>6, <1>7 DEF Entitled, There
<1>10. ASSUME NEW q \in Requests \ {r} PROVE Compatible(r, q)' /\ Compatible(q, r)'
  <2>1. e \notin Touches(q) /\ Touches(q)' = Touches(q)
    BY <1>6 DEF Touches
  <2>2. Compatible(r, q)'
    BY <1>5, <1>6, <2>1 DEF Compatible, Inserting, At
  <2>3. req[q].item # e
    BY <2>1 DEF Touches
  <2>4. Compatible(q, r)'
    BY <1>5, <1>6, <1>7, <2>3 DEF Compatible, Inserting, At
  <2> QED  BY <2>2, <2>4
<1>11. Touches(r)' \cap fresh' = {} /\ req'[r].list \notin fresh' /\ fresh' \subseteq fresh
  BY <1>1, <1>2, <1>5, <1>6, <1>7
<1> QED  BY <1>2, <1>6, <1>8, <1>9, <1>10, <1>11, LocalStep

\* A new watchlist: nobody is about it yet.
LEMMA CreateStep ==
  ASSUME EntriesInv, NEW r \in Requests, NEW u \in Users, NEW w \in Lists, Create(r, u, w)
  PROVE  EntriesInv'
<1> USE Types
<1>1. /\ owner' = [owner EXCEPT ![w] = u] /\ fresh' = fresh \ {w} /\ w \in fresh
      /\ UNCHANGED <<entry, req>> /\ owner[w] = NoUser
  BY DEF Create, EntriesInv, FreshUnused
<1>2. TypeOK'
  BY <1>1 DEF EntriesInv, TypeOK
<1>3. \A e \in Entries : There(e) => entry[e].list # w /\ entry[e].list \in Lists
  BY <1>1, Rows
<1>4. NoOrphans' /\ NoDuplicates'
  BY <1>1, <1>3 DEF EntriesInv, NoOrphans, NoDuplicates, There
<1>5. FreshUnused'
  BY <1>1 DEF EntriesInv, FreshUnused, Touches
<1>6. ASSUME NEW q \in Requests PROVE Holds(q)' /\ Entitled(q)'
  <2>1. req[q].list # w
    BY <1>1
  <2>2. Holds(q)'
    BY <1>1, <2>1 DEF Holds, Inserting, At, There, EntriesOf
  <2>3. Entitled(q)'
    BY <1>1, <1>3, <2>1 DEF Entitled, There, Touches
  <2> QED  BY <2>2, <2>3
<1>7. \A q \in Requests : \A p \in Requests \ {q} : Compatible(q, p)'
  BY <1>1 DEF Compatible, Inserting, At, Touches
<1> QED  BY <1>2, <1>4, <1>5, <1>6, <1>7 DEF EntriesInv

\* What a request is about stays the same while it proceeds.
About(s, t) == s.usr = t.usr /\ s.list = t.list /\ s.item = t.item /\ s.movie = t.movie

\* A request that proceeds comes to know of entries that are there, and of no others.
LEMMA Proceeds ==
  ASSUME EntriesInv, NEW r \in Requests, NEW s \in ReqState, Step(r, s), About(s, req[r]),
         \A e \in s.kids \cup s.took :
            e \in Touches(r) \/ (There(e) /\ owner[entry[e].list] = s.usr)
  PROVE  /\ req' \in [Requests -> ReqState] /\ req'[r] = s
         /\ \A q \in Requests \ {r} : req'[q] = req[q] /\ Touches(q)' = Touches(q)
         /\ UNCHANGED <<owner, entry>> /\ fresh' = fresh
         /\ Touches(r)' = s.kids \cup s.took \cup {req[r].item}
         /\ \A e \in Touches(r)' \cap Entries : e \in Touches(r) \/ There(e)
         /\ Touches(r)' \cap fresh' = {} /\ req'[r].list \notin fresh' /\ Entitled(r)'
<1> USE Types
<1>1. /\ req' \in [Requests -> ReqState] /\ req'[r] = s
      /\ \A q \in Requests \ {r} : req'[q] = req[q]
      /\ UNCHANGED <<owner, entry>> /\ fresh' = fresh
  BY DEF Step
<1>2. \A q \in Requests \ {r} : Touches(q)' = Touches(q)
  BY <1>1 DEF Touches
<1>3. Touches(r)' = s.kids \cup s.took \cup {req[r].item}
  BY <1>1 DEF Touches, About
<1>4. req[r].item \in Touches(r) /\ s.kids \subseteq Entries /\ s.took \subseteq Entries
  BY DEF Touches, ReqState
<1>5. \A e \in Touches(r)' : e \in Touches(r)
                             \/ (e \in Entries /\ There(e) /\ owner[entry[e].list] = s.usr)
  BY <1>3, <1>4
<1>6. Touches(r)' \cap fresh' = {}
  <2>1. \A e \in Entries : There(e) => e \notin fresh
    BY Rows
  <2> QED  BY <1>1, <1>5, <2>1
<1>7. Entitled(r)'
  BY <1>1, <1>5 DEF Entitled, There, About
<1> QED  BY <1>1, <1>2, <1>3, <1>5, <1>6, <1>7 DEF About

LEMMA RenameStep ==
  ASSUME EntriesInv, NEW r \in Requests, RenameRow(r)
  PROVE  EntriesInv'
<1> USE Types
<1>1. CASE Quit(r)
  BY <1>1, QuitStep
<1>2. CASE Step(r, [req[r] EXCEPT !.pc = "commit", !.lock = "held"])
  <2>1. req[r].pc = "rename" /\ req[r].took = {} /\ req[r].list \in Lists
    BY DEF RenameRow, At, Holds
  <2> DEFINE t == req[r]
             s == [t EXCEPT !.pc = "commit", !.lock = "held"]
  <2>2. Step(r, s) /\ t \in ReqState /\ t.took = {}
    BY <1>2, <2>1
  <2> HIDE DEF t
  <2>3. /\ s \in ReqState /\ About(s, t) /\ s.pc = "commit" /\ s.lock = "held"
        /\ s.kids = t.kids /\ s.took = {}
    BY <2>2 DEF ReqState, PC, About
  <2> HIDE DEF s
  <2>4. /\ req' \in [Requests -> ReqState] /\ req'[r] = s
        /\ \A q \in Requests \ {r} : req'[q] = req[q] /\ Touches(q)' = Touches(q)
        /\ UNCHANGED <<owner, entry>> /\ fresh' = fresh
        /\ Touches(r)' \cap fresh' = {} /\ req'[r].list \notin fresh' /\ Entitled(r)'
        /\ Touches(r)' \subseteq Touches(r)
    <3>1. About(s, req[r]) /\ s.kids \cup s.took \subseteq Touches(r)
      BY <2>3 DEF t, Touches
    <3> QED  BY <2>2, <2>3, <3>1, Proceeds DEF Touches
  <2>5. Holds(r)'
    BY <2>1, <2>3, <2>4 DEF Holds, Inserting, At, About, t
  <2>6. ASSUME NEW q \in Requests \ {r} PROVE Compatible(r, q)' /\ Compatible(q, r)'
    <3>1. req[q].list = req[r].list => req[q].lock \in {"none", "shared"}
      BY DEF RenameRow, ListFree
    <3>2. Compatible(r, q)'
      BY <2>3, <2>4 DEF Compatible, Inserting, At
    <3>3. Compatible(q, r)'
      BY <2>3, <2>4, <3>1 DEF Compatible, Inserting, At, About, t
    <3> QED  BY <3>2, <3>3
  <2> QED  BY <2>4, <2>5, <2>6, LocalStep
<1> QED  BY <1>1, <1>2 DEF RenameRow

LEMMA LoadStep ==
  ASSUME EntriesInv, NEW r \in Requests, Load(r)
  PROVE  EntriesInv'
<1> USE Types
<1>1. req[r].pc = "load" /\ req[r].took = {} /\ req[r].lock = "none" /\ req[r].list \in Lists
  BY DEF Load, At, Holds
<1> DEFINE t == req[r]
           kids == EntriesOf(t.list)
           s == [t EXCEPT !.pc = "kids", !.kids = kids]
<1>2. /\ s \in ReqState /\ About(s, req[r]) /\ s.pc = "kids" /\ s.lock = "none"
      /\ s.kids = EntriesOf(req[r].list) /\ s.took = {}
  <2>1. t \in ReqState /\ kids \in SUBSET Entries
    BY DEF EntriesOf
  <2> HIDE DEF t, kids
  <2>2. /\ s \in ReqState /\ About(s, t) /\ s.pc = "kids" /\ s.lock = t.lock
        /\ s.kids = kids /\ s.took = t.took
    BY <2>1 DEF ReqState, PC, About
  <2> HIDE DEF s
  <2> QED  BY <1>1, <2>2 DEF t, kids
<1>3. Step(r, s)
  BY DEF Load
<1> HIDE DEF s
<1>4. \A e \in s.kids \cup s.took : There(e) /\ owner[entry[e].list] = s.usr
  <2>1. \A e \in EntriesOf(req[r].list) :
           There(e) /\ entry[e].list = req[r].list /\ owner[req[r].list] # NoUser
    BY <1>1, Rows DEF EntriesOf
  <2>2. owner[req[r].list] \in {req[r].usr, NoUser}
    BY <1>1 DEF Entitled
  <2> QED  BY <1>2, <2>1, <2>2 DEF About
<1>5. /\ req' \in [Requests -> ReqState] /\ req'[r] = s
      /\ \A q \in Requests \ {r} : req'[q] = req[q]
      /\ UNCHANGED <<owner, entry>> /\ fresh' = fresh
      /\ Touches(r)' \cap fresh' = {} /\ req'[r].list \notin fresh' /\ Entitled(r)'
      /\ \A e \in Touches(r)' \cap Entries : e \in Touches(r) \/ There(e)
  BY <1>2, <1>3, <1>4, Proceeds
<1>6. Holds(r)'
  <2>1. \A e \in s.kids \cup s.took : entry[e].list = s.list
    BY <1>2 DEF EntriesOf, About
  <2> QED  BY <1>1, <1>2, <1>5, <2>1 DEF Holds, Inserting, At, About, There
<1>7. \A q \in Requests \ {r} : Compatible(r, q)' /\ Compatible(q, r)'
  BY <1>2, <1>5, Harmless
<1> QED  BY <1>5, <1>6, <1>7, LocalStep

LEMMA DeleteKidStep ==
  ASSUME EntriesInv, NEW r \in Requests, NEW e \in Entries, DeleteKid(r, e)
  PROVE  EntriesInv'
<1> USE Types
<1> DEFINE took == req[r].took \cup ({e} \cap {k \in Entries : There(k)})
           kids == req[r].kids \ {e}
           t == req[r]
           s == [t EXCEPT !.kids = kids, !.took = took]
<1>1. /\ req[r].pc \in {"kids", "cascade"} /\ e \in req[r].kids /\ req[r].lock \in {"none", "dropped"}
      /\ req[r].list \in Lists /\ \A k \in req[r].took : There(k)
  BY DEF DeleteKid, At, Holds
<1>2. /\ s \in ReqState /\ About(s, req[r]) /\ s.pc = req[r].pc /\ s.lock = req[r].lock
      /\ s.kids = req[r].kids \ {e} /\ s.took = took
  <2>1. t \in ReqState /\ kids \in SUBSET Entries /\ took \in SUBSET Entries
    BY DEF ReqState
  <2> HIDE DEF t, kids, took
  <2>2. /\ s \in ReqState /\ About(s, t) /\ s.pc = t.pc /\ s.lock = t.lock
        /\ s.kids = kids /\ s.took = took
    BY <2>1 DEF ReqState, About
  <2> HIDE DEF s
  <2> QED  BY <2>2 DEF t, kids
<1>3. Step(r, s)
  BY DEF DeleteKid
<1> HIDE DEF s
<1>4. s.kids \cup s.took \subseteq Touches(r)
  BY <1>1, <1>2 DEF Touches
<1> HIDE DEF t, kids, took
<1>5. /\ req' \in [Requests -> ReqState] /\ req'[r] = s
      /\ \A q \in Requests \ {r} : req'[q] = req[q] /\ Touches(q)' = Touches(q)
      /\ UNCHANGED <<owner, entry>> /\ fresh' = fresh
      /\ Touches(r)' \cap fresh' = {} /\ req'[r].list \notin fresh' /\ Entitled(r)'
      /\ Touches(r)' \subseteq Touches(r)
  BY <1>2, <1>3, <1>4, Proceeds DEF Touches
<1>6. Holds(r)'
  <2>1. \A k \in took : There(k)
    BY <1>1 DEF took
  <2>2. req[r].pc = "cascade" => /\ req[r].lock = "dropped"
                                 /\ EntriesOf(req[r].list) \subseteq s.kids \cup took
    <3>1. \A k \in EntriesOf(req[r].list) : There(k) /\ k \in Entries
      BY <1>1, Rows
    <3>2. req[r].pc = "cascade" =>
             req[r].lock = "dropped" /\ EntriesOf(req[r].list) \subseteq req[r].kids \cup req[r].took
      BY DEF Holds
    <3> QED  BY <1>2, <3>1, <3>2 DEF took
  <2>3. req[r].pc = "kids" => req[r].lock = "none"
    BY DEF Holds
  <2>4. UNCHANGED There(e) /\ EntriesOf(req[r].list)' = EntriesOf(s.list) /\ s.list = req[r].list
    BY <1>2, <1>5 DEF There, EntriesOf, About
  <2>5. \A k \in s.kids \cup s.took : There(k) => entry[k].list = s.list
    <3>1. \A k \in req[r].kids \cup req[r].took : There(k) => entry[k].list = req[r].list
      BY <1>1 DEF Holds
    <3> QED  BY <1>1, <1>2, <2>4, <3>1 DEF took
  <2> QED  BY <1>1, <1>2, <1>5, <2>1, <2>2, <2>3, <2>4, <2>5
           DEF Holds, Inserting, At, There, EntriesOf
<1>7. ASSUME NEW q \in Requests \ {r} PROVE Compatible(r, q)' /\ Compatible(q, r)'
  <2>1. e \notin req[q].took
    BY DEF DeleteKid, FreeEntry
  <2>2. took \cap req[q].took = {}
    BY <2>1 DEF took, Compatible
  <2>3. Compatible(r, q)'
    BY <1>1, <1>2, <1>5, <2>2 DEF Compatible, Inserting, At, About
  <2>4. Compatible(q, r)'
    BY <1>1, <1>2, <1>5, <2>2 DEF Compatible, Inserting, At, About
  <2> QED  BY <2>3, <2>4
<1> QED  BY <1>5, <1>6, <1>7, LocalStep

LEMMA DropListStep ==
  ASSUME EntriesInv, NEW r \in Requests, DropList(r)
  PROVE  EntriesInv'
<1> USE Types
<1> DEFINE w == req[r].list
           kids == EntriesOf(w) \ req[r].took
           t == req[r]
           s == [t EXCEPT !.pc = "cascade", !.lock = "dropped", !.kids = kids]
<1>1. /\ req[r].pc = "kids" /\ w \in Lists /\ req[r].lock = "none"
      /\ \A k \in req[r].took : There(k)
  BY DEF DropList, At, Holds
<1>2. /\ s \in ReqState /\ About(s, req[r]) /\ s.pc = "cascade" /\ s.lock = "dropped"
      /\ s.kids = kids /\ s.took = req[r].took
  <2>1. t \in ReqState /\ kids \in SUBSET Entries
    BY DEF EntriesOf
  <2> HIDE DEF t, kids
  <2>2. /\ s \in ReqState /\ About(s, t) /\ s.pc = "cascade" /\ s.lock = "dropped"
        /\ s.kids = kids /\ s.took = t.took
    BY <2>1 DEF ReqState, PC, About
  <2> HIDE DEF s
  <2> QED  BY <2>2 DEF t
<1>3. Step(r, s)
  BY DEF DropList
<1> HIDE DEF s
<1>4. \A e \in EntriesOf(w) : There(e) /\ owner[entry[e].list] = req[r].usr
  <2>1. \A e \in EntriesOf(w) : There(e) /\ entry[e].list = w /\ owner[w] # NoUser
    BY <1>1, Rows DEF EntriesOf
  <2>2. owner[w] \in {req[r].usr, NoUser}
    BY <1>1 DEF Entitled
  <2> QED  BY <2>1, <2>2
<1>5. \A e \in s.kids \cup s.took :
         e \in Touches(r) \/ (There(e) /\ owner[entry[e].list] = s.usr)
  BY <1>2, <1>4 DEF Touches, About
<1>6. /\ req' \in [Requests -> ReqState] /\ req'[r] = s
      /\ \A q \in Requests \ {r} : req'[q] = req[q] /\ Touches(q)' = Touches(q)
      /\ UNCHANGED <<owner, entry>> /\ fresh' = fresh
      /\ Touches(r)' \cap fresh' = {} /\ req'[r].list \notin fresh' /\ Entitled(r)'
      /\ \A e \in Touches(r)' \cap Entries : e \in Touches(r) \/ There(e)
  BY <1>2, <1>3, <1>5, Proceeds
<1>7. Holds(r)'
  BY <1>1, <1>2, <1>6 DEF Holds, Inserting, At, There, EntriesOf, About
<1>8. ASSUME NEW q \in Requests \ {r} PROVE Compatible(r, q)' /\ Compatible(q, r)'
  <2>1. req[q].list = w => req[q].lock = "none"
    BY DEF DropList, ListFree
  <2>2. Compatible(r, q)'
    BY <1>2, <1>6, <2>1 DEF Compatible, Inserting, At, About
  <2>3. Inserting(q) => req[q].item \in Entries /\ ~There(req[q].item) /\ req[q].item \notin Touches(r)
    BY DEF Holds, Compatible
  <2>4. Compatible(q, r)'
    BY <1>2, <1>6, <2>1, <2>3 DEF Compatible, Inserting, At, About
  <2> QED  BY <2>2, <2>4
<1> QED  BY <1>6, <1>7, <1>8, LocalStep

LEMMA InsertStep ==
  ASSUME EntriesInv, NEW r \in Requests, InsertEntry(r)
  PROVE  EntriesInv'
<1> USE Types
<1>1. CASE Quit(r)
  BY <1>1, QuitStep
<1>2. CASE ~Refused(r) /\ Inserted(r)
  <2> DEFINE t == req[r]
             s == [t EXCEPT !.pc = "commit", !.lock = "shared", !.took = {t.item}]
  <2>1. /\ t.pc = "insert" /\ t.took = {} /\ t.list \in Lists
        /\ t.item \in Entries /\ t.movie \in Movies /\ ~There(t.item)
    BY DEF InsertEntry, InsertTurn, At, Holds, Inserting
  <2>2. Step(r, s) /\ t \in ReqState
    BY <1>2 DEF Inserted
  <2> HIDE DEF t
  <2>3. /\ s \in ReqState /\ About(s, t) /\ s.pc = "commit" /\ s.lock = "shared"
        /\ s.kids = t.kids /\ s.took = {t.item}
    BY <2>1, <2>2 DEF ReqState, PC, About
  <2> HIDE DEF s
  <2>4. /\ req' \in [Requests -> ReqState] /\ req'[r] = s
        /\ \A q \in Requests \ {r} : req'[q] = req[q] /\ Touches(q)' = Touches(q)
        /\ UNCHANGED <<owner, entry>> /\ fresh' = fresh
        /\ Touches(r)' \cap fresh' = {} /\ req'[r].list \notin fresh' /\ Entitled(r)'
        /\ Touches(r)' \subseteq Touches(r)
    <3>1. About(s, req[r]) /\ s.kids \cup s.took \subseteq Touches(r)
      BY <2>3 DEF t, Touches
    <3> QED  BY <2>2, <2>3, <3>1, Proceeds DEF Touches
  <2>5. Holds(r)'
    <3>1. owner[t.list] # NoUser /\ \A e \in EntriesOf(t.list) : entry[e].movie # t.movie
      BY <1>2 DEF Refused, t
    <3>2. /\ s.list = t.list /\ s.item = t.item /\ s.movie = t.movie
          /\ \A e \in Entries : entry[e].list = t.list => entry[e].movie # t.movie
      BY <2>3, <3>1 DEF About, EntriesOf
    <3> QED  BY <2>1, <2>3, <2>4, <3>1, <3>2 DEF Holds, Inserting, At, There, EntriesOf
  <2>6. ASSUME NEW q \in Requests \ {r} PROVE Compatible(r, q)' /\ Compatible(q, r)'
    <3>1. t.item \notin Touches(q)
      BY <2>1 DEF Compatible, Inserting, At, t
    <3>2. /\ req[q].list = t.list => req[q].lock # "dropped"
          /\ req[q].list = t.list /\ req[q].lock = "shared" => req[q].movie # t.movie
      BY DEF InsertEntry, InsertTurn, ListFree, t
    <3>3. Compatible(r, q)'
      BY <2>3, <2>4, <3>1, <3>2 DEF Compatible, Inserting, At, About, Touches
    <3>4. Compatible(q, r)'
      BY <2>3, <2>4, <3>1, <3>2 DEF Compatible, Inserting, At, About, Touches
    <3> QED  BY <3>3, <3>4
  <2> QED  BY <2>4, <2>5, <2>6, LocalStep
<1> QED  BY <1>1, <1>2 DEF InsertEntry

LEMMA WriteStep ==
  ASSUME EntriesInv, NEW r \in Requests, UpdateEntry(r) \/ RemoveEntry(r)
  PROVE  EntriesInv'
<1> USE Types
<1>1. CASE Quit(r)
  BY <1>1, QuitStep
<1>2. ASSUME ~Quit(r) PROVE EntriesInv'
  <2> DEFINE t == req[r]
             s == [t EXCEPT !.pc = "commit", !.took = {t.item}]
  <2>1. /\ t.pc \in {"update", "remove"} /\ t.took = {} /\ t.lock = "none"
        /\ t.item \in Entries /\ There(t.item) /\ FreeEntry(r, t.item)
    BY <1>2 DEF UpdateEntry, RemoveEntry, At, Holds
  <2>2. Step(r, s) /\ t \in ReqState
    BY <1>2 DEF UpdateEntry, RemoveEntry
  <2> HIDE DEF t
  <2>3. /\ s \in ReqState /\ About(s, t) /\ s.pc = "commit" /\ s.lock = "none"
        /\ s.kids = t.kids /\ s.took = {t.item}
    BY <2>1, <2>2 DEF ReqState, PC, About
  <2> HIDE DEF s
  <2>4. /\ req' \in [Requests -> ReqState] /\ req'[r] = s
        /\ \A q \in Requests \ {r} : req'[q] = req[q] /\ Touches(q)' = Touches(q)
        /\ UNCHANGED <<owner, entry>> /\ fresh' = fresh
        /\ Touches(r)' \cap fresh' = {} /\ req'[r].list \notin fresh' /\ Entitled(r)'
        /\ Touches(r)' \subseteq Touches(r)
    <3>1. About(s, req[r]) /\ s.kids \cup s.took \subseteq Touches(r)
      BY <2>3 DEF t, Touches
    <3> QED  BY <2>2, <2>3, <3>1, Proceeds DEF Touches
  <2>5. Holds(r)'
    BY <2>1, <2>3, <2>4 DEF Holds, Inserting, At, About, There
  <2>6. ASSUME NEW q \in Requests \ {r} PROVE Compatible(r, q)' /\ Compatible(q, r)'
    <3>1. t.item \notin req[q].took
      BY <2>1 DEF FreeEntry
    <3>2. Compatible(r, q)'
      BY <2>3, <2>4, <3>1 DEF Compatible, Inserting, At
    <3>3. Compatible(q, r)'
      BY <2>3, <2>4, <3>1 DEF Compatible, Inserting, At
    <3> QED  BY <3>2, <3>3
  <2> QED  BY <2>4, <2>5, <2>6, LocalStep
<1> QED  BY <1>1, <1>2

(***************************************************************************)
(* What a commit leaves: request r is idle, and every other one is where   *)
(* it was, with the same rights to the rows it is about.                   *)
(***************************************************************************)
LEMMA CommitLeaves ==
  ASSUME EntriesInv, NEW r \in Requests, Commit(r)
  PROVE  /\ req' \in [Requests -> ReqState] /\ req'[r] = Idle /\ fresh' = fresh
         /\ \A q \in Requests \ {r} : req'[q] = req[q] /\ Touches(q)' = Touches(q)
         /\ \A q \in Requests : Touches(q)' \cap fresh' = {} /\ req'[q].list \notin fresh'
         /\ Holds(r)' /\ Entitled(r)'
         /\ \A q \in Requests : \A p \in Requests \ {q} : Compatible(q, p)'
<1> USE Types, IdleIs
<1>1. /\ req' \in [Requests -> ReqState] /\ req'[r] = Idle /\ fresh' = fresh
      /\ \A q \in Requests \ {r} : req'[q] = req[q]
  BY DEF Commit
<1>2. Touches(r)' = {None} /\ \A q \in Requests \ {r} : Touches(q)' = Touches(q)
  BY <1>1 DEF Touches
<1>3. \A q \in Requests : Touches(q)' \cap fresh' = {} /\ req'[q].list \notin fresh'
  BY <1>1, <1>2
<1>4. Holds(r)'
  BY <1>1 DEF Holds, Inserting, At
<1>5. Entitled(r)'
  BY <1>1, <1>2 DEF Entitled
<1>6. ASSUME NEW q \in Requests, NEW p \in Requests \ {q} PROVE Compatible(q, p)'
  <2>1. CASE q # r /\ p # r
    BY <1>1, <1>2, <2>1 DEF Compatible, Inserting, At
  <2>2. CASE q = r \/ p = r
    BY <1>1, <1>2, <2>2, Harmless
  <2> QED  BY <2>1, <2>2
<1> QED  BY <1>1, <1>2, <1>3, <1>4, <1>5, <1>6

\* A commit by another than add_to_watchlist: entries go, or stay in their list.
LEMMA CommitRest ==
  ASSUME EntriesInv, NEW r \in Requests, Commit(r), req[r].lock # "shared"
  PROVE  EntriesInv'
<1> USE Types
<1> DEFINE s == req[r]
           dropped == s.lock = "dropped"
<1>1. /\ \A e \in s.took : There(e) /\ e \in Entries
      /\ dropped => s.list \in Lists /\ EntriesOf(s.list) \subseteq s.took /\ Deleting(r)
  BY DEF Holds, Commit, At, Deleting, ReqState
<1>2. \A e \in Entries : \/ e \notin s.took /\ entry'[e] = entry[e]
                         \/ e \in s.took /\ entry'[e] = Gone
                         \/ /\ e \in s.took /\ ~dropped /\ entry'[e] \in Row
                            /\ entry'[e].list = entry[e].list
                            /\ entry'[e].movie = entry[e].movie
  <2>1. ASSUME NEW e \in s.took, ~Deleting(r)
        PROVE  /\ Written(r, entry[e]) \in Row
               /\ Written(r, entry[e]).list = entry[e].list
               /\ Written(r, entry[e]).movie = entry[e].movie
    <3>1. entry[e] \in Row /\ s.new \in {"to_watch", "watched"}
      BY <1>1, Rows DEF ReqState
    <3> QED  BY <3>1 DEF Written, Watched, Row
  <2>2. \A e \in Entries : entry'[e] = IF e \in s.took THEN Value(r, e) ELSE entry[e]
    BY DEF Commit
  <2> QED  BY <1>1, <2>1, <2>2 DEF Value
<1>3. \A w \in Lists : owner'[w] = IF w = s.list /\ dropped THEN NoUser ELSE owner[w]
  BY DEF Commit
<1>4. /\ owner' \in [Lists -> Users \cup {NoUser}]
      /\ entry' \in [Entries -> Row \cup {Gone}]
  <2>1. /\ owner' = [w \in Lists |-> owner'[w]] /\ entry' = [e \in Entries |-> entry'[e]]
    BY DEF Commit
  <2>2. \A w \in Lists : owner'[w] \in Users \cup {NoUser}
    BY <1>3
  <2>3. \A e \in Entries : entry'[e] \in Row \cup {Gone}
    BY <1>2
  <2> QED  BY <2>1, <2>2, <2>3
<1> HIDE DEF s, dropped
<1>5. \A e \in Entries : There(e)' =>
         /\ There(e) /\ entry'[e].list = entry[e].list /\ entry'[e].movie = entry[e].movie
         /\ owner'[entry[e].list] = owner[entry[e].list]
  <2>1. ASSUME NEW e \in Entries, There(e)', dropped PROVE entry[e].list # s.list
    BY <1>1, <1>2, <2>1 DEF There, EntriesOf
  <2>2. ASSUME NEW e \in Entries, There(e)'
        PROVE  There(e) /\ entry'[e].list = entry[e].list /\ entry'[e].movie = entry[e].movie
    BY <1>1, <1>2, <2>2 DEF There
  <2>3. \A e \in Entries : There(e) => entry[e].list \in Lists
    BY Rows
  <2> QED  BY <1>3, <2>1, <2>2, <2>3
<1>6. TypeOK' /\ NoOrphans' /\ NoDuplicates'
  <2>1. TypeOK'
    BY <1>4, CommitLeaves DEF TypeOK, ReqState
  <2>2. NoOrphans'
    BY <1>5 DEF EntriesInv, NoOrphans
  <2>3. NoDuplicates'
    BY <1>5 DEF EntriesInv, NoDuplicates
  <2> QED  BY <2>1, <2>2, <2>3
<1>7. FreshUnused'
  <2>1. /\ \A e \in Entries \cap fresh : entry'[e] = Gone
        /\ \A w \in Lists \cap fresh : owner'[w] = NoUser
    BY <1>1, <1>2, <1>3, Rows DEF EntriesInv, FreshUnused, There
  <2> QED  BY <2>1, CommitLeaves DEF FreshUnused
<1>8. ASSUME NEW q \in Requests \ {r} PROVE Holds(q)' /\ Entitled(q)'
  <2>1. req'[q] = req[q] /\ Touches(q)' = Touches(q)
    BY CommitLeaves
  <2>2. \A w \in Lists : EntriesOf(w)' \subseteq EntriesOf(w)
                         /\ \A e \in EntriesOf(w)' : entry'[e].movie = entry[e].movie
    <3>1. \A e \in Entries : entry'[e].list \in Lists => There(e)'
      BY Rows DEF There
    <3> QED  BY <1>5, <3>1 DEF EntriesOf
  <2>3. \A e \in req[q].took : entry'[e] = entry[e]
    BY <1>2 DEF Compatible, s, ReqState
  <2>4. req[q].lock = "shared" => owner'[req[q].list] = owner[req[q].list]
    BY <1>3 DEF Compatible, s, dropped, Holds
  <2>5. Holds(q)'
    <3>1. /\ req[q].pc = "cascade" => req[q].list \in Lists
          /\ req[q].lock = "shared" => req[q].list \in Lists
      BY DEF Holds
    <3>2. Inserting(q)' <=> Inserting(q)
      BY <2>1 DEF Inserting, At
    <3>3. Inserting(q) => req[q].item \in Entries /\ entry'[req[q].item] = Gone
      BY <1>5 DEF Holds, There
    <3>4. req[q].pc \in {"kids", "cascade"} =>
             \A e \in req[q].kids \cup req[q].took : There(e)' => entry'[e].list = req[q].list
      BY <1>5 DEF Holds, ReqState
    <3> QED  BY <2>1, <2>2, <2>3, <2>4, <3>1, <3>2, <3>3, <3>4 DEF Holds, There
  <2>6. Entitled(q)'
    BY <1>3, <1>5, <2>1 DEF Entitled
  <2> QED  BY <2>5, <2>6
<1> QED  BY <1>6, <1>7, <1>8, CommitLeaves DEF EntriesInv

\* A commit by add_to_watchlist: one entry more, of a movie that its list has not.
LEMMA CommitInsert ==
  ASSUME EntriesInv, NEW r \in Requests, Commit(r), req[r].lock = "shared"
  PROVE  EntriesInv'
<1> USE Types
<1> DEFINE s == req[r]
           i == s.item
           row == [list |-> s.list, movie |-> s.movie, status |-> "to_watch", watched |-> FALSE]
<1>1. /\ i \in Entries /\ s.list \in Lists /\ s.movie \in Movies /\ s.took = {i}
      /\ ~There(i) /\ owner[s.list] # NoUser
      /\ \A e \in Entries : entry[e].list = s.list => entry[e].movie # s.movie
  BY DEF Holds, Inserting, EntriesOf
<1>2. ~Deleting(r)
  BY DEF Deleting, Commit, At, Holds
<1>3. /\ entry' = [entry EXCEPT ![i] = row]
      /\ owner' = owner
  <2>1. entry' = [e \in Entries |-> IF e = i THEN row ELSE entry[e]]
    BY <1>1, <1>2 DEF Commit, Value
  <2>2. owner' = [w \in Lists |-> owner[w]]
    BY DEF Commit
  <2> HIDE DEF i, row
  <2> QED  BY <2>1, <2>2
<1>4. row \in Row /\ row.list = s.list /\ row.movie = s.movie
  BY <1>1 DEF Row
<1>5. i \in Touches(r)
  BY DEF Touches
<1> HIDE DEF s, i, row
<1>6. /\ entry' \in [Entries -> Row \cup {Gone}] /\ entry'[i] = row
      /\ \A e \in Entries \ {i} : entry'[e] = entry[e]
  BY <1>1, <1>3, <1>4
<1>7. TypeOK' /\ NoOrphans' /\ NoDuplicates'
  <2>1. TypeOK'
    BY <1>3, <1>6, CommitLeaves DEF TypeOK, ReqState
  <2>2. NoOrphans'
    BY <1>1, <1>3, <1>4, <1>6 DEF EntriesInv, NoOrphans, There
  <2>3. NoDuplicates'
    <3>1. ASSUME NEW d \in Entries, NEW e \in Entries, There(d)', There(e)',
                 entry'[d].list = entry'[e].list, entry'[d].movie = entry'[e].movie
          PROVE  d = e
      <4>1. CASE d = i \/ e = i
        BY <1>1, <1>4, <1>6, <3>1, <4>1
      <4>2. CASE d # i /\ e # i
        BY <1>6, <3>1, <4>2 DEF EntriesInv, NoDuplicates, There
      <4> QED  BY <4>1, <4>2
    <3> QED  BY <3>1 DEF NoDuplicates
  <2> QED  BY <2>1, <2>2, <2>3
<1>8. FreshUnused'
  <2>1. i \notin fresh
    BY <1>5
  <2>2. /\ \A e \in Entries \cap fresh : entry'[e] = Gone
        /\ \A w \in Lists \cap fresh : owner'[w] = NoUser
    BY <1>3, <1>6, <2>1 DEF EntriesInv, FreshUnused
  <2> QED  BY <2>2, CommitLeaves DEF FreshUnused
<1>9. ASSUME NEW q \in Requests \ {r} PROVE Holds(q)' /\ Entitled(q)'
  <2>1. req'[q] = req[q] /\ Touches(q)' = Touches(q)
    BY CommitLeaves
  <2>2. i \notin Touches(q) /\ i \notin req[q].took /\ i # req[q].item
    BY DEF Compatible, Inserting, i, s, Touches
  <2>3. /\ req[q].pc = "cascade" => req[q].list # s.list
        /\ req[q].lock = "shared" /\ req[q].list = s.list => req[q].movie # s.movie
    BY DEF Compatible, Holds, s
  <2>4. \A w \in Lists : w # s.list => EntriesOf(w)' = EntriesOf(w)
    <3>1. \A w \in Lists : i \notin EntriesOf(w)
      BY <1>1, Rows
    <3> QED  BY <1>1, <1>4, <1>6, <3>1 DEF EntriesOf
  <2>5. Holds(q)'
    <3>1. req[q].took \subseteq Entries
      BY DEF ReqState
    <3>2. \A e \in req[q].took : entry'[e] = entry[e]
      BY <1>6, <2>2, <3>1
    <3>3. Inserting(q)' <=> Inserting(q)
      BY <2>1 DEF Inserting, At
    <3>4. Inserting(q) => req[q].item \in Entries /\ entry'[req[q].item] = Gone
      BY <1>6, <2>2 DEF Holds, There
    <3>5. req[q].pc = "cascade" => EntriesOf(req[q].list)' \subseteq req[q].kids \cup req[q].took
      BY <2>1, <2>3, <2>4 DEF Holds
    <3>6. req[q].lock = "shared" =>
             \A e \in Entries : entry'[e].list = req[q].list => entry'[e].movie # req[q].movie
      BY <1>4, <1>6, <2>3 DEF Holds, EntriesOf
    <3>7. \A e \in req[q].kids \cup req[q].took : entry'[e] = entry[e]
      BY <1>6, <2>2 DEF Touches, ReqState
    <3> QED  BY <1>3, <2>1, <3>2, <3>3, <3>4, <3>5, <3>6, <3>7 DEF Holds, There, EntriesOf
  <2>6. Entitled(q)'
    BY <1>3, <1>6, <2>1, <2>2 DEF Entitled, There
  <2> QED  BY <2>5, <2>6
<1> QED  BY <1>7, <1>8, <1>9, CommitLeaves DEF EntriesInv

-----------------------------------------------------------------------------
(* The theorems *)

LEMMA InitInv ==
  ASSUME Init
  PROVE  EntriesInv
<1> USE WatchlistsAssumption DEF WatchlistsAssumption
<1>1. /\ owner \in [Lists -> Users \cup {NoUser}] /\ entry \in [Entries -> Row \cup {Gone}]
      /\ req \in [Requests -> ReqState] /\ fresh = Lists \cup Entries
      /\ \A e \in Entries : entry[e] = Gone
      /\ \A w \in Lists : owner[w] = NoUser
      /\ \A r \in Requests : req[r] = Idle
  BY IdleIs DEF Init
<1>2. \A r \in Requests : Touches(r) = {None}
  BY <1>1, IdleIs DEF Touches
<1>3. TypeOK
  BY <1>1 DEF TypeOK, ReqState
<1>4. NoOrphans /\ NoDuplicates
  BY <1>1 DEF NoOrphans, NoDuplicates, There
<1>5. FreshUnused
  BY <1>1, <1>2, IdleIs DEF FreshUnused
<1>6. \A r \in Requests : Holds(r) /\ Entitled(r)
  BY <1>1, <1>2, IdleIs DEF Holds, Inserting, At, Entitled
<1>7. \A r \in Requests : \A q \in Requests \ {r} : Compatible(r, q)
  BY <1>1, <1>2, IdleIs DEF Compatible, Inserting, At
<1> QED  BY <1>3, <1>4, <1>5, <1>6, <1>7 DEF EntriesInv

LEMMA NextInv ==
  ASSUME EntriesInv, [Next]_vars
  PROVE  EntriesInv'
<1>1. CASE UNCHANGED vars
  BY <1>1 DEF vars, EntriesInv, TypeOK, NoOrphans, NoDuplicates, FreshUnused, Touches, There,
              Holds, Inserting, At, EntriesOf, Entitled, Compatible
<1>2. ASSUME NEW r \in Requests, Arrive(r) PROVE EntriesInv'
  BY <1>2, CreateStep, ListStep, AddStep, EntryStep DEF Arrive
<1>3. ASSUME NEW r \in Requests, Proceed(r) PROVE EntriesInv'
  <2>1. CASE Commit(r)
    BY <2>1, CommitInsert, CommitRest
  <2> QED  BY <1>3, <2>1, RenameStep, LoadStep, DropListStep, DeleteKidStep, InsertStep,
              WriteStep DEF Proceed
<1>4. ASSUME NEW r \in Requests, Abort(r) \/ DeadlockAbort(r) PROVE EntriesInv'
  BY <1>4, QuitStep DEF Abort, DeadlockAbort
<1> QED  BY <1>1, <1>2, <1>3, <1>4 DEF Next

(***************************************************************************)
(* An entry is in a watchlist that exists, and a movie is in a watchlist   *)
(* at most once: what add_to_watchlist and delete_watchlist look for in    *)
(* one statement still holds when another one writes, for any number of    *)
(* users, lists and requests.                                              *)
(***************************************************************************)
THEOREM EntriesInvariant == Spec => []EntriesInv
<1>1. Init => EntriesInv
  BY InitInv
<1>2. EntriesInv /\ [Next]_vars => EntriesInv'
  BY NextInv
<1> QED  BY <1>1, <1>2, PTL DEF Spec

\* Watchlists and entries change by the commit of a request, or by a create_watchlist.
LEMMA OnlyCommitsWrite ==
  ASSUME Next
  PROVE  \/ UNCHANGED <<owner, entry>>
         \/ \E r \in Requests :
               Commit(r) \/ \E u \in Users, w \in Lists : Create(r, u, w)
<1>1. PICK r \in Requests : Arrive(r) \/ Proceed(r) \/ Abort(r) \/ DeadlockAbort(r)
  BY DEF Next
<1>2. CASE Arrive(r)
  BY <1>2 DEF Arrive, Rename, Delete, Add, Remove, SetStatus, Step
<1>3. CASE Proceed(r)
  BY <1>3 DEF Proceed, RenameRow, Load, DropList, DeleteKid, InsertEntry, Inserted,
              UpdateEntry, RemoveEntry, Quit, Step
<1>4. CASE Abort(r) \/ DeadlockAbort(r)
  BY <1>4 DEF Abort, DeadlockAbort, Quit, Step
<1> QED  BY <1>1, <1>2, <1>3, <1>4

(***************************************************************************)
(* FR-007 of specs/002-user-auth/spec.md: only a request of the owner      *)
(* changes a watchlist or its entries.  The check of get_watchlist and     *)
(* _get_entry still stands when the request commits.                       *)
(***************************************************************************)
THEOREM OnlyTheOwnerWrites == Spec => OnlyTheOwner
<1> DEFINE ByOwner ==
       /\ \A e \in Entries :
             There(e) /\ entry'[e] # entry[e]
               => \E r \in Requests : req[r].usr = owner[entry[e].list] /\ req'[r] = Idle
       /\ \A w \in Lists :
             owner[w] # NoUser /\ owner'[w] # owner[w]
               => \E r \in Requests : req[r].usr = owner[w] /\ req'[r] = Idle
<1>1. EntriesInv /\ [Next]_vars => [ByOwner]_vars
  <2> SUFFICES ASSUME EntriesInv, Next PROVE ByOwner
    OBVIOUS
  <2> USE Types
  <2>1. ASSUME NEW r \in Requests, Commit(r) PROVE ByOwner
    <3>1. req'[r] = Idle
      BY <2>1, CommitLeaves
    <3>2. ASSUME NEW e \in Entries, There(e), entry'[e] # entry[e]
          PROVE  req[r].usr = owner[entry[e].list]
      BY <2>1, <3>2 DEF Commit, Entitled, Touches
    <3>3. ASSUME NEW w \in Lists, owner[w] # NoUser, owner'[w] # owner[w]
          PROVE  req[r].usr = owner[w]
      BY <2>1, <3>3 DEF Commit, Entitled
    <3> QED  BY <3>1, <3>2, <3>3
  <2>2. ASSUME NEW r \in Requests, NEW u \in Users, NEW w \in Lists, Create(r, u, w)
        PROVE  ByOwner
    <3>1. owner[w] = NoUser
      BY <2>2 DEF Create, EntriesInv, FreshUnused
    <3> QED  BY <2>2, <3>1 DEF Create
  <2>3. CASE UNCHANGED <<owner, entry>>
    BY <2>3
  <2> HIDE DEF ByOwner
  <2> QED  BY <2>1, <2>2, <2>3, OnlyCommitsWrite
<1> QED  BY <1>1, EntriesInvariant, PTL DEF Spec, OnlyTheOwner
-----------------------------------------------------------------------------
(* Each step of Watchlists as a step of WatchlistStore *)

\* The entries that a commit deletes or changes are in the list it is about.
LEMMA CommitIs ==
  ASSUME EntriesInv, NEW r \in Requests, Commit(r)
  PROVE  /\ owner' = [w \in Lists |-> IF w = req[r].list /\ req[r].lock = "dropped"
                                      THEN NoUser ELSE owner[w]]
         /\ entry' = [e \in Entries |-> IF e \in req[r].took THEN Value(r, e) ELSE entry[e]]
         /\ req[r].lock \in {"none", "shared", "held", "dropped"}
         /\ req[r].lock = "none" => req[r].took = {req[r].item} /\ req[r].item \in Entries
                                    /\ There(req[r].item)
         /\ req[r].lock = "held" => req[r].took = {}
         /\ req[r].lock = "dropped" =>
               /\ req[r].list \in Lists /\ Deleting(r)
               /\ \A e \in Entries : e \in req[r].took <=> entry[e].list = req[r].list
<1> USE Types
<1>1. /\ req[r].lock \in {"none", "shared", "held", "dropped"} /\ req[r].took \subseteq Entries
      /\ req[r].pc \in {"commit", "cascade"} /\ (req[r].pc = "cascade" => req[r].kids = {})
  BY DEF Commit, At, ReqState
<1>2. /\ req[r].lock = "none" => req[r].pc = "commit" /\ req[r].took = {req[r].item}
      /\ req[r].lock = "dropped" => req[r].pc = "cascade"
      /\ req[r].lock # "shared" => \A e \in req[r].took : There(e)
  BY <1>1 DEF Holds
<1>3. ASSUME req[r].lock = "dropped"
      PROVE  \A e \in Entries : e \in req[r].took <=> entry[e].list = req[r].list
  BY <1>1, <1>2, <1>3 DEF Holds, EntriesOf
<1> QED  BY <1>1, <1>2, <1>3 DEF Commit, Holds, Deleting, At

\* delete_watchlist: the list and its entries at once.
LEMMA DroppedIsDrop ==
  ASSUME EntriesInv, NEW r \in Requests, Commit(r), req[r].lock = "dropped"
  PROVE  Store!StoreNext \/ UNCHANGED Store!svars
<1> DEFINE w == req[r].list
<1>1. w \in Lists /\ owner \in [Lists -> Users \cup {NoUser}]
  BY CommitIs, Types
<1>2. owner' = [owner EXCEPT ![w] = NoUser]
  BY <1>1, CommitIs
<1>3. entry' = [e \in Entries |-> IF entry[e].list = w THEN Store!Gone ELSE entry[e]]
  BY CommitIs DEF Value, Gone, Store!Gone, Store!Entry
<1>4. CASE owner[w] # NoUser
  BY <1>1, <1>2, <1>3, <1>4 DEF Store!Drop, Store!StoreNext
<1>5. CASE owner[w] = NoUser
  <2>1. owner' = owner
    BY <1>1, <1>2, <1>5
  <2>2. \A e \in Entries : entry[e].list # w
    BY <1>1, <1>5, Rows
  <2>3. entry' = entry
    BY <1>3, <2>2, Types
  <2> QED  BY <2>1, <2>3 DEF Store!svars
<1> QED  BY <1>4, <1>5

\* add_to_watchlist.
LEMMA InsertedIsPut ==
  ASSUME EntriesInv, NEW r \in Requests, Commit(r), req[r].lock = "shared"
  PROVE  Store!StoreNext
<1> DEFINE i == req[r].item
           w == req[r].list
           m == req[r].movie
           row == Store!Entry(w, m, "to_watch", FALSE)
<1>1. /\ i \in Entries /\ w \in Lists /\ m \in Movies /\ req[r].took = {i} /\ ~There(i)
      /\ owner[w] # NoUser /\ \A d \in Entries : ~(entry[d].list = w /\ entry[d].movie = m)
      /\ ~Deleting(r)
  BY Types DEF Holds, Inserting, EntriesOf, Deleting, Commit, At
<1>2. entry' = [e \in Entries |-> IF e = i THEN row ELSE entry[e]]
  BY <1>1, CommitIs DEF Value, Store!Entry
<1>3. entry' = [entry EXCEPT ![i] = row] /\ owner' = owner
  <2>1. owner' = [u \in Lists |-> owner[u]]
    BY CommitIs
  <2> HIDE DEF i, row
  <2> QED  BY <1>2, <2>1, Types
<1>4. entry[i] = Store!Gone
  BY <1>1 DEF There, Gone, Store!Gone, Store!Entry
<1> HIDE DEF i, w, m
<1>5. Store!Put(i, w, m)
  BY <1>1, <1>3, <1>4 DEF Store!Put
<1> QED  BY <1>1, <1>5 DEF Store!StoreNext

\* remove_from_watchlist and update_status.
LEMMA ItemIsMarkOrTakeOut ==
  ASSUME EntriesInv, NEW r \in Requests, Commit(r), req[r].lock = "none"
  PROVE  Store!StoreNext
<1> DEFINE i == req[r].item
<1>1. i \in Entries /\ There(i) /\ entry[i] \in Row /\ req[r].took = {i}
  BY CommitIs, Rows
<1>2. entry[i] # Store!Gone
  BY <1>1 DEF There, Gone, Store!Gone, Store!Entry
<1>3. entry' = [entry EXCEPT ![i] = Value(r, i)] /\ owner' = owner
  <2>1. /\ owner' = [u \in Lists |-> owner[u]]
        /\ entry' = [e \in Entries |-> IF e = i THEN Value(r, e) ELSE entry[e]]
    BY <1>1, CommitIs
  <2> HIDE DEF i
  <2> QED  BY <2>1, Types
<1>4. CASE Deleting(r)
  <2>1. Value(r, i) = Store!Gone
    BY <1>4 DEF Value, Gone, Store!Gone, Store!Entry
  <2> QED  BY <1>1, <1>2, <1>3, <2>1 DEF Store!TakeOut, Store!StoreNext
<1>5. CASE ~Deleting(r)
  <2> DEFINE new == Written(r, entry[i])
  <2>1. /\ Value(r, i) = new
        /\ new.status \in {"to_watch", "watched"} /\ new.watched \in BOOLEAN
        /\ new = Store!Entry(entry[i].list, entry[i].movie, new.status, new.watched)
    <3>1. req[r].new \in {"to_watch", "watched"}
      BY Types DEF ReqState
    <3>2. PICK status \in {"to_watch", "watched"}, watched \in BOOLEAN :
             new = [entry[i] EXCEPT !.status = status, !.watched = watched]
      <4> DEFINE status == IF req[r].new = req[r].seen.status THEN entry[i].status ELSE req[r].new
                 watched == IF Watched(req[r].new) \/ req[r].seen.watched
                            THEN Watched(req[r].new) ELSE entry[i].watched
      <4>1. status \in {"to_watch", "watched"} /\ watched \in BOOLEAN
        BY <1>1, <3>1 DEF Watched, Row
      <4>2. new = [entry[i] EXCEPT !.status = status, !.watched = watched]
        BY DEF Written
      <4> QED  BY <4>1, <4>2
    <3> DEFINE row == entry[i]
    <3>3. row \in Row /\ Value(r, i) = new
      BY <1>1, <1>5 DEF Value
    <3> HIDE DEF new, row
    <3>4. new = [row EXCEPT !.status = status, !.watched = watched]
      BY <3>2 DEF row
    <3>5. /\ new.status = status /\ new.watched = watched
          /\ new = Store!Entry(row.list, row.movie, new.status, new.watched)
      BY <3>3, <3>4 DEF Row, Store!Entry
    <3> QED  BY <3>2, <3>3, <3>5 DEF row
  <2> HIDE DEF new, i
  <2>2. Store!Mark(i, new.status, new.watched)
    BY <1>2, <1>3, <2>1 DEF Store!Mark
  <2> QED  BY <1>1, <2>1, <2>2 DEF Store!StoreNext
<1> QED  BY <1>4, <1>5

(***************************************************************************)
(* The requests of several statements implement the atomic operations of   *)
(* WatchlistStore, for any number of users, lists, entries and requests: a *)
(* deleted list goes with exactly its entries, an entry never moves, and   *)
(* a transaction that ends otherwise leaves no trace.                      *)
(***************************************************************************)
THEOREM StoreRefinement == Spec => RefinesStore
<1>1. Init => Store!StoreInit
  BY DEF Init, Store!StoreInit, Gone, Store!Gone, Store!Entry
<1>2. EntriesInv /\ [Next]_vars => [Store!StoreNext]_Store!svars
  <2> SUFFICES ASSUME EntriesInv, [Next]_vars
               PROVE  Store!StoreNext \/ UNCHANGED Store!svars
    OBVIOUS
  <2>1. CASE UNCHANGED vars
    BY <2>1 DEF vars, Store!svars
  <2>2. ASSUME NEW r \in Requests, Commit(r) PROVE Store!StoreNext \/ UNCHANGED Store!svars
    <3>1. CASE req[r].lock = "held"
      <4>1. owner' = [w \in Lists |-> owner[w]] /\ entry' = [e \in Entries |-> entry[e]]
        BY <2>2, <3>1, CommitIs
      <4> QED  BY <4>1, Types DEF Store!svars
    <3> QED  BY <2>2, <3>1, CommitIs, DroppedIsDrop, InsertedIsPut, ItemIsMarkOrTakeOut
  <2>3. ASSUME NEW r \in Requests, NEW u \in Users, NEW w \in Lists, Create(r, u, w)
        PROVE  Store!StoreNext
    <3>1. owner[w] = NoUser
      BY <2>3 DEF Create, EntriesInv, FreshUnused
    <3>2. \A e \in Entries : entry[e].list # w
      BY <3>1, Rows
    <3> QED  BY <2>3, <3>1, <3>2 DEF Create, Store!Create, Store!StoreNext
  <2> QED  BY <2>1, <2>2, <2>3, OnlyCommitsWrite DEF Next, Store!svars
<1> QED  BY <1>1, <1>2, EntriesInvariant, PTL DEF Spec, RefinesStore, Store!StoreSpec
=============================================================================
