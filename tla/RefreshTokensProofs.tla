------------------------- MODULE RefreshTokensProofs -------------------------
(***************************************************************************)
(* Proofs about RefreshTokens, for every set of users and of requests and  *)
(* every bound MaxToken: its inductive invariant TokensInv, and that each  *)
(* of its steps is a step of Sessions or changes nothing of the table.     *)
(***************************************************************************)
EXTENDS RefreshTokens, TLAPS

SP == INSTANCE SessionsProofs

\* What a step must leave alone of a request that does not take it.
SameRequest(q) ==
    /\ pc'[q] = pc[q] /\ tok'[q] = tok[q] /\ usr'[q] = usr[q]
    /\ locks'[q] = locks[q] /\ revokes'[q] = revokes[q] /\ deletes'[q] = deletes[q]
    /\ scan'[q] = scan[q] /\ doomed'[q] = doomed[q]

\* The table only grows, and no token becomes live again.
TableGrows ==
    /\ issued <= issued'
    /\ expired \subseteq expired'
    /\ \A t \in 1..issued : /\ owner'[t] = owner[t]
                            /\ family'[t] = family[t]
                            /\ status'[t] = "live" => status[t] = "live"

\* The pieces of the type invariant that the proofs below cite most.
LEMMA Types ==
  ASSUME TokensInv
  PROVE  /\ MaxToken \in Nat /\ NoUser \notin Users
         /\ issued \in Nat /\ issued <= MaxToken
         /\ \A t \in Token : status[t] = "unissued" <=> issued < t
         /\ \A t \in Token : status[t] # "unissued" => t \in 1..issued
         /\ \A t \in expired : t \in 1..issued
         /\ \A r \in Requests :
               /\ tok[r] \in 0..MaxToken
               /\ locks[r] \in SUBSET Token /\ revokes[r] \in SUBSET Token
               /\ deletes[r] \in SUBSET Token /\ scan[r] \in SUBSET Token
               /\ doomed[r] \in SUBSET Token
         /\ \A t \in 1..issued : /\ t \in Token /\ owner[t] \in Users
                                 /\ family[t] \in 1..issued
                                 /\ status[t] \in {"live", "revoked", "purged"}
<1>1. MaxToken \in Nat /\ NoUser \notin Users
  BY TokensAssumption DEF TokensAssumption
<1>2. issued \in 0..MaxToken /\ expired \subseteq Token
  BY DEF TokensInv, TypeOK, S!SessionsTypeOK, Token, S!Token
<1>3. /\ \A t \in Token : status[t] = "unissued" <=> issued < t
      /\ \A t \in expired : t <= issued
  BY DEF TokensInv, S!SessionsInv, S!NumberedInOrder, Token, S!Token
<1>4. \A r \in Requests :
         /\ tok[r] \in 0..MaxToken
         /\ locks[r] \in SUBSET Token /\ revokes[r] \in SUBSET Token
         /\ deletes[r] \in SUBSET Token /\ scan[r] \in SUBSET Token
         /\ doomed[r] \in SUBSET Token
  BY DEF TokensInv, TypeOK
<1>5. \A t \in 1..issued : /\ t \in Token /\ owner[t] \in Users
                            /\ family[t] \in 1..issued
  BY <1>1, <1>2 DEF TokensInv, S!SessionsInv, S!Descent, Token, S!Token
<1>6. \A t \in expired : t \in 1..issued
  BY <1>1, <1>2, <1>3 DEF Token
<1>7. \A t \in Token : status[t] # "unissued" => t \in 1..issued
  BY <1>1, <1>2, <1>3 DEF Token
<1>8. \A t \in Token : status[t] \in {"unissued", "live", "revoked", "purged"}
  BY <1>1 DEF TokensInv, TypeOK, S!SessionsTypeOK, S!Status, Token, S!Token
<1>9. ASSUME NEW t \in 1..issued PROVE status[t] \in {"live", "revoked", "purged"}
  <2>1. t \in Token /\ ~(issued < t)
    BY <1>2, <1>5
  <2> QED  BY <2>1, <1>3, <1>8
<1> QED  BY <1>1, <1>2, <1>3, <1>4, <1>5, <1>6, <1>7, <1>9

(***************************************************************************)
(* A request keeps its part of the invariant while others act, provided    *)
(* the rows it holds stay as they are.                                     *)
(***************************************************************************)
LEMMA Frame ==
  ASSUME TokensInv, NEW q \in Requests, SameRequest(q), TableGrows, issued' \in Nat,
         \A t \in locks[q] : status'[t] = status[t]
  PROVE  RequestInv(q)'
<1> USE Types DEF SameRequest, TableGrows
<1>1. RequestInv(q)
  BY DEF TokensInv
<1>2. \A t \in locks[q] : t \in 1..issued
  BY <1>1 DEF RequestInv, WritesUnderLock, Token
<1>3. WritesUnderLock(q)'
  BY <1>1, <1>2 DEF RequestInv, WritesUnderLock, Token
<1>4. tok[q] # 0 => /\ tok[q] \in 1..issued
                    /\ owner'[tok[q]] = owner[tok[q]]
                    /\ family'[tok[q]] = family[tok[q]]
  BY <1>1 DEF RequestInv, Shape
<1>5. \A t \in scan[q] \cup revokes[q] \cup doomed[q] :
         /\ t \in 1..issued /\ owner'[t] = owner[t] /\ family'[t] = family[t]
  BY <1>1, <1>2 DEF RequestInv, WritesUnderLock, DoomedReached, Token
<1>6. Shape(q)'
  BY <1>1, <1>4, <1>5 DEF RequestInv, Shape
<1>7. DoomedReached(q)'
  BY <1>1, <1>4, <1>5 DEF RequestInv, Shape, DoomedReached
<1> QED  BY <1>3, <1>6, <1>7 DEF RequestInv

\* While the table rests, so do the facts about it.
LEMMA TableRests ==
  ASSUME TokensInv, UNCHANGED db
  PROVE  /\ S!SessionsInv' /\ TableGrows /\ issued' \in Nat
         /\ \A t \in Token : status'[t] = status[t]
<1>1. S!SessionsInv'
  BY DEF TokensInv, db, S!SessionsInv, S!SessionsTypeOK, S!NumberedInOrder, S!Descent,
         S!OneOwnerPerFamily, S!OneLivePerFamily, S!SingleUse
<1>2. TableGrows /\ issued' \in Nat /\ \A t \in Token : status'[t] = status[t]
  BY Types DEF db, TableGrows
<1> QED  BY <1>1, <1>2

(***************************************************************************)
(* A step of request r inside its transaction keeps the invariant if it    *)
(* keeps that of r and takes no row that another request holds.            *)
(***************************************************************************)
LEMMA LocalStep ==
  ASSUME TokensInv, NEW r \in Requests, UNCHANGED db,
         \A q \in Requests \ {r} : SameRequest(q),
         TypeOK', RequestInv(r)',
         \A q \in Requests \ {r} : locks'[r] \cap locks[q] = {}
  PROVE  TokensInv'
<1>1. S!SessionsInv' /\ TableGrows /\ issued' \in Nat
      /\ \A t \in Token : status'[t] = status[t]
  BY TableRests
<1>2. LocksDisjoint'
  BY DEF LocksDisjoint, SameRequest, TokensInv
<1>3. ASSUME NEW q \in Requests \ {r} PROVE RequestInv(q)'
  BY <1>1, Frame, Types
<1> QED  BY <1>1, <1>2, <1>3 DEF TokensInv

\* A request that is over leaves the invariant behind it, if what it committed does.
LEMMA FinishStep ==
  ASSUME TokensInv, NEW r \in Requests, Finish(r), TableGrows, issued' \in Nat,
         S!SessionsInv',
         \A q \in Requests \ {r} : \A t \in locks[q] : status'[t] = status[t]
  PROVE  TokensInv'
<1>1. \A q \in Requests \ {r} : SameRequest(q)
  BY DEF Finish, SameRequest, TokensInv, TypeOK
<1>2. /\ pc'[r] = "idle" /\ tok'[r] = 0 /\ locks'[r] = {} /\ revokes'[r] = {}
      /\ deletes'[r] = {} /\ scan'[r] = {} /\ doomed'[r] = {}
  BY DEF Finish, TokensInv, TypeOK
<1>3. TypeOK'
  <2>1. S!SessionsTypeOK'
    BY DEF S!SessionsInv
  <2> QED  BY <2>1, Types DEF TokensInv, TypeOK, Finish, PC
<1>4. LocksDisjoint'
  BY <1>1, <1>2 DEF LocksDisjoint, SameRequest, TokensInv
<1>5. RequestInv(r)'
  BY <1>2 DEF RequestInv, WritesUnderLock, Shape, DoomedReached
<1>6. ASSUME NEW q \in Requests \ {r} PROVE RequestInv(q)'
  BY <1>1, Frame
<1> QED  BY <1>3, <1>4, <1>5, <1>6 DEF TokensInv

\* A rollback, or an answer that writes nothing.
LEMMA RejectStep ==
  ASSUME TokensInv, NEW r \in Requests, Reject(r) PROVE TokensInv'
<1>1. Finish(r) /\ UNCHANGED db
  BY DEF Reject
<1>2. S!SessionsInv' /\ TableGrows /\ issued' \in Nat
      /\ \A t \in Token : status'[t] = status[t]
  BY <1>1, TableRests
<1> QED  BY <1>1, <1>2, FinishStep, Types

\* A request arrives; the tokens it dooms are issued and fit its kind.
LEMMA AcceptStep ==
  ASSUME TokensInv, NEW r \in Requests, NEW point, NEW t, NEW u \in Users, NEW D,
         Accept(r, point, t, u, D),
         \/ point = "purge" /\ t = 0 /\ D = {}
         \/ point = "logoutAll" /\ t = 0 /\ D = LiveOf(u)
         \/ /\ point \in {"lookup", "logoutRead"} /\ D = {}
            /\ t \in 1..issued /\ u = owner[t]
  PROVE  TokensInv'
<1>1. \A q \in Requests \ {r} : SameRequest(q)
  BY DEF Accept, SameRequest, TokensInv, TypeOK
<1>2. /\ pc'[r] = point /\ tok'[r] = t /\ usr'[r] = u /\ doomed'[r] = D
      /\ locks' = locks /\ revokes' = revokes /\ deletes' = deletes /\ scan' = scan
      /\ UNCHANGED db
  BY DEF Accept, TokensInv, TypeOK
<1>3. locks[r] = {} /\ revokes[r] = {} /\ deletes[r] = {} /\ scan[r] = {}
  <2>1. pc[r] = "idle" /\ RequestInv(r)
    BY DEF Accept, TokensInv
  <2> QED  BY <2>1 DEF RequestInv, Shape, WritesUnderLock
<1>4. D \subseteq 1..issued /\ \A d \in D : owner[d] = u
  BY Types DEF LiveOf
<1>5. TypeOK'
  <2>1. S!SessionsTypeOK'
    BY TableRests, <1>2 DEF S!SessionsInv
  <2>2. point \in PC /\ t \in 0..MaxToken /\ D \subseteq Token
    BY <1>4, Types DEF PC, Token
  <2> QED  BY <2>1, <2>2 DEF TokensInv, TypeOK, Accept
<1>6. RequestInv(r)'
  <2>1. WritesUnderLock(r)'
    BY <1>2, <1>3 DEF WritesUnderLock
  <2>2. Shape(r)'
    BY <1>2, <1>3, Types DEF Shape, db
  <2>3. DoomedReached(r)'
    <3>1. ASSUME NEW d \in D PROVE d <= issued /\ owner[d] = u
      <4>1. d \in 1..issued /\ owner[d] = u
        BY <1>4
      <4> QED  BY <4>1
    <3>2. point \notin {"family", "revoking"}
      OBVIOUS
    <3> QED  BY <1>2, <3>1, <3>2 DEF DoomedReached, db
  <2> QED  BY <2>1, <2>2, <2>3 DEF RequestInv
<1> QED  BY <1>1, <1>2, <1>3, <1>5, <1>6, LocalStep

(***************************************************************************)
(* The steps of request r inside its transaction change nothing of other   *)
(* requests; UNCHANGED names what they leave of r itself.                  *)
(***************************************************************************)
LEMMA LookupStep ==
  ASSUME TokensInv, NEW r \in Requests, RefreshLookup(r) PROVE TokensInv'
<1> DEFINE t == tok[r]
<1>0. /\ t \in 1..issued /\ t \in Token /\ usr[r] \in Users /\ usr[r] = owner[t]
      /\ revokes[r] = {} /\ deletes[r] = {} /\ scan[r] = {} /\ pc[r] = "lookup"
  <2>1. pc[r] = "lookup" /\ RequestInv(r)
    BY DEF RefreshLookup, TokensInv
  <2>2. t # 0 /\ t <= issued /\ usr[r] = owner[t] /\ usr[r] \in Users
    BY <2>1 DEF RequestInv, Shape
  <2>3. revokes[r] = {} /\ deletes[r] = {} /\ scan[r] = {}
    BY <2>1 DEF RequestInv, Shape, WritesUnderLock
  <2> QED  BY <2>1, <2>2, <2>3, Types
<1>1. CASE Reject(r)
  BY <1>1, RejectStep
<1>2. CASE /\ status[t] = "revoked"
           /\ pc' = [pc EXCEPT ![r] = "family"]
           /\ locks' = [locks EXCEPT ![r] = {t}]
           /\ doomed' = [doomed EXCEPT ![r] = LiveInFamily(family[t])]
           /\ UNCHANGED <<db, active, tok, usr, revokes, deletes, scan>>
  <2>1. \A q \in Requests \ {r} : SameRequest(q)
    BY <1>2 DEF SameRequest, TokensInv, TypeOK
  <2>2. /\ pc'[r] = "family" /\ locks'[r] = {t} /\ UNCHANGED <<tok, usr, revokes, deletes, scan, db>>
        /\ doomed'[r] = LiveInFamily(family[t])
    BY <1>2 DEF TokensInv, TypeOK
  <2>3. LiveInFamily(family[t]) \subseteq Token
        /\ \A d \in LiveInFamily(family[t]) : d \in 1..issued /\ family[d] = family[t]
    BY Types DEF LiveInFamily
  <2>4. TypeOK'
    <3>1. S!SessionsTypeOK'
      BY TableRests, <1>2 DEF S!SessionsInv
    <3> QED  BY <3>1, <2>3, <1>2, <1>0 DEF TokensInv, TypeOK, PC
  <2>5. WritesUnderLock(r)' /\ Shape(r)'
    BY <2>2, <1>0, <1>2 DEF WritesUnderLock, Shape, db
  <2>6. DoomedReached(r)'
    BY <2>2, <2>3, Types DEF DoomedReached, db
  <2> QED  BY <2>1, <2>2, <2>4, <2>5, <2>6, LocalStep DEF RequestInv, RefreshLookup, FreeFor
<1>3. CASE /\ status[t] = "live" /\ t \notin expired
           /\ pc' = [pc EXCEPT ![r] = "rotate"]
           /\ locks' = [locks EXCEPT ![r] = {t}]
           /\ UNCHANGED <<db, active, tok, usr, revokes, deletes, scan, doomed>>
  <2>1. \A q \in Requests \ {r} : SameRequest(q)
    BY <1>3 DEF SameRequest, TokensInv, TypeOK
  <2>2. /\ pc'[r] = "rotate" /\ locks'[r] = {t}
        /\ UNCHANGED <<tok, usr, revokes, deletes, scan, doomed, db>>
    BY <1>3 DEF TokensInv, TypeOK
  <2>4. TypeOK'
    <3>1. S!SessionsTypeOK'
      BY TableRests, <1>3 DEF S!SessionsInv
    <3> QED  BY <3>1, <1>3, <1>0 DEF TokensInv, TypeOK, PC
  <2>5. WritesUnderLock(r)' /\ Shape(r)'
    BY <2>2, <1>0, <1>3 DEF WritesUnderLock, Shape, db
  <2>6. DoomedReached(r)'
    BY <2>2 DEF DoomedReached, db, TokensInv, RequestInv
  <2> QED  BY <2>1, <2>2, <2>4, <2>5, <2>6, LocalStep DEF RequestInv, RefreshLookup, FreeFor
<1> QED  BY <1>1, <1>2, <1>3 DEF RefreshLookup

\* The owner is checked and the presented token, which the request holds, is spent.
LEMMA RotateStep ==
  ASSUME TokensInv, NEW r \in Requests, RefreshRotate(r) PROVE TokensInv'
<1>1. CASE Reject(r)
  BY <1>1, RejectStep
<1>2. CASE /\ pc' = [pc EXCEPT ![r] = "purge"]
           /\ revokes' = [revokes EXCEPT ![r] = {tok[r]}]
           /\ UNCHANGED <<db, active, tok, usr, locks, deletes, scan, doomed>>
  <2>0. /\ tok[r] # 0 /\ tok[r] \in Token /\ tok[r] \in locks[r] /\ scan[r] = {}
        /\ pc[r] = "rotate" /\ RequestInv(r)
    <3>1. pc[r] = "rotate" /\ RequestInv(r)
      BY DEF RefreshRotate, TokensInv
    <3>2. tok[r] # 0 /\ tok[r] \in locks[r] /\ scan[r] = {}
      BY <3>1 DEF RequestInv, Shape
    <3> QED  BY <3>1, <3>2, Types
  <2>1. \A q \in Requests \ {r} : SameRequest(q)
    BY <1>2 DEF SameRequest, TokensInv, TypeOK
  <2>2. /\ pc'[r] = "purge" /\ revokes'[r] = {tok[r]}
        /\ UNCHANGED <<tok, usr, locks, deletes, scan, doomed, db>>
    BY <1>2 DEF TokensInv, TypeOK
  <2>3. TypeOK'
    <3>1. S!SessionsTypeOK'
      BY TableRests, <1>2 DEF S!SessionsInv
    <3> QED  BY <3>1, <1>2, <2>0 DEF TokensInv, TypeOK, PC
  <2>4. WritesUnderLock(r)'
    BY <2>0, <2>2 DEF RequestInv, WritesUnderLock, db
  <2>5. Shape(r)'
    BY <2>0, <2>2 DEF RequestInv, Shape, db
  <2>6. DoomedReached(r)'
    BY <2>0, <2>2 DEF RequestInv, DoomedReached, db
  <2>7. \A q \in Requests \ {r} : locks'[r] \cap locks[q] = {}
    BY <2>2 DEF TokensInv, LocksDisjoint
  <2> QED  BY <2>1, <2>2, <2>3, <2>4, <2>5, <2>6, <2>7, LocalStep DEF RequestInv
<1> QED  BY <1>1, <1>2 DEF RefreshRotate

\* A bulk statement starts on rows that are issued and that suit it.
LEMMA ScanStep ==
  ASSUME TokensInv, NEW r \in Requests, NEW rows,
         \/ BeginScan(r, "purge", "purging", rows) /\ rows = ExpiredRows
         \/ BeginScan(r, "family", "revoking", rows) /\ rows = LiveInFamily(family[tok[r]])
         \/ BeginScan(r, "logoutAll", "revoking", rows) /\ rows = LiveOf(usr[r])
  PROVE  TokensInv'
<1>0. RequestInv(r)
  BY DEF TokensInv
<1>1. \A q \in Requests \ {r} : SameRequest(q)
  BY DEF BeginScan, SameRequest, TokensInv, TypeOK
<1>2. /\ scan'[r] = rows
      /\ \/ pc[r] = "purge" /\ pc'[r] = "purging"
         \/ pc[r] \in {"family", "logoutAll"} /\ pc'[r] = "revoking"
      /\ UNCHANGED <<tok, usr, locks, revokes, deletes, doomed, db>>
  BY DEF BeginScan, TokensInv, TypeOK
<1>3. \A t \in rows : t \in Token /\ t \in 1..issued
  BY Types DEF ExpiredRows, LiveInFamily, LiveOf
<1>4. pc[r] = "purge" => rows \subseteq expired
  BY DEF BeginScan, ExpiredRows
<1>5. pc[r] \in {"family", "logoutAll"} =>
        /\ revokes[r] = {}
        /\ \A t \in rows : owner[t] = usr[r]
        /\ \A t \in doomed[r] : status[t] = "live" => t \in rows
  <2>1. CASE pc[r] = "logoutAll"
    <3>1. rows = LiveOf(usr[r])
      BY <2>1 DEF BeginScan
    <3> QED  BY <2>1, <3>1, <1>0, Types DEF LiveOf, RequestInv, Shape, DoomedReached, Token
  <2>2. CASE pc[r] = "family"
    <3>1. rows = LiveInFamily(family[tok[r]])
      BY <2>2 DEF BeginScan
    <3>2. tok[r] \in 1..issued /\ usr[r] = owner[tok[r]] /\ revokes[r] = {}
      BY <2>2, <1>0, Types DEF RequestInv, Shape
    <3>3. \A a, b \in 1..issued : family[a] = family[b] => owner[a] = owner[b]
      BY DEF TokensInv, S!SessionsInv, S!OneOwnerPerFamily
    <3>4. \A t \in rows : owner[t] = usr[r]
      BY <3>1, <3>2, <3>3, <1>3 DEF LiveInFamily
    <3>5. \A t \in doomed[r] : status[t] = "live" => t \in rows
      BY <2>2, <3>1, <1>0, Types DEF LiveInFamily, RequestInv, DoomedReached
    <3> QED  BY <3>2, <3>4, <3>5
  <2> QED  BY <2>1, <2>2
<1>6. TypeOK'
  <2>1. S!SessionsTypeOK'
    BY TableRests, <1>2 DEF S!SessionsInv
  <2> QED  BY <2>1, <1>3 DEF BeginScan, TokensInv, TypeOK, PC
<1>7. WritesUnderLock(r)'
  BY <1>0, <1>2, <1>3 DEF RequestInv, WritesUnderLock, db
<1>8. Shape(r)'
  BY <1>0, <1>2, <1>4, <1>5 DEF RequestInv, Shape, db
<1>9. DoomedReached(r)'
  BY <1>0, <1>2, <1>5 DEF RequestInv, DoomedReached, db
<1>10. \A q \in Requests \ {r} : locks'[r] \cap locks[q] = {}
  BY <1>2 DEF TokensInv, LocksDisjoint
<1> QED  BY <1>1, <1>2, <1>6, <1>7, <1>8, <1>9, <1>10, LocalStep DEF RequestInv

\* The DELETE takes an expired row that no other request holds.
LEMMA VisitPurgeStep ==
  ASSUME TokensInv, NEW r \in Requests, NEW t \in Token, VisitPurge(r, t) PROVE TokensInv'
<1>0. /\ pc[r] = "purging" /\ t \in scan[r] /\ RequestInv(r)
      /\ t \in expired /\ t <= issued
  <2>1. pc[r] = "purging" /\ t \in scan[r] /\ RequestInv(r)
    BY DEF VisitPurge, TokensInv
  <2> QED  BY <2>1 DEF RequestInv, Shape, WritesUnderLock
<1>1. \A q \in Requests \ {r} : SameRequest(q)
  BY DEF VisitPurge, SameRequest, TokensInv, TypeOK
<1>2. /\ scan'[r] = scan[r] \ {t} /\ UNCHANGED <<pc, tok, usr, revokes, doomed, db>>
      /\ \/ /\ status[t] # "purged"
            /\ locks'[r] = locks[r] \cup {t} /\ deletes'[r] = deletes[r] \cup {t}
         \/ locks'[r] = locks[r] /\ deletes'[r] = deletes[r]
  BY DEF VisitPurge, TokensInv, TypeOK
<1>3. TypeOK'
  <2>1. S!SessionsTypeOK'
    BY TableRests, <1>2 DEF S!SessionsInv
  <2> QED  BY <2>1, <1>2 DEF VisitPurge, TokensInv, TypeOK
<1>4. status[t] # "purged" => status[t] \in {"live", "revoked"}
  BY <1>0, Types DEF Token
<1>5. WritesUnderLock(r)'
  BY <1>0, <1>2, <1>4 DEF RequestInv, WritesUnderLock, db
<1>6. Shape(r)'
  BY <1>0, <1>2 DEF RequestInv, Shape, db
<1>7. DoomedReached(r)'
  BY <1>0, <1>2 DEF RequestInv, DoomedReached, db
<1>8. \A q \in Requests \ {r} : locks'[r] \cap locks[q] = {}
  BY <1>2 DEF TokensInv, LocksDisjoint, VisitPurge, FreeFor
<1> QED  BY <1>1, <1>2, <1>3, <1>5, <1>6, <1>7, <1>8, LocalStep DEF RequestInv

\* The UPDATE takes a row it still has to revoke; one that is not live needs nothing.
LEMMA VisitRevokeStep ==
  ASSUME TokensInv, NEW r \in Requests, NEW t \in Token, VisitRevoke(r, t) PROVE TokensInv'
<1>0. pc[r] = "revoking" /\ t \in scan[r] /\ RequestInv(r)
  BY DEF VisitRevoke, TokensInv
<1>1. \A q \in Requests \ {r} : SameRequest(q)
  BY DEF VisitRevoke, SameRequest, TokensInv, TypeOK
<1>2. /\ scan'[r] = scan[r] \ {t} /\ UNCHANGED <<pc, tok, usr, deletes, doomed, db>>
      /\ \/ /\ status[t] = "live"
            /\ locks'[r] = locks[r] \cup {t} /\ revokes'[r] = revokes[r] \cup {t}
         \/ status[t] # "live" /\ locks'[r] = locks[r] /\ revokes'[r] = revokes[r]
  BY DEF VisitRevoke, TokensInv, TypeOK
<1>3. TypeOK'
  <2>1. S!SessionsTypeOK'
    BY TableRests, <1>2 DEF S!SessionsInv
  <2> QED  BY <2>1, <1>2 DEF VisitRevoke, TokensInv, TypeOK
<1>5. WritesUnderLock(r)'
  BY <1>0, <1>2 DEF RequestInv, WritesUnderLock, db
<1>6. Shape(r)'
  BY <1>0, <1>2 DEF RequestInv, Shape, db
<1>7. DoomedReached(r)'
  BY <1>0, <1>2 DEF RequestInv, DoomedReached, db
<1>8. \A q \in Requests \ {r} : locks'[r] \cap locks[q] = {}
  BY <1>2 DEF TokensInv, LocksDisjoint, VisitRevoke, FreeFor
<1> QED  BY <1>1, <1>2, <1>3, <1>5, <1>6, <1>7, <1>8, LocalStep DEF RequestInv

\* The two statements of a logout take no row but the one they name.
LEMMA LogoutStep ==
  ASSUME TokensInv, NEW r \in Requests, LogoutRead(r) \/ LogoutUpdate(r) PROVE TokensInv'
<1> DEFINE t == tok[r]
<1>0. pc[r] \in {"logoutRead", "logoutUpdate"} /\ RequestInv(r)
  BY DEF LogoutRead, LogoutUpdate, TokensInv
<1>1. t \in 1..issued /\ t \in Token /\ usr[r] = owner[t] /\ locks[r] = {} /\ scan[r] = {}
      /\ revokes[r] = {} /\ deletes[r] = {} /\ doomed[r] = {}
  BY <1>0, Types DEF RequestInv, Shape, WritesUnderLock
<1>2. CASE Reject(r)
  BY <1>2, RejectStep
<1>3. CASE /\ pc' = [pc EXCEPT ![r] = "logoutUpdate"]
           /\ UNCHANGED <<db, active, tok, usr, locks, revokes, deletes, scan, doomed>>
  <2>1. \A q \in Requests \ {r} : SameRequest(q)
    BY <1>3 DEF SameRequest, TokensInv, TypeOK
  <2>2. pc'[r] = "logoutUpdate"
    BY <1>3 DEF TokensInv, TypeOK
  <2>3. TypeOK'
    <3>1. S!SessionsTypeOK'
      BY TableRests, <1>3 DEF S!SessionsInv
    <3> QED  BY <3>1, <1>3 DEF TokensInv, TypeOK, PC
  <2>4. WritesUnderLock(r)' /\ Shape(r)' /\ DoomedReached(r)'
    BY <1>0, <1>1, <1>3, <2>2 DEF RequestInv, WritesUnderLock, Shape, DoomedReached, db
  <2>5. \A q \in Requests \ {r} : locks'[r] \cap locks[q] = {}
    BY <1>3 DEF TokensInv, LocksDisjoint
  <2> QED  BY <1>3, <2>1, <2>3, <2>4, <2>5, LocalStep DEF RequestInv
<1>4. CASE /\ LogoutUpdate(r) /\ status[t] # "purged"
           /\ pc' = [pc EXCEPT ![r] = "revoking"]
           /\ locks'   = [locks   EXCEPT ![r] = {t}]
           /\ revokes' = [revokes EXCEPT ![r] = {t}]
           /\ UNCHANGED <<db, active, tok, usr, deletes, scan, doomed>>
  <2>1. \A q \in Requests \ {r} : SameRequest(q)
    BY <1>4 DEF SameRequest, TokensInv, TypeOK
  <2>2. /\ pc'[r] = "revoking" /\ locks'[r] = {t} /\ revokes'[r] = {t}
    BY <1>4 DEF TokensInv, TypeOK
  <2>3. TypeOK'
    <3>1. S!SessionsTypeOK'
      BY TableRests, <1>4 DEF S!SessionsInv
    <3> QED  BY <3>1, <1>1, <1>4 DEF TokensInv, TypeOK, PC
  <2>4. status[t] \in {"live", "revoked"}
    BY <1>1, <1>4, Types
  <2>5. WritesUnderLock(r)' /\ Shape(r)'
    BY <1>0, <1>1, <1>4, <2>2, <2>4 DEF RequestInv, WritesUnderLock, Shape, db
  <2>6. DoomedReached(r)'
    BY <1>0, <1>1, <1>4, <2>2 DEF RequestInv, DoomedReached, db
  <2>7. \A q \in Requests \ {r} : locks'[r] \cap locks[q] = {}
    BY <1>4, <2>2 DEF LogoutUpdate, FreeFor
  <2> QED  BY <1>4, <2>1, <2>3, <2>5, <2>6, <2>7, LocalStep DEF RequestInv
<1> QED  BY <1>2, <1>3, <1>4 DEF LogoutRead, LogoutUpdate

(***************************************************************************)
(* The commits are the steps of Sessions.                                  *)
(***************************************************************************)
LEMMA CommitPairIsIssue ==
  ASSUME TokensInv, NEW r \in Requests, CommitPair(r)
  PROVE  S!SessionsNext
<1> DEFINE t == tok[r]
<1>0. pc[r] = "purging" /\ RequestInv(r)
  BY DEF CommitPair, TokensInv
<1>1. /\ usr[r] \in Users /\ deletes[r] \in SUBSET expired
      /\ revokes[r] = IF t = 0 THEN {} ELSE {t}
      /\ t # 0 => t \in S!Token /\ status[t] = "live" /\ usr[r] = owner[t]
  <2>1. t # 0 => t \in S!Token
    BY Types DEF S!Token
  <2> QED  BY <2>1, <1>0 DEF RequestInv, Shape, WritesUnderLock
<1>2. CASE t = 0
  <2>1. S!Issue(usr[r], issued + 1, 0, {}, deletes[r])
    BY <1>1, <1>2 DEF CommitPair, S!Issue, Token, S!Token
  <2> QED  BY <2>1, <1>1 DEF S!OpenSession, S!SessionsNext
<1>3. CASE t # 0
  <2>1. revokes[r] = {t} /\ usr[r] = owner[t] /\ t \in S!Token /\ status[t] = "live"
    BY <1>1, <1>3
  <2>2. S!Issue(usr[r], family[t], t, revokes[r], deletes[r])
    BY <1>3 DEF CommitPair, S!Issue, Token, S!Token
  <2>3. S!Rotate(t, deletes[r])
    BY <2>1, <2>2 DEF S!Rotate
  <2>4. deletes[r] \in SUBSET expired
    BY <1>1
  <2> QED  BY <2>1, <2>3, <2>4 DEF S!SessionsNext
<1> QED  BY <1>2, <1>3

\* The commit of a revocation is a RevokeSome: its rows belong to one user.
LEMMA CommitRevocationIsRevoke ==
  ASSUME TokensInv, NEW r \in Requests, CommitRevocation(r)
  PROVE  S!SessionsNext
<1>0. pc[r] = "revoking" /\ RequestInv(r)
  BY DEF CommitRevocation, TokensInv
<1>1. usr[r] \in Users /\ revokes[r] \in SUBSET S!Token
  BY <1>0, Types DEF RequestInv, Shape, Token, S!Token
<1>2. \A t \in revokes[r] : owner[t] = usr[r] /\ status[t] \in {"live", "revoked"}
  BY <1>0 DEF RequestInv, Shape, WritesUnderLock
<1>3. S!RevokeSome(usr[r], revokes[r])
  BY <1>2 DEF CommitRevocation, S!RevokeSome, Token, S!Token
<1> QED  BY <1>1, <1>3 DEF S!SessionsNext

\* Sessions and its proofs speak of the same table.
LEMMA SessionsStep ==
  ASSUME TokensInv, S!SessionsNext PROVE S!SessionsInv'
<1>1. SP!SessionsAssumption
  BY TokensAssumption DEF TokensAssumption, SP!SessionsAssumption
<1>2. SP!SessionsInv
  BY DEF TokensInv, S!SessionsInv, S!SessionsTypeOK, S!NumberedInOrder, S!Descent,
         S!OneOwnerPerFamily, S!OneLivePerFamily, S!SingleUse, S!Token, S!Status,
         SP!SessionsInv, SP!SessionsTypeOK, SP!NumberedInOrder, SP!Descent,
         SP!OneOwnerPerFamily, SP!OneLivePerFamily, SP!SingleUse, SP!Token, SP!Status
<1>3. SP!SessionsNext
  <2>1. \A P : /\ \A u : S!OpenSession(u, P) => SP!OpenSession(u, P)
               /\ \A t : S!Rotate(t, P) => SP!Rotate(t, P)
    BY DEF S!OpenSession, S!Rotate, S!Issue, S!Token,
           SP!OpenSession, SP!Rotate, SP!Issue, SP!Token
  <2>2. \A u, R : S!RevokeSome(u, R) => SP!RevokeSome(u, R)
    BY DEF S!RevokeSome, S!Token, SP!RevokeSome, SP!Token
  <2>3. \A t : S!TokenExpires(t) => SP!TokenExpires(t)
    BY DEF S!TokenExpires, SP!TokenExpires
  <2> QED  BY <2>1, <2>2, <2>3 DEF S!SessionsNext, SP!SessionsNext, S!Token, SP!Token
<1>4. SP!SessionsInv'
  BY <1>1, <1>2, <1>3, SP!NextInv
<1> QED
  BY <1>4 DEF S!SessionsInv, S!SessionsTypeOK, S!NumberedInOrder, S!Descent,
         S!OneOwnerPerFamily, S!OneLivePerFamily, S!SingleUse, S!Token, S!Status,
         SP!SessionsInv, SP!SessionsTypeOK, SP!NumberedInOrder, SP!Descent,
         SP!OneOwnerPerFamily, SP!OneLivePerFamily, SP!SingleUse, SP!Token, SP!Status

\* The two commits keep the invariant: a transaction writes only rows it holds.
LEMMA CommitStep ==
  ASSUME TokensInv, NEW r \in Requests, CommitPair(r) \/ CommitRevocation(r)
  PROVE  TokensInv'
<1>1. Finish(r)
  BY DEF CommitPair, CommitRevocation
<1>2. S!SessionsInv'
  BY CommitPairIsIssue, CommitRevocationIsRevoke, SessionsStep
<1>3. RequestInv(r)
  BY DEF TokensInv
<1>4. TableGrows /\ issued' \in Nat
  <2>1. CASE CommitPair(r)
    <3>1. issued' = issued + 1 /\ expired' = expired
      BY <2>1 DEF CommitPair
    <3>2. ASSUME NEW t \in 1..issued
          PROVE  /\ owner'[t] = owner[t] /\ family'[t] = family[t]
                 /\ status'[t] = "live" => status[t] = "live"
      <4>1. t \in Token /\ t # issued + 1
        BY Types
      <4> QED  BY <2>1, <4>1 DEF CommitPair, TokensInv, TypeOK, S!SessionsTypeOK, S!Token, Token
    <3> QED  BY <3>1, <3>2, Types DEF TableGrows
  <2>2. CASE CommitRevocation(r)
    <3>1. UNCHANGED <<owner, family, issued, expired>>
      BY <2>2 DEF CommitRevocation
    <3>2. \A t \in 1..issued : status'[t] = "live" => status[t] = "live"
      BY <2>2, Types DEF CommitRevocation
    <3> QED  BY <3>1, <3>2, Types DEF TableGrows
  <2> QED  BY <2>1, <2>2
<1>5. ASSUME NEW q \in Requests \ {r}, NEW t \in locks[q] PROVE status'[t] = status[t]
  <2>1. t \notin revokes[r] \cup deletes[r]
    BY <1>3 DEF TokensInv, LocksDisjoint, RequestInv, WritesUnderLock
  <2>2. t \in Token /\ t # issued + 1
    <3>1. t \in Token /\ status[t] # "unissued"
      BY Types DEF TokensInv, RequestInv, WritesUnderLock
    <3> QED  BY <3>1, Types
  <2> QED  BY <2>1, <2>2 DEF CommitPair, CommitRevocation
<1> QED  BY <1>1, <1>2, <1>4, <1>5, FinishStep

\* Expiry and deactivation touch no request.
LEMMA EnvironmentStep ==
  ASSUME TokensInv,
         \/ \E t \in Token : Expire(t)
         \/ \E u \in Users : Deactivate(u)
         \/ UNCHANGED vars
  PROVE  TokensInv'
<1>1. /\ UNCHANGED <<pc, tok, usr, locks, revokes, deletes, scan, doomed>>
      /\ UNCHANGED <<status, owner, family, parent, issued>>
      /\ expired \subseteq expired' /\ active' \in [Users -> BOOLEAN]
  <2>1. CASE \E t \in Token : Expire(t)
    BY <2>1 DEF Expire, TokensInv, TypeOK
  <2>2. CASE \E u \in Users : Deactivate(u)
    BY <2>2 DEF Deactivate, db, TokensInv, TypeOK
  <2>3. CASE UNCHANGED vars
    BY <2>3 DEF vars, db, TokensInv, TypeOK
  <2> QED  BY <2>1, <2>2, <2>3
<1>2. S!SessionsInv'
  <2>1. CASE \E t \in Token : Expire(t)
    <3>1. S!SessionsNext
      BY <2>1 DEF Expire, S!SessionsNext, S!TokenExpires, Token, S!Token
    <3> QED  BY <3>1, SessionsStep
  <2>2. CASE UNCHANGED db
    BY <2>2, TableRests
  <2> QED  BY <2>1, <2>2 DEF Deactivate, vars
<1>3. TypeOK'
  BY <1>1, <1>2 DEF TokensInv, TypeOK, S!SessionsInv
<1>4. LocksDisjoint'
  BY <1>1 DEF TokensInv, LocksDisjoint
<1>5. TableGrows /\ issued' \in Nat
  BY <1>1, Types DEF TableGrows
<1>6. ASSUME NEW q \in Requests PROVE RequestInv(q)'
  BY <1>1, <1>5, Frame DEF SameRequest
<1> QED  BY <1>2, <1>3, <1>4, <1>6 DEF TokensInv

\* Each of the four requests that may arrive is accepted as AcceptStep asks.
LEMMA ArriveStep ==
  ASSUME TokensInv, NEW r \in Requests, Arrive(r) PROVE TokensInv'
<1>1. ASSUME NEW u \in Users, Login(r, u) \/ LogoutAll(r, u) PROVE TokensInv'
  BY <1>1, AcceptStep DEF Login, LogoutAll
<1>2. ASSUME NEW t \in Token, status[t] # "unissued",
             \/ Accept(r, "lookup", t, owner[t], {})
             \/ Accept(r, "logoutRead", t, owner[t], {})
      PROVE  TokensInv'
  <2>1. t \in 1..issued /\ owner[t] \in Users
    BY <1>2, Types
  <2> QED  BY <1>2, <2>1, AcceptStep
<1> QED  BY <1>1, <1>2 DEF Arrive, Refresh, Logout

\* With no token issued and no request in flight the invariant holds.
LEMMA InitInv == Init => TokensInv
<1> SUFFICES ASSUME Init PROVE TokensInv
  OBVIOUS
<1>1. MaxToken \in Nat /\ NoUser \notin Users
  BY TokensAssumption DEF TokensAssumption
<1>2. S!SessionsInv /\ S!SessionsTypeOK
  BY <1>1 DEF Init, S!SessionsInit, S!SessionsInv, S!SessionsTypeOK, S!Status, S!Token,
     S!NumberedInOrder, S!Descent, S!OneOwnerPerFamily, S!OneLivePerFamily, S!SingleUse
<1>3. TypeOK
  BY <1>1, <1>2 DEF Init, TypeOK, PC
<1>4. LocksDisjoint
  BY DEF Init, LocksDisjoint
<1>5. ASSUME NEW r \in Requests PROVE RequestInv(r)
  BY DEF Init, RequestInv, WritesUnderLock, Shape, DoomedReached
<1> QED  BY <1>2, <1>3, <1>4, <1>5 DEF TokensInv

\* Every step keeps the invariant, by the lemma of its action.
LEMMA NextInv == TokensInv /\ [Next]_vars => TokensInv'
<1> SUFFICES ASSUME TokensInv, [Next]_vars PROVE TokensInv'
  OBVIOUS
<1>1. ASSUME NEW r \in Requests, Arrive(r) PROVE TokensInv'
  BY <1>1, ArriveStep
<1>2. ASSUME NEW r \in Requests, Step(r) PROVE TokensInv'
  <2>1. CASE RefreshLookup(r) \/ RefreshRotate(r)
    BY <2>1, LookupStep, RotateStep
  <2>2. CASE BeginPurge(r) \/ BeginRevokeFamily(r) \/ BeginRevokeAll(r)
    BY <2>2, ScanStep DEF BeginPurge, BeginRevokeFamily, BeginRevokeAll
  <2>3. CASE \E t \in Token : VisitPurge(r, t) \/ VisitRevoke(r, t)
    BY <2>3, VisitPurgeStep, VisitRevokeStep
  <2>4. CASE LogoutRead(r) \/ LogoutUpdate(r)
    BY <2>4, LogoutStep
  <2>5. CASE CommitPair(r) \/ CommitRevocation(r)
    BY <2>5, CommitStep
  <2> QED  BY <1>2, <2>1, <2>2, <2>3, <2>4, <2>5 DEF Step
<1>3. ASSUME NEW r \in Requests, Abort(r) \/ DeadlockAbort(r) PROVE TokensInv'
  BY <1>3, RejectStep DEF Abort, DeadlockAbort
<1> QED  BY <1>1, <1>2, <1>3, EnvironmentStep DEF Next

-----------------------------------------------------------------------------
(***************************************************************************)
(* The inductive invariant holds in every reachable state: a row is        *)
(* written by one transaction at a time, each request keeps to the shape   *)
(* of its handler, and a revocation loses none of the rows it must reach.  *)
(***************************************************************************)
THEOREM TokensInvariant == Spec => []TokensInv
  BY InitInv, NextInv, PTL DEF Spec

\* Every variable keeps its type (RefreshTokens!TypeOK).
THEOREM TypeCorrect == Spec => []TypeOK
<1>1. TokensInv => TypeOK
  BY DEF TokensInv
<1> QED  BY <1>1, TokensInvariant, PTL

(***************************************************************************)
(* However requests interleave, a session never has two live tokens        *)
(* (auth_service.rotate_refresh).                                          *)
(***************************************************************************)
THEOREM SessionsAreChains == Spec => []OneLivePerFamily
<1>1. TokensInv => OneLivePerFamily
  BY DEF TokensInv, OneLivePerFamily, S!SessionsInv
<1> QED  BY <1>1, TokensInvariant, PTL

\* However requests interleave, no token is exchanged twice (rotate_refresh).
THEOREM NoTokenIsExchangedTwice == Spec => []SingleUse
<1>1. TokensInv => SingleUse
  BY DEF TokensInv, SingleUse, S!SessionsInv
<1> QED  BY <1>1, TokensInvariant, PTL

(***************************************************************************)
(* A logout-all or a reuse detection ends, by its commit, each token that  *)
(* was live when it was accepted (refresh_token_repo._revoke_where).       *)
(***************************************************************************)
THEOREM RevocationIsThorough == Spec => RevocationCoversSnapshot
<1>1. ASSUME TokensInv, NEW r \in Requests, CommitRevocation(r), NEW t \in doomed[r]
      PROVE  status'[t] # "live"
  <2>1. /\ pc[r] = "revoking" /\ scan[r] = {} /\ t \in Token
        /\ DoomedReached(r)
    BY <1>1, Types DEF CommitRevocation, TokensInv, RequestInv
  <2>2. status[t] = "live" => t \in revokes[r]
    BY <1>1, <2>1 DEF DoomedReached
  <2> QED  BY <1>1, <2>1, <2>2 DEF CommitRevocation
<1>2. TokensInv => [\A r \in Requests :
                       CommitRevocation(r) => \A t \in doomed[r] : status'[t] # "live"]_vars
  BY <1>1
<1> QED  BY <1>2, TokensInvariant, PTL DEF RevocationCoversSnapshot

(***************************************************************************)
(* Each request, however its statements interleave with others, is one     *)
(* atomic operation of Sessions, or nothing.                               *)
(***************************************************************************)
THEOREM Refinement == Spec => RefinesSessions
<1>1. Init => S!SessionsInit
  BY DEF Init
<1>2. TokensInv /\ [Next]_vars => [S!SessionsNext]_S!svars
  <2> SUFFICES ASSUME TokensInv, [Next]_vars PROVE S!SessionsNext \/ UNCHANGED db
    BY DEF S!svars, db
  <2>1. ASSUME NEW r \in Requests, Arrive(r) PROVE UNCHANGED db
    BY <2>1 DEF Arrive, Login, Refresh, Logout, LogoutAll, Accept
  <2>2. ASSUME NEW r \in Requests, Step(r) PROVE S!SessionsNext \/ UNCHANGED db
    <3>1. CASE CommitPair(r) \/ CommitRevocation(r)
      BY <3>1, CommitPairIsIssue, CommitRevocationIsRevoke
    <3>2. CASE \/ RefreshLookup(r) \/ RefreshRotate(r)
               \/ BeginPurge(r) \/ BeginRevokeFamily(r) \/ BeginRevokeAll(r)
               \/ LogoutRead(r) \/ LogoutUpdate(r)
      BY <3>2 DEF RefreshLookup, RefreshRotate, BeginPurge, BeginRevokeFamily,
                  BeginRevokeAll, BeginScan, LogoutRead, LogoutUpdate, Reject
    <3>3. CASE \E t \in Token : VisitPurge(r, t) \/ VisitRevoke(r, t)
      BY <3>3 DEF VisitPurge, VisitRevoke
    <3> QED  BY <2>2, <3>1, <3>2, <3>3 DEF Step
  <2>3. ASSUME NEW r \in Requests, Abort(r) \/ DeadlockAbort(r) PROVE UNCHANGED db
    BY <2>3 DEF Abort, DeadlockAbort, Reject
  <2>4. ASSUME NEW t \in Token, Expire(t) PROVE S!SessionsNext
    BY <2>4 DEF Expire, S!SessionsNext, S!TokenExpires, Token, S!Token
  <2>5. ASSUME NEW u \in Users, Deactivate(u) PROVE UNCHANGED db
    BY <2>5 DEF Deactivate
  <2> QED  BY <2>1, <2>2, <2>3, <2>4, <2>5 DEF Next, vars
<1> QED  BY <1>1, <1>2, TokensInvariant, PTL DEF Spec, RefinesSessions, S!SessionsSpec
=============================================================================
