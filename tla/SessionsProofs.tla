--------------------------- MODULE SessionsProofs ---------------------------
(***************************************************************************)
(* Proofs about Sessions, for every set of users and every bound MaxToken. *)
(***************************************************************************)
EXTENDS Sessions, TLAPS

USE DEF Token

\* No token has been issued at the start: the invariant holds.
LEMMA InitInv == ASSUME SessionsAssumption, SessionsInit PROVE SessionsInv
  BY DEF SessionsAssumption, SessionsInit, SessionsInv, SessionsTypeOK, Status,
         NumberedInOrder, Descent, OneOwnerPerFamily, OneLivePerFamily, SingleUse

(***************************************************************************)
(* Issuing a token keeps the invariant if the token either opens a family  *)
(* or replaces the live token it descends from, which it then revokes.     *)
(***************************************************************************)
LEMMA IssueInv ==
  ASSUME SessionsAssumption, SessionsInv,
         NEW u \in Users, NEW f, NEW p, NEW R \in SUBSET Token,
         NEW P \in SUBSET expired,
         Issue(u, f, p, R, P),
         \/ f = issued + 1 /\ p = 0 /\ R = {}
         \/ /\ p \in Token /\ status[p] = "live" /\ R = {p}
            /\ f = family[p] /\ u = owner[p]
  PROVE  SessionsInv'
<1> DEFINE new == issued + 1
<1> USE DEF SessionsInv
<1>1. /\ new \in Token /\ issued \in Nat /\ issued' = new
      /\ \A t \in Token : /\ t = new => status'[t] = "live"
                          /\ t # new => /\ \/ status'[t] = status[t]
                                           \/ t \in P /\ status'[t] = "purged"
                                           \/ t \in R /\ status'[t] = "revoked"
                                        /\ owner'[t] = owner[t]
                                        /\ family'[t] = family[t]
                                        /\ parent'[t] = parent[t]
      /\ owner'[new] = u /\ family'[new] = f /\ parent'[new] = p
      /\ expired' = expired
  BY DEF SessionsAssumption, SessionsTypeOK, Issue
<1>2. \A t \in Token : /\ t # new => (new < t <=> issued < t) /\ (t <= new <=> t <= issued)
                       /\ issued < t <=> ~(t <= issued)
  BY <1>1
<1>3. \/ f = new /\ p = 0 /\ R = {}
      \/ /\ p \in 1..issued /\ status[p] = "live" /\ R = {p}
         /\ f \in 1..issued /\ f = family[p] /\ u = owner[p]
  <2>1. ASSUME p \in Token, status[p] = "live" PROVE p \in 1..issued
    <3>1. status[p] = "unissued" <=> issued < p
      BY <2>1 DEF NumberedInOrder
    <3> QED  BY <2>1, <3>1, <1>1
  <2>2. ASSUME p \in 1..issued PROVE family[p] \in 1..issued
    BY <2>2, <1>1 DEF Descent
  <2> QED  BY <2>1, <2>2
<1>4. SessionsTypeOK'
  BY <1>1, <1>3 DEF SessionsAssumption, SessionsTypeOK, Issue, Status
<1> HIDE DEF new
<1>5. \A t \in Token : status'[t] = "live" => t = new \/ (status[t] = "live" /\ t \notin R)
  <2> SUFFICES ASSUME NEW t \in Token, t # new, status'[t] = "live"
               PROVE  status[t] = "live" /\ t \notin R
    OBVIOUS
  <2> QED  BY <1>1, <1>3 DEF Issue, SessionsTypeOK, new
<1>6. NumberedInOrder'
  <2>1. ASSUME NEW t \in Token PROVE status'[t] = "unissued" <=> new < t
    <3>1. CASE t = new
      BY <3>1, <1>1
    <3>2. CASE t # new
      <4>1. /\ status[t] = "unissued" <=> issued < t
            /\ t \in P \cup R => t <= issued
        BY <1>3 DEF NumberedInOrder
      <4> QED  BY <4>1, <3>2, <1>1, <1>2
    <3> QED  BY <3>1, <3>2
  <2>2. ASSUME NEW t \in expired PROVE t <= new
    <3>1. t \in Token /\ t <= issued
      BY DEF SessionsTypeOK, NumberedInOrder
    <3> QED  BY <3>1, <1>1 DEF new
  <2> QED  BY <1>1, <2>1, <2>2 DEF NumberedInOrder
<1>7. Descent'
  <2> SUFFICES ASSUME NEW t \in Token
               PROVE  /\ t <= new => owner'[t] \in Users /\ family'[t] \in 1..new
                      /\ new < t  => parent'[t] = 0
                      /\ parent'[t] # 0 => /\ parent'[t] <= new
                                           /\ status'[parent'[t]] # "live"
    BY <1>1 DEF Descent
  <2>1. CASE t = new
    BY <2>1, <1>1, <1>3, <1>5 DEF new
  <2>2. CASE t # new
    <3>1. /\ t <= issued => owner[t] \in Users /\ family[t] \in 1..issued
          /\ issued < t => parent[t] = 0
          /\ parent[t] # 0 => parent[t] <= issued /\ status[parent[t]] # "live"
      BY DEF Descent
    <3>2. parent[t] # 0 => parent[t] \in Token /\ parent[t] # new
      BY <3>1, <1>1 DEF SessionsTypeOK, new
    <3>3. owner'[t] = owner[t] /\ family'[t] = family[t] /\ parent'[t] = parent[t]
      BY <2>2, <1>1
    <3>4. t <= new => owner'[t] \in Users /\ family'[t] \in 1..new
      BY <2>2, <3>1, <3>3, <1>1, <1>2 DEF new
    <3>5. new < t => parent'[t] = 0
      BY <2>2, <3>1, <3>3, <1>2
    <3>6. parent'[t] # 0 => parent'[t] <= new /\ status'[parent'[t]] # "live"
      <4> SUFFICES ASSUME parent[t] # 0
                   PROVE  parent[t] <= new /\ status'[parent[t]] # "live"
        BY <3>3
      <4> QED  BY <3>1, <3>2, <1>1, <1>2, <1>5
    <3> QED  BY <3>4, <3>5, <3>6
  <2> QED  BY <2>1, <2>2
<1>8. OneOwnerPerFamily'
  <2> SUFFICES ASSUME NEW a \in 1..new, NEW b \in 1..new, family'[a] = family'[b]
               PROVE  owner'[a] = owner'[b]
    BY <1>1 DEF OneOwnerPerFamily
  <2>1. \A t \in 1..issued : t \in Token /\ t # new /\ family[t] \in 1..issued
    BY <1>1 DEF Descent, new
  <2>2. CASE a # new /\ b # new
    BY <2>2, <2>1, <1>1, <1>2 DEF OneOwnerPerFamily, new
  <2>3. CASE a = new \/ b = new
    BY <2>3, <2>1, <1>1, <1>2, <1>3 DEF OneOwnerPerFamily, new
  <2> QED  BY <2>2, <2>3
<1>9. OneLivePerFamily'
  <2> SUFFICES ASSUME NEW a \in Token, NEW b \in Token, status'[a] = "live",
                      status'[b] = "live", family'[a] = family'[b], a # new
               PROVE  a = b
    BY DEF OneLivePerFamily
  <2>1. status[a] = "live" /\ a \notin R /\ family[a] \in 1..issued
    BY <1>2, <1>5 DEF NumberedInOrder, Descent
  <2>2. CASE b = new
    <3>1. family[a] = f
      BY <2>2, <1>1
    <3>2. f # new
      BY <3>1, <2>1, <1>1 DEF new
    <3> QED  BY <2>1, <3>1, <3>2, <1>3 DEF OneLivePerFamily, NumberedInOrder
  <2>3. CASE b # new
    BY <2>1, <2>3, <1>1, <1>5 DEF OneLivePerFamily
  <2> QED  BY <2>2, <2>3
<1>10. SingleUse'
  <2> SUFFICES ASSUME NEW a \in Token, NEW b \in Token,
                      parent'[a] # 0, parent'[a] = parent'[b], a # new
               PROVE  a = b
    BY DEF SingleUse
  <2>1. /\ parent'[a] = parent[a] /\ parent'[new] = p
        /\ b # new => parent'[b] = parent[b]
    BY <1>1
  <2>0. status[parent[a]] # "live"
    BY <2>1 DEF Descent
  <2>2. CASE b = new
    <3>1. p = parent[a] /\ p # 0
      BY <2>1, <2>2
    <3>2. status[p] = "live"
      BY <3>1, <1>3
    <3> QED  BY <2>0, <3>1, <3>2
  <2>3. CASE b # new
    <3>1. parent[a] # 0 /\ parent[a] = parent[b]
      BY <2>1, <2>3
    <3>2. \A x, y \in Token : parent[x] # 0 /\ parent[x] = parent[y] => x = y
      BY DEF SingleUse
    <3> QED  BY <3>1, <3>2
  <2> QED  BY <2>2, <2>3
<1> QED  BY <1>4, <1>6, <1>7, <1>8, <1>9, <1>10

\* Ending tokens keeps the invariant.
LEMMA RevokeInv ==
  ASSUME SessionsInv, NEW u \in Users, NEW R \in SUBSET Token, RevokeSome(u, R)
  PROVE  SessionsInv'
<1> USE DEF SessionsInv
<1>1. \A t \in Token : \/ status'[t] = status[t]
                       \/ status[t] \in {"live", "revoked"} /\ status'[t] = "revoked"
  BY DEF RevokeSome, SessionsTypeOK
<1>2. SessionsTypeOK'
  BY DEF SessionsTypeOK, RevokeSome, Status
<1>3. NumberedInOrder' /\ Descent' /\ OneOwnerPerFamily' /\ OneLivePerFamily' /\ SingleUse'
  <2>0. issued' = issued /\ expired' = expired /\ parent' = parent
        /\ owner' = owner /\ family' = family
    BY DEF RevokeSome
  <2>1. NumberedInOrder'
    BY <1>1, <2>0 DEF NumberedInOrder
  <2>4. Descent'
    <3> SUFFICES ASSUME NEW t \in Token, parent[t] # 0
                 PROVE  status'[parent[t]] # "live"
      BY <2>0 DEF Descent
    <3>1. parent[t] \in Token /\ status[parent[t]] # "live"
      <4>1. parent[t] \in 0..MaxToken
        BY DEF SessionsTypeOK
      <4>2. status[parent[t]] # "live"
        BY DEF Descent
      <4> QED  BY <4>1, <4>2
    <3> QED  BY <3>1, <1>1
  <2>2. OneOwnerPerFamily' /\ SingleUse'
    BY DEF RevokeSome, OneOwnerPerFamily, SingleUse
  <2>3. OneLivePerFamily'
    BY <1>1 DEF RevokeSome, OneLivePerFamily
  <2> QED  BY <2>1, <2>2, <2>3, <2>4
<1> QED  BY <1>2, <1>3

\* The expiry of a token keeps the invariant.
LEMMA ExpireInv ==
  ASSUME SessionsInv, NEW t \in Token, TokenExpires(t)
  PROVE  SessionsInv'
  BY DEF TokenExpires, SessionsInv, SessionsTypeOK, NumberedInOrder, Descent,
         OneOwnerPerFamily, OneLivePerFamily, SingleUse

\* Every step keeps the invariant.
LEMMA NextInv ==
  ASSUME SessionsAssumption, SessionsInv, [SessionsNext]_svars
  PROVE  SessionsInv'
<1>1. CASE UNCHANGED svars
  BY <1>1 DEF svars, SessionsInv, SessionsTypeOK, NumberedInOrder, Descent,
              OneOwnerPerFamily, OneLivePerFamily, SingleUse
<1>2. ASSUME NEW P \in SUBSET expired, NEW u \in Users, OpenSession(u, P)
      PROVE  SessionsInv'
  BY <1>2, IssueInv DEF OpenSession
<1>3. ASSUME NEW P \in SUBSET expired, NEW t \in Token, Rotate(t, P)
      PROVE  SessionsInv'
  <2>1. owner[t] \in Users
    BY <1>3 DEF Rotate, SessionsInv, SessionsTypeOK, NumberedInOrder, Descent
  <2> QED  BY <1>3, <2>1, IssueInv DEF Rotate
<1>4. ASSUME NEW u \in Users, NEW R \in SUBSET Token, RevokeSome(u, R)
      PROVE  SessionsInv'
  BY <1>4, RevokeInv
<1>5. ASSUME NEW t \in Token, TokenExpires(t)
      PROVE  SessionsInv'
  BY <1>5, ExpireInv
<1> QED  BY <1>1, <1>2, <1>3, <1>4, <1>5 DEF SessionsNext

\* The inductive invariant holds in every reachable state.
THEOREM SessionsInvariant == SessionsAssumption /\ SessionsSpec => []SessionsInv
<1>1. SessionsAssumption /\ SessionsInit => SessionsInv
  BY InitInv
<1>2. SessionsAssumption /\ SessionsInv /\ [SessionsNext]_svars => SessionsInv'
  BY NextInv
<1> QED  BY <1>1, <1>2, SessionsAssumption, PTL DEF SessionsSpec

\* A session never has two tokens that can be exchanged.
THEOREM OneLiveToken == SessionsSpec => []OneLivePerFamily
<1>1. SessionsInv => OneLivePerFamily
  BY DEF SessionsInv
<1> QED  BY <1>1, SessionsInvariant, SessionsAssumption, PTL

\* No token is ever exchanged twice.
THEOREM TokensAreSingleUse == SessionsSpec => []SingleUse
<1>1. SessionsInv => SingleUse
  BY DEF SessionsInv
<1> QED  BY <1>1, SessionsInvariant, SessionsAssumption, PTL
=============================================================================
