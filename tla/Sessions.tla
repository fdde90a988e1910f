------------------------------ MODULE Sessions ------------------------------
(***************************************************************************)
(* What the refresh-token table promises its clients: a login opens a      *)
(* session (a "family" of tokens), a rotation replaces the one live token  *)
(* of a session by its successor, and a revocation ends tokens of a single *)
(* user.  Every operation is one atomic step.  RefreshTokens, where the    *)
(* same operations are transactions of several statements under row locks, *)
(* implements this module.                                                 *)
(*                                                                         *)
(* Tokens are numbered in the order in which their rows are committed; a   *)
(* family bears the number of the login token it grew from (the code's     *)
(* random family_id).                                                      *)
(***************************************************************************)
EXTENDS Naturals

CONSTANTS
    Users,      \* users.id
    NoUser,     \* the owner of a row not yet written
    MaxToken    \* bound: how many refresh tokens are ever issued

ASSUME SessionsAssumption == NoUser \notin Users /\ MaxToken \in Nat

VARIABLES
    status,     \* of each token: unissued, live, revoked, or purged (row deleted)
    owner,      \* refresh_tokens.user_id
    family,     \* refresh_tokens.family_id
    parent,     \* history: the token presented to obtain this one, 0 for a login
    issued,     \* how many tokens have been issued
    expired     \* tokens whose expires_at has passed

svars == <<status, owner, family, parent, issued, expired>>

Token  == 1..MaxToken
Status == {"unissued", "live", "revoked", "purged"}

SessionsTypeOK ==
    /\ status \in [Token -> Status]
    /\ owner  \in [Token -> Users \cup {NoUser}]
    /\ family \in [Token -> 0..MaxToken]
    /\ parent \in [Token -> 0..MaxToken]
    /\ issued \in 0..MaxToken
    /\ expired \subseteq Token

SessionsInit ==
    /\ status = [t \in Token |-> "unissued"]
    /\ owner  = [t \in Token |-> NoUser]
    /\ family = [t \in Token |-> 0]
    /\ parent = [t \in Token |-> 0]
    /\ issued = 0
    /\ expired = {}

(***************************************************************************)
(* Issue(u, f, p, R, P): the next token is issued to user u in family f    *)
(* from the presented token p, while the tokens of R are revoked and the   *)
(* rows of P are deleted.                                                  *)
(***************************************************************************)
Issue(u, f, p, R, P) ==
    LET new == issued + 1 IN
    /\ issued < MaxToken
    /\ issued' = new
    /\ status' = [t \in Token |-> IF t = new THEN "live"
                                  ELSE IF t \in P THEN "purged"
                                  ELSE IF t \in R THEN "revoked"
                                  ELSE status[t]]
    /\ owner'  = [owner  EXCEPT ![new] = u]
    /\ family' = [family EXCEPT ![new] = f]
    /\ parent' = [parent EXCEPT ![new] = p]
    /\ UNCHANGED expired

\* A login opens a family of its own; every issue purges some expired rows.
OpenSession(u, P) == Issue(u, issued + 1, 0, {}, P)

\* Faulty: a token can be exchanged again and again.
RotateUnspent(t, P) == status[t] = "live" /\ Issue(owner[t], family[t], t, {}, P)

\* Only the live token of a session can be exchanged, and it is spent by it.
Rotate(t, P) ==
    /\ status[t] = "live"
    /\ Issue(owner[t], family[t], t, {t}, P)

\* Logout, logout-all and reuse detection end existing tokens of one user.
RevokeSome(u, R) ==
    /\ \A t \in R : owner[t] = u /\ status[t] \in {"live", "revoked"}
    /\ status' = [t \in Token |-> IF t \in R THEN "revoked" ELSE status[t]]
    /\ UNCHANGED <<owner, family, parent, issued, expired>>

TokenExpires(t) ==
    /\ status[t] # "unissued"
    /\ expired' = expired \cup {t}
    /\ UNCHANGED <<status, owner, family, parent, issued>>

SessionsNext ==
    \/ \E P \in SUBSET expired :
          \/ \E u \in Users : OpenSession(u, P)
          \/ \E t \in Token : Rotate(t, P)
    \/ \E u \in Users, R \in SUBSET Token : RevokeSome(u, R)
    \/ \E t \in Token : TokenExpires(t)

SessionsSpec == SessionsInit /\ [][SessionsNext]_svars

(***************************************************************************)
(* A session has at most one token that can be exchanged: two refreshes of *)
(* the same token (auth_service.rotate_refresh) never fork it into two     *)
(* chains that both stay usable.                                           *)
(***************************************************************************)
OneLivePerFamily ==
    \A a, b \in Token :
        status[a] = "live" /\ status[b] = "live" /\ family[a] = family[b] => a = b

(***************************************************************************)
(* A refresh token is single-use: no token is ever exchanged for two       *)
(* successors, whatever happened to those successors since                 *)
(* (auth_service.rotate_refresh).                                          *)
(***************************************************************************)
SingleUse ==
    \A a, b \in Token : parent[a] # 0 /\ parent[a] = parent[b] => a = b

(***************************************************************************)
(* The inductive invariant: rows are numbered in order, the tokens of a    *)
(* family descend from one login of one user, and a token with a successor *)
(* is spent.                                                               *)
(***************************************************************************)
NumberedInOrder ==
    /\ \A t \in Token : status[t] = "unissued" <=> issued < t
    /\ \A t \in expired : t <= issued

Descent ==
    \A t \in Token :
        /\ t <= issued => owner[t] \in Users /\ family[t] \in 1..issued
        /\ issued < t  => parent[t] = 0
        /\ parent[t] # 0 => parent[t] <= issued /\ status[parent[t]] # "live"

OneOwnerPerFamily ==
    \A a, b \in 1..issued : family[a] = family[b] => owner[a] = owner[b]

SessionsInv ==
    /\ SessionsTypeOK
    /\ NumberedInOrder
    /\ Descent
    /\ OneOwnerPerFamily
    /\ OneLivePerFamily
    /\ SingleUse
=============================================================================
