-------------------------- MODULE WebClientProofs --------------------------
(***************************************************************************)
(* Proofs about WebClient, for every set of users, every number of calls   *)
(* and every MaxToken.                                                     *)
(*                                                                         *)
(* In any weather the tab only takes steps of Sessions on the server, and  *)
(* holds only tokens that were issued (Held).  Unless a fetch is slow, the *)
(* places that say who is signed in agree, and there is one refresh at a   *)
(* time (TabInv).  In calm weather the stored refresh token stays good     *)
(* (StoredIsGood), so that the tab is not thrown out.                      *)
(***************************************************************************)
EXTENDS WebClient, SessionsProofs

Steady == "slow" \notin Faults
Calm   == Faults = {}

BootRec   == [st : {"none", "sent", "ok", "denied", "me", "dead"}, tok : Handle]
FormRec   == [st : {"none", "sent", "ok", "me"}, tok : Handle]
FlightRec == [st : {"none", "sent", "ok", "denied"}, tok : Handle]
CallRec   == [st : {"none", "sent", "ok", "denied", "waiting"}, kind : {"get", "logout"},
              api : Handle, body : Handle, retried : BOOLEAN]
LateRec   == [kind : {"login", "refresh", "logout"}, tok : Handle, api : Handle]

Held == SessionsInv /\ TypeOK /\ Known

LEMMA Types ==
  ASSUME Held
  PROVE  /\ NoUser \notin Users /\ MaxToken \in Nat
         /\ status \in [Token -> Status] /\ owner \in [Token -> Users \cup {NoUser}]
         /\ issued \in Nat /\ issued <= MaxToken
         /\ expired \subseteq Token /\ stale \subseteq Token /\ late \subseteq LateRec
         /\ access \in Handle /\ stored \in Handle
         /\ user \in Users \cup {NoUser} /\ ready \in BOOLEAN
         /\ boot \in BootRec /\ form \in FormRec
         /\ call \in [Calls -> CallRec] /\ flight \in [Handle -> FlightRec]
         /\ \A t \in Token : status[t] = "unissued" <=> issued < t
         /\ \A t \in Token : t <= issued => owner[t] \in Users
<1> USE DEF Held
<1>1. NoUser \notin Users /\ MaxToken \in Nat
  BY SessionsAssumption DEF SessionsAssumption
<1>2. /\ SessionsTypeOK /\ NumberedInOrder /\ Descent
  BY DEF SessionsInv
<1>3. /\ status \in [Token -> Status] /\ owner \in [Token -> Users \cup {NoUser}]
      /\ issued \in Nat /\ issued <= MaxToken /\ expired \subseteq Token
  BY <1>1, <1>2 DEF SessionsTypeOK
<1>4. /\ stale \subseteq Token /\ access \in Handle /\ stored \in Handle
      /\ user \in Users \cup {NoUser} /\ ready \in BOOLEAN
  BY <1>1 DEF TypeOK, Handle
<1>5. /\ boot \in BootRec /\ form \in FormRec /\ late \subseteq LateRec
      /\ call \in [Calls -> CallRec] /\ flight \in [Handle -> FlightRec]
  BY DEF TypeOK, BootRec, FormRec, FlightRec, CallRec, LateRec
<1>6. /\ \A t \in Token : status[t] = "unissued" <=> issued < t
      /\ \A t \in Token : t <= issued => owner[t] \in Users
  BY <1>2 DEF NumberedInOrder, Descent
<1> QED  BY <1>1, <1>3, <1>4, <1>5, <1>6

\* Types of a step, if what the server keeps has them.
LEMMA TypesKept ==
  ASSUME SessionsInv', Known',
         stale' \subseteq Token, late' \subseteq LateRec, access' \in Handle, stored' \in Handle,
         user' \in Users \cup {NoUser}, ready' \in BOOLEAN,
         boot' \in BootRec, form' \in FormRec,
         call' \in [Calls -> CallRec], flight' \in [Handle -> FlightRec]
  PROVE  Held'
  BY DEF Held, TypeOK, SessionsInv, BootRec, FormRec, FlightRec, CallRec, LateRec

\* The values a component is reset to.
LEMMA Blank ==
  ASSUME MaxToken \in Nat
  PROVE  /\ None \in BootRec /\ None \in FormRec /\ None \in FlightRec
         /\ None.st = "none" /\ None.tok = 0
         /\ NoCall \in CallRec /\ NoCall.st = "none" /\ NoCall.kind = "get"
         /\ NoCall.api = 0 /\ NoCall.body = 0
  BY DEF None, NoCall, BootRec, FormRec, FlightRec, CallRec, Handle

-----------------------------------------------------------------------------
(* What the server does *)

\* A rotation spends its token and issues the next one to the same user.
LEMMA RotateIs ==
  ASSUME Held, NEW t \in Token, Rotate(t, {})
  PROVE  /\ status[t] = "live" /\ t <= issued /\ issued' = issued + 1 /\ issued' \in Token
         /\ status' \in [Token -> Status] /\ status'[issued'] = "live" /\ status'[t] = "revoked"
         /\ owner' \in [Token -> Users \cup {NoUser}]
         /\ owner'[issued'] = owner[t]
         /\ \A k \in Token : k <= issued => /\ owner'[k] = owner[k]
                                            /\ k # t => status'[k] = status[k]
         /\ UNCHANGED expired
  BY Types DEF Token, Handle, Rotate, Issue, Status

LEMMA OpenIs ==
  ASSUME Held, NEW u \in Users, OpenSession(u, {})
  PROVE  /\ issued' = issued + 1 /\ issued' \in Token
         /\ status' \in [Token -> Status] /\ status'[issued'] = "live"
         /\ owner' \in [Token -> Users \cup {NoUser}]
         /\ \A k \in Token : k <= issued => /\ owner'[k] = owner[k]
                                            /\ status'[k] = status[k]
         /\ UNCHANGED expired
         /\ SessionsNext
<1>1. SessionsNext
  BY DEF SessionsNext
<1> QED  BY <1>1, Types DEF Token, Handle, OpenSession, Issue, Status

LEMMA RevokeIs ==
  ASSUME Held, NEW u \in Users, NEW R \in SUBSET Token, RevokeSome(u, R)
  PROVE  /\ status' \in [Token -> Status]
         /\ \A k \in Token : IF k \in R THEN status'[k] = "revoked" ELSE status'[k] = status[k]
         /\ UNCHANGED <<owner, issued, expired>>
         /\ SessionsNext
<1>1. SessionsNext
  BY DEF SessionsNext
<1> QED  BY <1>1, Types DEF RevokeSome, Status

\* A refresh is answered: a step of Sessions, and the tab is handed a token that exists.
LEMMA RefreshIs ==
  ASSUME Held, NEW t \in Token, t <= issued, NEW a \in {"ok", "denied"}, ServeRefresh(t, a)
  PROVE  /\ [SessionsNext]_svars
         /\ issued' \in {issued, issued + 1} /\ issued' <= MaxToken
         /\ \A k \in Token : k <= issued => owner'[k] = owner[k]
         /\ Answer(t, a) \in BootRec /\ Answer(t, a) \in FlightRec
         /\ Answer(t, a).st = a /\ Answer(t, a).tok # 0 /\ Answer(t, a).tok <= issued'
         /\ \/ /\ a = "ok" /\ Rotate(t, {}) /\ Answer(t, a).tok = issued'
            \/ /\ a = "denied" /\ Answer(t, a).tok = t
               /\ issued' = issued /\ UNCHANGED <<owner, expired>>
<1> USE Types DEF Handle, Token
<1> DEFINE R == {k \in Token : status[k] = "live" /\ family[k] = family[t]}
<1>1. CASE a = "ok" /\ Rotate(t, {})
  <2>1. [SessionsNext]_svars
    BY <1>1 DEF SessionsNext
  <2>2. /\ issued' = issued + 1 /\ issued' \in Token
        /\ \A k \in Token : k <= issued => owner'[k] = owner[k]
    BY <1>1, RotateIs
  <2>3. Answer(t, a) = [st |-> a, tok |-> issued']
    BY <1>1, <2>2 DEF Answer
  <2> QED  BY <1>1, <2>1, <2>2, <2>3 DEF BootRec, FlightRec
<1>2. CASE a = "denied" /\ (UNCHANGED svars \/ RevokeSome(owner[t], R))
  <2>1. [SessionsNext]_svars /\ UNCHANGED <<owner, issued, expired>>
    BY <1>2, RevokeIs DEF svars
  <2>2. Answer(t, a) = [st |-> a, tok |-> t]
    BY <1>2 DEF Answer
  <2> QED  BY <1>2, <2>1, <2>2 DEF BootRec, FlightRec
<1> QED  BY <1>1, <1>2 DEF ServeRefresh

-----------------------------------------------------------------------------
(* What becomes of the calls *)

\* The status of a call changes.
LEMMA CallIs ==
  ASSUME Held, NEW c \in Calls, NEW a \in {"sent", "ok", "denied", "waiting"},
         call' = [call EXCEPT ![c].st = a]
  PROVE  /\ call' \in [Calls -> CallRec]
         /\ call'[c].st = a
         /\ \A d \in Calls : /\ d # c => call'[d] = call[d]
                             /\ call'[d].kind = call[d].kind /\ call'[d].api = call[d].api
                             /\ call'[d].body = call[d].body
<1> DEFINE t == call[c]
           s == [t EXCEPT !.st = a]
<1>1. t \in CallRec /\ call \in [Calls -> CallRec] /\ call' = [call EXCEPT ![c] = s]
  BY Types
<1> HIDE DEF t
<1>2. s \in CallRec /\ s.st = a /\ s.kind = t.kind /\ s.api = t.api /\ s.body = t.body
  BY <1>1 DEF CallRec
<1> HIDE DEF s
<1> QED  BY <1>1, <1>2 DEF t

\* Some calls are over.
LEMMA ReturnIs ==
  ASSUME Held, NEW C \in SUBSET Calls, Return(C)
  PROVE  /\ call' \in [Calls -> CallRec]
         /\ \A c \in Calls : IF c \in C THEN call'[c] = NoCall ELSE call'[c] = call[c]
         /\ \/ /\ \E c \in C : call[c].kind = "logout"
               /\ access' = 0 /\ stored' = 0 /\ user' = NoUser
            \/ UNCHANGED <<access, stored, user>>
  BY Types, Blank DEF Return, ClearAuth

\* Some calls are sent again.
LEMMA AgainIs ==
  ASSUME Held, NEW C \in SUBSET Calls,
         call' = [c \in Calls |-> IF c \in C THEN Again(c) ELSE call[c]]
  PROVE  /\ call' \in [Calls -> CallRec]
         /\ \A c \in Calls : /\ IF c \in C THEN call'[c].st = "sent" ELSE call'[c] = call[c]
                             /\ call'[c].kind = call[c].kind /\ call'[c].api = call[c].api
                             /\ call'[c].body = call[c].body
<1>1. ASSUME NEW c \in Calls
      PROVE  /\ Again(c) \in CallRec /\ Again(c).st = "sent" /\ Again(c).kind = call[c].kind
             /\ Again(c).api = call[c].api /\ Again(c).body = call[c].body
  <2> DEFINE t == call[c]
             s == [t EXCEPT !.st = "sent", !.retried = TRUE]
  <2>1. t \in CallRec
    BY Types
  <2> HIDE DEF t
  <2>2. s \in CallRec /\ s.st = "sent" /\ s.kind = t.kind /\ s.api = t.api /\ s.body = t.body
    BY <2>1 DEF CallRec
  <2> QED  BY <2>2 DEF t, Again
<1> QED  BY <1>1, Types

\* A new call is made.
LEMMA PutIs ==
  ASSUME Held, NEW c \in Calls, NEW s \in CallRec, call' = [call EXCEPT ![c] = s]
  PROVE  /\ call' \in [Calls -> CallRec] /\ call'[c] = s
         /\ \A d \in Calls \ {c} : call'[d] = call[d]
  BY Types

\* The promise of one client changes.
LEMMA FlightIs ==
  ASSUME Held, NEW k \in Handle, NEW f \in FlightRec, flight' = [flight EXCEPT ![k] = f]
  PROVE  /\ flight' \in [Handle -> FlightRec] /\ flight'[k] = f
         /\ \A j \in Handle \ {k} : flight'[j] = flight[j]
  BY Types

\* What is under way bears a token that was issued.
LEMMA UnderwayIs ==
  ASSUME Held, NEW x \in Underway
  PROVE  x \in LateRec /\ x.tok <= issued /\ (x.kind # "login" => x.tok # 0)
<1> USE Types DEF Handle, Token
<1>1. CASE x = Request("login", 0, 0)
  BY <1>1 DEF Request, LateRec
<1>2. ASSUME NEW f \in {boot} \cup {flight[k] : k \in Handle}, f.st = "sent",
             x = Request("refresh", f.tok, 0)
      PROVE  x \in LateRec /\ x.tok <= issued /\ x.tok # 0
  <2>1. f.tok \in Handle /\ f.tok <= issued /\ f.tok # 0
    BY <1>2 DEF Held, Known, BootRec, FlightRec
  <2> QED  BY <1>2, <2>1 DEF Request, LateRec
<1>3. ASSUME NEW c \in Calls, call[c].kind = "logout", x = Request("logout", call[c].body, call[c].api)
      PROVE  x \in LateRec /\ x.tok <= issued /\ x.tok # 0
  <2>1. /\ call[c].body \in Handle /\ call[c].body <= issued /\ call[c].body # 0
        /\ call[c].api \in Handle
    BY <1>3 DEF Held, Known, CallRec
  <2> QED  BY <1>3, <2>1 DEF Request, LateRec
<1>4. \/ x = Request("login", 0, 0)
      \/ \E f \in {boot} \cup {flight[k] : k \in Handle} :
            f.st = "sent" /\ x = Request("refresh", f.tok, 0)
      \/ \E c \in Calls : call[c].kind = "logout" /\ x = Request("logout", call[c].body, call[c].api)
  BY DEF Underway
<1> QED  BY <1>1, <1>2, <1>3, <1>4


-----------------------------------------------------------------------------
(* Any weather: what the tab holds was issued, and the server takes steps of Sessions *)

\* What was issued stays issued.
LEMMA Grows ==
  ASSUME Held, issued' \in {issued, issued + 1}
  PROVE  /\ access <= issued' /\ stored <= issued' /\ boot.tok <= issued' /\ form.tok <= issued'
         /\ \A k \in stale : k <= issued'
         /\ \A c \in Calls : call[c].api <= issued' /\ call[c].body <= issued'
         /\ \A k \in Handle : flight[k].tok <= issued'
         /\ \A x \in late : x.tok <= issued'
<1> USE Types DEF Handle, Token
<1>1. \A n \in Nat : n <= issued => n <= issued'
  OBVIOUS
<1>2. /\ access \in Nat /\ stored \in Nat /\ boot.tok \in Nat /\ form.tok \in Nat
      /\ \A k \in stale : k \in Nat
      /\ \A c \in Calls : call[c].api \in Nat /\ call[c].body \in Nat
      /\ \A k \in Handle : flight[k].tok \in Nat
      /\ \A x \in late : x.tok \in Nat
  BY DEF BootRec, FormRec, CallRec, FlightRec, LateRec
<1>3. Known
  BY DEF Held
<1> HIDE Types DEF Handle, Token
<1> QED  BY <1>1, <1>2, <1>3 DEF Known

LEMMA ServeBootHeld ==
  ASSUME Held, ServeBoot
  PROVE  [SessionsNext]_svars /\ (SessionsInv' => Held')
<1> USE Types DEF Handle, Token
<1>1. boot.tok \in Token /\ boot.tok <= issued
  BY DEF ServeBoot, Held, Known, BootRec
<1>2. PICK a \in {"ok", "denied"} : ServeRefresh(boot.tok, a) /\ boot' = Answer(boot.tok, a)
  BY DEF ServeBoot
<1>3. /\ [SessionsNext]_svars /\ boot' \in BootRec /\ issued' \in {issued, issued + 1}
      /\ boot'.tok # 0 /\ boot'.tok <= issued'
  BY <1>1, <1>2, RefreshIs
<1>4. Known'
  BY <1>3, Grows DEF ServeBoot, page, Held, Known
<1> QED  BY <1>3, <1>4, TypesKept DEF ServeBoot, page

LEMMA ServeFlightHeld ==
  ASSUME Held, NEW k \in Handle, ServeFlight(k)
  PROVE  [SessionsNext]_svars /\ (SessionsInv' => Held')
<1> USE Types DEF Handle, Token
<1>1. flight[k].tok \in Token /\ flight[k].tok <= issued
  BY DEF ServeFlight, Held, Known, FlightRec
<1>2. PICK a \in {"ok", "denied"} : /\ ServeRefresh(flight[k].tok, a)
                                    /\ flight' = [flight EXCEPT ![k] = Answer(flight[k].tok, a)]
  BY DEF ServeFlight
<1>3. /\ [SessionsNext]_svars /\ flight' \in [Handle -> FlightRec]
      /\ issued' \in {issued, issued + 1}
      /\ flight'[k].tok # 0 /\ flight'[k].tok <= issued'
      /\ \A j \in Handle \ {k} : flight'[j] = flight[j]
  BY <1>1, <1>2, RefreshIs, FlightIs
<1>4. Known'
  BY <1>3, Grows DEF ServeFlight, page, Held, Known
<1> QED  BY <1>3, <1>4, TypesKept DEF ServeFlight, page

LEMMA ServeFormHeld ==
  ASSUME Held, ServeForm
  PROVE  [SessionsNext]_svars /\ (SessionsInv' => Held')
<1> USE Types DEF Handle, Token
<1>1. /\ [SessionsNext]_svars /\ form' \in FormRec /\ issued' \in {issued, issued + 1}
      /\ form'.tok <= issued' /\ (form'.st \in {"ok", "me"} => form'.tok # 0)
  <2>1. CASE UNCHANGED svars /\ form' = None
    BY <2>1, Blank DEF svars
  <2>2. ASSUME NEW u \in Users, OpenSession(u, {}), form' = Answer(0, "ok")
        PROVE  <1>1!:
    BY <2>2, OpenIs DEF Answer, FormRec
  <2> QED  BY <2>1, <2>2 DEF ServeForm
<1>2. Known'
  BY <1>1, Grows DEF ServeForm, page, Held, Known
<1> QED  BY <1>1, <1>2, TypesKept DEF ServeForm, page

LEMMA ServeCallHeld ==
  ASSUME Held, NEW c \in Calls, ServeCall(c)
  PROVE  [SessionsNext]_svars /\ (SessionsInv' => Held')
<1> USE Types DEF Handle, Token
<1>1. PICK a \in {"ok", "denied"} : call' = [call EXCEPT ![c].st = a]
  BY DEF ServeCall
<1>2. [SessionsNext]_svars /\ UNCHANGED issued
  <2>1. CASE UNCHANGED svars
    BY <2>1 DEF svars
  <2>2. CASE call[c].kind = "logout" /\ RevokeSome(owner[call[c].body], {call[c].body})
    <3>1. call[c].body \in Token /\ call[c].body <= issued
      BY <2>2 DEF Held, Known, CallRec
    <3> QED  BY <2>2, <3>1, RevokeIs
  <2> QED  BY <2>1, <2>2 DEF ServeCall
<1>3. Known'
  BY <1>1, <1>2, CallIs DEF ServeCall, page, Held, Known
<1> QED  BY <1>1, <1>2, <1>3, CallIs, TypesKept DEF ServeCall, page

LEMMA ServeLateHeld ==
  ASSUME Held, NEW x \in late, ServeLate(x)
  PROVE  [SessionsNext]_svars /\ (SessionsInv' => Held')
<1> USE Types DEF Handle, Token
<1>1. x.kind \in {"refresh", "logout"} => x.tok \in Token /\ x.tok <= issued
  BY DEF Held, Known, LateRec
<1>2. [SessionsNext]_svars /\ issued' \in {issued, issued + 1}
  <2>1. ASSUME NEW u \in Users, OpenSession(u, {})
        PROVE  [SessionsNext]_svars /\ issued' \in {issued, issued + 1}
    BY <2>1, OpenIs
  <2>2. CASE x.kind = "refresh" /\ \E a \in {"ok", "denied"} : ServeRefresh(x.tok, a)
    BY <1>1, <2>2, RefreshIs
  <2>3. CASE x.kind = "logout" /\ RevokeSome(owner[x.tok], {x.tok})
    BY <1>1, <2>3, RevokeIs
  <2>4. CASE UNCHANGED svars
    BY <2>4 DEF svars
  <2> QED  BY <2>1, <2>2, <2>3, <2>4 DEF ServeLate
<1>3. Known'
  BY <1>2, Grows DEF ServeLate, page, Held, Known
<1> QED  BY <1>2, <1>3, TypesKept DEF ServeLate, page

LEMMA ExpiryHeld ==
  ASSUME Held, NEW k \in Token, AccessExpires(k) \/ RefreshExpires(k)
  PROVE  [SessionsNext]_svars /\ (SessionsInv' => Held')
<1> USE Types DEF Handle, Token
<1>1. CASE AccessExpires(k)
  <2>1. Known'
    BY <1>1 DEF AccessExpires, page, svars, Held, Known
  <2> QED  BY <1>1, <2>1, TypesKept DEF AccessExpires, page, svars
<1>2. CASE RefreshExpires(k)
  <2>1. Known'
    BY <1>2 DEF RefreshExpires, TokenExpires, page, Held, Known
  <2>2. SessionsNext
    BY <1>2 DEF RefreshExpires, SessionsNext
  <2> QED  BY <1>2, <2>1, <2>2, TypesKept DEF RefreshExpires, page
<1> QED  BY <1>1, <1>2

\* The answers to the mount effect and to the login form.
LEMMA SignInHeld ==
  ASSUME Held, SessionsInv',
         BootAnswered \/ BootLoadsMe \/ SubmitLogin \/ LoginAnswered \/ LoginLoadsMe
  PROVE  Held'
<1> USE Types, Blank DEF Handle, Token
<1>1. ASSUME NEW k \in Token, LoadMe(k) PROVE user' \in Users \cup {NoUser}
  BY <1>1 DEF LoadMe
<1>2. /\ boot.st # "none" => boot.tok \in Token
      /\ form.st \in {"ok", "me"} => form.tok \in Token
  BY DEF Held, Known, BootRec, FormRec
<1>3. /\ UNCHANGED <<svars, stale, late, call, flight>>
      /\ boot' \in BootRec /\ boot'.tok \in {0, boot.tok}
      /\ boot'.st # "none" => boot.st # "none" /\ boot'.tok = boot.tok
      /\ form' \in FormRec /\ form'.tok \in {0, form.tok}
      /\ form'.st \in {"ok", "me"} => form.st \in {"ok", "me"} /\ form'.tok = form.tok
      /\ access' \in {0, access, boot.tok, form.tok} /\ stored' \in {0, stored, boot.tok, form.tok}
      /\ user' \in Users \cup {NoUser} /\ ready' \in BOOLEAN
  <2>1. CASE BootAnswered
    BY <2>1 DEF BootAnswered, SetTokens, ClearAuth, BootRec, FormRec
  <2>2. CASE BootLoadsMe
    BY <2>2, <1>1, <1>2 DEF BootLoadsMe, BootRec
  <2>3. CASE SubmitLogin
    BY <2>3 DEF SubmitLogin, page, FormRec
  <2>4. CASE LoginAnswered
    BY <2>4 DEF LoginAnswered, SetTokens, BootRec, FormRec
  <2>5. CASE LoginLoadsMe
    BY <2>5, <1>1, <1>2 DEF LoginLoadsMe, FormRec
  <2> QED  BY <2>1, <2>2, <2>3, <2>4, <2>5
<1>4. boot.tok \in Handle /\ form.tok \in Handle
  BY DEF BootRec, FormRec
<1>5. Known'
  BY <1>3, <1>4 DEF Held, Known, svars
<1> QED  BY <1>3, <1>4, <1>5, TypesKept

\* The user calls the API, or logs out.
LEMMA AskHeld ==
  ASSUME Held, SessionsInv', NEW c \in Calls, Get(c) \/ Logout(c)
  PROVE  Held'
<1> USE Types DEF Handle, Token
<1> DEFINE n == NoCall
           g == [n EXCEPT !.st = "sent", !.api = access]
           o == [st |-> "sent", kind |-> "logout", api |-> access, body |-> stored, retried |-> FALSE]
<1>1. /\ UNCHANGED <<svars, stale, late, boot, form, flight>>
      /\ \/ UNCHANGED page /\ call' = [call EXCEPT ![c] = g]
         \/ UNCHANGED page /\ stored # 0 /\ call' = [call EXCEPT ![c] = o]
         \/ access' = 0 /\ stored' = 0 /\ user' = NoUser /\ UNCHANGED <<ready, call>>
  BY DEF Get, Logout, ClearAuth
<1>2. n \in CallRec /\ n.kind = "get" /\ n.body = 0
  BY Blank
<1> HIDE DEF n
<1>3. g \in CallRec /\ g.kind = "get" /\ g.api = access /\ g.body = 0
  BY <1>2 DEF CallRec
<1>4. o \in CallRec /\ o.kind = "logout" /\ o.api = access /\ o.body = stored
  BY DEF CallRec
<1> HIDE DEF g, o
<1>5. /\ call' \in [Calls -> CallRec]
      /\ \A d \in Calls \ {c} : call'[d] = call[d]
      /\ call'[c] = g \/ (stored # 0 /\ call'[c] = o) \/ call'[c] = call[c]
  BY <1>1, <1>3, <1>4, PutIs
<1>6. Known'
  BY <1>1, <1>3, <1>4, <1>5 DEF Held, Known, svars, page
<1> QED  BY <1>1, <1>5, <1>6, TypesKept DEF page

\* A call goes on.
LEMMA CallHeld ==
  ASSUME Held, SessionsInv', NEW c \in Calls, CallReturns(c) \/ CallRefreshes(c)
  PROVE  Held'
<1> USE Types DEF Handle, Token
<1>1. CASE CallReturns(c)
  <2>1. Return({c}) /\ UNCHANGED <<svars, stale, late, ready, boot, form, flight>>
    BY <1>1 DEF CallReturns
  <2>2. Known'
    BY <2>1, ReturnIs, Blank DEF Held, Known, svars
  <2> QED  BY <2>1, <2>2, ReturnIs, TypesKept
<1>2. CASE CallRefreshes(c)
  <2> DEFINE f == [st |-> "sent", tok |-> stored]
  <2>1. /\ call' = [call EXCEPT ![c].st = "waiting"]
        /\ UNCHANGED <<svars, stale, late, page, boot, form>>
        /\ flight' = flight \/ (stored # 0 /\ flight' = [flight EXCEPT ![call[c].api] = f])
    BY <1>2 DEF CallRefreshes
  <2>2. f \in FlightRec /\ f.tok = stored /\ call[c].api \in Handle
    BY DEF FlightRec, CallRec
  <2> HIDE DEF f
  <2>3. /\ flight' \in [Handle -> FlightRec]
        /\ \A k \in Handle : flight'[k] = flight[k] \/ (stored # 0 /\ flight'[k] = f)
    BY <2>1, <2>2, FlightIs
  <2>4. Known'
    <3>1. Known /\ UNCHANGED <<issued, stale, late, access, stored, boot, form>>
      BY <2>1 DEF Held, svars, page
    <3>2. \A d \in Calls : /\ call'[d].kind = call[d].kind /\ call'[d].api = call[d].api
                           /\ call'[d].body = call[d].body
      BY <2>1, CallIs
    <3>3. \A k \in Handle : flight'[k].tok <= issued /\ (flight'[k].st # "none" => flight'[k].tok # 0)
      BY <2>2, <2>3, <3>1 DEF Known
    <3> QED  BY <3>1, <3>2, <3>3 DEF Known
  <2> QED  BY <2>1, <2>3, <2>4, CallIs, TypesKept DEF page
<1> QED  BY <1>1, <1>2

\* A refresh promise settles.
LEMMA FlightAnsweredHeld ==
  ASSUME Held, SessionsInv', NEW k \in Handle, FlightAnswered(k)
  PROVE  Held'
<1> USE Types, Blank DEF Handle, Token
<1>1. /\ flight' = [flight EXCEPT ![k] = None] /\ Settle(k)
      /\ UNCHANGED <<svars, stale, late, ready, boot, form>>
  BY DEF FlightAnswered, Settle
<1>2. flight[k].tok \in Handle /\ Waiting(k) \subseteq Calls
  BY DEF FlightRec, Waiting
<1>3. /\ call' \in [Calls -> CallRec]
      /\ \A c \in Calls : \/ call'[c] = NoCall
                          \/ /\ call'[c].kind = call[c].kind /\ call'[c].api = call[c].api
                             /\ call'[c].body = call[c].body
      /\ access' \in {0, flight[k].tok} /\ stored' \in {0, flight[k].tok}
      /\ user' \in {NoUser, user}
  <2>1. CASE flight[k].st = "ok"
    BY <1>1, <1>2, <2>1, AgainIs DEF Settle, SetTokens
  <2>2. CASE flight[k].st = "denied"
    BY <1>1, <1>2, <2>2 DEF Settle, ClearAuth
  <2> QED  BY <1>1, <2>1, <2>2 DEF Settle
<1>4. flight' \in [Handle -> FlightRec] /\ \A j \in Handle : flight'[j] \in {None, flight[j]}
  BY <1>1, FlightIs
<1>5. Known'
  <2>1. Known /\ UNCHANGED <<issued, stale, late, boot, form>>
    BY <1>1 DEF Held, svars
  <2>2. access' <= issued' /\ stored' <= issued'
    BY <1>3, <2>1 DEF Known
  <2>3. \A c \in Calls : /\ call'[c].api <= issued' /\ call'[c].body <= issued'
                         /\ call'[c].kind = "logout" => call'[c].body # 0
    BY <1>3, <2>1 DEF Known
  <2>4. \A j \in Handle : flight'[j].tok <= issued' /\ (flight'[j].st # "none" => flight'[j].tok # 0)
    BY <1>4, <2>1 DEF Known
  <2>5. /\ \A t \in stale' : t <= issued'
        /\ boot'.tok <= issued' /\ (boot'.st # "none" => boot'.tok # 0)
        /\ form'.tok <= issued' /\ (form'.st \in {"ok", "me"} => form'.tok # 0)
        /\ \A x \in late' : x.tok <= issued' /\ (x.kind # "login" => x.tok # 0)
    BY <2>1 DEF Known
  <2> QED  BY <2>2, <2>3, <2>4, <2>5 DEF Known
<1> QED  BY <1>1, <1>2, <1>3, <1>4, <1>5, TypesKept

\* A fetch fails: its request may still be under way.
LEMMA FetchFailsHeld ==
  ASSUME Held, SessionsInv', FetchFails
  PROVE  Held'
<1> USE Types, Blank DEF Handle, Token
<1>1. late' \subseteq LateRec /\ \A x \in late' : x.tok <= issued /\ (x.kind # "login" => x.tok # 0)
  BY UnderwayIs DEF FetchFails, Held, Known
<1>2. UNCHANGED <<svars, stale, ready>>
  BY DEF FetchFails, page
<1>3. /\ boot' \in BootRec /\ boot'.tok = boot.tok /\ (boot'.st # "none" => boot.st # "none")
      /\ form' \in {form, None}
      /\ call' \in [Calls -> CallRec] /\ \A c \in Calls : call'[c] \in {NoCall, call[c]}
      /\ flight' \in [Handle -> FlightRec] /\ \A k \in Handle : flight'[k] \in {None, flight[k]}
      /\ access' \in {0, access} /\ stored' \in {0, stored} /\ user' \in {NoUser, user}
  <2>1. CASE /\ boot.st # "none" /\ boot' = [boot EXCEPT !.st = "dead"]
             /\ UNCHANGED <<page, form, call, flight>>
    BY <2>1 DEF BootRec, page
  <2>2. CASE form' = None /\ UNCHANGED <<page, boot, call, flight>>
    BY <2>2 DEF page
  <2>3. ASSUME NEW c \in Calls, Return({c}), UNCHANGED <<ready, boot, form, flight>>
        PROVE  <1>3!:
    BY <2>3, ReturnIs
  <2>4. ASSUME NEW k \in Handle, flight' = [flight EXCEPT ![k] = None], Return(Waiting(k)),
               UNCHANGED <<ready, boot, form>>
        PROVE  <1>3!:
    BY <2>4, ReturnIs, FlightIs DEF Waiting
  <2> QED  BY <2>1, <2>2, <2>3, <2>4 DEF FetchFails, Pending
<1>4. Known'
  <2>1. Known /\ UNCHANGED <<issued, stale>>
    BY <1>2 DEF Held, svars
  <2>2. /\ access' <= issued' /\ stored' <= issued'
        /\ boot'.tok <= issued' /\ (boot'.st # "none" => boot'.tok # 0)
        /\ form'.tok <= issued' /\ (form'.st \in {"ok", "me"} => form'.tok # 0)
    BY <1>3, <2>1 DEF Known
  <2>3. \A c \in Calls : /\ call'[c].api <= issued' /\ call'[c].body <= issued'
                         /\ call'[c].kind = "logout" => call'[c].body # 0
    BY <1>3, <2>1 DEF Known
  <2>4. \A j \in Handle : flight'[j].tok <= issued' /\ (flight'[j].st # "none" => flight'[j].tok # 0)
    BY <1>3, <2>1 DEF Known
  <2>5. /\ \A t \in stale' : t <= issued'
        /\ \A x \in late' : x.tok <= issued' /\ (x.kind # "login" => x.tok # 0)
    BY <1>1, <2>1 DEF Known
  <2> QED  BY <2>2, <2>3, <2>4, <2>5 DEF Known
<1> QED  BY <1>1, <1>2, <1>3, <1>4, TypesKept

\* A fresh page: only sessionStorage is left, or not even that.
LEMMA FreshPageIs ==
  ASSUME Held, Reload \/ CloseTab
  PROVE  /\ form' = None /\ call' = [c \in Calls |-> NoCall] /\ flight' = [k \in Handle |-> None]
         /\ access' = 0 /\ stored' \in {0, stored} /\ user' = NoUser
         /\ UNCHANGED <<svars, stale>>
         /\ ready' \in BOOLEAN /\ boot' \in BootRec
         /\ \/ boot' = None /\ ready'
            \/ boot'.st = "sent" /\ boot'.tok = stored' /\ stored' # 0 /\ ~ready'
<1> USE Types, Blank DEF Handle, Token
<1>1. CASE Reload
  BY <1>1 DEF Reload, BootRec
<1>2. CASE CloseTab
  BY <1>2 DEF CloseTab
<1> QED  BY <1>1, <1>2

LEMMA FreshPageHeld ==
  ASSUME Held, SessionsInv', Reload \/ CloseTab
  PROVE  Held'
<1> USE Types, Blank, FreshPageIs DEF Handle, Token
<1>1. late' \subseteq LateRec /\ \A x \in late' : x.tok <= issued /\ (x.kind # "login" => x.tok # 0)
  BY UnderwayIs DEF Reload, CloseTab, Held, Known
<1>2. Known'
  BY <1>1 DEF Held, Known, svars
<1> QED  BY <1>1, <1>2, TypesKept

\* A step of the tab or of the server is one of these.
LEMMA NextCases ==
  ASSUME Next
  PROVE  \/ ServeBoot \/ ServeForm \/ \E c \in Calls : ServeCall(c)
         \/ \E k \in Handle : ServeFlight(k)
         \/ \E x \in late : ServeLate(x)
         \/ \E k \in Token : AccessExpires(k) \/ RefreshExpires(k)
         \/ BootAnswered \/ BootLoadsMe \/ SubmitLogin \/ LoginAnswered \/ LoginLoadsMe
         \/ \E c \in Calls : CallReturns(c) \/ CallRefreshes(c) \/ Get(c) \/ Logout(c)
         \/ \E k \in Handle : FlightAnswered(k)
         \/ FetchFails \/ Reload \/ CloseTab
         \/ UNCHANGED vars
  BY DEF Next, Server, Client, User, AtBound

LEMMA ClientAsksNothing ==
  ASSUME \/ BootAnswered \/ BootLoadsMe \/ SubmitLogin \/ LoginAnswered \/ LoginLoadsMe
         \/ FetchFails \/ Reload \/ CloseTab \/ UNCHANGED vars
         \/ \E c \in Calls : CallReturns(c) \/ CallRefreshes(c) \/ Get(c) \/ Logout(c)
         \/ \E k \in Handle : FlightAnswered(k)
  PROVE  UNCHANGED svars
  BY DEF BootAnswered, BootLoadsMe, SubmitLogin, LoginAnswered, LoginLoadsMe, FetchFails, Reload,
         CloseTab, vars, CallReturns, CallRefreshes, Get, Logout, FlightAnswered, Settle

LEMMA HeldNext ==
  ASSUME Held, [Next]_vars
  PROVE  Held' /\ [SessionsNext]_svars
<1>1. [SessionsNext]_svars
  BY NextCases, ClientAsksNothing, ServeBootHeld, ServeFormHeld, ServeCallHeld, ServeFlightHeld,
     ServeLateHeld, ExpiryHeld
<1>2. SessionsInv'
  BY <1>1, NextInv, SessionsAssumption DEF Held
<1>3. CASE UNCHANGED vars
  BY <1>2, <1>3 DEF Held, TypeOK, SessionsInv, Known, vars, svars, page
<1>4. CASE Next
  <2>1. CASE \/ ServeBoot \/ ServeForm \/ \E c \in Calls : ServeCall(c)
             \/ \E k \in Handle : ServeFlight(k)
             \/ \E x \in late : ServeLate(x)
             \/ \E k \in Token : AccessExpires(k) \/ RefreshExpires(k)
    BY <1>1, <1>2, <2>1, ServeBootHeld, ServeFormHeld, ServeCallHeld, ServeFlightHeld, ServeLateHeld,
       ExpiryHeld
  <2>2. CASE BootAnswered \/ BootLoadsMe \/ SubmitLogin \/ LoginAnswered \/ LoginLoadsMe
    BY <1>1, <1>2, <2>2, SignInHeld
  <2>3. CASE \E c \in Calls : CallReturns(c) \/ CallRefreshes(c) \/ Get(c) \/ Logout(c)
    BY <1>1, <1>2, <2>3, AskHeld, CallHeld
  <2>4. CASE \/ \E k \in Handle : FlightAnswered(k)
             \/ FetchFails \/ Reload \/ CloseTab
    BY <1>1, <1>2, <2>4, FlightAnsweredHeld, FetchFailsHeld, FreshPageHeld
  <2> QED  BY <1>3, <1>4, <2>1, <2>2, <2>3, <2>4, NextCases
<1> QED  BY <1>1, <1>3, <1>4

LEMMA HeldInit ==
  ASSUME Init
  PROVE  Held
<1>1. SessionsInv
  BY InitInv, SessionsAssumption DEF Init
<1>2. MaxToken \in Nat /\ issued = 0
  BY SessionsAssumption DEF SessionsAssumption, Init, SessionsInit
<1>3. TypeOK
  BY <1>1, <1>2, Blank
  DEF Init, TypeOK, SessionsInv, Handle, BootRec, FormRec, FlightRec, CallRec
<1> QED  BY <1>1, <1>2, <1>3, Blank DEF Init, Held, Known

(***************************************************************************)
(* The tab keeps to the interface of the session service, whatever fails,  *)
(* overlaps or comes late: with a browser that retries, reloads and loses  *)
(* answers, every step taken on the server is a step of Sessions.          *)
(***************************************************************************)
THEOREM TabUsesSessions == Spec => SessionsSpec
<1>1. Init => Held /\ SessionsInit
  BY HeldInit DEF Init
<1>2. Held /\ [Next]_vars => Held' /\ [SessionsNext]_svars
  BY HeldNext
<1> QED  BY <1>1, <1>2, PTL DEF Spec, SessionsSpec

(***************************************************************************)
(* So in any weather the sessions keep their invariant, and whatever the   *)
(* tab holds or sends is a token that was issued.                          *)
(***************************************************************************)
THEOREM TabHoldsIssued == Spec => [](SessionsInv /\ TypeOK /\ Known)
<1>1. Init => Held
  BY HeldInit
<1>2. Held /\ [Next]_vars => Held'
  BY HeldNext
<1>3. Held => SessionsInv /\ TypeOK /\ Known
  BY DEF Held
<1> QED  BY <1>1, <1>2, <1>3, PTL DEF Spec

-----------------------------------------------------------------------------
(***************************************************************************)
(* No fetch is slow: who is signed in                                      *)
(*                                                                         *)
(* While no call and no refresh of a client is pending, the invariant      *)
(* comes down to this.                                                     *)
(***************************************************************************)
Solo ==
  /\ \A c \in Calls : ~Asked(c)
  /\ \A k \in Handle : flight[k].st = "none"
  /\ boot.st = "none" \/ form.st = "none"
  /\ boot.st # "none" \/ form.st # "none" => user = NoUser
  /\ BootInv /\ FormInv /\ OneIdentity

LEMMA IsSolo ==
  ASSUME TabInv, Quiet \/ boot.st # "none" \/ form.st # "none"
  PROVE  Solo
<1>1. \A c \in Calls : ~Asked(c)
  BY DEF TabInv, Quiet, Alone, Asked
<1>2. \A k \in Handle : flight[k].st = "none"
  BY DEF TabInv, Quiet, Alone
<1> QED  BY <1>1, <1>2 DEF TabInv, Alone, Solo

LEMMA SoloKeeps ==
  ASSUME Held', Solo'
  PROVE  TabInv'
<1>1. BootInv' /\ FormInv' /\ Alone' /\ OneIdentity'
  BY DEF Solo, Alone
<1>2. /\ \A c \in Calls : CallInv(c)'
      /\ \A k \in Handle : FlightInv(k)'
  BY DEF Solo, CallInv, FlightInv
<1> QED  BY <1>1, <1>2 DEF TabInv, Held

\* The server answers the silent refresh, or the login form.
LEMMA ServeSignInTab ==
  ASSUME Held, TabInv, Held', ServeBoot \/ ServeForm
  PROVE  TabInv'
<1>1. Solo /\ user = NoUser
  BY IsSolo DEF ServeBoot, ServeForm, Solo
<1>2. CASE ServeBoot
  <2>1. boot.st = "sent" /\ boot.tok \in Token /\ boot.tok <= issued
    BY <1>2, Types DEF ServeBoot, Held, Known, BootRec, Handle, Token
  <2>2. PICK a \in {"ok", "denied"} : ServeRefresh(boot.tok, a) /\ boot' = Answer(boot.tok, a)
    BY <1>2 DEF ServeBoot
  <2>3. /\ boot'.st \in {"ok", "denied"} /\ (boot'.st = "denied" => boot'.tok = boot.tok)
        /\ UNCHANGED <<page, form, call, flight>>
    BY <1>2, <2>1, <2>2, RefreshIs DEF ServeBoot
  <2>4. Solo'
    BY <1>1, <2>1, <2>3 DEF Solo, Asked, BootInv, FormInv, OneIdentity, page
  <2> QED  BY <2>4, SoloKeeps
<1>3. CASE ServeForm
  <2>1. /\ form'.st \in {"ok", "none"} /\ boot.st = "none"
        /\ UNCHANGED <<page, boot, call, flight>>
    BY <1>1, <1>3 DEF ServeForm, Answer, None, Solo
  <2>2. Solo'
    BY <1>1, <2>1 DEF Solo, Asked, BootInv, FormInv, OneIdentity, page
  <2> QED  BY <2>2, SoloKeeps
<1> QED  BY <1>2, <1>3

\* The silent refresh comes back, and then its loadMe; the user logs in.
LEMMA BootTab ==
  ASSUME Held, TabInv, Held', BootAnswered \/ BootLoadsMe
  PROVE  TabInv'
<1>1. Solo /\ user = NoUser /\ form.st = "none" /\ ~ready /\ boot \in BootRec
  BY IsSolo, Types DEF BootAnswered, BootLoadsMe, Solo, BootInv
<1>2. CASE BootAnswered
  <2>1. /\ \/ /\ boot'.st = "me" /\ access' = boot'.tok /\ stored' = boot'.tok
              /\ UNCHANGED <<user, ready>>
           \/ boot'.st = "none" /\ user' = NoUser /\ ready'
        /\ UNCHANGED <<form, call, flight>>
    BY <1>1, <1>2 DEF BootAnswered, SetTokens, ClearAuth, None, BootRec
  <2>2. Solo'
    BY <1>1, <2>1 DEF Solo, Asked, BootInv, FormInv, OneIdentity
  <2> QED  BY <2>2, SoloKeeps
<1>3. CASE BootLoadsMe
  <2>1. /\ boot.tok # 0 /\ access = boot.tok /\ stored = boot.tok
        /\ user' \in {NoUser, owner[boot.tok]} /\ ready' /\ boot'.st = "none"
        /\ UNCHANGED <<svars, access, stored, form, call, flight>>
    BY <1>1, <1>3 DEF BootLoadsMe, LoadMe, None, Solo, BootInv, Held, Known
  <2>2. Solo'
    BY <1>1, <2>1 DEF Solo, Asked, BootInv, FormInv, OneIdentity, svars
  <2> QED  BY <2>2, SoloKeeps
<1> QED  BY <1>2, <1>3

LEMMA LoginTab ==
  ASSUME Held, TabInv, Held', Steady, SubmitLogin \/ LoginAnswered \/ LoginLoadsMe
  PROVE  TabInv'
<1>1. Solo /\ user = NoUser /\ boot.st = "none" /\ ready /\ form \in FormRec
  BY IsSolo, Types DEF SubmitLogin, LoginAnswered, LoginLoadsMe, Steady, Solo, BootInv
<1>2. CASE SubmitLogin \/ LoginAnswered
  <2>1. /\ form'.st = "sent" \/ (form'.st = "me" /\ access' = form'.tok /\ stored' = form'.tok)
        /\ UNCHANGED <<user, ready, boot, call, flight>>
    BY <1>1, <1>2 DEF SubmitLogin, LoginAnswered, SetTokens, FormRec, page
  <2>2. Solo'
    BY <1>1, <2>1 DEF Solo, Asked, BootInv, FormInv, OneIdentity
  <2> QED  BY <2>2, SoloKeeps
<1>3. CASE LoginLoadsMe
  <2>1. /\ form.tok # 0 /\ access = form.tok /\ stored = form.tok
        /\ user' \in {NoUser, owner[form.tok]} /\ form'.st = "none"
        /\ UNCHANGED <<svars, access, stored, ready, boot, call, flight>>
    BY <1>1, <1>3 DEF LoginLoadsMe, LoadMe, None, Solo, FormInv, Held, Known
  <2>2. Solo'
    BY <1>1, <2>1 DEF Solo, Asked, BootInv, FormInv, OneIdentity, svars
  <2> QED  BY <2>2, SoloKeeps
<1> QED  BY <1>2, <1>3

\* The page is loaded again, even while fetches are pending, or the tab closed.
LEMMA FreshPageTab ==
  ASSUME Held, Held', Reload \/ CloseTab
  PROVE  TabInv'
<1> USE Types, Blank
<1>1. /\ \A c \in Calls : ~Asked(c)'
      /\ \A k \in Handle : flight'[k].st = "none"
  BY FreshPageIs DEF Asked
<1>2. Solo'
  BY <1>1, FreshPageIs DEF Solo, BootInv, FormInv, OneIdentity
<1> QED  BY <1>2, SoloKeeps

(***************************************************************************)
(* A refresh that is pending has a call waiting for it, whose access token *)
(* has expired; and an expired token of a pending call is the oldest one   *)
(* that any pending call bears.  So there is one refresh.                  *)
(***************************************************************************)
LEMMA OneFlight ==
  ASSUME Held, TabInv,
         NEW j \in Handle, NEW k \in Handle, flight[j].st # "none", flight[k].st # "none"
  PROVE  j = k
<1>1. PICK c \in Calls : call[c].st = "waiting" /\ call[c].api = j
  BY DEF TabInv, FlightInv
<1>2. PICK d \in Calls : call[d].st = "waiting" /\ call[d].api = k
  BY DEF TabInv, FlightInv
<1>3. CallInv(c) /\ CallInv(d)
  BY DEF TabInv
<1>4. j \in stale /\ k \in stale
  BY <1>1, <1>2, <1>3 DEF CallInv, Asked
<1>5. j <= k /\ k <= j
  BY <1>1, <1>2, <1>3, <1>4 DEF CallInv, Asked
<1> QED  BY <1>5, Types DEF Handle

\* What is left to show of a step that has calls at work.
LEMMA WorkKeeps ==
  ASSUME TabInv, Held', boot.st = "none", form.st = "none", UNCHANGED <<boot, form, ready>>,
         OneIdentity',
         \A c \in Calls : CallInv(c)',
         \A k \in Handle : FlightInv(k)'
  PROVE  TabInv'
<1>1. ready
  BY DEF TabInv, BootInv
<1> QED  BY <1>1 DEF TabInv, Alone, BootInv, FormInv, Held

\* Calls, refreshes and a user are there only after the mount effect and the form.
LEMMA AtWork ==
  ASSUME TabInv, \/ user # NoUser
                 \/ \E c \in Calls : Asked(c)
                 \/ \E k \in Handle : flight[k].st # "none"
  PROVE  boot.st = "none" /\ form.st = "none"
  BY DEF TabInv, Alone

(***************************************************************************)
(* Calls that are over, answered, or sent again, and the clearAuth of a    *)
(* logout, disturb nothing: what CallInv says of the calls that remain,    *)
(* and FlightInv of the refreshes, still holds.                            *)
(***************************************************************************)
LEMMA FewerCalls ==
  ASSUME Held, TabInv, Held',
         UNCHANGED <<stale, boot, form, ready>>, boot.st = "none", form.st = "none",
         issued' = issued, owner' = owner,
         \/ access' = 0 /\ stored' = 0 /\ user' = NoUser
         \/ UNCHANGED <<access, stored, user>>,
         \A c \in Calls : \/ call'[c].st = "none"
                          \/ /\ Asked(c) /\ call'[c].api = call[c].api
                             /\ call'[c].st \in {"denied", "waiting"} => call[c].api \in stale,
         \A k \in Handle : \/ flight'[k].st = "none"
                           \/ /\ flight'[k] = flight[k]
                              /\ \A c \in Calls : call[c].st = "waiting" /\ call[c].api = k
                                                    => call'[c] = call[c]
  PROVE  TabInv'
<1> USE Types DEF Handle, Token
<1>1. OneIdentity'
  BY DEF TabInv, OneIdentity
<1>2. ASSUME NEW c \in Calls PROVE CallInv(c)'
  <2>1. CallInv(c)
    BY DEF TabInv
  <2> QED  BY <2>1 DEF CallInv, Asked
<1>3. ASSUME NEW k \in Handle PROVE FlightInv(k)'
  <2>1. FlightInv(k)
    BY DEF TabInv
  <2>2. CASE flight'[k].st = "none"
    BY <2>2 DEF FlightInv
  <2>3. CASE flight'[k] = flight[k] /\ flight[k].st # "none"
    <3>1. /\ \E c \in Calls : call'[c].st = "waiting" /\ call'[c].api = k
          /\ flight[k].st \in {"sent", "denied"} => stored' \in {0, flight[k].tok}
      BY <2>1, <2>3 DEF FlightInv
    <3>2. ASSUME flight[k].st = "ok"
          PROVE  /\ flight[k].tok \notin stale' /\ access' < flight[k].tok
                 /\ \A c \in Calls : Asked(c)' => call'[c].api < flight[k].tok
                 /\ user' # NoUser => owner'[flight[k].tok] = user'
      <4>1. flight[k].tok \in Nat /\ flight[k].tok # 0
        BY <3>2 DEF Held, Known, FlightRec
      <4> QED  BY <2>1, <3>2, <4>1 DEF FlightInv, Asked
    <3> QED  BY <2>3, <3>1, <3>2 DEF FlightInv
  <2> QED  BY <2>2, <2>3
<1> QED  BY <1>1, <1>2, <1>3, WorkKeeps

\* The server alone moves: what the tab knows of the owners of its tokens stays true.
LEMMA ServerAlone ==
  ASSUME Held, TabInv, Held', UNCHANGED <<stale, page, boot, form, call, flight>>,
         \A k \in Token : k <= issued => owner'[k] = owner[k]
  PROVE  TabInv'
<1> USE Types DEF Handle, Token
<1>1. OneIdentity'
  BY DEF TabInv, OneIdentity, page, Held, Known
<1>2. Alone' /\ BootInv' /\ FormInv'
  BY DEF TabInv, Alone, BootInv, FormInv, Asked, page
<1>3. ASSUME NEW c \in Calls PROVE CallInv(c)'
  BY DEF TabInv, CallInv, Asked, page
<1>4. ASSUME NEW k \in Handle PROVE FlightInv(k)'
  <2>1. FlightInv(k) /\ flight[k].tok \in Handle /\ flight[k].tok <= issued
    BY DEF TabInv, Held, Known, FlightRec
  <2> QED  BY <2>1 DEF FlightInv, Asked, page, Held, Known
<1> QED  BY <1>1, <1>2, <1>3, <1>4 DEF TabInv, Held

LEMMA ServeLateTab ==
  ASSUME Held, TabInv, Held', NEW x \in late, ServeLate(x)
  PROVE  TabInv'
<1> USE Types DEF Handle, Token
<1>1. x.kind \in {"refresh", "logout"} => x.tok \in Token /\ x.tok <= issued
  BY DEF Held, Known, LateRec
<1>2. \A k \in Token : k <= issued => owner'[k] = owner[k]
  <2>1. CASE \E u \in Users : OpenSession(u, {})
    BY <2>1, OpenIs
  <2>2. CASE x.kind = "refresh" /\ \E a \in {"ok", "denied"} : ServeRefresh(x.tok, a)
    BY <1>1, <2>2, RefreshIs
  <2>3. CASE x.kind = "logout" /\ RevokeSome(owner[x.tok], {x.tok})
    BY <1>1, <2>3, RevokeIs
  <2>4. CASE UNCHANGED svars
    BY <2>4 DEF svars
  <2> QED  BY <2>1, <2>2, <2>3, <2>4 DEF ServeLate
<1> QED  BY <1>2, ServerAlone DEF ServeLate

LEMMA RefreshExpiresTab ==
  ASSUME Held, TabInv, Held', NEW t \in Token, RefreshExpires(t)
  PROVE  TabInv'
  BY ServerAlone DEF RefreshExpires, TokenExpires

\* An access token expires, none of the pending calls being older.
LEMMA AccessExpiresTab ==
  ASSUME Held, TabInv, Held', Steady, NEW k \in Token, AccessExpires(k)
  PROVE  TabInv'
<1> USE Types DEF Handle, Token
<1>1. /\ stale' = stale \cup {k} /\ k <= issued
      /\ boot.st = "none" /\ form.st = "none"
      /\ \A c \in Calls : Asked(c) => k <= call[c].api
      /\ UNCHANGED <<svars, page, boot, form, call, flight>>
  BY DEF AccessExpires, Steady, Asked
<1>2. OneIdentity'
  BY <1>1 DEF TabInv, OneIdentity, page, svars
<1>3. ASSUME NEW c \in Calls PROVE CallInv(c)'
  <2>1. CallInv(c)
    BY DEF TabInv
  <2> QED  BY <2>1, <1>1 DEF CallInv, Asked, page
<1>4. ASSUME NEW j \in Handle PROVE FlightInv(j)'
  <2>1. FlightInv(j)
    BY DEF TabInv
  <2>2. ASSUME flight[j].st = "ok" PROVE flight[j].tok # k
    <3>1. PICK c \in Calls : call[c].st = "waiting" /\ call[c].api = j
      BY <2>1, <2>2 DEF FlightInv
    <3>2. Asked(c) /\ k <= j /\ j < flight[j].tok
      BY <1>1, <2>1, <2>2, <3>1 DEF FlightInv, Asked
    <3>3. flight[j].tok \in Nat
      BY DEF FlightRec
    <3> QED  BY <3>2, <3>3
  <2> QED  BY <2>1, <2>2, <1>1 DEF FlightInv, Asked, page, svars
<1> QED  BY <1>1, <1>2, <1>3, <1>4, WorkKeeps DEF page

\* The user calls the API, or logs out with the stored token.
LEMMA AskIs ==
  ASSUME Held, TabInv, NEW c \in Calls, Get(c) \/ Logout(c)
  PROVE  /\ boot.st = "none" /\ form.st = "none" /\ user # NoUser /\ ~Asked(c)
         /\ access # 0 /\ stored = access
         /\ call' \in [Calls -> CallRec] /\ \A d \in Calls \ {c} : call'[d] = call[d]
         /\ call'[c].st = "sent" /\ call'[c].api = access
         /\ call'[c].kind = "logout" => call'[c].body = stored
         /\ UNCHANGED <<svars, stale, late, page, boot, form, flight>>
<1> USE Types DEF Handle, Token
<1> DEFINE n == NoCall
           g == [n EXCEPT !.st = "sent", !.api = access]
           o == [st |-> "sent", kind |-> "logout", api |-> access, body |-> stored, retried |-> FALSE]
<1>1. user # NoUser /\ ~Asked(c) /\ access # 0 /\ stored = access
  BY DEF Get, Logout, Asked, TabInv, OneIdentity
<1>2. /\ UNCHANGED <<svars, stale, late, page, boot, form, flight>>
      /\ call' = [call EXCEPT ![c] = g] \/ call' = [call EXCEPT ![c] = o]
  BY <1>1 DEF Get, Logout
<1>3. n \in CallRec /\ n.kind = "get"
  BY Blank
<1> HIDE DEF n
<1>4. /\ g \in CallRec /\ g.st = "sent" /\ g.kind = "get" /\ g.api = access
      /\ o \in CallRec /\ o.st = "sent" /\ o.api = access /\ o.body = stored
  BY <1>3 DEF CallRec
<1> HIDE DEF g, o
<1> QED  BY <1>1, <1>2, <1>4, PutIs, AtWork

LEMMA AskTab ==
  ASSUME Held, TabInv, Held', NEW c \in Calls, Get(c) \/ Logout(c)
  PROVE  TabInv'
<1> USE Types, AskIs DEF Handle, Token
<1>1. OneIdentity'
  BY DEF TabInv, OneIdentity, page, svars
<1>2. ASSUME NEW d \in Calls PROVE CallInv(d)'
  <2>1. CallInv(d)
    BY DEF TabInv
  <2>2. ASSUME NEW e \in Calls, Asked(e)', call'[e].api \in stale', Asked(d)'
        PROVE  call'[e].api <= call'[d].api
    <3>1. Asked(e) => CallInv(e)
      BY DEF TabInv
    <3>2. e # c => call'[e] = call[e] /\ Asked(e) /\ call[e].api \in Nat
      BY <2>2 DEF Asked, CallRec
    <3>3. d # c => call'[d] = call[d] /\ Asked(d) /\ call[d].api \in Nat
      BY <2>2 DEF Asked, CallRec
    <3>4. CASE e # c
      BY <2>1, <2>2, <3>1, <3>2, <3>3, <3>4 DEF CallInv
    <3>5. CASE e = c
      BY <2>1, <2>2, <3>3, <3>5 DEF CallInv
    <3> QED  BY <3>4, <3>5
  <2>3. CASE d = c
    BY <2>2, <2>3 DEF CallInv, Asked, page
  <2>4. CASE d # c
    BY <2>1, <2>2, <2>4 DEF CallInv, Asked, page
  <2> QED  BY <2>3, <2>4
<1>3. ASSUME NEW k \in Handle PROVE FlightInv(k)'
  <2>1. FlightInv(k)
    BY DEF TabInv
  <2>2. flight[k].st # "none" => \E d \in Calls : call'[d].st = "waiting" /\ call'[d].api = k
    BY <2>1 DEF FlightInv, Asked
  <2>3. ASSUME flight[k].st = "ok", NEW d \in Calls, Asked(d)' PROVE call'[d].api < flight[k].tok
    BY <2>1, <2>3 DEF FlightInv, Asked
  <2> QED  BY <2>1, <2>2, <2>3 DEF FlightInv, page, svars
<1> QED  BY <1>1, <1>2, <1>3, WorkKeeps DEF page

\* The server answers a call: 401 only if its access token has expired.
LEMMA ServeCallTab ==
  ASSUME Held, TabInv, Held', NEW c \in Calls, ServeCall(c)
  PROVE  TabInv'
<1> USE Types DEF Handle, Token
<1>1. /\ call[c].st = "sent" /\ Asked(c) /\ boot.st = "none" /\ form.st = "none"
      /\ UNCHANGED <<stale, page, boot, form, flight>>
  BY AtWork DEF ServeCall, Asked
<1>2. CallInv(c)
  BY DEF TabInv
<1>3. PICK a \in {"ok", "denied"} : /\ call' = [call EXCEPT ![c].st = a]
                                    /\ a = "denied" => call[c].api \in stale
  BY <1>1, <1>2 DEF ServeCall, Valid, CallInv
<1>4. UNCHANGED <<owner, issued>>
  BY DEF ServeCall, RevokeSome, svars
<1>5. \A d \in Calls : \/ call'[d].st = "none"
                       \/ /\ Asked(d) /\ call'[d].api = call[d].api
                          /\ call'[d].st \in {"denied", "waiting"} => call[d].api \in stale
  <2> TAKE d \in Calls
  <2>1. CallInv(d)
    BY DEF TabInv
  <2>2. CASE d = c
    BY <2>2, <1>1, <1>3, CallIs
  <2>3. CASE d # c
    BY <2>1, <2>3, <1>3, CallIs DEF CallInv, Asked
  <2> QED  BY <2>2, <2>3
<1>6. \A d \in Calls : call[d].st = "waiting" => call'[d] = call[d]
  BY <1>1, <1>3, CallIs
<1> QED  BY <1>1, <1>4, <1>5, <1>6, FewerCalls DEF page

\* Some calls return, none of which waits for a refresh that is still pending.
LEMMA ReturnTab ==
  ASSUME Held, TabInv, Held', NEW C \in SUBSET Calls, Return(C),
         \E c \in Calls : Asked(c),
         UNCHANGED <<svars, stale, ready, boot, form>>,
         \A k \in Handle : \/ flight'[k].st = "none"
                           \/ /\ flight'[k] = flight[k]
                              /\ \A c \in C : ~(call[c].st = "waiting" /\ call[c].api = k)
  PROVE  TabInv'
<1> USE Types, Blank DEF Handle, Token
<1>1. boot.st = "none" /\ form.st = "none"
  BY AtWork
<1>2. \A c \in Calls : \/ call'[c].st = "none"
                       \/ /\ Asked(c) /\ call'[c].api = call[c].api
                          /\ call'[c].st \in {"denied", "waiting"} => call[c].api \in stale
  <2> TAKE c \in Calls
  <2>1. CallInv(c)
    BY DEF TabInv
  <2> QED  BY <2>1, ReturnIs DEF CallInv, Asked
<1>3. \A k \in Handle : \/ flight'[k].st = "none"
                        \/ /\ flight'[k] = flight[k]
                           /\ \A c \in Calls : call[c].st = "waiting" /\ call[c].api = k
                                                 => call'[c] = call[c]
  BY ReturnIs
<1> QED  BY <1>1, <1>2, <1>3, ReturnIs, FewerCalls DEF svars

LEMMA CallReturnsTab ==
  ASSUME Held, TabInv, Held', NEW c \in Calls, CallReturns(c)
  PROVE  TabInv'
<1>1. /\ Return({c}) /\ Asked(c) /\ call[c].st # "waiting"
      /\ UNCHANGED <<svars, stale, ready, boot, form, flight>>
  BY DEF CallReturns, Asked
<1> QED  BY <1>1, ReturnTab

\* A call that was answered 401 joins the refresh of its client, or makes it.
LEMMA CallRefreshesTab ==
  ASSUME Held, TabInv, Held', NEW c \in Calls, CallRefreshes(c)
  PROVE  TabInv'
<1> USE Types DEF Handle, Token
<1> DEFINE k == call[c].api
           f == [st |-> "sent", tok |-> stored]
<1>1. /\ call[c].st = "denied" /\ Asked(c) /\ call' = [call EXCEPT ![c].st = "waiting"]
      /\ \/ flight[k].st # "none" /\ flight' = flight
         \/ flight[k].st = "none" /\ flight' = [flight EXCEPT ![k] = f]
      /\ UNCHANGED <<svars, stale, page, boot, form>>
      /\ boot.st = "none" /\ form.st = "none"
  BY AtWork DEF CallRefreshes, Asked
<1>2. f \in FlightRec /\ f.st = "sent" /\ f.tok = stored /\ k \in Handle
  BY DEF FlightRec, CallRec
<1> HIDE DEF f
<1>3. \A d \in Calls : /\ Asked(d)' <=> Asked(d)
                       /\ call'[d].api = call[d].api
                       /\ call[d].st = "waiting" => call'[d].st = "waiting"
                       /\ call'[d].st \in {"denied", "waiting"} => call[d].st \in {"denied", "waiting"}
  BY <1>1, CallIs DEF Asked
<1>4. call'[c].st = "waiting" /\ call'[c].api = k
  BY <1>1, <1>3, CallIs
<1> HIDE DEF k
<1>5. \A j \in Handle : flight'[j] = flight[j] \/ (j = k /\ flight'[j] = f)
  BY <1>1, <1>2, FlightIs
<1>6. OneIdentity'
  BY <1>1 DEF TabInv, OneIdentity, page, svars
<1>7. ASSUME NEW d \in Calls PROVE CallInv(d)'
  <2>1. CallInv(d)
    BY DEF TabInv
  <2> QED  BY <2>1, <1>1, <1>3 DEF CallInv, page
<1>8. ASSUME NEW j \in Handle PROVE FlightInv(j)'
  <2>1. CASE flight'[j] = flight[j]
    <3>1. FlightInv(j)
      BY DEF TabInv
    <3> QED  BY <2>1, <3>1, <1>1, <1>3 DEF FlightInv, page, svars
  <2>2. CASE j = k /\ flight'[j] = f
    BY <2>2, <1>1, <1>2, <1>4 DEF FlightInv, page
  <2> QED  BY <2>1, <2>2, <1>5
<1> QED  BY <1>1, <1>6, <1>7, <1>8, WorkKeeps DEF page

\* The server answers a refresh: its successor is newer than all the tab has.
LEMMA ServeFlightTab ==
  ASSUME Held, TabInv, Held', NEW k \in Handle, ServeFlight(k)
  PROVE  TabInv'
<1> USE Types DEF Handle, Token
<1> DEFINE t == flight[k].tok
<1>1. /\ flight[k].st = "sent" /\ boot.st = "none" /\ form.st = "none" /\ FlightInv(k)
      /\ UNCHANGED <<stale, page, boot, form, call>>
  BY AtWork DEF ServeFlight, TabInv
<1>2. t \in Token /\ t <= issued /\ stored \in {0, t}
  BY <1>1 DEF FlightInv, FlightRec, Held, Known
<1>3. PICK a \in {"ok", "denied"} : /\ ServeRefresh(t, a)
                                    /\ flight' = [flight EXCEPT ![k] = Answer(t, a)]
  BY DEF ServeFlight
<1>4. /\ flight' \in [Handle -> FlightRec] /\ flight'[k] = Answer(t, a)
      /\ \A j \in Handle \ {k} : flight'[j].st = "none"
  BY <1>1, <1>3, RefreshIs, <1>2, FlightIs, OneFlight
<1>5. \A j \in Token : j <= issued => owner'[j] = owner[j]
  BY <1>2, <1>3, RefreshIs
<1>6. OneIdentity'
  BY <1>1, <1>5 DEF TabInv, OneIdentity, page, Held, Known
<1>7. ASSUME NEW c \in Calls PROVE CallInv(c)'
  BY <1>1 DEF TabInv, CallInv, Asked, page
<1>8. FlightInv(k)'
  <2>1. \E c \in Calls : call'[c].st = "waiting" /\ call'[c].api = k
    BY <1>1 DEF FlightInv
  <2>2. CASE Answer(t, a).st = "denied" /\ Answer(t, a).tok = t
    BY <1>1, <1>2, <1>4, <2>1, <2>2 DEF FlightInv, page
  <2>3. CASE Answer(t, a).st = "ok" /\ Answer(t, a).tok = issued' /\ Rotate(t, {})
    <3>1. issued' = issued + 1 /\ owner'[issued'] = owner[t]
      BY <1>2, <2>3, RotateIs
    <3>2. issued' \notin stale' /\ access' < issued'
      BY <1>1, <3>1 DEF page, Held, Known
    <3>3. \A c \in Calls : call'[c].api < issued'
      BY <1>1, <3>1 DEF Held, Known, CallRec
    <3>4. user' # NoUser => owner'[issued'] = user'
      BY <1>1, <1>2, <3>1 DEF page, TabInv, OneIdentity
    <3> QED  BY <1>4, <2>1, <2>3, <3>2, <3>3, <3>4 DEF FlightInv
  <2> QED  BY <1>2, <1>3, <2>2, <2>3, RefreshIs
<1>9. \A j \in Handle : FlightInv(j)'
  BY <1>4, <1>8 DEF FlightInv
<1> QED  BY <1>1, <1>6, <1>7, <1>9, WorkKeeps DEF page

\* The refresh promise settles: the tab has the new pair, or nothing.
LEMMA FlightAnsweredTab ==
  ASSUME Held, TabInv, Held', NEW k \in Handle, FlightAnswered(k)
  PROVE  TabInv'
<1> USE Types, Blank DEF Handle, Token
<1>1. /\ flight[k].st \in {"ok", "denied"} /\ boot.st = "none" /\ form.st = "none" /\ FlightInv(k)
      /\ flight' = [flight EXCEPT ![k] = None]
      /\ UNCHANGED <<svars, stale, ready, boot, form>>
  BY AtWork DEF FlightAnswered, Settle, TabInv
<1>2. \A j \in Handle : flight'[j].st = "none"
  BY <1>1, OneFlight, FlightIs
<1>3. Waiting(k) \in SUBSET Calls /\ \A c \in Waiting(k) : Asked(c)
  BY DEF Waiting, Asked
<1>4. CASE flight[k].st = "ok"
  <2> DEFINE t == flight[k].tok
  <2>1. /\ access' = t /\ stored' = t /\ UNCHANGED user
        /\ call' = [c \in Calls |-> IF c \in Waiting(k) THEN Again(c) ELSE call[c]]
    BY <1>4 DEF FlightAnswered, Settle, SetTokens
  <2>2. /\ t \notin stale /\ t \in Nat /\ t # 0 /\ (user # NoUser => owner[t] = user)
        /\ \A c \in Calls : Asked(c) => call[c].api < t
    BY <1>1, <1>4 DEF FlightInv, FlightRec, Held, Known
  <2>3. \A c \in Calls : /\ call'[c] = call[c] \/ (Asked(c) /\ call'[c].st = "sent")
                         /\ call'[c].api = call[c].api /\ call[c].api \in Nat
    BY <1>3, <2>1, AgainIs DEF CallRec
  <2>4. OneIdentity'
    BY <1>1, <2>1, <2>2 DEF OneIdentity, svars
  <2>5. ASSUME NEW c \in Calls PROVE CallInv(c)'
    <3>1. CallInv(c)
      BY DEF TabInv
    <3> QED  BY <3>1, <1>1, <2>1, <2>2, <2>3 DEF CallInv, Asked
  <2>6. \A j \in Handle : FlightInv(j)'
    BY <1>2 DEF FlightInv
  <2> QED  BY <1>1, <2>4, <2>5, <2>6, WorkKeeps
<1>5. CASE flight[k].st = "denied"
  <2>1. /\ access' = 0 /\ stored' = 0 /\ user' = NoUser
        /\ call' = [c \in Calls |-> IF c \in Waiting(k) THEN NoCall ELSE call[c]]
    BY <1>5 DEF FlightAnswered, Settle, ClearAuth
  <2>2. \A c \in Calls : \/ call'[c].st = "none"
                         \/ /\ Asked(c) /\ call'[c].api = call[c].api
                            /\ call'[c].st \in {"denied", "waiting"} => call[c].api \in stale
    <3> TAKE c \in Calls
    <3>1. CallInv(c)
      BY DEF TabInv
    <3> QED  BY <3>1, <2>1 DEF CallInv, Asked
  <2> QED  BY <1>1, <1>2, <2>1, <2>2, FewerCalls DEF svars
<1> QED  BY <1>1, <1>4, <1>5

\* A fetch fails: the effect dies, the form is free again, or the calls concerned throw.
LEMMA FetchFailsTab ==
  ASSUME Held, TabInv, Held', FetchFails
  PROVE  TabInv'
<1> USE Types, Blank DEF Handle, Token
<1>1. UNCHANGED <<svars, stale>>
  BY DEF FetchFails
<1>2. CASE /\ boot.st # "none" /\ boot' = [boot EXCEPT !.st = "dead"]
           /\ UNCHANGED <<page, form, call, flight>>
  <2>1. Solo /\ boot'.st = "dead"
    BY <1>2, IsSolo DEF BootRec
  <2>2. Solo'
    BY <2>1, <1>1, <1>2 DEF Solo, Asked, BootInv, FormInv, OneIdentity, page, svars
  <2> QED  BY <2>2, SoloKeeps
<1>3. CASE form.st # "none" /\ form' = None /\ UNCHANGED <<page, boot, call, flight>>
  <2>1. Solo
    BY <1>3, IsSolo
  <2>2. Solo'
    BY <2>1, <1>1, <1>3 DEF Solo, Asked, BootInv, FormInv, OneIdentity, page, svars
  <2> QED  BY <2>2, SoloKeeps
<1>4. ASSUME NEW c \in Calls, Pending(call[c]), Return({c}), UNCHANGED <<ready, boot, form, flight>>
      PROVE  TabInv'
  <2>1. Asked(c) /\ call[c].st # "waiting"
    BY <1>4 DEF Pending, Asked
  <2> QED  BY <1>1, <1>4, <2>1, ReturnTab
<1>5. ASSUME NEW k \in Handle, Pending(flight[k]), flight' = [flight EXCEPT ![k] = None],
             Return(Waiting(k)), UNCHANGED <<ready, boot, form>>
      PROVE  TabInv'
  <2>1. flight[k].st # "none" /\ Waiting(k) \in SUBSET Calls
    BY <1>5 DEF Pending, Waiting
  <2>2. \E c \in Calls : Asked(c)
    BY <2>1 DEF TabInv, FlightInv, Asked
  <2>3. \A j \in Handle : flight'[j].st = "none"
    BY <1>5, <2>1, OneFlight, FlightIs
  <2> QED  BY <1>1, <1>5, <2>1, <2>2, <2>3, ReturnTab
<1> QED  BY <1>2, <1>3, <1>4, <1>5 DEF FetchFails, Pending

LEMMA TabNext ==
  ASSUME Held, TabInv, Steady, [Next]_vars
  PROVE  TabInv'
<1>1. Held'
  BY HeldNext
<1>2. CASE UNCHANGED vars
  BY <1>1, <1>2, ServerAlone DEF vars, svars, page
<1>3. CASE Next
  <2>1. CASE \/ ServeBoot \/ ServeForm \/ \E c \in Calls : ServeCall(c)
             \/ \E k \in Handle : ServeFlight(k)
             \/ \E x \in late : ServeLate(x)
             \/ \E k \in Token : AccessExpires(k) \/ RefreshExpires(k)
    BY <1>1, <2>1, ServeSignInTab, ServeCallTab, ServeFlightTab, ServeLateTab, AccessExpiresTab,
       RefreshExpiresTab
  <2>2. CASE BootAnswered \/ BootLoadsMe \/ SubmitLogin \/ LoginAnswered \/ LoginLoadsMe
    BY <1>1, <2>2, BootTab, LoginTab
  <2>3. CASE \E c \in Calls : CallReturns(c) \/ CallRefreshes(c) \/ Get(c) \/ Logout(c)
    BY <1>1, <2>3, CallReturnsTab, CallRefreshesTab, AskTab
  <2>4. CASE \/ \E k \in Handle : FlightAnswered(k)
             \/ FetchFails \/ Reload \/ CloseTab
    BY <1>1, <2>4, FlightAnsweredTab, FetchFailsTab, FreshPageTab
  <2> QED  BY <1>2, <1>3, <2>1, <2>2, <2>3, <2>4, NextCases
<1> QED  BY <1>2, <1>3

LEMMA TabInit ==
  ASSUME Init
  PROVE  Held /\ TabInv
<1>1. Held
  BY HeldInit
<1>2. MaxToken \in Nat
  BY SessionsAssumption DEF SessionsAssumption
<1> QED
  BY <1>1, <1>2, Blank
  DEF Init, Held, TabInv, OneIdentity, Alone, BootInv, FormInv, CallInv, FlightInv, Asked

(***************************************************************************)
(* Whenever a user is shown, the access token, the stored refresh token    *)
(* and the user are of one session (AuthContext.jsx, api.js): with any     *)
(* number of calls, refreshes and logouts under way, with fetches that     *)
(* fail, requests refused by the rate limit, and pages loaded again at any *)
(* moment; unless a fetch takes longer than an access token lasts.         *)
(***************************************************************************)
THEOREM TabInvariant == ASSUME Steady PROVE Spec => [](SessionsInv /\ TabInv)
<1>1. Init => Held /\ TabInv
  BY TabInit
<1>2. Held /\ TabInv /\ [Next]_vars => Held' /\ TabInv'
  BY HeldNext, TabNext
<1>3. Held /\ TabInv => SessionsInv /\ TabInv
  BY DEF Held
<1> QED  BY <1>1, <1>2, <1>3, PTL DEF Spec

(***************************************************************************)
(* Under the same weather concurrent 401s share one refresh, though each   *)
(* API client makes a promise of its own (api.js, refreshOnce).            *)
(***************************************************************************)
THEOREM RefreshesCoalesce == ASSUME Steady PROVE Spec => []SingleFlight
<1>1. SessionsInv /\ TabInv => SingleFlight
  BY OneFlight DEF SingleFlight, Held, TabInv
<1> QED  BY <1>1, TabInvariant, PTL

-----------------------------------------------------------------------------
(* Calm weather: the stored token is good *)

\* In calm weather a page is loaded again only when nothing is pending, and nothing fails.
LEMMA CalmCases ==
  ASSUME Calm, StoredIsGood, Next
  PROVE  \/ ServeBoot \/ ServeForm \/ BootAnswered \/ BootLoadsMe
         \/ SubmitLogin \/ LoginAnswered \/ LoginLoadsMe
         \/ Quiet /\ (Reload \/ CloseTab)
         \/ \E c \in Calls : \/ ServeCall(c) \/ CallReturns(c) \/ CallRefreshes(c)
                             \/ Get(c) \/ Logout(c)
         \/ \E k \in Handle : ServeFlight(k) \/ FlightAnswered(k)
         \/ \E k \in Token : AccessExpires(k) \/ RefreshExpires(k)
         \/ UNCHANGED vars
<1>1. ~FetchFails
  BY DEF FetchFails, Calm
<1>2. Reload \/ CloseTab => Quiet
  BY DEF Reload, CloseTab, Calm
<1>3. late = {}
  BY DEF StoredIsGood
<1> QED  BY <1>1, <1>2, <1>3, NextCases

\* With the mount effect or the form at work, or nothing, the stored token is live.
LEMMA SoloIsGood ==
  ASSUME Solo, StoredIsGood, stored # 0, boot.st # "ok"
  PROVE  status[stored] = "live"
  BY DEF Solo, StoredIsGood, LoggingOut, Rotated

LEMMA SoloGood ==
  ASSUME Solo', boot'.st # "dead", late' = {},
         stored' # 0 /\ boot'.st # "ok" => status'[stored'] = "live",
         boot'.st = "denied" => stored' \in expired',
         boot'.st \in {"ok", "me"} => Usable(boot.tok)',
         form'.st \in {"ok", "me"} => Usable(form.tok)'
  PROVE  StoredIsGood'
<1>1. \A k \in Handle : flight'[k].st = "none"
  BY DEF Solo
<1> QED  BY <1>1 DEF StoredIsGood

LEMMA ServeBootGood ==
  ASSUME Held, TabInv, StoredIsGood, Held', TabInv', Calm, ServeBoot
  PROVE  StoredIsGood'
<1> USE Types DEF Handle, Token
<1>1. /\ Solo /\ boot.st = "sent" /\ boot.tok = stored /\ form.st = "none"
      /\ stored \in Token /\ stored <= issued /\ status[stored] = "live"
  <2>1. Solo /\ boot.st = "sent" /\ boot.tok = stored /\ form.st = "none" /\ stored # 0
    BY IsSolo DEF ServeBoot, Solo, BootInv, Held, Known
  <2> QED  BY <2>1, SoloIsGood DEF Held, Known
<1>2. /\ UNCHANGED <<stale, late, page, form, call, flight>> /\ late' = {} /\ stored' = stored
      /\ Solo'
  <2>1. UNCHANGED <<stale, late, page, form, call, flight>>
    BY DEF ServeBoot
  <2>2. boot'.st # "none"
    BY <1>1, <2>1 DEF TabInv, BootInv, page
  <2>3. Solo'
    BY <2>2, IsSolo, <1>1, <2>1 DEF TabInv, Alone, Solo, Asked, page
  <2> QED  BY <2>1, <2>3 DEF StoredIsGood, page
<1>3. CASE Rotate(stored, {}) /\ boot' = Answer(boot.tok, "ok")
  <2>1. boot'.st = "ok" /\ boot'.tok = issued' /\ status'[issued'] = "live" /\ issued' = issued + 1
    BY <1>3, RotateIs, <1>1 DEF Answer
  <2>2. issued' \notin stale'
    BY <1>2, <2>1 DEF Held, Known
  <2> QED  BY <1>1, <1>2, <2>1, <2>2, SoloGood DEF Usable
<1>4. CASE stored \in expired /\ UNCHANGED svars /\ boot' = Answer(boot.tok, "denied")
  <2>1. boot'.st = "denied" /\ UNCHANGED <<status, expired>>
    BY <1>4 DEF Answer, svars
  <2> QED  BY <1>1, <1>2, <1>4, <2>1, SoloGood
<1> QED
  BY <1>1, <1>3, <1>4 DEF ServeBoot, ServeRefresh, Calm, Busy

LEMMA ServeFormGood ==
  ASSUME Held, TabInv, StoredIsGood, Held', TabInv', Calm, ServeForm
  PROVE  StoredIsGood'
<1> USE Types DEF Handle, Token
<1>1. Solo /\ boot.st = "none" /\ (stored # 0 => stored \in Token /\ stored <= issued)
  BY IsSolo DEF ServeForm, Solo, Held, Known
<1>2. PICK u \in Users : OpenSession(u, {}) /\ form' = Answer(0, "ok")
  BY DEF ServeForm, Calm, Busy
<1>3. form'.st = "ok" /\ form'.tok = issued'
  BY <1>2, OpenIs DEF Answer
<1>4. /\ UNCHANGED <<stale, late, page, boot, call, flight>> /\ late' = {} /\ stored' = stored
  BY DEF ServeForm, StoredIsGood, page
<1>5. Solo'
  BY <1>3, <1>4, <1>1 DEF TabInv, Alone, Solo, Asked
<1>6. Usable(form.tok)'
  BY <1>2, <1>3, <1>4, OpenIs DEF Usable, Held, Known
<1>7. stored' # 0 => status'[stored'] = "live"
  BY <1>1, <1>2, <1>4, OpenIs, SoloIsGood
<1> QED  BY <1>1, <1>3, <1>4, <1>5, <1>6, <1>7, SoloGood

\* The tab takes what it was handed; the mount effect ends with a user, but for a refusal.
LEMMA SignInGood ==
  ASSUME Held, TabInv, StoredIsGood, Held', TabInv', Calm,
         BootAnswered \/ BootLoadsMe \/ SubmitLogin \/ LoginAnswered \/ LoginLoadsMe
  PROVE  /\ StoredIsGood'
         /\ BootLoadsMe => user' # NoUser
<1> USE Types DEF Handle, Token
<1>1. Solo /\ late = {} /\ UNCHANGED <<svars, stale, late, call, flight>>
  BY IsSolo DEF Calm, StoredIsGood, BootAnswered, BootLoadsMe, SubmitLogin, LoginAnswered,
     LoginLoadsMe
<1>2. CASE BootAnswered
  <2>1. /\ \/ /\ boot.st = "ok" /\ boot'.st = "me" /\ boot'.tok = boot.tok /\ stored' = boot.tok
           \/ boot'.st = "none" /\ stored' = 0
        /\ form' = form /\ form.st = "none" /\ ~BootLoadsMe
    BY <1>1, <1>2 DEF BootAnswered, BootLoadsMe, SetTokens, ClearAuth, None, BootRec, Solo
  <2>2. Solo'
    BY <1>1, <2>1 DEF TabInv, Solo, Asked, Alone
  <2> QED  BY <1>1, <2>1, <2>2, SoloGood DEF StoredIsGood, Usable, svars
<1>3. CASE BootLoadsMe
  <2>1. /\ boot.st = "me" /\ boot'.st = "none" /\ form' = form /\ form.st = "none"
        /\ stored' = stored /\ boot.tok \in Token /\ boot.tok <= issued
    BY <1>1, <1>3 DEF BootLoadsMe, None, Solo, Held, Known, BootRec
  <2>2. user' = owner[boot.tok] /\ user' \in Users
    BY <1>3, <2>1 DEF BootLoadsMe, LoadMe, Valid, StoredIsGood, Usable, Calm, Busy
  <2>3. Solo'
    BY <1>1, <2>1 DEF TabInv, Solo, Asked, Alone
  <2> QED  BY <1>1, <2>1, <2>2, <2>3, SoloGood, SoloIsGood DEF svars
<1>4. CASE SubmitLogin \/ LoginAnswered \/ LoginLoadsMe
  <2>1. /\ boot' = boot /\ boot.st = "none"
        /\ \/ form'.st = "sent" /\ stored' = stored
           \/ form.st = "ok" /\ form'.st = "me" /\ form'.tok = form.tok /\ stored' = form.tok
           \/ form'.st = "none" /\ stored' = stored
        /\ ~BootLoadsMe
    BY <1>1, <1>4 DEF SubmitLogin, LoginAnswered, LoginLoadsMe, BootLoadsMe, SetTokens, None,
       FormRec, page, Solo, BootInv
  <2>2. Solo'
    BY <1>1, <2>1 DEF TabInv, Solo, Asked, Alone
  <2> QED  BY <1>1, <2>1, <2>2, SoloGood, SoloIsGood DEF StoredIsGood, Usable, svars
<1> QED  BY <1>2, <1>3, <1>4

LEMMA FreshPageGood ==
  ASSUME Held, TabInv, StoredIsGood, Held', TabInv', Quiet, Reload \/ CloseTab
  PROVE  StoredIsGood'
<1> USE Types, Blank, FreshPageIs DEF Handle, Token
<1>1. Solo /\ boot.st = "none" /\ form.st = "none"
  BY IsSolo DEF Quiet, StoredIsGood
<1>2. late' = {}
  <2>1. \A c \in Calls : call[c].st = "none"
    BY DEF Quiet
  <2>2. \A f \in {boot} \cup {flight[k] : k \in Handle} : f.st # "sent"
    BY <1>1 DEF Solo
  <2>3. Underway = {}
    BY <1>1, <2>1, <2>2 DEF Underway
  <2> QED  BY <2>3 DEF Reload, CloseTab, StoredIsGood
<1>3. Solo'
  BY DEF TabInv, Solo, Asked
<1>4. boot'.st # "ok" /\ boot'.st # "me" /\ boot'.st # "denied" /\ boot'.st # "dead"
  OBVIOUS
<1>5. stored' # 0 => status'[stored'] = "live"
  BY <1>1, SoloIsGood DEF svars
<1> QED  BY <1>2, <1>3, <1>4, <1>5, SoloGood

\* What is left to show of a step that has calls at work.
LEMMA WorkGood ==
  ASSUME StoredIsGood, boot.st = "none", form.st = "none", UNCHANGED <<boot, form, late>>,
         stored' # 0 => status'[stored'] = "live" \/ LoggingOut' \/ Rotated',
         \A k \in Handle :
            /\ flight'[k].st = "denied" => stored' = 0 \/ stored' \in expired' \/ LoggingOut'
            /\ flight'[k].st = "ok" =>
                  /\ status'[flight'[k].tok] = "live" /\ stored' # flight'[k].tok
                  /\ \A c \in Calls : Asked(c)' /\ call'[c].kind = "logout"
                                         => call'[c].body # flight'[k].tok
  PROVE  StoredIsGood'
  BY DEF StoredIsGood

\* Time passes.
LEMMA ExpiryGood ==
  ASSUME Held, TabInv, StoredIsGood, Held', TabInv', Calm, NEW k \in Token,
         AccessExpires(k) \/ RefreshExpires(k)
  PROVE  StoredIsGood'
<1> USE Types DEF Handle, Token
<1>1. CASE RefreshExpires(k)
  BY <1>1 DEF RefreshExpires, TokenExpires, StoredIsGood, Usable, LoggingOut, Rotated, Asked, page
<1>2. CASE AccessExpires(k)
  <2>1. /\ boot.st = "none" /\ form.st = "none"
        /\ UNCHANGED <<svars, late, page, boot, form, call, flight>>
    BY <1>2 DEF AccessExpires, Calm
  <2> QED
    BY <2>1, WorkGood DEF StoredIsGood, LoggingOut, Rotated, Asked, page, svars
<1> QED  BY <1>1, <1>2

LEMMA AskGood ==
  ASSUME Held, TabInv, StoredIsGood, Held', TabInv', NEW c \in Calls, Get(c) \/ Logout(c)
  PROVE  StoredIsGood' /\ UNCHANGED stored
<1> USE Types, AskIs DEF Handle, Token
<1>1. LoggingOut => LoggingOut'
  BY DEF LoggingOut, Asked
<1>2. UNCHANGED <<stored, status, expired, Rotated>>
  BY DEF page, svars, Rotated
<1>3. ASSUME NEW k \in Handle, flight[k].st = "ok", NEW d \in Calls,
             Asked(d)', call'[d].kind = "logout"
      PROVE  call'[d].body # flight[k].tok
  BY <1>3 DEF StoredIsGood, Asked
<1> QED  BY <1>1, <1>2, <1>3, WorkGood DEF StoredIsGood

\* The server answers a call: a logout revokes no token but the one it is sent.
LEMMA ServeCallGood ==
  ASSUME Held, TabInv, StoredIsGood, Held', TabInv', NEW c \in Calls, ServeCall(c)
  PROVE  StoredIsGood'
<1> USE Types DEF Handle, Token
<1>1. /\ call[c].st = "sent" /\ Asked(c) /\ boot.st = "none" /\ form.st = "none"
      /\ UNCHANGED <<stale, late, page, boot, form, flight>>
  BY AtWork DEF ServeCall, Asked
<1>2. PICK a \in {"ok", "denied"} : call' = [call EXCEPT ![c].st = a]
  BY DEF ServeCall
<1>3. \A d \in Calls : /\ Asked(d)' <=> Asked(d)
                       /\ call'[d].kind = call[d].kind /\ call'[d].body = call[d].body
  BY <1>1, <1>2, CallIs DEF Asked
<1>4. LoggingOut' <=> LoggingOut
  BY <1>3 DEF LoggingOut
<1>5. /\ expired' = expired
      /\ \/ status' = status
         \/ /\ call[c].kind = "logout" /\ LoggingOut
            /\ \A k \in Token : k # call[c].body => status'[k] = status[k]
  <2>1. CASE UNCHANGED svars
    BY <2>1 DEF svars
  <2>2. CASE call[c].kind = "logout" /\ RevokeSome(owner[call[c].body], {call[c].body})
    <3>1. call[c].body \in Token /\ call[c].body <= issued
      BY <2>2 DEF Held, Known, CallRec
    <3> QED  BY <2>2, <3>1, <1>1, RevokeIs DEF LoggingOut
  <2> QED  BY <2>1, <2>2 DEF ServeCall
<1>6. ASSUME NEW k \in Handle, flight[k].st = "ok"
      PROVE  status'[flight[k].tok] = "live"
  <2>1. /\ status[flight[k].tok] = "live" /\ flight[k].tok \in Token
        /\ call[c].kind = "logout" => call[c].body # flight[k].tok
    BY <1>1, <1>6 DEF StoredIsGood, Held, Known, FlightRec
  <2> QED  BY <2>1, <1>5
<1>7. stored' = stored /\ flight' = flight /\ Rotated' = Rotated
  BY <1>1 DEF page, Rotated
<1>8. stored' # 0 => status'[stored'] = "live" \/ LoggingOut' \/ Rotated'
  BY <1>1, <1>4, <1>5, <1>7 DEF StoredIsGood
<1>9. ASSUME NEW k \in Handle
      PROVE  /\ flight'[k].st = "denied" => stored' = 0 \/ stored' \in expired' \/ LoggingOut'
             /\ flight'[k].st = "ok" =>
                   /\ status'[flight'[k].tok] = "live" /\ stored' # flight'[k].tok
                   /\ \A d \in Calls : Asked(d)' /\ call'[d].kind = "logout"
                                          => call'[d].body # flight'[k].tok
  BY <1>3, <1>4, <1>5, <1>6, <1>7 DEF StoredIsGood
<1> QED  BY <1>1, <1>8, <1>9, WorkGood

\* A call is over; after a logout nothing is stored.
LEMMA CallReturnsGood ==
  ASSUME Held, TabInv, StoredIsGood, Held', TabInv', NEW c \in Calls, CallReturns(c)
  PROVE  /\ StoredIsGood'
         /\ LoggingOut \/ UNCHANGED <<access, stored, user>>
<1> USE Types, Blank DEF Handle, Token
<1>1. /\ Return({c}) /\ Asked(c) /\ boot.st = "none" /\ form.st = "none"
      /\ UNCHANGED <<svars, stale, late, ready, boot, form, flight>>
  BY AtWork DEF CallReturns, Asked
<1>2. /\ call'[c] = NoCall /\ \A d \in Calls : d # c => call'[d] = call[d]
      /\ \/ call[c].kind = "logout" /\ stored' = 0
         \/ call[c].kind # "logout" /\ UNCHANGED <<access, stored, user>>
  BY <1>1, ReturnIs DEF Return, ClearAuth
<1>3. LoggingOut => LoggingOut' \/ stored' = 0
  BY <1>2 DEF LoggingOut, Asked
<1>4. Rotated' = Rotated /\ UNCHANGED <<status, expired>>
  BY <1>1 DEF Rotated, svars
<1>5. stored' # 0 => status'[stored'] = "live" \/ LoggingOut' \/ Rotated'
  BY <1>1, <1>2, <1>3, <1>4 DEF StoredIsGood
<1>6. ASSUME NEW k \in Handle
      PROVE  /\ flight'[k].st = "denied" => stored' = 0 \/ stored' \in expired' \/ LoggingOut'
             /\ flight'[k].st = "ok" =>
                   /\ status'[flight'[k].tok] = "live" /\ stored' # flight'[k].tok
                   /\ \A d \in Calls : Asked(d)' /\ call'[d].kind = "logout"
                                          => call'[d].body # flight'[k].tok
  <2>1. flight[k].st # "none" => flight[k].tok # 0
    BY DEF Held, Known
  <2>2. \A d \in Calls : Asked(d)' => Asked(d) /\ call'[d] = call[d]
    BY <1>2 DEF Asked
  <2> QED  BY <2>1, <2>2, <1>1, <1>2, <1>3, <1>4 DEF StoredIsGood
<1>7. LoggingOut \/ UNCHANGED <<access, stored, user>>
  BY <1>1, <1>2 DEF LoggingOut
<1> QED  BY <1>1, <1>5, <1>6, <1>7, WorkGood

LEMMA CallRefreshesGood ==
  ASSUME Held, TabInv, StoredIsGood, Held', TabInv', NEW c \in Calls, CallRefreshes(c)
  PROVE  StoredIsGood'
<1> USE Types DEF Handle, Token
<1> DEFINE f == [st |-> "sent", tok |-> stored]
<1>1. /\ call[c].st = "denied" /\ Asked(c) /\ call' = [call EXCEPT ![c].st = "waiting"]
      /\ \/ flight' = flight
         \/ flight[call[c].api].st = "none" /\ flight' = [flight EXCEPT ![call[c].api] = f]
      /\ UNCHANGED <<svars, stale, late, page, boot, form>>
      /\ boot.st = "none" /\ form.st = "none"
  BY AtWork DEF CallRefreshes, Asked
<1>2. f \in FlightRec /\ f.st = "sent" /\ call[c].api \in Handle
  BY DEF FlightRec, CallRec
<1> HIDE DEF f
<1>3. \A j \in Handle : \/ flight'[j] = flight[j]
                        \/ flight[j].st = "none" /\ flight'[j].st = "sent"
  BY <1>1, <1>2, FlightIs
<1>4. \A d \in Calls : /\ Asked(d)' <=> Asked(d)
                       /\ call'[d].kind = call[d].kind /\ call'[d].body = call[d].body
  BY <1>1, CallIs DEF Asked
<1>5. LoggingOut' = LoggingOut /\ (Rotated => Rotated') /\ UNCHANGED <<stored, status, expired>>
  BY <1>1, <1>3, <1>4 DEF LoggingOut, Rotated, page, svars
<1> QED  BY <1>1, <1>3, <1>4, <1>5, WorkGood DEF StoredIsGood

\* The server answers a refresh: a rotation, or a refusal that has its reason.
LEMMA ServeFlightGood ==
  ASSUME Held, TabInv, StoredIsGood, Held', TabInv', Calm, NEW k \in Handle, ServeFlight(k)
  PROVE  StoredIsGood'
<1> USE Types DEF Handle, Token
<1> DEFINE t == flight[k].tok
<1>1. /\ flight[k].st = "sent" /\ boot.st = "none" /\ form.st = "none" /\ FlightInv(k)
      /\ UNCHANGED <<stale, late, page, boot, form, call>>
  BY AtWork DEF ServeFlight, TabInv
<1>2. t \in Token /\ t <= issued /\ stored \in {0, t} /\ stored' = stored
  BY <1>1 DEF FlightInv, FlightRec, Held, Known, page
<1>3. \A j \in Handle \ {k} : flight[j].st = "none"
  BY <1>1, OneFlight
<1>4. ~Rotated /\ LoggingOut' = LoggingOut
  BY <1>1, <1>3 DEF Rotated, LoggingOut, Asked
<1>5. CASE Rotate(t, {}) /\ flight' = [flight EXCEPT ![k] = Answer(t, "ok")]
  <2>1. Answer(t, "ok") \in FlightRec /\ Answer(t, "ok") = [st |-> "ok", tok |-> issued']
    BY <1>2, <1>5, RotateIs DEF Answer, FlightRec
  <2>2. /\ flight'[k].st = "ok" /\ flight'[k].tok = issued' /\ Rotated'
        /\ \A j \in Handle \ {k} : flight'[j].st = "none"
    BY <1>3, <1>5, <2>1, FlightIs DEF Rotated
  <2>3. status'[issued'] = "live" /\ issued' = issued + 1
    BY <1>2, <1>5, RotateIs
  <2>4. stored' # issued' /\ \A c \in Calls : call'[c].body # issued'
    BY <1>1, <1>2, <2>3 DEF Held, Known, CallRec
  <2> QED  BY <1>1, <2>2, <2>3, <2>4, WorkGood
<1>6. CASE /\ flight' = [flight EXCEPT ![k] = Answer(t, "denied")]
           /\ UNCHANGED expired
           /\ (UNCHANGED status /\ t \in expired) \/ stored = 0 \/ LoggingOut
  <2>1. Answer(t, "denied") \in FlightRec /\ Answer(t, "denied").st = "denied"
    BY <1>2 DEF Answer, FlightRec
  <2>2. /\ flight'[k].st = "denied"
        /\ \A j \in Handle \ {k} : flight'[j].st = "none"
    BY <1>3, <1>6, <2>1, FlightIs
  <2>3. stored' # 0 => status'[stored'] = "live" \/ LoggingOut'
    BY <1>1, <1>2, <1>4, <1>6 DEF StoredIsGood
  <2> QED  BY <1>1, <1>2, <1>4, <1>6, <2>2, <2>3, WorkGood
<1>7. ASSUME status[t] = "revoked" PROVE stored = 0 \/ LoggingOut
  BY <1>1, <1>2, <1>4, <1>7 DEF StoredIsGood
<1> QED
  BY <1>5, <1>6, <1>7 DEF ServeFlight, ServeRefresh, RevokeSome, Calm, Busy, svars

\* The promise settles: a session is lost only if its token has expired or a logout overlaps.
LEMMA FlightAnsweredGood ==
  ASSUME Held, TabInv, StoredIsGood, Held', TabInv', NEW k \in Handle, FlightAnswered(k)
  PROVE  /\ StoredIsGood'
         /\ stored # 0 /\ stored' = 0 => stored \in expired \/ LoggingOut
<1> USE Types, Blank DEF Handle, Token
<1>1. /\ flight[k].st \in {"ok", "denied"} /\ boot.st = "none" /\ form.st = "none"
      /\ flight[k].tok # 0 /\ flight' = [flight EXCEPT ![k] = None]
      /\ UNCHANGED <<svars, stale, late, ready, boot, form>>
  BY AtWork DEF FlightAnswered, Settle, Held, Known
<1>2. \A j \in Handle : flight'[j].st = "none"
  BY <1>1, OneFlight, FlightIs
<1>3. \/ flight[k].st = "ok" /\ stored' = flight[k].tok
      \/ flight[k].st = "denied" /\ stored' = 0
  BY <1>1 DEF FlightAnswered, Settle, SetTokens, ClearAuth
<1>4. stored' # 0 => status'[stored'] = "live"
  BY <1>1, <1>3 DEF StoredIsGood, svars
<1>5. stored # 0 /\ stored' = 0 => stored \in expired \/ LoggingOut
  BY <1>1, <1>3 DEF StoredIsGood
<1> QED  BY <1>1, <1>2, <1>4, <1>5, WorkGood

LEMMA GoodNext ==
  ASSUME Held, TabInv, StoredIsGood, Held', TabInv', Calm, [Next]_vars
  PROVE  StoredIsGood'
<1>1. CASE UNCHANGED vars
  BY <1>1 DEF StoredIsGood, Usable, LoggingOut, Rotated, Asked, vars, svars, page
<1>2. CASE Next
  <2>1. CASE BootAnswered \/ BootLoadsMe \/ SubmitLogin \/ LoginAnswered \/ LoginLoadsMe
    BY <2>1, SignInGood
  <2>2. CASE ServeBoot \/ ServeForm \/ (Quiet /\ (Reload \/ CloseTab))
    BY <2>2, ServeBootGood, ServeFormGood, FreshPageGood
  <2>3. CASE \E c \in Calls : \/ ServeCall(c) \/ CallReturns(c) \/ CallRefreshes(c)
                              \/ Get(c) \/ Logout(c)
    BY <2>3, ServeCallGood, CallReturnsGood, CallRefreshesGood, AskGood
  <2>4. CASE \/ \E k \in Handle : ServeFlight(k) \/ FlightAnswered(k)
             \/ \E k \in Token : AccessExpires(k) \/ RefreshExpires(k)
    BY <2>4, ServeFlightGood, FlightAnsweredGood, ExpiryGood
  <2>5. CASE UNCHANGED vars
    BY <1>1, <2>5
  <2> QED  BY <1>2, <2>1, <2>2, <2>3, <2>4, <2>5, CalmCases, ZenonT(30)
<1> QED  BY <1>1, <1>2

LEMMA GoodInit ==
  ASSUME Init
  PROVE  StoredIsGood
<1>1. MaxToken \in Nat
  BY SessionsAssumption DEF SessionsAssumption
<1> QED  BY <1>1, Blank DEF Init, StoredIsGood

\* In calm weather all of it holds at once.
LEMMA CalmInvariant == ASSUME Calm PROVE Spec => [](Held /\ TabInv /\ StoredIsGood)
<1>1. Init => Held /\ TabInv /\ StoredIsGood
  BY TabInit, GoodInit
<1>2. Held /\ TabInv /\ StoredIsGood /\ [Next]_vars => (Held /\ TabInv /\ StoredIsGood)'
  <2>1. Steady
    BY DEF Steady, Calm
  <2> QED  BY <2>1, HeldNext, TabNext, GoodNext
<1> QED  BY <1>1, <1>2, PTL DEF Spec

(***************************************************************************)
(* In calm weather the refresh token in sessionStorage is one the server   *)
(* will exchange, but for a logout or a rotation that is under way, and a  *)
(* refresh is refused only for an expired token or because of a logout     *)
(* (AuthContext.jsx, setTokens).                                           *)
(***************************************************************************)
THEOREM StoredStaysGood == ASSUME Calm PROVE Spec => []StoredIsGood
  BY CalmInvariant, PTL

(***************************************************************************)
(* In calm weather clearAuth ends a session only if its refresh token has  *)
(* expired or the user is logging out.                                     *)
(***************************************************************************)
THEOREM HonestTabStays == ASSUME Calm PROVE Spec => NeverThrownOut
<1> DEFINE Stays == user # NoUser /\ stored # 0 /\ stored' = 0 /\ ~Quiet
                      => \/ stored \in expired
                         \/ \E c \in Calls : call[c].st # "none" /\ call[c].kind = "logout"
           All == Held /\ TabInv /\ StoredIsGood
<1>1. ASSUME All, All', Next, ~UNCHANGED stored, ~Quiet, user # NoUser
      PROVE  stored # 0 /\ stored' = 0 => stored \in expired \/ LoggingOut
  <2>1. boot.st = "none" /\ form.st = "none"
    BY <1>1, AtWork
  <2>2. \/ \E c \in Calls : CallReturns(c) \/ Get(c) \/ Logout(c)
        \/ \E k \in Handle : FlightAnswered(k)
    BY <1>1, <2>1, CalmCases DEF ServeBoot, ServeForm, BootAnswered, BootLoadsMe, SubmitLogin,
       LoginAnswered, LoginLoadsMe, ServeCall, CallRefreshes, ServeFlight, AccessExpires,
       RefreshExpires, page, vars
  <2>3. ASSUME NEW c \in Calls, CallReturns(c) PROVE LoggingOut
    BY <2>3, <1>1, CallReturnsGood
  <2>4. ASSUME NEW c \in Calls, Get(c) \/ Logout(c) PROVE FALSE
    BY <2>4, <1>1, AskGood
  <2>5. ASSUME NEW k \in Handle, FlightAnswered(k)
        PROVE  stored # 0 /\ stored' = 0 => stored \in expired \/ LoggingOut
    BY <2>5, <1>1, FlightAnsweredGood
  <2> QED  BY <2>2, <2>3, <2>4, <2>5
<1>2. All /\ All' /\ [Next]_vars => [Stays]_vars
  BY <1>1 DEF LoggingOut, Asked, vars, page
<1> QED  BY <1>2, CalmInvariant, PTL DEF Spec, NeverThrownOut

(***************************************************************************)
(* In calm weather a reload ends with the user signed in, unless the       *)
(* refresh token has expired (the mount effect of AuthContext.jsx).        *)
(***************************************************************************)
THEOREM ReloadStaysIn == ASSUME Calm PROVE Spec => ReloadKeepsSession
<1> DEFINE Keeps == boot.st \in {"sent", "denied", "me"} /\ ready'
                      => user' # NoUser \/ boot.tok \in expired
           All == Held /\ TabInv /\ StoredIsGood
<1>1. ASSUME All, All', Next, boot.st \in {"sent", "denied", "me"}, ready'
      PROVE  user' # NoUser \/ boot.tok \in expired
  <2>1. Solo /\ ~ready
    BY <1>1, IsSolo DEF Solo, BootInv
  <2>2. CASE BootLoadsMe
    BY <2>2, <1>1, SignInGood
  <2>3. CASE BootAnswered
    BY <2>3, <2>1, <1>1, Types DEF Solo, BootInv, BootAnswered, StoredIsGood, TabInv, Held
  <2>4. ~(BootLoadsMe \/ BootAnswered) => UNCHANGED ready
    BY <1>1, <2>1, CalmCases DEF ServeBoot, ServeForm, SubmitLogin, LoginAnswered, LoginLoadsMe,
       ServeCall, CallReturns, CallRefreshes, Get, Logout, ServeFlight, FlightAnswered, Settle,
       AccessExpires, RefreshExpires, page, vars, Quiet, Asked, Solo
  <2> QED  BY <1>1, <2>1, <2>2, <2>3, <2>4
<1>2. All /\ All' /\ [Next]_vars => [Keeps]_vars
  BY <1>1
<1> QED  BY <1>2, CalmInvariant, PTL DEF Spec, ReloadKeepsSession
=============================================================================
