------------------------------ MODULE WebClient ------------------------------
(***************************************************************************)
(* One browser tab of the React application (AuthContext.jsx, api.js)      *)
(* against the session service, which is the module Sessions: RefreshTokens*)
(* shows that each request to it is one atomic step.                       *)
(*                                                                         *)
(* An access token bears the number of the refresh token it was issued     *)
(* with; 0 is null.  Each render whose access token differs makes a new    *)
(* API client, which keeps the access token of that render and has a       *)
(* refresh promise of its own: clients are identified by that token.       *)
(* A fetch is sent, then answered by the server, then its answer reaches   *)
(* the tab; JavaScript runs each continuation to the end.                  *)
(***************************************************************************)
EXTENDS Sessions

CONSTANTS
    Calls,      \* slots for API calls in flight at the same time
    Faults      \* what may go wrong, see FaultKinds

(***************************************************************************)
(* "reject": a fetch fails.  "busy": a request is refused by the rate      *)
(* limit or by a server error.  "reload": the page is loaded again while   *)
(* fetches are pending.  "slow": a fetch is pending for so long (as across *)
(* the sleep of a laptop) that the user has meanwhile typed a new login,   *)
(* or an access token issued meanwhile has expired.                        *)
(***************************************************************************)
FaultKinds == {"reject", "busy", "reload", "slow"}

ASSUME WebClientAssumption == Faults \subseteq FaultKinds

VARIABLES
    stale,      \* access tokens past their 15 minutes
    late,       \* requests nobody waits for any more, on their way to the server
    access,     \* the accessToken state
    stored,     \* the refresh token in sessionStorage
    user,       \* the user state, NoUser for null
    ready,      \* the ready state
    boot,       \* the silent refresh of the mount effect, and its loadMe
    form,       \* login(), and its loadMe
    call,       \* calls to api.request: get, or logout with its body
    flight      \* the refresh promise of each API client

page == <<access, stored, user, ready>>
vars == <<svars, stale, late, page, boot, form, call, flight>>

Handle == 0..MaxToken
None   == [st |-> "none", tok |-> 0]
NoCall == [st |-> "none", kind |-> "get", api |-> 0, body |-> 0, retried |-> FALSE]

TypeOK ==
    /\ SessionsTypeOK
    /\ stale \subseteq Token
    /\ late \subseteq [kind : {"login", "refresh", "logout"}, tok : Handle, api : Handle]
    /\ access \in Handle /\ stored \in Handle
    /\ user \in Users \cup {NoUser} /\ ready \in BOOLEAN
    /\ boot \in [st : {"none", "sent", "ok", "denied", "me", "dead"}, tok : Handle]
    /\ form \in [st : {"none", "sent", "ok", "me"}, tok : Handle]
    /\ call \in [Calls -> [st : {"none", "sent", "ok", "denied", "waiting"},
                           kind : {"get", "logout"}, api : Handle, body : Handle,
                           retried : BOOLEAN]]
    /\ flight \in [Handle -> [st : {"none", "sent", "ok", "denied"}, tok : Handle]]

\* The first visit of a tab: nothing in sessionStorage.
Init ==
    /\ SessionsInit
    /\ stale = {} /\ late = {} /\ access = 0 /\ stored = 0 /\ user = NoUser /\ ready = TRUE
    /\ boot = None /\ form = None
    /\ call = [c \in Calls |-> NoCall]
    /\ flight = [k \in Handle |-> None]

-----------------------------------------------------------------------------
(* The server *)

Valid(k) == k # 0 /\ k \notin stale

Busy == "busy" \in Faults

(* POST /refresh with token t, answered a.  A reuse revokes the family; a  *)
(* request over the rate limit changes nothing.                            *)
ServeRefresh(t, a) ==
    \/ a = "ok" /\ t \notin expired /\ Rotate(t, {})
    \/ a = "denied" /\ status[t] = "live" /\ t \in expired /\ UNCHANGED svars
    \/ /\ a = "denied" /\ status[t] = "revoked"
       /\ RevokeSome(owner[t], {k \in Token : status[k] = "live" /\ family[k] = family[t]})
    \/ a = "denied" /\ Busy /\ UNCHANGED svars

\* What the tab is handed: the new pair, or nothing new.
Answer(t, a) == [st |-> a, tok |-> IF a = "ok" THEN issued + 1 ELSE t]

ServeBoot ==
    /\ boot.st = "sent"
    /\ \E a \in {"ok", "denied"} :
          ServeRefresh(boot.tok, a) /\ boot' = Answer(boot.tok, a)
    /\ UNCHANGED <<stale, late, page, form, call, flight>>

ServeFlight(k) ==
    /\ flight[k].st = "sent"
    /\ \E a \in {"ok", "denied"} :
          /\ ServeRefresh(flight[k].tok, a)
          /\ flight' = [flight EXCEPT ![k] = Answer(flight[k].tok, a)]
    /\ UNCHANGED <<stale, late, page, boot, form, call>>

ServeForm ==
    /\ form.st = "sent"
    /\ \/ (\E u \in Users : OpenSession(u, {})) /\ form' = Answer(0, "ok")
       \/ Busy /\ UNCHANGED svars /\ form' = None
    /\ UNCHANGED <<stale, late, page, boot, call, flight>>

(* Any authenticated endpoint answers 401 to a stale or missing access     *)
(* token.  POST /logout revokes the token of its body if it is live.       *)
ServeCall(c) ==
    /\ call[c].st = "sent"
    /\ \/ /\ Valid(call[c].api)
          /\ call' = [call EXCEPT ![c].st = "ok"]
          /\ IF call[c].kind = "logout" /\ status[call[c].body] = "live"
             THEN RevokeSome(owner[call[c].body], {call[c].body})
             ELSE UNCHANGED svars
       \/ /\ ~Valid(call[c].api)
          /\ call' = [call EXCEPT ![c].st = "denied"]
          /\ UNCHANGED svars
       \/ Busy /\ call' = [call EXCEPT ![c].st = "ok"] /\ UNCHANGED svars
    /\ UNCHANGED <<stale, late, page, boot, form, flight>>

Request(kind, t, k) == [kind |-> kind, tok |-> t, api |-> k]

\* The requests sent and not served yet that change something on the server.
Underway ==
    {Request("login", 0, 0) : f \in {form} \cap [st : {"sent"}, tok : Handle]}
      \cup {Request("refresh", f.tok, 0) :
              f \in ({boot} \cup {flight[k] : k \in Handle}) \cap [st : {"sent"}, tok : Handle]}
      \cup {Request("logout", call[c].body, call[c].api) :
              c \in {d \in Calls : call[d].st = "sent" /\ call[d].kind = "logout"}}

\* A request whose fetch has failed, or whose page has gone, is served all the same, or lost.
ServeLate(x) ==
    /\ x \in late /\ late' = late \ {x}
    /\ \/ x.kind = "login" /\ \E u \in Users : OpenSession(u, {})
       \/ x.kind = "refresh" /\ \E a \in {"ok", "denied"} : ServeRefresh(x.tok, a)
       \/ /\ x.kind = "logout" /\ Valid(x.api) /\ status[x.tok] = "live"
          /\ RevokeSome(owner[x.tok], {x.tok})
       \/ UNCHANGED svars
    /\ UNCHANGED <<stale, page, boot, form, call, flight>>

\* Without "slow", whatever was sent before k was issued is over before k expires.
AccessExpires(k) ==
    /\ k \in 1..issued \ stale
    /\ "slow" \in Faults \/ ( /\ boot.st = "none" /\ form.st = "none"
                             /\ \A c \in Calls : call[c].st # "none" => call[c].api >= k)
    /\ stale' = stale \cup {k}
    /\ UNCHANGED <<svars, late, page, boot, form, call, flight>>

RefreshExpires(t) ==
    /\ t \notin expired
    /\ TokenExpires(t)
    /\ UNCHANGED <<stale, late, page, boot, form, call, flight>>

-----------------------------------------------------------------------------
(* The tab *)

\* No fetch is pending.
Quiet == /\ boot.st \in {"none", "dead"} /\ form.st = "none"
         /\ \A c \in Calls : call[c].st = "none"
         /\ \A k \in Handle : flight[k].st = "none"

\* The answer to GET /me: the user, or null on an error status.
LoadMe(k) ==
    \/ user' = IF Valid(k) THEN owner[k] ELSE NoUser
    \/ Busy /\ user' = NoUser

\* Faulty: a refresh token that is already stored is not replaced.
SetAccess(k) == access' = k /\ stored' = IF stored = 0 THEN k ELSE stored

SetTokens(k) == access' = k /\ stored' = k

ClearAuth == access' = 0 /\ stored' = 0 /\ user' = NoUser

\* Faulty: setReady only where there is a user.
BootForgetsReady ==
    /\ boot.st = "denied"
    /\ ClearAuth /\ boot' = None
    /\ UNCHANGED <<svars, stale, late, ready, form, call, flight>>

\* The answer to the silent refresh: setTokens and loadMe, or clearAuth.
BootAnswered ==
    /\ \/ /\ boot.st = "ok"
          /\ SetTokens(boot.tok)
          /\ boot' = [boot EXCEPT !.st = "me"]
          /\ UNCHANGED <<user, ready>>
       \/ boot.st = "denied" /\ ClearAuth /\ ready' = TRUE /\ boot' = None
    /\ UNCHANGED <<svars, stale, late, form, call, flight>>

BootLoadsMe ==
    /\ boot.st = "me"
    /\ LoadMe(boot.tok)
    /\ ready' = TRUE
    /\ boot' = None
    /\ UNCHANGED <<svars, stale, late, access, stored, form, call, flight>>

\* The login page is shown while no user is set, and locks its button.
SubmitLogin ==
    /\ ready /\ user = NoUser /\ form.st = "none"
    /\ "slow" \in Faults \/ Quiet
    /\ form' = [form EXCEPT !.st = "sent"]
    /\ UNCHANGED <<svars, stale, late, page, boot, call, flight>>

LoginAnswered ==
    /\ form.st = "ok"
    /\ SetTokens(form.tok)
    /\ form' = [form EXCEPT !.st = "me"]
    /\ UNCHANGED <<svars, stale, late, user, ready, boot, call, flight>>

LoginLoadsMe ==
    /\ form.st = "me"
    /\ LoadMe(form.tok)
    /\ form' = None
    /\ UNCHANGED <<svars, stale, late, access, stored, ready, boot, call, flight>>

\* A page of a signed-in user calls api.request on the client of its render.
Get(c) ==
    /\ ready /\ user # NoUser /\ call[c].st = "none"
    /\ call' = [call EXCEPT ![c] = [NoCall EXCEPT !.st = "sent", !.api = access]]
    /\ UNCHANGED <<svars, stale, late, page, boot, form, flight>>

\* The log out button: the body is the refresh token stored at the click.
Logout(c) ==
    /\ ready /\ user # NoUser /\ call[c].st = "none"
    /\ IF stored = 0
       THEN ClearAuth /\ UNCHANGED <<ready, call>>
       ELSE /\ call' = [call EXCEPT ![c] = [st |-> "sent", kind |-> "logout",
                                            api |-> access, body |-> stored,
                                            retried |-> FALSE]]
            /\ UNCHANGED page
    /\ UNCHANGED <<svars, stale, late, boot, form, flight>>

\* api.request returns or throws for the calls of C; logout goes on to clearAuth.
Return(C) ==
    /\ call' = [c \in Calls |-> IF c \in C THEN NoCall ELSE call[c]]
    /\ IF \E c \in C : call[c].kind = "logout" THEN ClearAuth
                                               ELSE UNCHANGED <<access, stored, user>>

\* A call is over: it succeeded, or its retry failed, or there is nothing to refresh with.
CallReturns(c) ==
    /\ \/ call[c].st = "ok"
       \/ call[c].st = "denied" /\ call[c].retried
       \/ call[c].st = "denied" /\ flight[call[c].api].st = "none" /\ stored = 0
    /\ Return({c})
    /\ UNCHANGED <<svars, stale, late, ready, boot, form, flight>>

\* 401 to a first attempt: refreshOnce joins the promise of its client or makes it.
CallRefreshes(c) ==
    LET k == call[c].api IN
    /\ call[c].st = "denied" /\ ~call[c].retried
    /\ \/ flight[k].st # "none" /\ UNCHANGED flight
       \/ /\ flight[k].st = "none" /\ stored # 0
          /\ flight' = [flight EXCEPT ![k] = [st |-> "sent", tok |-> stored]]
    /\ call' = [call EXCEPT ![c].st = "waiting"]
    /\ UNCHANGED <<svars, stale, late, page, boot, form>>

Waiting(k) == {c \in Calls : call[c].st = "waiting" /\ call[c].api = k}

Again(c) == [call[c] EXCEPT !.st = "sent", !.retried = TRUE]

(* The refresh promise settles.  On success the waiting calls are sent     *)
(* again, once, by the same client and so with the same access token; on   *)
(* a refusal their 401 is returned.                                        *)
Settle(k) ==
    /\ \/ /\ flight[k].st = "ok"
          /\ SetTokens(flight[k].tok)
          /\ call' = [c \in Calls |-> IF c \in Waiting(k) THEN Again(c) ELSE call[c]]
          /\ UNCHANGED user
       \/ /\ flight[k].st = "denied"
          /\ ClearAuth
          /\ call' = [c \in Calls |-> IF c \in Waiting(k) THEN NoCall ELSE call[c]]
    /\ UNCHANGED <<svars, stale, late, ready, boot, form>>

\* Faulty: the settled promise is kept.
FlightKept(k) == Settle(k) /\ UNCHANGED flight

\* Faulty: a refusal leaves the waiting calls waiting.
FlightLosesCalls(k) ==
    /\ flight[k].st = "denied"
    /\ ClearAuth
    /\ flight' = [flight EXCEPT ![k] = None]
    /\ UNCHANGED <<svars, stale, late, ready, boot, form, call>>

FlightAnswered(k) == Settle(k) /\ flight' = [flight EXCEPT ![k] = None]

-----------------------------------------------------------------------------
(* Failures *)

Pending(f) == f.st \in {"sent", "ok", "denied"}

\* fetch rejects, before or after the server has answered.
FetchFails ==
    /\ "reject" \in Faults
    /\ \/ /\ Pending(boot) \/ boot.st = "me"
          /\ boot' = [boot EXCEPT !.st = "dead"]
          /\ UNCHANGED <<page, form, call, flight>>
       \/ /\ Pending(form) \/ form.st = "me"
          /\ form' = None
          /\ UNCHANGED <<page, boot, call, flight>>
       \/ \E c \in Calls :
             Pending(call[c]) /\ Return({c}) /\ UNCHANGED <<ready, boot, form, flight>>
       \/ \E k \in Handle :
             /\ Pending(flight[k])
             /\ flight' = [flight EXCEPT ![k] = None]
             /\ Return(Waiting(k))
             /\ UNCHANGED <<ready, boot, form>>
    /\ late' = late \cup (Underway \ Underway')
    /\ UNCHANGED <<svars, stale>>

\* The page is loaded again: only sessionStorage is left, and the mount effect runs.
Reload ==
    /\ "reload" \in Faults \/ Quiet
    /\ access' = 0 /\ user' = NoUser /\ ready' = (stored = 0)
    /\ boot' = IF stored = 0 THEN None ELSE [st |-> "sent", tok |-> stored]
    /\ form' = None
    /\ call' = [c \in Calls |-> NoCall]
    /\ flight' = [k \in Handle |-> None]
    /\ late' = late \cup Underway
    /\ UNCHANGED <<svars, stale, stored>>

\* The tab is closed and another one opened, with a sessionStorage of its own.
CloseTab ==
    /\ Quiet
    /\ access' = 0 /\ stored' = 0 /\ user' = NoUser /\ ready' = TRUE
    /\ boot' = None /\ form' = None
    /\ call' = [c \in Calls |-> NoCall]
    /\ flight' = [k \in Handle |-> None]
    /\ UNCHANGED <<svars, stale, late>>

-----------------------------------------------------------------------------
Server == ServeBoot \/ ServeForm \/ (\E c \in Calls : ServeCall(c))
                    \/ (\E k \in Handle : ServeFlight(k)) \/ (\E x \in late : ServeLate(x))

Client == \/ BootAnswered \/ BootLoadsMe \/ LoginAnswered \/ LoginLoadsMe
          \/ \E c \in Calls : CallReturns(c) \/ CallRefreshes(c)
          \/ \E k \in Handle : FlightAnswered(k)

\* Bound: once MaxToken tokens are issued, a request for one more stays unanswered.
AtBound == issued = MaxToken /\ UNCHANGED vars

User == SubmitLogin \/ Reload \/ CloseTab \/ \E c \in Calls : Get(c) \/ Logout(c)

Next ==
    \/ Server \/ Client \/ User \/ FetchFails \/ AtBound
    \/ \E k \in Token : AccessExpires(k) \/ RefreshExpires(k)

Spec == Init /\ [][Next]_vars

(***************************************************************************)
(* Each fetch is answered or fails, and the event loop runs the            *)
(* continuation of each settled promise.  The user, and the expiry of      *)
(* tokens, have no obligation.                                             *)
(***************************************************************************)
Fairness ==
    /\ WF_vars(ServeBoot) /\ WF_vars(BootAnswered) /\ WF_vars(BootLoadsMe)
    /\ WF_vars(ServeForm) /\ WF_vars(LoginAnswered) /\ WF_vars(LoginLoadsMe)
    /\ \A c \in Calls : /\ WF_vars(ServeCall(c))
                        /\ WF_vars(CallReturns(c))
                        /\ WF_vars(CallRefreshes(c))
    /\ \A k \in Handle : WF_vars(ServeFlight(k)) /\ WF_vars(FlightAnswered(k))

FairSpec == Spec /\ Fairness

-----------------------------------------------------------------------------
(* Properties *)

(***************************************************************************)
(* The three places of AuthContext.jsx that say who is signed in never     *)
(* drift apart: while a user is shown, the access token and the refresh    *)
(* token kept in sessionStorage are of one pair and of that user, whatever *)
(* calls, refreshes and logouts overlap.                                   *)
(***************************************************************************)
OneIdentity ==
    user # NoUser => access # 0 /\ stored = access /\ owner[access] = user

Asked(c)   == call[c].st # "none"
LoggingOut == \E c \in Calls : Asked(c) /\ call[c].kind = "logout"
Rotated    == \E k \in Handle : flight[k].st = "ok"

(* What makes it inductive, unless a fetch is slow.  In any weather:       *)
(* whatever the tab holds, or sends, has been issued.                      *)
Known ==
    /\ access <= issued /\ stored <= issued
    /\ \A k \in stale : k <= issued
    /\ boot.tok <= issued /\ (boot.st # "none" => boot.tok # 0)
    /\ form.tok <= issued /\ (form.st \in {"ok", "me"} => form.tok # 0)
    /\ \A c \in Calls : /\ call[c].api <= issued /\ call[c].body <= issued
                        /\ call[c].kind = "logout" => call[c].body # 0
    /\ \A k \in Handle : /\ flight[k].tok <= issued
                         /\ flight[k].st # "none" => flight[k].tok # 0
    /\ \A x \in late : x.tok <= issued /\ (x.kind # "login" => x.tok # 0)

\* The mount effect and the login form have the tab to themselves.
Alone ==
    boot.st # "none" \/ form.st # "none" =>
        /\ boot.st = "none" \/ form.st = "none"
        /\ user = NoUser
        /\ \A c \in Calls : ~Asked(c)
        /\ \A k \in Handle : flight[k].st = "none"

BootInv ==
    /\ ready <=> boot.st = "none"
    /\ boot.st \in {"sent", "denied"} => boot.tok = stored
    /\ boot.st = "me" => access = boot.tok /\ stored = boot.tok

FormInv == form.st = "me" => access = form.tok /\ stored = form.tok

(* A pending call was made with the access token of its client; what has   *)
(* expired since is the oldest of the tokens that are in use.              *)
CallInv(c) ==
    Asked(c) =>
        /\ call[c].api # 0
        /\ user # NoUser => /\ call[c].api <= access
                            /\ access \in stale => access <= call[c].api
        /\ \A d \in Calls : Asked(d) /\ call[d].api \in stale => call[d].api <= call[c].api
        /\ call[c].st \in {"denied", "waiting"} => call[c].api \in stale

FlightInv(k) ==
    flight[k].st # "none" =>
        /\ \E c \in Calls : call[c].st = "waiting" /\ call[c].api = k
        /\ flight[k].st \in {"sent", "denied"} => stored \in {0, flight[k].tok}
        /\ flight[k].st = "ok" =>
              /\ flight[k].tok \notin stale /\ access < flight[k].tok
              /\ \A c \in Calls : Asked(c) => call[c].api < flight[k].tok
              /\ user # NoUser => owner[flight[k].tok] = user

TabInv ==
    /\ TypeOK /\ OneIdentity /\ Known /\ Alone /\ BootInv /\ FormInv
    /\ \A c \in Calls : CallInv(c)
    /\ \A k \in Handle : FlightInv(k)

(***************************************************************************)
(* In calm weather the refresh token in sessionStorage is good for another *)
(* session, but for a logout or a rotation that is under way: the tab never*)
(* keeps a token it has already spent (AuthContext.jsx, setTokens), and a  *)
(* refresh is refused only if the token has expired or a logout overlaps.  *)
(***************************************************************************)
Usable(t) == t \notin stale /\ status[t] = "live"

StoredIsGood ==
    /\ boot.st # "dead" /\ late = {}
    /\ stored # 0 /\ boot.st # "ok" => status[stored] = "live" \/ LoggingOut \/ Rotated
    /\ boot.st = "denied" => stored \in expired
    /\ boot.st \in {"ok", "me"} => Usable(boot.tok)
    /\ form.st \in {"ok", "me"} => Usable(form.tok)
    /\ \A k \in Handle :
          /\ flight[k].st = "denied" => stored = 0 \/ stored \in expired \/ LoggingOut
          /\ flight[k].st = "ok" =>
                /\ status[flight[k].tok] = "live" /\ stored # flight[k].tok
                /\ \A c \in Calls : Asked(c) /\ call[c].kind = "logout"
                                       => call[c].body # flight[k].tok

(***************************************************************************)
(* contracts/client-auth.md, rule 6: concurrent 401s coalesce into one     *)
(* refresh call.  createApiClient makes one promise per client, and there  *)
(* is one client per access token.                                         *)
(***************************************************************************)
SingleFlight == \A j, k \in Handle : flight[j].st # "none" /\ flight[k].st # "none" => j = k

(***************************************************************************)
(* An honest tab is not thrown out: clearAuth ends a session only if its   *)
(* refresh token has expired or the user is logging out, and never because *)
(* the tab itself presented a token it had already spent.                  *)
(***************************************************************************)
NeverThrownOut ==
    [][user # NoUser /\ stored # 0 /\ stored' = 0 /\ ~Quiet
         => \/ stored \in expired
            \/ \E c \in Calls : call[c].st # "none" /\ call[c].kind = "logout"]_vars

(***************************************************************************)
(* specs/002-user-auth/spec.md, User Story 5, scenario 1: when the page    *)
(* reloads, the user stays logged in.  The mount effect of AuthContext.jsx *)
(* ends with a user unless the refresh token has expired.                  *)
(***************************************************************************)
ReloadKeepsSession ==
    [][boot.st \in {"sent", "denied", "me"} /\ ready'
         => user' # NoUser \/ boot.tok \in expired]_vars

(***************************************************************************)
(* specs/002-user-auth/spec.md, User Story 5, scenario 2: when the API     *)
(* wrapper retries after a refresh, the request succeeds: the retry that   *)
(* follows a rotation carries an access token the server takes.            *)
(***************************************************************************)
RetrySucceeds ==
    \A c \in Calls : call[c].retried => Valid(call[c].api)

(***************************************************************************)
(* Every call of the tab comes to an end: a call that joined a refresh     *)
(* (api.js, refreshOnce) is sent again, once, or gets its 401 back; none   *)
(* waits for a promise that is gone.                                       *)
(***************************************************************************)
EveryCallEnds == \A c \in Calls : []<>(call[c].st = "none")

(***************************************************************************)
(* The application does not stay on its "Loading" page: the mount effect   *)
(* comes to setReady unless a fetch of it rejects.                         *)
(***************************************************************************)
BecomesReady == ~ready /\ boot.st # "dead" ~> ready \/ boot.st = "dead"
=============================================================================
