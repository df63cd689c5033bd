------------------------------ MODULE Sessions ------------------------------
(***************************************************************************)
(* Sign-in sessions of FleetFlow: the refresh_tokens table with login,     *)
(* refresh and logout (routers/auth.py) on one side, and on the other the  *)
(* browser, whose apiFetch answers a 401 with one silent refresh and one   *)
(* retry (static/app.js).  The network lies between the two: a response    *)
(* that the server has computed reaches its browser some time later, and   *)
(* what other calls did meanwhile is not undone.                           *)
(*                                                                         *)
(* A grant is what login and refresh hand out together: an access token,   *)
(* which the browser keeps in state.token, and a refresh token, which goes *)
(* to the cookie jar.  Grants are numbered in the order of their issue,    *)
(* which is the order in which their tokens expire.  0 is no token.        *)
(*                                                                         *)
(* A browser is one tab with a cookie jar of its own.  Refreshing and      *)
(* storing the successor is one transaction, hence one step.               *)
(***************************************************************************)
EXTENDS Naturals, Sequences, FiniteSets

CONSTANTS
  User, Browser,
  Nobody,      \* no account
  Call,        \* API calls one browser may have in flight at once
  Trouble,     \* what may come in the way in this instance
  MaxGrants    \* bound: once so many were issued there is no login,
               \* expiry, reload or deactivation any more

Troubles ==
  {"logout",            \* users sign out
   "refresh_expired",   \* refresh tokens outlive their 14 days
   "switched_off",      \* accounts are deactivated and activated again
   "reload",            \* pages are reloaded
   "lost",              \* responses get lost
   "rejected"}          \* calls are answered with an error other than 401

ASSUME TroubleAssumption == Trouble \subseteq Troubles
ASSUME NobodyAssumption  == Nobody \notin User
ASSUME GrantsAssumption   == MaxGrants \in Nat

VARIABLES
  active,          \* users.active
  grants,          \* refresh_tokens, with the history of each token
  accessExpired,   \* the access tokens of grants 1..accessExpired are expired
  refreshExpired,  \* likewise for the refresh tokens
  browsers,        \* cookie jar, state.token, and the login and logout under way
  calls,           \* the API calls in flight
  loggedOut        \* history: logins that were ended by a logout

serverVars == <<active, grants, accessExpired, refreshExpired>>
vars == <<serverVars, browsers, calls, loggedOut>>

\* login numbers the login a token descends from, parent is the token it
\* replaced; both are history.  browser is the user_agent column.
Grant == [user : User, browser : Browser, login : Nat, parent : Nat, revoked : BOOLEAN]
Phase == {"idle", "asked", "refreshing", "granted", "denied", "retrying"}
\* arg is the token or the cookie that was sent, or the grant that comes back;
\* restore marks the refresh a page starts with and the loadMe after it.  n is the
\* number of grants.
CallState(n) == [phase : Phase, arg : 0 .. n, restore : BOOLEAN]
Idle == [phase |-> "idle", arg |-> 0, restore |-> FALSE]

\* signingIn is the account whose password /auth/login has just checked; logout
\* is 0 while none is under way, else 1 + the cookie it was sent with.
BrowserState(n) ==
  [cookie : 0 .. n, token : 0 .. n, signingIn : User \cup {Nobody}, logout : 0 .. n + 1]

TypeOK ==
  /\ active \in [User -> BOOLEAN]
  /\ grants \in Seq(Grant)
  /\ accessExpired \in Nat /\ refreshExpired \in Nat
  /\ browsers \in [Browser -> BrowserState(Len(grants))]
  /\ calls \in [Browser -> [Call -> CallState(Len(grants))]]
  /\ loggedOut \subseteq Nat

GrantIds == 1 .. Len(grants)
Live(g)  == ~grants[g].revoked /\ g > refreshExpired
-----------------------------------------------------------------------------
Init ==
  /\ active = [u \in User |-> TRUE]
  /\ grants = <<>>
  /\ accessExpired = 0 /\ refreshExpired = 0
  /\ browsers = [b \in Browser |-> [cookie |-> 0, token |-> 0, signingIn |-> Nobody, logout |-> 0]]
  /\ calls = [b \in Browser |-> [c \in Call |-> Idle]]
  /\ loggedOut = {}

SetCall(b, c, state) == calls' = [calls EXCEPT ![b][c] = state]
To(phase, arg) == [phase |-> phase, arg |-> arg, restore |-> FALSE]

\* setSession(null, null): the tab forgets its token, the cookie jar does not.
EndSession(b) == browsers' = [browsers EXCEPT ![b].token = 0]

(* routers/auth.py *)

\* The first half of POST /auth/login: the row is read and the password fits.
CheckPassword(b, u) ==
  /\ Len(grants) < MaxGrants
  /\ browsers[b].token = 0
  /\ browsers[b].signingIn = Nobody
  /\ browsers[b].logout = 0
  /\ active[u]
  /\ browsers' = [browsers EXCEPT ![b].signingIn = u]
  /\ UNCHANGED <<serverVars, calls, loggedOut>>

\* The second half, on another connection, and the answer in loginWith.
StoreRefreshToken(b) ==
  LET g == Len(grants) + 1
  IN  /\ browsers[b].signingIn # Nobody
      /\ grants' = Append(grants,
            [user |-> browsers[b].signingIn, browser |-> b, login |-> g, parent |-> 0, revoked |-> FALSE])
      /\ browsers' = [browsers EXCEPT
            ![b] = [cookie |-> g, token |-> g, signingIn |-> Nobody, logout |-> 0]]
      /\ UNCHANGED <<active, accessExpired, refreshExpired, calls, loggedOut>>

\* Mutant: the two parameters of the UPDATE in the wrong order.
MutantRevokeAllSwapped(u, table) ==
  [g \in DOMAIN table |-> [table[g] EXCEPT !.revoked = IF table[g].user = u THEN u ELSE @]]

\* UPDATE refresh_tokens SET revoked_at = ? WHERE user_id = ? AND revoked_at IS NULL.
RevokeAll(u, table) ==
  [g \in DOMAIN table |-> [table[g] EXCEPT !.revoked = @ \/ table[g].user = u]]

\* Mutant: revoked_at is not looked at.
MutantRotateRevoked(b, c) ==
  LET g == calls[b][c].arg
  IN  /\ calls[b][c].phase = "refreshing"
      /\ g > refreshExpired
      /\ grants' = Append([grants EXCEPT ![g].revoked = TRUE],
                          [grants[g] EXCEPT !.parent = g, !.revoked = FALSE])
      /\ SetCall(b, c, [calls[b][c] EXCEPT !.phase = "granted", !.arg = Len(grants) + 1])
      /\ UNCHANGED <<active, accessExpired, refreshExpired, browsers, loggedOut>>

\* Mutant: the old token goes WHERE user_id = ?, and every other session with it.
MutantRotateEndsOthers(b, c) ==
  LET g == calls[b][c].arg
  IN  /\ calls[b][c].phase = "refreshing"
      /\ g # 0 /\ Live(g)
      /\ grants' = Append(RevokeAll(grants[g].user, grants), [grants[g] EXCEPT !.parent = g])
      /\ SetCall(b, c, [calls[b][c] EXCEPT !.phase = "granted", !.arg = Len(grants) + 1])
      /\ UNCHANGED <<active, accessExpired, refreshExpired, browsers, loggedOut>>

\* POST /auth/refresh: a live token of an active user is replaced by its
\* successor, any other known token costs its user every session.
RotateRefreshToken(b, c) ==
  LET g    == calls[b][c].arg
      next == Len(grants) + 1
      refused == g = 0 \/ ~Live(g) \/ ~active[grants[g].user]
  IN  /\ calls[b][c].phase = "refreshing"
      /\ IF refused
           THEN /\ grants' = IF g = 0 THEN grants ELSE RevokeAll(grants[g].user, grants)
                /\ SetCall(b, c, [calls[b][c] EXCEPT !.phase = "denied", !.arg = 0])
           ELSE /\ grants' = Append([grants EXCEPT ![g].revoked = TRUE],
                      [grants[g] EXCEPT !.parent = g])
                /\ SetCall(b, c, [calls[b][c] EXCEPT !.phase = "granted", !.arg = next])
      /\ UNCHANGED <<active, accessExpired, refreshExpired, browsers, loggedOut>>

\* What get_auth_context makes of a bearer token: 401 or not.
Accepted(token) == token > accessExpired /\ active[grants[token].user]

\* What a logout does to refresh token g: UPDATE ... AND revoked_at IS NULL.
Revoked(g) == IF g = 0 THEN grants ELSE [grants EXCEPT ![g].revoked = TRUE]

\* POST /auth/logout and the end of handleLogout: the token the request carried
\* is revoked, whatever cookie the jar holds by then is cleared.
Logout(b) ==
  LET g == browsers[b].logout - 1
  IN  /\ browsers[b].logout # 0
      /\ grants' = Revoked(g)
      /\ loggedOut' = loggedOut \cup (IF g = 0 THEN {} ELSE {grants[g].login})
      /\ browsers' = [browsers EXCEPT ![b].cookie = 0, ![b].token = 0, ![b].logout = 0]
      /\ UNCHANGED <<active, accessExpired, refreshExpired, calls>>

(* static/app.js *)

\* apiFetch with the token of the moment: a click, or the poll of every 30 s.
Ask(b, c) ==
  /\ calls[b][c].phase = "idle"
  /\ browsers[b].token # 0
  /\ SetCall(b, c, To("asked", browsers[b].token))
  /\ UNCHANGED <<serverVars, browsers, loggedOut>>

\* Any answer but a 401 ends the call; a 401 is followed by /auth/refresh with
\* the cookie of the moment.  No call asks whether another is refreshing already.
\* A restored page whose loadMe is answered with an error forgets its token.
ReceiveAnswer(b, c) ==
  LET call == calls[b][c]
  IN  /\ call.phase = "asked"
      /\ SetCall(b, c, IF Accepted(call.arg) THEN Idle ELSE To("refreshing", browsers[b].cookie))
      /\ \/ UNCHANGED browsers
         \/ Accepted(call.arg) /\ call.restore /\ "rejected" \in Trouble /\ EndSession(b)
      /\ UNCHANGED <<serverVars, loggedOut>>

\* Mutant: the refresh endpoint does not set the cookie.
MutantReceiveTokenOnly(b, c) ==
  LET g    == calls[b][c].arg
      next == IF calls[b][c].restore THEN "asked" ELSE "retrying"
  IN  /\ calls[b][c].phase = "granted"
      /\ browsers' = [browsers EXCEPT ![b].token = g]
      /\ SetCall(b, c, [calls[b][c] EXCEPT !.phase = next])
      /\ UNCHANGED <<serverVars, loggedOut>>

\* The successor arrives: Set-Cookie and state.token, then the retry, or the
\* loadMe of a page that restores its session.
ReceiveGrant(b, c) ==
  LET g    == calls[b][c].arg
      next == IF calls[b][c].restore THEN "asked" ELSE "retrying"
  IN  /\ calls[b][c].phase = "granted"
      /\ browsers' = [browsers EXCEPT ![b].cookie = g, ![b].token = g]
      /\ SetCall(b, c, [calls[b][c] EXCEPT !.phase = next])
      /\ UNCHANGED <<serverVars, loggedOut>>

\* Mutant: shouldAttemptRefresh does not except /auth/refresh itself.
MutantReceiveDenialAgain(b, c) ==
  /\ calls[b][c].phase = "denied"
  /\ SetCall(b, c, To("refreshing", browsers[b].cookie))
  /\ UNCHANGED <<serverVars, browsers, loggedOut>>

ReceiveDenial(b, c) ==
  /\ calls[b][c].phase = "denied"
  /\ EndSession(b)
  /\ SetCall(b, c, Idle)
  /\ UNCHANGED <<serverVars, loggedOut>>

\* The error of a retry is thrown inside the try block of the refresh: its catch
\* ends the session whether the answer was a 401 or anything else but success.
ReceiveRetryAnswer(b, c) ==
  /\ calls[b][c].phase = "retrying"
  /\ \/ Accepted(calls[b][c].arg) /\ UNCHANGED browsers
     \/ (~Accepted(calls[b][c].arg) \/ "rejected" \in Trouble) /\ EndSession(b)
  /\ SetCall(b, c, Idle)
  /\ UNCHANGED <<serverVars, loggedOut>>

\* handleLogout sends its request with the cookie of the moment.
AskLogout(b) ==
  /\ "logout" \in Trouble
  /\ browsers[b].token # 0
  /\ browsers[b].logout = 0
  /\ browsers' = [browsers EXCEPT ![b].logout = 1 + browsers[b].cookie]
  /\ UNCHANGED <<serverVars, calls, loggedOut>>

\* restoreSessionFromCookie: the tab's memory is gone and its calls are aborted,
\* before the server saw them or after it answered; the cookie jar is still there.
Reload(b) ==
  /\ "reload" \in Trouble
  /\ Len(grants) < MaxGrants
  /\ browsers[b].cookie # 0
  /\ browsers' = [browsers EXCEPT ![b].token = 0, ![b].signingIn = Nobody, ![b].logout = 0]
  /\ \E c \in Call : calls' = [calls EXCEPT ![b] = [k \in Call |->
        IF k = c THEN [To("refreshing", browsers[b].cookie) EXCEPT !.restore = TRUE] ELSE Idle]]
  /\ UNCHANGED <<serverVars, loggedOut>>
-----------------------------------------------------------------------------
(* The surroundings *)

\* fetch fails: a first attempt just throws; everything later is in the try block
\* that ends the session, and all of a restored page's start is in one.
LoseResponse(b, c) ==
  /\ "lost" \in Trouble
  /\ calls[b][c].phase # "idle"
  /\ IF calls[b][c].phase = "asked" /\ ~calls[b][c].restore THEN UNCHANGED browsers ELSE EndSession(b)
  /\ SetCall(b, c, Idle)
  /\ UNCHANGED <<serverVars, loggedOut>>

\* handleLogout warns and signs the tab out; the jar keeps its cookie, revoked
\* or not.
LoseLogout(b) ==
  LET g == browsers[b].logout - 1
  IN  /\ "lost" \in Trouble
      /\ browsers[b].logout # 0
      /\ grants' \in {grants, Revoked(g)}
      /\ browsers' = [browsers EXCEPT ![b].token = 0, ![b].logout = 0]
      /\ UNCHANGED <<active, accessExpired, refreshExpired, calls, loggedOut>>

\* deactivate_user and activate_user leave refresh_tokens alone.
SwitchUser(u) ==
  /\ "switched_off" \in Trouble
  /\ active[u] => Len(grants) < MaxGrants
  /\ active' = [active EXCEPT ![u] = ~@]
  /\ UNCHANGED <<grants, accessExpired, refreshExpired, browsers, calls, loggedOut>>

\* TOKEN_TTL_SECONDS is an hour: a token that has just come with a refresh outlives the
\* retry it is for.
ExpireAccess ==
  /\ Len(grants) < MaxGrants
  /\ accessExpired < Len(grants)
  /\ \A b \in Browser, c \in Call :
        calls[b][c].phase \in {"granted", "retrying"} => calls[b][c].arg # accessExpired + 1
  /\ accessExpired' = accessExpired + 1
  /\ UNCHANGED <<active, grants, refreshExpired, browsers, calls, loggedOut>>

\* REFRESH_TOKEN_TTL_SECONDS is 14 days.
ExpireRefresh ==
  /\ "refresh_expired" \in Trouble
  /\ refreshExpired < accessExpired
  /\ refreshExpired' = refreshExpired + 1
  /\ UNCHANGED <<active, grants, accessExpired, browsers, calls, loggedOut>>

\* What the server and the browser do of themselves once a call is made.
Proceed(b, c) ==
  \/ ReceiveAnswer(b, c)
  \/ RotateRefreshToken(b, c)
  \/ ReceiveGrant(b, c)
  \/ ReceiveDenial(b, c)
  \/ ReceiveRetryAnswer(b, c)

Next ==
  \/ \E b \in Browser :
       \/ \E u \in User : CheckPassword(b, u)
       \/ StoreRefreshToken(b)
       \/ AskLogout(b)
       \/ Logout(b)
       \/ LoseLogout(b)
       \/ Reload(b)
       \/ \E c \in Call : Ask(b, c) \/ Proceed(b, c) \/ LoseResponse(b, c)
  \/ \E u \in User : SwitchUser(u)
  \/ ExpireAccess
  \/ ExpireRefresh

Spec == Init /\ [][Next]_vars

\* Every request is answered and every answer handled; nobody has to ask.
FairSpec == Spec /\ \A b \in Browser, c \in Call : WF_vars(Proceed(b, c))
-----------------------------------------------------------------------------
(* Properties *)

\* The tokens of one login form a chain: each is replaced once at most, and only
\* the newest can be unrevoked, however many refreshes carry the same token.
RotationIsAChain ==
  \A g, h \in GrantIds :
    g < h /\ grants[g].login = grants[h].login
      => grants[g].revoked /\ grants[g].parent # grants[h].parent

\* The jar of a signed-in browser holds a token that still works, or the answer
\* that brings the token's successor is on its way.
CookieKeepsUp ==
  \A b \in Browser :
    browsers[b].token # 0 =>
      \/ browsers[b].cookie # 0 /\ Live(browsers[b].cookie)
      \/ \E c \in Call : /\ calls[b][c].phase = "granted"
                         /\ Live(calls[b][c].arg)
                         /\ grants[calls[b][c].arg].parent = browsers[b].cookie

\* A call ends after at most one refresh and one retry.
CallsEnd ==
  \A b \in Browser, c \in Call : calls[b][c].phase # "idle" ~> calls[b][c].phase = "idle"

\* A signed-in tab is signed out by its own logout and by nothing else: an
\* access token that has expired is replaced without the user noticing.
SilentRecovery ==
  [][\A b \in Browser :
       browsers[b].token # 0 /\ browsers'[b].token = 0 => browsers[b].logout # 0]_vars

LoggedOutAt(b) == \E g \in GrantIds : grants[g].browser = b /\ grants[g].login \in loggedOut

\* A logout ends the session of the browser it was made in and no other.
LogoutStaysHome ==
  [][\A b \in Browser :
       browsers[b].token # 0 /\ browsers'[b].token = 0
         => browsers[b].logout # 0 \/ LoggedOutAt(b)]_vars

\* Once a logout is through, no refresh token of that login works any more.
LogoutEndsLogin == \A g \in GrantIds : Live(g) => grants[g].login \notin loggedOut
=============================================================================
