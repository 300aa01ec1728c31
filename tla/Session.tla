------------------------------ MODULE Session ------------------------------
(***************************************************************************)
(* A browser's session with the API: the refresh cookie its tabs share     *)
(* (services/auth.py), the access token each tab keeps in memory           *)
(* (store/authStore.ts), and the recovery every page load begins with      *)
(* (components/Providers.tsx).                                             *)
(*                                                                         *)
(* A call is sent, is served, and its answer is received; other tabs move  *)
(* in between, and the cookie is read when a call is sent and written when *)
(* an answer is received.  Accounts are never deactivated: no code of the  *)
(* repository clears User.is_active.                                       *)
(***************************************************************************)
EXTENDS Naturals

CONSTANTS
    Users,
    Tabs,
    Logins,             \* one per POST /auth/login that succeeds
    AccessTime,         \* ACCESS_TOKEN_EXPIRE_MINUTES
    RefreshTime,        \* REFRESH_TOKEN_EXPIRE_DAYS
    Deployed,           \* ENVIRONMENT is not "local"
    CrossSite,          \* pages and API are served from different sites
    MaxTime, MaxLoads   \* bounds

ASSUME SessionConstants ==
    /\ AccessTime \in Nat /\ RefreshTime \in Nat /\ MaxTime \in Nat /\ MaxLoads \in Nat
    /\ Deployed \in BOOLEAN /\ CrossSite \in BOOLEAN

VARIABLES
    clock,
    cookie,         \* the browser's refresh_token: {} or one token
    page,           \* each tab's page: its Providers is "checking" the session, or not
    auth,           \* each tab's authStore: {} or one user with an access token
    call,           \* each tab's request in flight: {} or one record
    login,          \* whose each login was, and when: {} or one record
    ended,          \* logins whose cookie an answered sign-out promised to clear
    loads           \* page loads so far

serverVars == <<clock, login>>
tabVars == <<page, auth, loads>>
vars == <<clock, cookie, page, auth, call, login, ended, loads>>

\* The claims of a JWT; which login it descends from is not among them.
Token == [type: {"access", "refresh"}, user: Users, login: Logins, exp: Nat]

\* Who signs in, what a call presents (a cookie, a bearer token or nothing), and
\* what its answer holds; a call is "lost" on the way there or back.
Call == [request: {"refresh", "me", "login", "logout"}, user: SUBSET Users,
         with: SUBSET Token, stage: {"sent", "served", "lost"}, answer: SUBSET Token]

TypeOK ==
    /\ clock \in Nat
    /\ cookie \subseteq Token
    /\ page \in [Tabs -> {"closed", "checking", "ready"}]
    /\ auth \in [Tabs -> SUBSET [user: Users, token: Token]]
    /\ call \in [Tabs -> SUBSET Call]
    /\ login \in [Logins -> SUBSET [user: Users, at: Nat]]
    /\ ended \subseteq Logins
    /\ loads \in Nat

Init ==
    /\ clock = 0
    /\ cookie = {}
    /\ page = [t \in Tabs |-> "closed"]
    /\ auth = [t \in Tabs |-> {}]
    /\ call = [t \in Tabs |-> {}]
    /\ login = [l \in Logins |-> {}]
    /\ ended = {}
    /\ loads = 0

Tick ==
    /\ clock < MaxTime
    /\ clock' = clock + 1
    /\ UNCHANGED <<cookie, page, auth, call, login, ended, loads>>

-----------------------------------------------------------------------------
(* Calls.                                                                  *)

Send(t, request, user, with) ==
    call' = [call EXCEPT ![t] = {[request |-> request, user |-> user, with |-> with,
                                  stage |-> "sent", answer |-> {}]}]

Answer(t, c, answer) ==
    call' = [call EXCEPT ![t] = {[c EXCEPT !.stage = "served", !.answer = answer]}]

Sent(t, request) == {c \in call[t] : c.request = request /\ c.stage = "sent"}

Received(t, request) == {c \in call[t] : c.request = request /\ c.stage # "sent"}

\* The network, the server or a wrong password fails the call.
LoseCall(t) ==
    /\ \E c \in call[t] :
        /\ c.stage # "lost"
        /\ call' = [call EXCEPT ![t] = {[c EXCEPT !.stage = "lost", !.answer = {}]}]
    /\ UNCHANGED <<clock, cookie, page, auth, login, ended, loads>>

-----------------------------------------------------------------------------
(* The API.                                                                *)

create_access_token(user, l) ==
    [type |-> "access", user |-> user, login |-> l, exp |-> clock + AccessTime]

create_refresh_token(user, l) ==
    [type |-> "refresh", user |-> user, login |-> l, exp |-> clock + RefreshTime]

OfType(tokens, type) == {token \in tokens : token.type = type}

\* Mutant: the decoder does not look at exp.
AnyAge(tokens) == tokens

\* jwt.decode raises ExpiredSignatureError from exp on.
Unexpired(tokens) == {token \in tokens : clock < token.exp}

login_user(t, l) ==
    /\ login[l] = {}
    /\ \E c \in Sent(t, "login") :
        /\ Answer(t, c, {create_access_token(user, l) : user \in c.user}
                     \cup {create_refresh_token(user, l) : user \in c.user})
        /\ login' = [login EXCEPT ![l] = {[user |-> user, at |-> clock] : user \in c.user}]
    /\ UNCHANGED <<clock, cookie, page, auth, ended, loads>>

refresh_access_token(t) ==
    /\ \E c \in Sent(t, "refresh") :
          Answer(t, c, {create_access_token(k.user, k.login) :
                           k \in OfType(Unexpired(c.with), "refresh")})
    /\ UNCHANGED <<clock, cookie, page, auth, login, ended, loads>>

\* Mutant: /users/me answers for the cookie.
CookieUser(tokens) == cookie

get_current_user(tokens) == Unexpired(tokens)

read_user_me(t) ==
    /\ \E c \in Sent(t, "me") : Answer(t, c, get_current_user(c.with))
    /\ UNCHANGED <<clock, cookie, page, auth, login, ended, loads>>

logout(t) ==
    /\ \E c \in Sent(t, "logout") : Answer(t, c, {})
    /\ UNCHANGED <<clock, cookie, page, auth, login, ended, loads>>

-----------------------------------------------------------------------------
(* The browser.                                                            *)

\* In the answer to a cross-site call only SameSite=None cookies are heeded.
Heeded(samesite) == samesite = "none" \/ ~CrossSite

\* login sets SameSite=None when deployed; logout always clears with Lax.
LoginSameSite == IF Deployed THEN "none" ELSE "lax"
LogoutSameSite == "lax"

\* Mutant: a refresh sets the cookie again.
CookieSetAgain(c) ==
    CASE c.request = "login" /\ c.stage = "served" -> OfType(c.answer, "refresh")
      [] c.request = "refresh" /\ c.stage = "served" -> c.with
      [] c.request = "logout" /\ c.stage = "served" -> {}
      [] OTHER -> cookie

CookieAfter(c) ==
    CASE c.request = "login" /\ c.stage = "served" /\ Heeded(LoginSameSite) ->
            OfType(c.answer, "refresh")
      [] c.request = "logout" /\ c.stage = "served" /\ Heeded(LogoutSameSite) -> {}
      [] OTHER -> cookie

\* A load or reload empties the memory of the tab, drops its call and starts
\* recoverSession.
LoadPage(t) ==
    /\ loads < MaxLoads
    /\ loads' = loads + 1
    /\ page' = [page EXCEPT ![t] = "checking"]
    /\ auth' = [auth EXCEPT ![t] = {}]
    /\ Send(t, "refresh", {}, cookie)
    /\ UNCHANGED <<serverVars, cookie, ended>>

\* Mutant: the call carries what the store holds, as other calls do.
StoredBearer(t, tokens) == {a.token : a \in auth[t]}

\* recoverSession passes the new token itself: the store has none yet.
Bearer(t, tokens) == tokens

FetchProfile(t) ==
    /\ \E c \in Received(t, "refresh") :
        /\ c.answer # {}
        /\ Send(t, "me", {}, Bearer(t, c.answer))
        /\ cookie' = CookieAfter(c)
    /\ UNCHANGED <<serverVars, tabVars, ended>>

\* Mutant: checkingSession is cleared on success only.
OnlyOnSuccess(signedIn) == IF signedIn THEN "ready" ELSE "checking"

FinallyPage(signedIn) == "ready"

setAuth(profiles, tokens) ==
    {[user |-> profile.user, token |-> token] : profile \in profiles, token \in tokens}

\* setAuth(meData, tokenData.access_token), or clearAuth.
EndRecovery(t) ==
    /\ \E c \in Received(t, "refresh") \cup Received(t, "me") :
        /\ c.request = "refresh" => c.answer = {}
        /\ auth' = [auth EXCEPT ![t] = setAuth(c.answer, c.with)]
        /\ page' = [page EXCEPT ![t] = FinallyPage(c.answer # {})]
    /\ call' = [call EXCEPT ![t] = {}]
    /\ UNCHANGED <<serverVars, cookie, ended, loads>>

handleAuth(t, user) ==
    /\ page[t] = "ready" /\ auth[t] = {} /\ call[t] = {}
    /\ Send(t, "login", {user}, {})
    /\ UNCHANGED <<serverVars, cookie, tabVars, ended>>

EndLogin(t) ==
    /\ \E c \in Received(t, "login") :
        /\ cookie' = CookieAfter(c)
        /\ auth' = [auth EXCEPT ![t] =
              {[user |-> token.user, token |-> token] : token \in OfType(c.answer, "access")}]
    /\ call' = [call EXCEPT ![t] = {}]
    /\ UNCHANGED <<serverVars, page, ended, loads>>

handleLogout(t) ==
    /\ page[t] = "ready" /\ auth[t] # {} /\ call[t] = {}
    /\ Send(t, "logout", {}, cookie)
    /\ UNCHANGED <<serverVars, cookie, tabVars, ended>>

\* clearAuth comes in a finally: whether or not the call succeeded.
EndLogout(t) ==
    /\ \E c \in Received(t, "logout") :
        /\ cookie' = CookieAfter(c)
        /\ ended' = IF c.stage = "served" THEN ended \cup {k.login : k \in cookie} ELSE ended
    /\ auth' = [auth EXCEPT ![t] = {}]
    /\ call' = [call EXCEPT ![t] = {}]
    /\ UNCHANGED <<serverVars, page, loads>>

-----------------------------------------------------------------------------
Serve(t) ==
    \/ \E l \in Logins : login_user(t, l)
    \/ refresh_access_token(t)
    \/ read_user_me(t)
    \/ logout(t)
    \/ LoseCall(t)

Receive(t) == FetchProfile(t) \/ EndRecovery(t) \/ EndLogin(t) \/ EndLogout(t)

Next ==
    \/ Tick
    \/ \E t \in Tabs :
        \/ LoadPage(t) \/ Serve(t) \/ Receive(t) \/ handleLogout(t)
        \/ \E user \in Users : handleAuth(t, user)

Spec == Init /\ [][Next]_vars

\* A fetch ends, with an answer or an error, and its continuation runs.
FairSpec ==
    /\ Spec
    /\ \A t \in Tabs : WF_vars(Serve(t)) /\ WF_vars(Receive(t))

-----------------------------------------------------------------------------
(* Properties.                                                             *)

\* The profile a tab shows is that of the token it calls with, although another
\* tab may sign somebody else in while this one recovers its session.
OneIdentity == \A t \in Tabs : \A a \in auth[t] : a.user = a.token.user

\* Signing out clears the "refresh token session cookie" for good: no recovery
\* or sign-in that was under way elsewhere brings the login's cookie back.
SignedOutStaysOut == \A k \in cookie : k.login \notin ended

\* However often pages are reloaded, a login gives access no longer than the
\* refresh token's lifetime and one access token's after it.
LoginsRunOut ==
    \A t \in Tabs : \A a \in auth[t] : \A l \in login[a.token.login] :
        a.token.exp <= l.at + RefreshTime + AccessTime

\* "On browser refresh, the client silently restores the user session state":
\* a recovery gives up only for a lost call or a token that is missing or old.
RecoveryRestores ==
    [][\A t \in Tabs :
          page[t] = "checking" /\ page'[t] = "ready" /\ auth'[t] = {} =>
             \E c \in call[t] :
                \/ c.stage = "lost"
                \/ c.request = "refresh" /\ Unexpired(c.with) = {}
                \/ c.request = "me" /\ Unexpired(c.with) = {} /\ c.with # {}]_vars

\* No page shows "Restoring Secure Session..." forever.
RecoveryEnds == \A t \in Tabs : page[t] = "checking" ~> page[t] = "ready"

-----------------------------------------------------------------------------
(* The invariant behind the safety properties.                             *)

\* A token says what its login said, and no more time than that.
Sound(token) ==
    \E l \in login[token.login] :
        /\ token.user = l.user
        /\ token.exp <= l.at + RefreshTime + (IF token.type = "access" THEN AccessTime ELSE 0)

TokensAreSound ==
    /\ \A k \in cookie : Sound(k) /\ k.type = "refresh"
    /\ \A t \in Tabs : \A a \in auth[t] : Sound(a.token) /\ a.user = a.token.user
    /\ \A t \in Tabs : \A c \in call[t] : \A k \in c.with \cup c.answer : Sound(k)

AtMostOne(set) == \A x, y \in set : x = y

HoldAtMostOne ==
    /\ AtMostOne(cookie)
    /\ \A l \in Logins : AtMostOne(login[l])
    /\ \A t \in Tabs : \A c \in call[t] :
        /\ AtMostOne(c.with) /\ AtMostOne(c.user)
        /\ c.request \in {"refresh", "me"} => AtMostOne(c.answer)
        /\ c.request = "me" => c.answer \subseteq c.with
        /\ c.request = "logout" => c.answer = {}
        /\ AtMostOne(OfType(c.answer, "refresh"))

\* The answer of a login brings its own cookie, nobody's before.
LoginsAreFresh ==
    /\ \A l \in ended : login[l] # {}
    /\ \A t \in Tabs : \A c \in call[t] : c.request = "login" =>
        \A k \in c.answer :
            /\ k.login \notin ended
            /\ \A other \in cookie : other.login # k.login
            /\ \A s \in Tabs \ {t} : \A d \in call[s] : d.request = "login" =>
                  \A other \in d.answer : other.login # k.login

\* A recovery's call presents what it must, and is refused for its age alone.
RefusedForAge ==
    \A t \in Tabs : \A c \in call[t] :
        /\ c.request = "refresh" => \A k \in c.with : k.type = "refresh"
        /\ c.request = "me" => c.with # {}
        /\ c.request \in {"refresh", "me"} /\ c.stage = "served" /\ c.answer = {} =>
              Unexpired(c.with) = {}

IInv ==
    /\ TypeOK
    /\ TokensAreSound
    /\ HoldAtMostOne
    /\ LoginsAreFresh
    /\ ~CrossSite => SignedOutStaysOut

=============================================================================
