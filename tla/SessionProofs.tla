--------------------------- MODULE SessionProofs ---------------------------
(***************************************************************************)
(* Proofs about Session, for every number of tabs, people, logins and      *)
(* reloads.                                                                *)
(***************************************************************************)
EXTENDS Session, TLAPS

LEMMA SessionInit == Init => IInv
BY SessionConstants DEF Init, IInv, TypeOK, TokensAreSound, HoldAtMostOne, AtMostOne,
   LoginsAreFresh, SignedOutStaysOut

\* What the invariant says of a call, wherever the call is.
CallOK(t, c) ==
    /\ c \in Call
    /\ \A k \in c.with \cup c.answer : Sound(k)
    /\ AtMostOne(c.with) /\ AtMostOne(c.user)
    /\ c.request \in {"refresh", "me"} => AtMostOne(c.answer)
    /\ c.request = "me" => c.answer \subseteq c.with
    /\ c.request = "logout" => c.answer = {}
    /\ AtMostOne(OfType(c.answer, "refresh"))
    /\ c.request = "login" => \A k \in c.answer :
        /\ k.login \notin ended
        /\ \A other \in cookie : other.login # k.login
        /\ \A s \in Tabs \ {t} : \A d \in call[s] : d.request = "login" =>
              \A other \in d.answer : other.login # k.login

LEMMA CallsAreOK ==
    ASSUME IInv, NEW t \in Tabs, NEW c \in call[t]
    PROVE  CallOK(t, c)
BY DEF IInv, TypeOK, TokensAreSound, HoldAtMostOne, LoginsAreFresh, CallOK

\* A step that only replaces a tab's call keeps the invariant if the new call
\* is good and brings no login of its own.
LEMMA CallKeeps ==
    ASSUME IInv, NEW t \in Tabs, NEW c, CallOK(t, c),
           call' = [call EXCEPT ![t] = {c}],
           UNCHANGED <<clock, cookie, page, auth, login, ended, loads>>
    PROVE  IInv'
<1>1. TypeOK'
  BY DEF IInv, TypeOK, CallOK
<1>2. \A k : Sound(k)' <=> Sound(k)
  BY DEF Sound
<1>3. \A s \in Tabs : call'[s] = IF s = t THEN {c} ELSE call[s]
  BY DEF IInv, TypeOK
<1>4. TokensAreSound'
  BY <1>2, <1>3 DEF IInv, TokensAreSound, CallOK
<1>5. HoldAtMostOne'
  BY <1>3 DEF IInv, HoldAtMostOne, AtMostOne, CallOK, OfType
<1>6. LoginsAreFresh'
  BY <1>3 DEF IInv, LoginsAreFresh, CallOK
<1>7. (~CrossSite => SignedOutStaysOut)'
  BY DEF IInv, SignedOutStaysOut
<1> QED
  BY <1>1, <1>4, <1>5, <1>6, <1>7 DEF IInv

\* The call that Send makes.
NewCall(request, user, with) ==
    [request |-> request, user |-> user, with |-> with, stage |-> "sent", answer |-> {}]

LEMMA NewCallIsOK ==
    ASSUME NEW t \in Tabs, NEW request \in {"refresh", "me", "login", "logout"},
           NEW user \in SUBSET Users, NEW with \in SUBSET Token,
           AtMostOne(user), AtMostOne(with), \A k \in with : Sound(k)
    PROVE  CallOK(t, NewCall(request, user, with))
BY DEF CallOK, NewCall, Call, AtMostOne, OfType

LEMMA LoseKeeps ==
    ASSUME IInv, NEW t \in Tabs, LoseCall(t)
    PROVE  IInv'
<1>1. PICK c \in call[t] :
         call' = [call EXCEPT ![t] = {[c EXCEPT !.stage = "lost", !.answer = {}]}]
  BY DEF LoseCall
<1> DEFINE lost == [c EXCEPT !.stage = "lost", !.answer = {}]
<1>2. CallOK(t, c)
  BY CallsAreOK
<1>3. CallOK(t, lost)
  BY <1>2 DEF CallOK, Call, AtMostOne, OfType
<1> QED
  BY <1>1, <1>3, CallKeeps DEF LoseCall

LEMMA RefreshKeeps ==
    ASSUME IInv, NEW t \in Tabs, refresh_access_token(t)
    PROVE  IInv'
<1>1. PICK c \in Sent(t, "refresh") :
         Answer(t, c, {create_access_token(k.user, k.login) :
                          k \in OfType(Unexpired(c.with), "refresh")})
  BY DEF refresh_access_token
<1> DEFINE answer == {create_access_token(k.user, k.login) :
                         k \in OfType(Unexpired(c.with), "refresh")}
           served == [c EXCEPT !.stage = "served", !.answer = answer]
<1>2. c \in call[t] /\ c.request = "refresh" /\ CallOK(t, c)
  BY CallsAreOK DEF Sent
<1>3. clock \in Nat /\ login \in [Logins -> SUBSET [user: Users, at: Nat]]
  BY DEF IInv, TypeOK
<1>4. ASSUME NEW k \in OfType(Unexpired(c.with), "refresh")
      PROVE  /\ create_access_token(k.user, k.login) \in Token
             /\ Sound(create_access_token(k.user, k.login))
             /\ create_access_token(k.user, k.login).type = "access"
  <2>1. k \in c.with /\ k \in Token /\ clock < k.exp /\ k.type = "refresh" /\ Sound(k)
    BY <1>2 DEF OfType, Unexpired, CallOK, Call
  <2>2. PICK l \in login[k.login] : k.user = l.user /\ k.exp <= l.at + RefreshTime
    BY <1>3, <2>1, SessionConstants DEF Sound, Token
  <2>3. l.at \in Nat
    BY <1>3, <2>1 DEF Token
  <2>4. clock + AccessTime \in Nat /\ clock + AccessTime <= l.at + RefreshTime + AccessTime
    BY <1>3, <2>1, <2>2, <2>3, SessionConstants DEF Token
  <2> QED
    BY <2>1, <2>2, <2>4 DEF create_access_token, Sound, Token
<1>5. answer \in SUBSET Token /\ (\A k \in answer : Sound(k) /\ k.type = "access")
  BY <1>4
<1>6. AtMostOne(answer)
  BY <1>2 DEF CallOK, AtMostOne, OfType, Unexpired
<1>7. call' = [call EXCEPT ![t] = {served}]
  BY <1>1 DEF Answer
<1> HIDE DEF answer
<1>8. /\ served \in Call /\ served.request = "refresh" /\ served.with = c.with
      /\ served.user = c.user /\ served.answer = answer
  BY <1>2, <1>5 DEF CallOK, Call
<1> HIDE DEF served
<1>9. CallOK(t, served)
  BY <1>2, <1>5, <1>6, <1>8 DEF CallOK, AtMostOne, OfType
<1> QED
  BY <1>7, <1>9, CallKeeps DEF refresh_access_token

LEMMA ProfileKeeps ==
    ASSUME IInv, NEW t \in Tabs, read_user_me(t) \/ logout(t)
    PROVE  IInv'
<1>1. CASE read_user_me(t)
  <2>1. PICK c \in Sent(t, "me") : Answer(t, c, Unexpired(c.with))
    BY <1>1 DEF read_user_me, get_current_user
  <2> DEFINE served == [c EXCEPT !.stage = "served", !.answer = Unexpired(c.with)]
  <2>2. c \in call[t] /\ c.request = "me" /\ CallOK(t, c)
    BY CallsAreOK DEF Sent
  <2>3. Unexpired(c.with) \subseteq c.with
    BY DEF Unexpired
  <2>4. /\ served \in Call /\ served.request = "me" /\ served.with = c.with
        /\ served.user = c.user /\ served.answer \subseteq c.with
    BY <2>2, <2>3 DEF CallOK, Call
  <2>5. call' = [call EXCEPT ![t] = {served}]
    BY <2>1 DEF Answer
  <2> HIDE DEF served
  <2>6. CallOK(t, served)
    BY <2>2, <2>4 DEF CallOK, AtMostOne, OfType
  <2> QED
    BY <1>1, <2>5, <2>6, CallKeeps DEF read_user_me
<1>2. CASE logout(t)
  <2>1. PICK c \in Sent(t, "logout") : Answer(t, c, {})
    BY <1>2 DEF logout
  <2> DEFINE served == [c EXCEPT !.stage = "served", !.answer = {}]
  <2>2. c \in call[t] /\ CallOK(t, c)
    BY CallsAreOK DEF Sent
  <2>3. CallOK(t, served)
    BY <2>2 DEF CallOK, Call, AtMostOne, OfType
  <2>4. call' = [call EXCEPT ![t] = {served}]
    BY <2>1 DEF Answer
  <2> QED
    BY <1>2, <2>3, <2>4, CallKeeps DEF logout
<1> QED
  BY <1>1, <1>2


\* A new login: nobody holds a token of it yet.
LEMMA LoginKeeps ==
    ASSUME IInv, NEW t \in Tabs, NEW l \in Logins, login_user(t, l)
    PROVE  IInv'
<1>1. PICK c \in Sent(t, "login") :
         /\ Answer(t, c, {create_access_token(user, l) : user \in c.user}
                            \cup {create_refresh_token(user, l) : user \in c.user})
         /\ login' = [login EXCEPT ![l] = {[user |-> user, at |-> clock] : user \in c.user}]
  BY DEF login_user
<1> DEFINE answer == {create_access_token(user, l) : user \in c.user}
                        \cup {create_refresh_token(user, l) : user \in c.user}
           served == [c EXCEPT !.stage = "served", !.answer = answer]
           made == {[user |-> user, at |-> clock] : user \in c.user}
<1>2. c \in call[t] /\ c.request = "login" /\ CallOK(t, c)
  BY CallsAreOK DEF Sent
<1>3. /\ clock \in Nat /\ login \in [Logins -> SUBSET [user: Users, at: Nat]]
      /\ login[l] = {} /\ UNCHANGED <<clock, cookie, page, auth, ended, loads>>
  BY DEF IInv, TypeOK, login_user
<1>4. made \in SUBSET [user: Users, at: Nat] /\ AtMostOne(made)
  BY <1>2, <1>3 DEF CallOK, Call, AtMostOne
<1>5. login' = [login EXCEPT ![l] = made]
  BY <1>1
<1>6. ASSUME NEW user \in c.user
      PROVE  /\ create_access_token(user, l) \in Token /\ Sound(create_access_token(user, l))'
             /\ create_refresh_token(user, l) \in Token /\ Sound(create_refresh_token(user, l))'
  <2>1. [user |-> user, at |-> clock] \in login'[l]
    BY <1>3, <1>5
  <2>2. user \in Users
    BY <1>2 DEF CallOK, Call
  <2>3. create_access_token(user, l) \in Token /\ create_refresh_token(user, l) \in Token
    BY <1>3, <2>2, SessionConstants DEF create_access_token, create_refresh_token, Token
  <2>4. Sound(create_access_token(user, l))'
    BY <1>3, <2>1, SessionConstants DEF create_access_token, Sound
  <2>5. Sound(create_refresh_token(user, l))'
    BY <1>3, <2>1, SessionConstants DEF create_refresh_token, Sound
  <2> QED
    BY <2>3, <2>4, <2>5
<1>7. /\ answer \in SUBSET Token
      /\ \A k \in answer : k.login = l
      /\ AtMostOne(OfType(answer, "refresh"))
  <2>1. answer \in SUBSET Token /\ \A k \in answer : k.login = l
    <3>1. answer \in SUBSET Token
      BY <1>6
    <3>2. \A k \in answer : k.login = l
      BY DEF create_access_token, create_refresh_token
    <3> QED
      BY <3>1, <3>2
  <2>2. \A k \in answer : k.type = "refresh" =>
           \E user \in c.user : k = create_refresh_token(user, l)
    BY DEF create_access_token, create_refresh_token
  <2>3. AtMostOne(c.user)
    BY <1>2 DEF CallOK
  <2> HIDE DEF answer
  <2>4. AtMostOne(OfType(answer, "refresh"))
    BY <2>2, <2>3 DEF AtMostOne, OfType
  <2> QED
    BY <2>1, <2>4
<1>8. \A k \in answer : Sound(k)'
  BY <1>3, <1>6 DEF create_access_token, create_refresh_token
<1>9. ASSUME NEW k, Sound(k), k.login \in Logins PROVE Sound(k)' /\ k.login # l
  <2>1. k.login # l
    BY <1>3, <1>9 DEF Sound
  <2>2. login'[k.login] = login[k.login]
    BY <1>3, <1>5, <1>9, <2>1
  <2> QED
    BY <1>9, <2>1, <2>2 DEF Sound
<1>10. call' = [call EXCEPT ![t] = {served}]
  BY <1>1 DEF Answer
<1> HIDE DEF answer, made
<1>11. /\ served \in Call /\ served.request = "login" /\ served.with = c.with
       /\ served.user = c.user /\ served.answer = answer
  BY <1>2, <1>7 DEF CallOK, Call
<1> HIDE DEF served
<1>12. \A s \in Tabs : call'[s] = IF s = t THEN {served} ELSE call[s]
  BY <1>10 DEF IInv, TypeOK
<1>13. TypeOK'
  BY <1>3, <1>4, <1>5, <1>10, <1>11 DEF IInv, TypeOK
<1>14. /\ \A k \in cookie : Sound(k) /\ k.login \in Logins
       /\ \A s \in Tabs : \A a \in auth[s] : Sound(a.token) /\ a.token.login \in Logins
       /\ \A s \in Tabs : \A d \in call[s] : \A k \in d.with \cup d.answer :
             Sound(k) /\ k.login \in Logins
       /\ \A k \in c.with : Sound(k) /\ k.login \in Logins
  BY <1>2 DEF IInv, TypeOK, TokensAreSound, Call, Token
<1>15. TokensAreSound'
  BY <1>3, <1>8, <1>9, <1>11, <1>12, <1>14 DEF IInv, TokensAreSound
<1>16. HoldAtMostOne'
  <2>1. AtMostOne(cookie')
    BY <1>3 DEF IInv, HoldAtMostOne, AtMostOne
  <2>2. \A x \in Logins : AtMostOne(login'[x])
    BY <1>3, <1>4, <1>5 DEF IInv, HoldAtMostOne
  <2>3. ASSUME NEW s \in Tabs, NEW d \in call'[s]
        PROVE  /\ AtMostOne(d.with) /\ AtMostOne(d.user)
               /\ d.request \in {"refresh", "me"} => AtMostOne(d.answer)
               /\ d.request = "me" => d.answer \subseteq d.with
               /\ d.request = "logout" => d.answer = {}
               /\ AtMostOne(OfType(d.answer, "refresh"))
    <3>1. CASE s = t
      BY <1>2, <1>7, <1>11, <1>12, <2>3, <3>1 DEF CallOK
    <3>2. CASE s # t
      BY <1>12, <2>3, <3>2 DEF IInv, HoldAtMostOne
    <3> QED
      BY <3>1, <3>2
  <2> QED
    BY <2>1, <2>2, <2>3 DEF HoldAtMostOne, AtMostOne, OfType
<1>17. LoginsAreFresh'
  <2>1. \A x \in ended' : login'[x] # {}
    <3>1. \A x \in ended : x \in Logins /\ login[x] # {}
      BY DEF IInv, TypeOK, LoginsAreFresh
    <3> QED
      BY <1>3, <1>5, <3>1
  <2>2. l \notin ended
    BY <1>3 DEF IInv, LoginsAreFresh
  <2>3. \A k \in cookie : k.login # l
    BY <1>9, <1>14
  <2>4. \A s \in Tabs : \A d \in call[s] : \A k \in d.answer : k.login # l
    BY <1>9, <1>14
  <2>5. ASSUME NEW s \in Tabs, NEW d \in call'[s], d.request = "login", NEW k \in d.answer
        PROVE  /\ k.login \notin ended'
               /\ \A other \in cookie' : other.login # k.login
               /\ \A r \in Tabs \ {s} : \A e \in call'[r] : e.request = "login" =>
                     \A other \in e.answer : other.login # k.login
    <3>1. CASE s = t
      BY <1>3, <1>7, <1>11, <1>12, <2>2, <2>3, <2>4, <2>5, <3>1
    <3>2. CASE s # t
      <4>1. d \in call[s] /\ k.login # l
        BY <1>12, <2>4, <2>5, <3>2
      <4> QED
        BY <1>3, <1>7, <1>11, <1>12, <2>5, <4>1 DEF IInv, LoginsAreFresh
    <3> QED
      BY <3>1, <3>2
  <2> QED
    BY <2>1, <2>5 DEF LoginsAreFresh
<1>18. (~CrossSite => SignedOutStaysOut)'
  BY <1>3 DEF IInv, SignedOutStaysOut
<1> QED
  BY <1>13, <1>15, <1>16, <1>17, <1>18 DEF IInv

-----------------------------------------------------------------------------
(* Steps of the browser.                                                   *)

\* A step that leaves the cookie, the logins and the other tabs' calls alone,
\* and either ends the tab's call or begins a new one.
LEMMA TabKeeps ==
    ASSUME IInv, NEW t \in Tabs,
           call' \in [Tabs -> SUBSET Call],
           \A s \in Tabs \ {t} : call'[s] = call[s],
           \A c \in call'[t] : CallOK(t, c),
           page' \in [Tabs -> {"closed", "checking", "ready"}],
           auth' \in [Tabs -> SUBSET [user: Users, token: Token]],
           \A s \in Tabs : \A a \in auth'[s] : Sound(a.token) /\ a.user = a.token.user,
           loads' \in Nat,
           UNCHANGED <<serverVars, cookie, ended>>
    PROVE  IInv'
<1>1. UNCHANGED <<clock, login, cookie, ended>>
  BY DEF serverVars
<1>2. TypeOK'
  BY <1>1 DEF IInv, TypeOK
<1>3. \A k : Sound(k)' <=> Sound(k)
  BY <1>1 DEF Sound
<1>4. TokensAreSound'
  BY <1>1, <1>3 DEF IInv, TokensAreSound, CallOK
<1>5. HoldAtMostOne'
  BY <1>1 DEF IInv, HoldAtMostOne, AtMostOne, CallOK, OfType
<1>6. LoginsAreFresh'
  BY <1>1 DEF IInv, LoginsAreFresh, CallOK
<1>7. (~CrossSite => SignedOutStaysOut)'
  BY <1>1 DEF IInv, SignedOutStaysOut
<1> QED
  BY <1>2, <1>4, <1>5, <1>6, <1>7 DEF IInv

LEMMA NewCallKeeps ==
    ASSUME IInv, NEW t \in Tabs, NEW c, CallOK(t, c),
           call' = [call EXCEPT ![t] = {c}],
           page' \in [Tabs -> {"closed", "checking", "ready"}],
           auth' \in [Tabs -> SUBSET [user: Users, token: Token]],
           \A s \in Tabs : \A a \in auth'[s] : Sound(a.token) /\ a.user = a.token.user,
           loads' \in Nat,
           UNCHANGED <<serverVars, cookie, ended>>
    PROVE  IInv'
<1>1. /\ call' \in [Tabs -> SUBSET Call]
      /\ \A s \in Tabs \ {t} : call'[s] = call[s]
      /\ \A d \in call'[t] : d = c
  BY DEF IInv, TypeOK, CallOK
<1> QED
  BY <1>1, TabKeeps

LEMMA NoCallKeeps ==
    ASSUME IInv, NEW t \in Tabs,
           call' = [call EXCEPT ![t] = {}],
           page' \in [Tabs -> {"closed", "checking", "ready"}],
           auth' \in [Tabs -> SUBSET [user: Users, token: Token]],
           \A s \in Tabs : \A a \in auth'[s] : Sound(a.token) /\ a.user = a.token.user,
           loads' \in Nat,
           UNCHANGED <<serverVars, cookie, ended>>
    PROVE  IInv'
<1>1. /\ call' \in [Tabs -> SUBSET Call]
      /\ \A s \in Tabs \ {t} : call'[s] = call[s]
      /\ \A d \in call'[t] : FALSE
  BY DEF IInv, TypeOK
<1> QED
  BY <1>1, TabKeeps

LEMMA SendKeeps ==
    ASSUME IInv, NEW t \in Tabs,
           \/ LoadPage(t)
           \/ \E user \in Users : handleAuth(t, user)
           \/ handleLogout(t)
           \/ FetchProfile(t)
    PROVE  IInv'
<1>1. /\ cookie \in SUBSET Token /\ AtMostOne(cookie) /\ \A k \in cookie : Sound(k)
      /\ page \in [Tabs -> {"closed", "checking", "ready"}]
      /\ auth \in [Tabs -> SUBSET [user: Users, token: Token]]
      /\ \A s \in Tabs : \A a \in auth[s] : Sound(a.token) /\ a.user = a.token.user
      /\ loads \in Nat
      /\ AtMostOne({})
  BY DEF IInv, TypeOK, TokensAreSound, HoldAtMostOne, AtMostOne
<1>2. CASE LoadPage(t)
  <2>1. call' = [call EXCEPT ![t] = {NewCall("refresh", {}, cookie)}]
    BY <1>2 DEF LoadPage, Send, NewCall
  <2>2. CallOK(t, NewCall("refresh", {}, cookie))
    BY <1>1, NewCallIsOK
  <2>3. /\ page' \in [Tabs -> {"closed", "checking", "ready"}]
        /\ auth' \in [Tabs -> SUBSET [user: Users, token: Token]]
        /\ \A s \in Tabs : \A a \in auth'[s] : Sound(a.token) /\ a.user = a.token.user
        /\ loads' \in Nat /\ UNCHANGED <<serverVars, cookie, ended>>
    BY <1>1, <1>2 DEF LoadPage
  <2> QED
    BY <2>1, <2>2, <2>3, NewCallKeeps
<1>3. ASSUME NEW user \in Users, handleAuth(t, user) PROVE IInv'
  <2>1. call' = [call EXCEPT ![t] = {NewCall("login", {user}, {})}]
    BY <1>3 DEF handleAuth, Send, NewCall
  <2>2. CallOK(t, NewCall("login", {user}, {}))
    BY <1>1, NewCallIsOK DEF AtMostOne
  <2> QED
    BY <1>1, <1>3, <2>1, <2>2, NewCallKeeps DEF handleAuth, tabVars
<1>4. CASE handleLogout(t)
  <2>1. call' = [call EXCEPT ![t] = {NewCall("logout", {}, cookie)}]
    BY <1>4 DEF handleLogout, Send, NewCall
  <2>2. CallOK(t, NewCall("logout", {}, cookie))
    BY <1>1, NewCallIsOK
  <2> QED
    BY <1>1, <1>4, <2>1, <2>2, NewCallKeeps DEF handleLogout, tabVars
<1>5. CASE FetchProfile(t)
  <2>1. PICK c \in Received(t, "refresh") :
           /\ Send(t, "me", {}, c.answer)
           /\ cookie' = CookieAfter(c)
    BY <1>5 DEF FetchProfile, Bearer
  <2>2. c \in call[t] /\ c.request = "refresh" /\ CallOK(t, c)
    BY CallsAreOK DEF Received
  <2>3. cookie' = cookie
    BY <2>1, <2>2 DEF CookieAfter
  <2>4. CallOK(t, NewCall("me", {}, c.answer))
    BY <1>1, <2>2, NewCallIsOK DEF CallOK, Call
  <2>5. call' = [call EXCEPT ![t] = {NewCall("me", {}, c.answer)}]
    BY <2>1 DEF Send, NewCall
  <2> QED
    BY <1>1, <1>5, <2>3, <2>4, <2>5, NewCallKeeps DEF FetchProfile, tabVars
<1> QED
  BY <1>2, <1>3, <1>4, <1>5

LEMMA RecoveryKeeps ==
    ASSUME IInv, NEW t \in Tabs, EndRecovery(t)
    PROVE  IInv'
<1>1. PICK c \in Received(t, "refresh") \cup Received(t, "me") :
         /\ c.request = "refresh" => c.answer = {}
         /\ auth' = [auth EXCEPT ![t] = setAuth(c.answer, c.with)]
         /\ page' = [page EXCEPT ![t] = "ready"]
  BY DEF EndRecovery, FinallyPage
<1>2. /\ c \in call[t] /\ CallOK(t, c)
      /\ c.request = "refresh" \/ c.request = "me"
  BY CallsAreOK DEF Received
<1> DEFINE recovered == setAuth(c.answer, c.with)
<1>3. \A a \in recovered : a \in [user: Users, token: Token] /\ Sound(a.token)
                           /\ a.user = a.token.user
  <2>1. SUFFICES ASSUME NEW k \in c.answer, NEW token \in c.with
                 PROVE  k.user \in Users /\ token \in Token /\ Sound(token)
                        /\ k.user = token.user
    BY DEF setAuth
  <2>2. k = token
    BY <1>1, <1>2 DEF CallOK, AtMostOne
  <2> QED
    BY <1>2, <2>2 DEF CallOK, Call, Token
<1>4. auth' = [auth EXCEPT ![t] = recovered]
  BY <1>1
<1> HIDE DEF recovered
<1>5. /\ auth' \in [Tabs -> SUBSET [user: Users, token: Token]]
      /\ \A s \in Tabs : \A a \in auth'[s] : Sound(a.token) /\ a.user = a.token.user
      /\ page' \in [Tabs -> {"closed", "checking", "ready"}]
  BY <1>1, <1>3, <1>4 DEF IInv, TypeOK, TokensAreSound
<1>6. loads' \in Nat
  BY DEF EndRecovery, IInv, TypeOK
<1> QED
  BY <1>5, <1>6, NoCallKeeps DEF EndRecovery

\* Receiving a login's answer: its cookie replaces the one before it.
LEMMA EndLoginKeeps ==
    ASSUME IInv, NEW t \in Tabs, EndLogin(t)
    PROVE  IInv'
<1>1. PICK c \in Received(t, "login") :
         /\ cookie' = CookieAfter(c)
         /\ auth' = [auth EXCEPT ![t] =
               {[user |-> token.user, token |-> token] : token \in OfType(c.answer, "access")}]
  BY DEF EndLogin
<1> DEFINE signed == {[user |-> token.user, token |-> token] :
                         token \in OfType(c.answer, "access")}
<1>2. c \in call[t] /\ c.request = "login" /\ CallOK(t, c)
  BY CallsAreOK DEF Received
<1>3. call' = [call EXCEPT ![t] = {}] /\ UNCHANGED <<clock, login, page, ended, loads>>
  BY DEF EndLogin, serverVars
<1>4. cookie' = cookie \/ cookie' = OfType(c.answer, "refresh")
  BY <1>1, <1>2 DEF CookieAfter
<1>5. /\ OfType(c.answer, "refresh") \subseteq Token
      /\ \A k \in OfType(c.answer, "refresh") : k \in c.answer /\ Sound(k) /\ k.type = "refresh"
  BY <1>2 DEF CallOK, Call, OfType
<1>6. \A a \in signed : a \in [user: Users, token: Token] /\ Sound(a.token)
                        /\ a.user = a.token.user
  BY <1>2 DEF CallOK, Call, OfType, Token
<1>7. auth' = [auth EXCEPT ![t] = signed]
  BY <1>1
<1> HIDE DEF signed
<1>8. \A k : Sound(k)' <=> Sound(k)
  BY <1>3 DEF Sound
<1>9. \A s \in Tabs : call'[s] = IF s = t THEN {} ELSE call[s]
  BY <1>3 DEF IInv, TypeOK
<1>10. TypeOK'
  BY <1>3, <1>4, <1>5, <1>6, <1>7 DEF IInv, TypeOK
<1>11. TokensAreSound'
  BY <1>4, <1>5, <1>6, <1>7, <1>8, <1>9 DEF IInv, TypeOK, TokensAreSound
<1>12. HoldAtMostOne'
  <2>1. AtMostOne(cookie')
    BY <1>2, <1>4 DEF CallOK, IInv, HoldAtMostOne
  <2>2. \A l \in Logins : AtMostOne(login'[l])
    BY <1>3 DEF IInv, HoldAtMostOne
  <2> QED
    BY <1>9, <2>1, <2>2 DEF IInv, HoldAtMostOne, AtMostOne, OfType
<1>13. LoginsAreFresh'
  <2>1. ASSUME NEW s \in Tabs, NEW d \in call'[s], d.request = "login", NEW k \in d.answer
        PROVE  /\ k.login \notin ended'
               /\ \A other \in cookie' : other.login # k.login
               /\ \A r \in Tabs \ {s} : \A e \in call'[r] : e.request = "login" =>
                     \A other \in e.answer : other.login # k.login
    <3>1. s # t /\ d \in call[s]
      BY <1>9, <2>1
    <3>2. \A other \in OfType(c.answer, "refresh") : other.login # k.login
      BY <1>2, <1>5, <2>1, <3>1 DEF CallOK
    <3>3. \A other \in cookie' : other.login # k.login
      BY <1>4, <2>1, <3>1, <3>2 DEF IInv, LoginsAreFresh
    <3> QED
      BY <1>3, <1>9, <2>1, <3>1, <3>3 DEF IInv, LoginsAreFresh
  <2> QED
    BY <1>3, <2>1 DEF IInv, LoginsAreFresh
<1>14. (~CrossSite => SignedOutStaysOut)'
  BY <1>2, <1>3, <1>4, <1>5 DEF CallOK, IInv, SignedOutStaysOut
<1> QED
  BY <1>10, <1>11, <1>12, <1>13, <1>14 DEF IInv

\* Receiving a sign-out's answer: on one site the cookie is gone.
LEMMA EndLogoutKeeps ==
    ASSUME IInv, NEW t \in Tabs, EndLogout(t)
    PROVE  IInv'
<1>1. PICK c \in Received(t, "logout") :
         /\ cookie' = CookieAfter(c)
         /\ ended' = IF c.stage = "served" THEN ended \cup {k.login : k \in cookie} ELSE ended
  BY DEF EndLogout
<1>2. /\ call' = [call EXCEPT ![t] = {}] /\ auth' = [auth EXCEPT ![t] = {}]
      /\ UNCHANGED <<clock, login, page, loads>>
  BY DEF EndLogout, serverVars
<1>3. c.request = "logout"
  BY DEF Received
<1>4. cookie' = cookie \/ cookie' = {}
  BY <1>1, <1>3 DEF CookieAfter
<1>5. ~CrossSite => cookie' = {} \/ (cookie' = cookie /\ ended' = ended)
  BY <1>1, <1>3 DEF CookieAfter, Heeded, LogoutSameSite
<1>6. \A k \in cookie : k \in Token /\ login[k.login] # {}
  BY DEF IInv, TypeOK, TokensAreSound, Sound
<1>7. ended' \subseteq ended \cup {k.login : k \in cookie}
  BY <1>1
<1>8. \A k : Sound(k)' <=> Sound(k)
  BY <1>2 DEF Sound
<1>9. \A s \in Tabs : call'[s] = IF s = t THEN {} ELSE call[s]
  BY <1>2 DEF IInv, TypeOK
<1>10. TypeOK'
  BY <1>2, <1>4, <1>6, <1>7 DEF IInv, TypeOK, Token
<1>11. TokensAreSound'
  BY <1>2, <1>4, <1>8, <1>9 DEF IInv, TypeOK, TokensAreSound
<1>12. HoldAtMostOne'
  BY <1>2, <1>4, <1>9 DEF IInv, HoldAtMostOne, AtMostOne, OfType
<1>13. LoginsAreFresh'
  <2>1. \A l \in ended' : login'[l] # {}
    BY <1>2, <1>6, <1>7 DEF IInv, LoginsAreFresh
  <2>2. ASSUME NEW s \in Tabs, NEW d \in call'[s], d.request = "login", NEW k \in d.answer
        PROVE  /\ k.login \notin ended'
               /\ \A other \in cookie' : other.login # k.login
               /\ \A r \in Tabs \ {s} : \A e \in call'[r] : e.request = "login" =>
                     \A other \in e.answer : other.login # k.login
    BY <1>4, <1>7, <1>9, <2>2 DEF IInv, LoginsAreFresh
  <2> QED
    BY <2>1, <2>2 DEF LoginsAreFresh
<1>14. (~CrossSite => SignedOutStaysOut)'
  BY <1>5 DEF IInv, SignedOutStaysOut
<1> QED
  BY <1>10, <1>11, <1>12, <1>13, <1>14 DEF IInv

LEMMA IdleKeeps ==
    ASSUME IInv, Tick \/ UNCHANGED vars
    PROVE  IInv'
<1>1. /\ UNCHANGED <<cookie, page, auth, call, login, ended, loads>>
      /\ clock' \in Nat
  BY DEF Tick, vars, IInv, TypeOK
<1>2. \A k : Sound(k)' <=> Sound(k)
  BY <1>1 DEF Sound
<1> QED
  BY <1>1, <1>2 DEF IInv, TypeOK, TokensAreSound, HoldAtMostOne, AtMostOne,
     OfType, LoginsAreFresh, SignedOutStaysOut

LEMMA SessionStep == IInv /\ [Next]_vars => IInv'
<1> SUFFICES ASSUME IInv, [Next]_vars PROVE IInv'
  OBVIOUS
<1>1. CASE Tick \/ UNCHANGED vars
  BY <1>1, IdleKeeps
<1>2. ASSUME NEW t \in Tabs, Serve(t) PROVE IInv'
  BY <1>2, LoginKeeps, RefreshKeeps, ProfileKeeps, LoseKeeps DEF Serve
<1>3. ASSUME NEW t \in Tabs, Receive(t) PROVE IInv'
  BY <1>3, SendKeeps, RecoveryKeeps, EndLoginKeeps, EndLogoutKeeps DEF Receive
<1>4. ASSUME NEW t \in Tabs,
             \/ LoadPage(t)
             \/ handleLogout(t)
             \/ \E user \in Users : handleAuth(t, user)
      PROVE  IInv'
  BY <1>4, SendKeeps
<1> QED
  BY <1>1, <1>2, <1>3, <1>4 DEF Next

\* Whatever the tabs of a browser do in whatever order, the invariant holds.
THEOREM SessionInvariant == Spec => []IInv
BY SessionInit, SessionStep, PTL DEF Spec

\* A tab's profile and token are the same person's.
THEOREM TabsKnowWhoTheyAre == Spec => []OneIdentity
<1>1. IInv => OneIdentity
  BY DEF IInv, TokensAreSound, OneIdentity
<1> QED
  BY <1>1, SessionInvariant, PTL

\* No sequence of recoveries stretches a login.
THEOREM ReloadsDoNotStretch == Spec => []LoginsRunOut
<1>1. IInv => LoginsRunOut
  <2> SUFFICES ASSUME IInv, NEW t \in Tabs, NEW a \in auth[t], NEW l \in login[a.token.login]
               PROVE  a.token.exp <= l.at + RefreshTime + AccessTime
    BY DEF LoginsRunOut
  <2>1. a.token \in Token /\ Sound(a.token)
    BY DEF IInv, TypeOK, TokensAreSound
  <2>2. PICK x \in login[a.token.login] :
           a.token.exp <= x.at + RefreshTime
                          + (IF a.token.type = "access" THEN AccessTime ELSE 0)
    BY <2>1 DEF Sound
  <2>3. x = l /\ l.at \in Nat
    BY <2>1 DEF IInv, TypeOK, HoldAtMostOne, AtMostOne, Token
  <2> QED
    BY <2>1, <2>2, <2>3, SessionConstants DEF Token
<1> QED
  BY <1>1, SessionInvariant, PTL

\* When pages and API share a site, an answered sign-out is final.
THEOREM SignOutIsFinal == ~CrossSite => (Spec => []SignedOutStaysOut)
<1>1. IInv => (~CrossSite => SignedOutStaysOut)
  BY DEF IInv
<1>2. ASSUME ~CrossSite PROVE IInv => SignedOutStaysOut
  BY <1>1, <1>2
<1>3. ASSUME ~CrossSite PROVE Spec => []SignedOutStaysOut
  BY <1>2, <1>3, SessionInvariant, PTL
<1> QED
  BY <1>3

-----------------------------------------------------------------------------
(* A recovery gives up only for a reason.                                  *)

\* What RefusedForAge says of one call.
RefusalOK(c) ==
    /\ c.request = "refresh" => \A k \in c.with : k.type = "refresh"
    /\ c.request = "me" => c.with # {}
    /\ c.request \in {"refresh", "me"} /\ c.stage = "served" /\ c.answer = {} =>
          Unexpired(c.with) = {}

LEMMA RefusalsOfCalls == RefusedForAge <=> \A t \in Tabs : \A c \in call[t] : RefusalOK(c)
BY DEF RefusedForAge, RefusalOK

\* A token that is too old stays too old.
LEMMA AgeIsForGood ==
    ASSUME IInv, clock' \in Nat, clock <= clock', NEW t \in Tabs, NEW c \in call[t], RefusalOK(c)
    PROVE  RefusalOK(c)'
<1>1. clock \in Nat /\ c.with \subseteq Token
  BY CallsAreOK DEF CallOK, Call, IInv, TypeOK
<1>2. Unexpired(c.with) = {} => Unexpired(c.with)' = {}
  BY <1>1 DEF Unexpired, Token
<1> QED
  BY <1>2 DEF RefusalOK

\* A step that replaces at most one tab's call keeps what it says of the rest.
LEMMA RefusalsKept ==
    ASSUME IInv, RefusedForAge, NEW t \in Tabs, NEW calls,
           call' = [call EXCEPT ![t] = calls], clock' = clock,
           \A c \in calls : RefusalOK(c)
    PROVE  RefusedForAge'
<1>1. \A s \in Tabs : call'[s] = IF s = t THEN calls ELSE call[s]
  BY DEF IInv, TypeOK
<1>2. \A c : RefusalOK(c)' <=> RefusalOK(c)
  BY DEF RefusalOK, Unexpired
<1>3. \A s \in Tabs : \A c \in call'[s] : RefusalOK(c)'
  BY <1>1, <1>2, RefusalsOfCalls
<1> QED
  BY <1>3 DEF RefusedForAge, RefusalOK

LEMMA NewCallsRefuseNothing ==
    ASSUME NEW request \in {"refresh", "me", "login", "logout"}, NEW user, NEW with,
           request = "refresh" => \A k \in with : k.type = "refresh",
           request = "me" => with # {}
    PROVE  RefusalOK(NewCall(request, user, with))
BY DEF RefusalOK, NewCall

\* The API refuses a recovery's call for the age of what it presents.
LEMMA ServedForAge ==
    ASSUME IInv, RefusedForAge, NEW t \in Tabs, Serve(t)
    PROVE  RefusedForAge'
<1>1. ASSUME NEW c \in call[t], NEW answer, Answer(t, c, answer), clock' = clock,
             c.request \in {"refresh", "me"} /\ answer = {} => Unexpired(c.with) = {}
      PROVE  RefusedForAge'
  <2> DEFINE served == [c EXCEPT !.stage = "served", !.answer = answer]
  <2>1. /\ call' = [call EXCEPT ![t] = {served}]
        /\ RefusalOK(c)
    BY <1>1, RefusalsOfCalls DEF Answer
  <2>2. c \in Call
    BY CallsAreOK DEF CallOK
  <2>3. /\ served.request = c.request /\ served.with = c.with
        /\ served.answer = answer
    BY <2>2 DEF Call
  <2> HIDE DEF served
  <2>4. RefusalOK(served)
    BY <1>1, <2>1, <2>3 DEF RefusalOK
  <2>5. call' = [call EXCEPT ![t] = {served}] /\ clock' = clock
        /\ \A d \in {served} : RefusalOK(d)
    BY <1>1, <2>1, <2>4
  <2> QED
    BY ONLY IInv, RefusedForAge, t \in Tabs, <2>5, RefusalsKept
<1>2. ASSUME NEW l \in Logins, login_user(t, l) PROVE RefusedForAge'
  <2>1. PICK c \in Sent(t, "login") :
           Answer(t, c, {create_access_token(user, l) : user \in c.user}
                          \cup {create_refresh_token(user, l) : user \in c.user})
    BY <1>2 DEF login_user
  <2>2. c \in call[t] /\ c.request = "login" /\ clock' = clock
    BY <1>2 DEF login_user, Sent
  <2> QED
    BY <1>1, <2>1, <2>2
<1>3. CASE refresh_access_token(t)
  <2>1. PICK c \in Sent(t, "refresh") :
           Answer(t, c, {create_access_token(k.user, k.login) :
                            k \in OfType(Unexpired(c.with), "refresh")})
    BY <1>3 DEF refresh_access_token
  <2>2. c \in call[t] /\ c.request = "refresh" /\ clock' = clock
    BY <1>3 DEF refresh_access_token, Sent
  <2>3. OfType(Unexpired(c.with), "refresh") = Unexpired(c.with)
    BY <2>2 DEF RefusedForAge, OfType, Unexpired
  <2>4. {create_access_token(k.user, k.login) : k \in OfType(Unexpired(c.with), "refresh")} = {}
           => Unexpired(c.with) = {}
    BY <2>3
  <2> QED
    BY <1>1, <2>1, <2>2, <2>4
<1>4. CASE read_user_me(t)
  <2>1. PICK c \in Sent(t, "me") : Answer(t, c, Unexpired(c.with))
    BY <1>4 DEF read_user_me, get_current_user
  <2>2. c \in call[t] /\ clock' = clock
    BY <1>4 DEF read_user_me, Sent
  <2> QED
    BY <1>1, <2>1, <2>2
<1>5. CASE logout(t)
  <2>1. PICK c \in Sent(t, "logout") : Answer(t, c, {})
    BY <1>5 DEF logout
  <2>2. c \in call[t] /\ c.request = "logout" /\ clock' = clock
    BY <1>5 DEF logout, Sent
  <2> QED
    BY <1>1, <2>1, <2>2
<1>6. CASE LoseCall(t)
  <2>1. PICK c \in call[t] :
           call' = [call EXCEPT ![t] = {[c EXCEPT !.stage = "lost", !.answer = {}]}]
    BY <1>6 DEF LoseCall
  <2> DEFINE lost == [c EXCEPT !.stage = "lost", !.answer = {}]
  <2>2. RefusalOK(c) /\ c \in Call /\ clock' = clock
    BY <1>6, RefusalsOfCalls, CallsAreOK DEF CallOK, LoseCall
  <2>3. lost.request = c.request /\ lost.with = c.with /\ lost.stage = "lost"
    BY <2>2 DEF Call
  <2>4. call' = [call EXCEPT ![t] = {lost}]
    BY <2>1
  <2> HIDE DEF lost
  <2>5. RefusalOK(lost)
    BY <2>2, <2>3 DEF RefusalOK
  <2> QED
    BY <2>2, <2>4, <2>5, RefusalsKept
<1> QED
  BY <1>2, <1>3, <1>4, <1>5, <1>6 DEF Serve

\* A tab presents the cookie, or a token it was just given.
LEMMA SentForAge ==
    ASSUME IInv, RefusedForAge, NEW t \in Tabs,
           \/ LoadPage(t)
           \/ \E user \in Users : handleAuth(t, user)
           \/ handleLogout(t)
           \/ Receive(t)
    PROVE  RefusedForAge'
<1>1. ASSUME NEW request \in {"refresh", "me", "login", "logout"}, NEW user, NEW with,
             Send(t, request, user, with), clock' = clock,
             request = "refresh" => \A k \in with : k.type = "refresh",
             request = "me" => with # {}
      PROVE  RefusedForAge'
  <2>1. call' = [call EXCEPT ![t] = {NewCall(request, user, with)}]
    BY <1>1 DEF Send, NewCall
  <2>2. RefusalOK(NewCall(request, user, with))
    BY <1>1, NewCallsRefuseNothing
  <2> QED
    BY <1>1, <2>1, <2>2, RefusalsKept
<1>2. CASE LoadPage(t)
  <2>1. \A k \in cookie : k.type = "refresh"
    BY DEF IInv, TokensAreSound
  <2>2. Send(t, "refresh", {}, cookie) /\ clock' = clock
    BY <1>2 DEF LoadPage, serverVars
  <2> QED
    BY <1>1, <2>1, <2>2
<1>3. ASSUME NEW user \in Users, handleAuth(t, user) PROVE RefusedForAge'
  <2>1. Send(t, "login", {user}, {}) /\ clock' = clock
    BY <1>3 DEF handleAuth, serverVars
  <2> QED
    BY <1>1, <2>1
<1>4. CASE handleLogout(t)
  <2>1. Send(t, "logout", {}, cookie) /\ clock' = clock
    BY <1>4 DEF handleLogout, serverVars
  <2> QED
    BY <1>1, <2>1
<1>5. CASE FetchProfile(t)
  <2>1. PICK c \in Received(t, "refresh") : c.answer # {} /\ Send(t, "me", {}, c.answer)
    BY <1>5 DEF FetchProfile, Bearer
  <2>2. clock' = clock
    BY <1>5 DEF FetchProfile, serverVars
  <2> QED
    BY <1>1, <2>1, <2>2
<1>6. CASE EndRecovery(t) \/ EndLogin(t) \/ EndLogout(t)
  <2>1. call' = [call EXCEPT ![t] = {}] /\ clock' = clock
    BY <1>6 DEF EndRecovery, EndLogin, EndLogout, serverVars
  <2> QED
    BY <2>1, RefusalsKept
<1> QED
  BY <1>2, <1>3, <1>4, <1>5, <1>6 DEF Receive

LEMMA RefusalsStep == IInv /\ RefusedForAge /\ [Next]_vars => RefusedForAge'
<1> SUFFICES ASSUME IInv, RefusedForAge, [Next]_vars PROVE RefusedForAge'
  OBVIOUS
<1>1. CASE Tick \/ UNCHANGED vars
  <2>1. clock \in Nat /\ clock' \in Nat /\ clock <= clock' /\ call' = call
    BY <1>1 DEF Tick, vars, IInv, TypeOK
  <2>2. \A t \in Tabs : \A c \in call[t] : RefusalOK(c)'
    BY <2>1, AgeIsForGood, RefusalsOfCalls
  <2> QED
    BY <2>1, <2>2 DEF RefusedForAge, RefusalOK
<1> QED
  BY <1>1, ServedForAge, SentForAge DEF Next

\* A call that recovers a session is refused, whenever its answer is read, for
\* the age of the token it presented and for nothing else.
THEOREM RefusalsAreForAge == Spec => []RefusedForAge
<1>1. Init => RefusedForAge
  BY DEF Init, RefusedForAge
<1> QED
  BY <1>1, RefusalsStep, SessionInvariant, PTL DEF Spec

\* Only the end of a recovery makes a page that was checking ready.
LEMMA OnlyRecoveryEndsChecking ==
    ASSUME IInv, [Next]_vars, NEW t \in Tabs, page[t] = "checking", page'[t] = "ready"
    PROVE  EndRecovery(t)
<1>1. page \in [Tabs -> {"closed", "checking", "ready"}]
  BY DEF IInv, TypeOK
<1>2. ASSUME NEW s \in Tabs, EndRecovery(s) PROVE s = t
  BY <1>1, <1>2 DEF EndRecovery
<1>3. ASSUME NEW s \in Tabs, LoadPage(s) PROVE FALSE
  BY <1>1, <1>3 DEF LoadPage
<1>4. page' # page
  OBVIOUS
<1>5. ASSUME NEW s \in Tabs, Serve(s) PROVE page' = page
  BY <1>5 DEF Serve, login_user, refresh_access_token, read_user_me, logout, LoseCall
<1>6. ASSUME NEW s \in Tabs,
             \/ FetchProfile(s)
             \/ EndLogin(s)
             \/ EndLogout(s)
             \/ handleLogout(s)
             \/ \E user \in Users : handleAuth(s, user)
      PROVE  page' = page
  BY <1>6 DEF FetchProfile, EndLogin, EndLogout, handleLogout, handleAuth, tabVars
<1> QED
  BY <1>2, <1>3, <1>4, <1>5, <1>6 DEF Next, Receive, Tick, vars

LEMMA RecoveryStep ==
    ASSUME IInv, RefusedForAge, [Next]_vars,
           NEW t \in Tabs, page[t] = "checking", page'[t] = "ready", auth'[t] = {}
    PROVE  \E c \in call[t] :
              \/ c.stage = "lost"
              \/ c.request = "refresh" /\ Unexpired(c.with) = {}
              \/ c.request = "me" /\ Unexpired(c.with) = {} /\ c.with # {}
<1>1. PICK c \in Received(t, "refresh") \cup Received(t, "me") :
         /\ c.request = "refresh" => c.answer = {}
         /\ auth' = [auth EXCEPT ![t] = setAuth(c.answer, c.with)]
  BY OnlyRecoveryEndsChecking DEF EndRecovery
<1>2. /\ c \in call[t] /\ c.request \in {"refresh", "me"} /\ c.stage # "sent"
      /\ c.stage \in {"sent", "served", "lost"} /\ RefusalOK(c)
  BY CallsAreOK, RefusalsOfCalls DEF Received, CallOK, Call
<1>3. setAuth(c.answer, c.with) = {}
  BY <1>1 DEF IInv, TypeOK
<1>4. c.answer = {} \/ c.with = {}
  <2>1. ASSUME NEW profile \in c.answer, NEW token \in c.with PROVE FALSE
    <3>1. [user |-> profile.user, token |-> token] \in setAuth(c.answer, c.with)
      BY DEF setAuth
    <3> QED
      BY <1>3, <3>1
  <2> QED
    BY <2>1
<1>5. c.answer = {}
  BY <1>1, <1>2, <1>4 DEF RefusalOK
<1> QED
  BY <1>2, <1>5 DEF RefusalOK

\* Reloading a page never signs anybody out while the cookie is good and the
\* network holds.
THEOREM RecoveriesRestore == Spec => RecoveryRestores
<1>1. IInv /\ RefusedForAge /\ [Next]_vars =>
        [\A t \in Tabs :
            page[t] = "checking" /\ page'[t] = "ready" /\ auth'[t] = {} =>
               \E c \in call[t] :
                  \/ c.stage = "lost"
                  \/ c.request = "refresh" /\ Unexpired(c.with) = {}
                  \/ c.request = "me" /\ Unexpired(c.with) = {} /\ c.with # {}]_vars
  BY RecoveryStep
<1> QED
  BY <1>1, SessionInvariant, RefusalsAreForAge, PTL DEF Spec, RecoveryRestores

=============================================================================
