------------------------------ MODULE WebLogins ------------------------------
(***************************************************************************)
(* Logins of the dashboard: src/src/remote/web-dashboard.ts and            *)
(* web-dashboard-oauth-users.ts, over dashboard_sessions of store.ts.      *)
(*                                                                         *)
(* A login is a transaction in memory and a cookie of the browser, on the  *)
(* path of the provider's callback.  The callback deletes the transaction, *)
(* awaits the provider and then makes a session, a row of the store.       *)
(* Nothing but its callback or a restart ends a transaction.               *)
(***************************************************************************)
EXTENDS Naturals, FiniteSets

CONSTANTS
  Logins,       \* states of login transactions, never reused
  WebBrowsers,  \* cookie jars
  NoLogin,      \* no cookie
  LoginTtl, WebSessionTtl,   \* ten minutes, and a day
  WebMaxClock   \* bound on the clock

ASSUME WebAssumption ==
  NoLogin \notin Logins /\ {LoginTtl, WebSessionTtl, WebMaxClock} \subseteq Nat

VARIABLES
  login,       \* webAuthTransactions
  txCookie,    \* ssh_mcp_web_tx of a browser, one per path
  identifying, \* callbacks that await the provider
  webSession,  \* rows of dashboard_sessions, named by the login that made them
  webCookie,   \* ssh_mcp_web_session of a browser
  webRequest,  \* requests of a browser that await their body, and who they are for
  webClock,
  opened,      \* history: the browser a login was started in
  made         \* history: the callbacks that made a session for a login

webVars == <<login, txCookie, identifying, webSession, webCookie, webRequest, webClock, opened, made>>

Providers == {"github", "google"}

\* The path of the provider's cookie.
CookiePath == [github |-> "/auth", google |-> "/oauth"]

WebInit ==
  /\ login = [t \in Logins |-> [state |-> "none", provider |-> "github", expires |-> 0]]
  /\ txCookie = [b \in WebBrowsers |-> [path \in {"/auth", "/oauth"} |-> NoLogin]]
  /\ identifying = {}
  /\ webSession = {}
  /\ webCookie = [b \in WebBrowsers |-> NoLogin]
  /\ webRequest = [b \in WebBrowsers |-> NoLogin]
  /\ webClock = 0
  /\ opened = [t \in Logins |-> {}]
  /\ made = [t \in Logins |-> {}]

\* handleDirectLoginGitHub and handleDirectLoginGoogle.
StartLogin(t, b, p) ==
  /\ login[t].state = "none"
  /\ login' = [login EXCEPT ![t] = [state |-> "open", provider |-> p, expires |-> webClock + LoginTtl]]
  /\ txCookie' = [txCookie EXCEPT ![b][CookiePath[p]] = t]
  /\ opened' = [opened EXCEPT ![t] = {b}]
  /\ UNCHANGED <<identifying, webSession, webCookie, webRequest, webClock, made>>

\* Slip: the transaction is deleted once its session is made.
SpentLater(t) == login

\* consumeWebAuthTransaction deletes the transaction before it looks at it.
Spent(t) == [login EXCEPT ![t].state = "gone"]

\* Tells the callbacks of a login apart.
Attempts(t) == Cardinality({x \in identifying : x.login = t}) + Cardinality(made[t])

\* The callback of provider p, up to its await.  The handler for Google answers
\* on both paths, and a browser sends the cookie of the path.
LoginCallback(t, b, p, path) ==
  /\ path = "/auth" \/ p = "google"
  /\ login[t].state = "open"
  /\ login' = Spent(t)
  /\ identifying' = identifying \cup
       {x \in [login : {t}, browser : {b}, provider : {p}, n : {Attempts(t)}] :
          login[t].provider = p /\ login[t].expires >= webClock /\ txCookie[b][path] = t}
  /\ UNCHANGED <<txCookie, webSession, webCookie, webRequest, webClock, opened, made>>

\* The provider answers, with the nonce of the login if it is Google, and
\* completeWebAuth makes the session.  A session the browser had goes on.
Identified(x) ==
  /\ x \in identifying
  /\ identifying' = identifying \ {x}
  /\ webSession' = webSession \cup {[of |-> x.login, expires |-> webClock + WebSessionTtl]}
  /\ webCookie' = [webCookie EXCEPT ![x.browser] = x.login]
  /\ txCookie' = [txCookie EXCEPT ![x.browser][CookiePath[x.provider]] = NoLogin]
  /\ made' = [made EXCEPT ![x.login] = @ \cup {x}]
  /\ UNCHANGED <<login, webRequest, webClock, opened>>

\* The exchange fails, or the identity or its nonce does not match.
NotIdentified(x) ==
  /\ x \in identifying
  /\ identifying' = identifying \ {x}
  /\ UNCHANGED <<login, txCookie, webSession, webCookie, webRequest, webClock, opened, made>>

\* getPrincipalFromSession, with getDashboardSession.
LiveSession(b) == \E s \in webSession : s.of = webCookie[b] /\ s.expires > webClock

\* A request that changes something reads its principal, then awaits its body.
BeginWebRequest(b) ==
  /\ webRequest[b] = NoLogin
  /\ LiveSession(b)
  /\ webRequest' = [webRequest EXCEPT ![b] = webCookie[b]]
  /\ UNCHANGED <<login, txCookie, identifying, webSession, webCookie, webClock, opened, made>>

\* Its work is done for that principal, also if it logged out meanwhile.
EndWebRequest(b) ==
  /\ webRequest[b] # NoLogin
  /\ webRequest' = [webRequest EXCEPT ![b] = NoLogin]
  /\ UNCHANGED <<login, txCookie, identifying, webSession, webCookie, webClock, opened, made>>

\* /auth/logout deletes the session the browser names, and its cookie.
Logout(b) ==
  /\ webCookie[b] # NoLogin
  /\ webSession' = {s \in webSession : s.of # webCookie[b]}
  /\ webCookie' = [webCookie EXCEPT ![b] = NoLogin]
  /\ UNCHANGED <<login, txCookie, identifying, webRequest, webClock, opened, made>>

\* pruneExpiredTransientRecords.
PruneWebSessions ==
  /\ webSession' = {s \in webSession : s.expires > webClock}
  /\ UNCHANGED <<login, txCookie, identifying, webCookie, webRequest, webClock, opened, made>>

RestartWeb ==
  /\ login' = [t \in Logins |-> IF login[t].state = "open" THEN [login[t] EXCEPT !.state = "gone"]
                                ELSE login[t]]
  /\ identifying' = {}
  /\ webRequest' = [b \in WebBrowsers |-> NoLogin]
  /\ UNCHANGED <<txCookie, webSession, webCookie, webClock, opened, made>>

WebTick ==
  /\ webClock < WebMaxClock
  /\ webClock' = webClock + 1
  /\ UNCHANGED <<login, txCookie, identifying, webSession, webCookie, webRequest, opened, made>>

WebNext ==
  \/ \E t \in Logins, b \in WebBrowsers, p \in Providers :
       StartLogin(t, b, p) \/ \E path \in {"/auth", "/oauth"} : LoginCallback(t, b, p, path)
  \/ \E x \in identifying : Identified(x) \/ NotIdentified(x)
  \/ \E b \in WebBrowsers : BeginWebRequest(b) \/ EndWebRequest(b) \/ Logout(b)
  \/ PruneWebSessions
  \/ RestartWeb
  \/ WebTick

WebSpec == WebInit /\ [][WebNext]_webVars

----------------------------------------------------------------------------

\* "Authorization state is one-use even after a rejected callback"
\* (web-dashboard.ts): a login makes one session at most, in the browser and for
\* the provider it was started with, over repeated callbacks and restarts; and a
\* request under way is for a login of its own browser.
OneSessionPerLogin ==
  /\ \A t \in Logins :
       /\ Cardinality(made[t]) <= 1
       /\ \A x \in made[t] : x.provider = login[t].provider /\ {x.browser} = opened[t]
  /\ \A b \in WebBrowsers :
       webRequest[b] # NoLogin => \E x \in made[webRequest[b]] : x.browser = b
=============================================================================
