-------------------------- MODULE CredentialProofs --------------------------
(***************************************************************************)
(* Proofs about what may be used once: the grants of the authorization     *)
(* server (OAuthGrants), the logins of the dashboard (WebLogins), the      *)
(* enrollment of devices (Devices) and the signed messages of an agent     *)
(* connection (MessageWindows), for any number of each.                    *)
(***************************************************************************)
EXTENDS OAuthGrants, WebLogins, Devices, MessageWindows, FiniteSetTheorems, TLAPS

Unique(S) == \A x, y \in S : x = y

\* What the runs count, the proofs compare.
LEMMA UniqueCardinality ==
  ASSUME NEW S, Unique(S)
  PROVE  Cardinality(S) <= 1
<1>1. CASE S = {}
  BY <1>1, FS_EmptySet
<1>2. CASE S # {}
  <2>1. PICK x : x \in S
    BY <1>2
  <2>2. S = {x}
    BY <2>1 DEF Unique
  <2> QED BY <2>2, FS_Singleton
<1> QED BY <1>1, <1>2

----------------------------------------------------------------------------
(* Grants *)

Codes == [tx : TxIds, n : {0}, used : BOOLEAN, expires : Nat]
Exchanges == [code : Codes, client : OAuthClients, verifier : Verifiers, at : Nat]

GrantTypes ==
  /\ tx \in [TxIds -> [state : {"none", "pending", "approved", "consumed"},
                       client : OAuthClients \cup {NoGrantor},
                       challenge : Verifiers \cup {NoGrantor},
                       expires : Nat]]
  /\ jar \in [Browsers -> TxIds \cup {NoTx}]
  /\ fetches \in [TxIds -> {0, 1}]
  /\ codes \subseteq Codes
  /\ signing \subseteq Exchanges
  /\ oauthClock \in Nat
  /\ startedIn \in [TxIds -> SUBSET Browsers]
  /\ approvedIn \in [TxIds -> SUBSET Browsers]
  /\ tokens \in [TxIds -> SUBSET Exchanges]

CodesOf(t) == {k \in codes : k.tx = t}
Exchanged(t) == {x \in signing : x.code.tx = t} \cup tokens[t]

(***************************************************************************)
(* The inductive invariant.  A transaction is spent step by step, and each *)
(* of its forms rules out all the later ones: a transaction that is not    *)
(* consumed has no callback under way, a callback under way no code, an    *)
(* unused code no exchange.  There is one of each at most, and none of     *)
(* them without an approval, in a browser the transaction was started in.  *)
(***************************************************************************)
Grant(t) ==
  /\ tx[t].state = "none" => startedIn[t] = {}
  /\ approvedIn[t] \subseteq startedIn[t]
  /\ tx[t].state # "consumed" => fetches[t] = 0 /\ CodesOf(t) = {} /\ Exchanged(t) = {}
  /\ fetches[t] # 0 => CodesOf(t) = {} /\ Exchanged(t) = {}
  /\ (\E k \in CodesOf(t) : ~k.used) => Exchanged(t) = {}
  /\ Unique(CodesOf(t)) /\ Unique(Exchanged(t))
  /\ \/ tx[t].state = "approved" \/ fetches[t] # 0
     \/ CodesOf(t) # {} \/ Exchanged(t) # {}
     => approvedIn[t] # {}
  /\ \A x \in Exchanged(t) :
       /\ x.client = tx[t].client /\ x.verifier = tx[t].challenge
       /\ x.at <= x.code.expires

JarsAreStarters == \A b \in Browsers : jar[b] # NoTx => b \in startedIn[jar[b]]

GrantInv ==
  /\ GrantTypes
  /\ JarsAreStarters
  /\ \A t \in TxIds : Grant(t)

LEMMA InitGrantInv == OAuthInit => GrantInv
<1> SUFFICES ASSUME OAuthInit PROVE GrantInv
  OBVIOUS
<1>1. GrantTypes
  BY DEF OAuthInit, GrantTypes, NoTransaction
<1>2. JarsAreStarters
  BY DEF OAuthInit, JarsAreStarters
<1>3. ASSUME NEW t \in TxIds PROVE Grant(t)
  <2>1. CodesOf(t) = {} /\ Exchanged(t) = {}
    BY DEF OAuthInit, CodesOf, Exchanged
  <2> QED BY <2>1 DEF OAuthInit, Grant, NoTransaction, Unique
<1> QED BY <1>1, <1>2, <1>3 DEF GrantInv

\* A step that only takes from a grant, by a refusal, a failure, the clock or a
\* restart, leaves it sound.
LEMMA GrantOnlyLoses ==
  ASSUME NEW t \in TxIds, Grant(t),
         tx'[t].state \in {tx[t].state, "consumed"},
         tx'[t].client = tx[t].client, tx'[t].challenge = tx[t].challenge,
         fetches'[t] \in {fetches[t], 0},
         CodesOf(t)' \subseteq CodesOf(t), Exchanged(t)' \subseteq Exchanged(t),
         startedIn'[t] = startedIn[t], approvedIn'[t] = approvedIn[t]
  PROVE  Grant(t)'
<1>1. Unique(CodesOf(t)') /\ Unique(Exchanged(t)')
  BY DEF Grant, Unique
<1>2. \A x \in Exchanged(t)' : 
        /\ x.client = tx'[t].client /\ x.verifier = tx'[t].challenge
        /\ x.at <= x.code.expires
  BY DEF Grant
<1>3. (\E k \in CodesOf(t)' : ~k.used) => Exchanged(t)' = {}
  BY DEF Grant
<1> QED BY <1>1, <1>2, <1>3 DEF Grant, Unique

LEMMA NextGrantInv == GrantInv /\ [OAuthNext]_oauthVars => GrantInv'
<1> SUFFICES ASSUME GrantInv, [OAuthNext]_oauthVars PROVE GrantInv'
  OBVIOUS
<1>0. /\ GrantTypes /\ JarsAreStarters
      /\ \A t \in TxIds : Grant(t)
  BY DEF GrantInv
<1>ttl. CodeTtl \in Nat /\ NoTx \notin TxIds
  BY OAuthAssumption
<1> USE DEF history
<1>1. ASSUME NEW p \in Peers, NEW c \in OAuthClients, Register(p, c) PROVE GrantInv'
  <2>1. UNCHANGED <<tx, jar, fetches, codes, signing, oauthClock, startedIn, approvedIn, tokens>>
    BY <1>1 DEF Register
  <2>2. GrantTypes' /\ JarsAreStarters'
    BY <1>0, <2>1 DEF GrantTypes, JarsAreStarters
  <2> QED BY <1>0, <2>1, <2>2 DEF GrantInv, Grant, CodesOf, Exchanged
<1>2. ASSUME NEW t \in TxIds, NEW b \in Browsers, NEW c \in OAuthClients, NEW v \in Verifiers,
             Authorize(t, b, c, v)
      PROVE  GrantInv'
  <2>1. /\ tx[t].state = "none"
        /\ tx' = [tx EXCEPT ![t] = [state |-> "pending", client |-> c, challenge |-> v,
                                    expires |-> oauthClock + CodeTtl]]
        /\ jar' = [jar EXCEPT ![b] = t]
        /\ startedIn' = [startedIn EXCEPT ![t] = {b}]
        /\ UNCHANGED <<fetches, codes, signing, oauthClock, approvedIn, tokens>>
    BY <1>2 DEF Authorize
  <2>2. GrantTypes'
    BY <1>0, <1>ttl, <2>1 DEF GrantTypes
  <2>3. startedIn[t] = {}
    BY <1>0, <2>1 DEF Grant
  <2>4. JarsAreStarters'
    BY <1>0, <2>1, <2>3 DEF GrantTypes, JarsAreStarters
  <2>5. ASSUME NEW u \in TxIds PROVE Grant(u)'
    <3>1. CodesOf(u)' = CodesOf(u) /\ Exchanged(u)' = Exchanged(u)
      BY <2>1 DEF CodesOf, Exchanged
    <3>2. CASE u = t
      BY <1>0, <2>1, <2>3, <3>1, <3>2 DEF Grant, GrantTypes, Unique
    <3>3. CASE u # t
      BY <1>0, <2>1, <3>1, <3>3, GrantOnlyLoses DEF GrantTypes
    <3> QED BY <3>2, <3>3
  <2> QED BY <2>2, <2>4, <2>5 DEF GrantInv
<1>3. ASSUME NEW t \in TxIds, NEW b \in Browsers, Approve(t, b) PROVE GrantInv'
  <2>1. /\ tx[t].state \in {"pending", "approved"} /\ jar[b] = t
        /\ tx' = [tx EXCEPT ![t].state = "approved"]
        /\ approvedIn' = [approvedIn EXCEPT ![t] = @ \cup {b}]
        /\ UNCHANGED <<jar, fetches, codes, signing, oauthClock, startedIn, tokens>>
    BY <1>3 DEF Approve, MatchingBrowser
  <2>2. GrantTypes'
    BY <1>0, <2>1 DEF GrantTypes
  <2>3. b \in startedIn[t]
    BY <1>0, <1>ttl, <2>1 DEF JarsAreStarters
  <2>4. JarsAreStarters'
    BY <1>0, <2>1 DEF JarsAreStarters
  <2>5. ASSUME NEW u \in TxIds PROVE Grant(u)'
    <3>1. CodesOf(u)' = CodesOf(u) /\ Exchanged(u)' = Exchanged(u)
      BY <2>1 DEF CodesOf, Exchanged
    <3>2. CASE u = t
      BY <1>0, <2>1, <2>3, <3>1, <3>2 DEF Grant, GrantTypes, Unique
    <3>3. CASE u # t
      BY <1>0, <2>1, <3>1, <3>3, GrantOnlyLoses DEF GrantTypes
    <3> QED BY <3>2, <3>3
  <2> QED BY <2>2, <2>4, <2>5 DEF GrantInv
\* A callback spends the transaction, whether or not it serves.
<1>4. ASSUME NEW t \in TxIds, NEW b \in Browsers, Callback(t, b) PROVE GrantInv'
  <2>1. /\ tx[t].state \in {"pending", "approved"}
        /\ tx' = [tx EXCEPT ![t].state = "consumed"]
        /\ \/ UNCHANGED fetches
           \/ tx[t].state = "approved" /\ fetches' = [fetches EXCEPT ![t] = @ + 1]
        /\ UNCHANGED <<jar, codes, signing, oauthClock, startedIn, approvedIn, tokens>>
    BY <1>0, <1>4 DEF Callback, Consumed, GrantTypes
  <2>2. fetches[t] = 0 /\ CodesOf(t) = {} /\ Exchanged(t) = {}
    BY <1>0, <2>1 DEF Grant
  <2>3. GrantTypes'
    BY <1>0, <2>1, <2>2 DEF GrantTypes
  <2>4. JarsAreStarters'
    BY <1>0, <2>1 DEF JarsAreStarters
  <2>5. ASSUME NEW u \in TxIds PROVE Grant(u)'
    <3>1. CodesOf(u)' = CodesOf(u) /\ Exchanged(u)' = Exchanged(u)
      BY <2>1 DEF CodesOf, Exchanged
    <3>2. CASE u = t
      BY <1>0, <2>1, <2>2, <3>1, <3>2 DEF Grant, GrantTypes, Unique
    <3>3. CASE u # t
      BY <1>0, <2>1, <3>1, <3>3, GrantOnlyLoses DEF GrantTypes
    <3> QED BY <3>2, <3>3
  <2> QED BY <2>3, <2>4, <2>5 DEF GrantInv
\* The code that is issued is the only one of its transaction.
<1>5. ASSUME NEW t \in TxIds, FetchUser(t) PROVE GrantInv'
  <2> DEFINE k == NewCode(t)
  <2>1. /\ fetches[t] > 0
        /\ fetches' = [fetches EXCEPT ![t] = @ - 1]
        /\ codes' = codes \cup {k}
        /\ jar' = [b \in Browsers |-> IF b \in startedIn[t] THEN NoTx ELSE jar[b]]
        /\ UNCHANGED <<tx, signing, oauthClock, startedIn, approvedIn, tokens>>
    BY <1>5 DEF FetchUser
  <2>2. fetches[t] = 1 /\ CodesOf(t) = {} /\ Exchanged(t) = {}
    BY <1>0, <2>1 DEF Grant, GrantTypes
  <2>3. k \in Codes /\ k.tx = t
    <3>1. Cardinality({c \in codes : c.tx = t}) = 0
      BY <2>2, FS_EmptySet DEF CodesOf
    <3>2. oauthClock + CodeTtl \in Nat
      BY <1>0, <1>ttl DEF GrantTypes
    <3> QED BY <3>1, <3>2 DEF NewCode, Codes
  <2> HIDE DEF k
  <2>4. GrantTypes'
    BY <1>0, <2>1, <2>2, <2>3 DEF GrantTypes
  <2>5. JarsAreStarters'
    BY <1>0, <2>1 DEF JarsAreStarters
  <2>6. ASSUME NEW u \in TxIds PROVE Grant(u)'
    <3>1. Exchanged(u)' = Exchanged(u)
      BY <2>1 DEF Exchanged
    <3>2. CASE u = t
      <4>1. CodesOf(t)' = {k}
        BY <2>1, <2>2, <2>3 DEF CodesOf
      <4>2. fetches'[t] = 0 /\ tx[t].state = "consumed" /\ approvedIn[t] # {}
        BY <1>0, <2>1, <2>2 DEF Grant, GrantTypes
      <4> QED BY <1>0, <2>1, <2>2, <3>1, <3>2, <4>1, <4>2 DEF Grant, Unique
    <3>3. CASE u # t
      <4>1. CodesOf(u)' = CodesOf(u)
        BY <2>1, <2>3, <3>3 DEF CodesOf
      <4> QED BY <1>0, <2>1, <3>1, <3>3, <4>1, GrantOnlyLoses DEF GrantTypes
    <3> QED BY <3>2, <3>3
  <2> QED BY <2>4, <2>5, <2>6 DEF GrantInv
<1>6. ASSUME NEW t \in TxIds, FetchFails(t) PROVE GrantInv'
  <2>1. /\ fetches[t] > 0
        /\ fetches' = [fetches EXCEPT ![t] = @ - 1]
        /\ UNCHANGED <<tx, jar, codes, signing, oauthClock, startedIn, approvedIn, tokens>>
    BY <1>6 DEF FetchFails
  <2>2. GrantTypes' /\ JarsAreStarters'
    BY <1>0, <2>1 DEF GrantTypes, JarsAreStarters
  <2>3. ASSUME NEW u \in TxIds PROVE Grant(u)'
    <3>1. CodesOf(u)' = CodesOf(u) /\ Exchanged(u)' = Exchanged(u)
      BY <2>1 DEF CodesOf, Exchanged
    <3>2. fetches'[u] \in {fetches[u], 0}
      BY <1>0, <2>1 DEF GrantTypes
    <3> QED BY <1>0, <2>1, <3>1, <3>2, GrantOnlyLoses
  <2> QED BY <2>2, <2>3 DEF GrantInv
\* An exchange uses the code up in the turn that checks it.
<1>7. ASSUME NEW k \in codes, NEW c \in OAuthClients, NEW v \in Verifiers, ExchangeCode(k, c, v)
      PROVE  GrantInv'
  <2> DEFINE t == k.tx
             spent == [k EXCEPT !.used = TRUE]
             x == [code |-> k, client |-> c, verifier |-> v, at |-> oauthClock]
  <2>1. /\ c = tx[t].client /\ v = tx[t].challenge /\ ~k.used /\ k.expires >= oauthClock
        /\ codes' = (codes \ {k}) \cup {spent}
        /\ signing' = signing \cup {x}
        /\ UNCHANGED <<tx, jar, fetches, oauthClock, startedIn, approvedIn, tokens>>
    BY <1>7 DEF ExchangeCode, Redeemable, WithUsed
  <2>2. k \in Codes /\ t \in TxIds /\ spent \in Codes /\ spent.tx = t /\ spent.used
    BY <1>0 DEF GrantTypes, Codes
  <2>3. x \in Exchanges /\ x.code.tx = t /\ x.client = c /\ x.verifier = v /\ x.at <= x.code.expires
    BY <1>0, <2>1, <2>2 DEF GrantTypes, Exchanges, Codes
  <2>4. CodesOf(t) = {k} /\ Exchanged(t) = {} /\ fetches[t] = 0
        /\ tx[t].state = "consumed" /\ approvedIn[t] # {}
    BY <1>0, <2>1, <2>2 DEF Grant, CodesOf, Unique
  <2> HIDE DEF spent, x
  <2>5. GrantTypes' /\ JarsAreStarters'
    BY <1>0, <2>1, <2>2, <2>3 DEF GrantTypes, JarsAreStarters
  <2>6. ASSUME NEW u \in TxIds PROVE Grant(u)'
    <3>1. CASE u = t
      <4>1. CodesOf(t)' = {spent}
        BY <2>1, <2>2, <2>4 DEF CodesOf
      <4>2. Exchanged(t)' = {x}
        BY <2>1, <2>3, <2>4 DEF Exchanged
      <4> QED BY <1>0, <2>1, <2>2, <2>3, <2>4, <3>1, <4>1, <4>2 DEF Grant, Unique
    <3>2. CASE u # t
      <4>1. CodesOf(u)' = CodesOf(u) /\ Exchanged(u)' = Exchanged(u)
        BY <2>1, <2>2, <2>3, <3>2 DEF CodesOf, Exchanged
      <4> QED BY <1>0, <2>1, <4>1, GrantOnlyLoses
    <3> QED BY <3>1, <3>2
  <2> QED BY <2>5, <2>6 DEF GrantInv
<1>8. ASSUME NEW x \in signing, IssueToken(x) PROVE GrantInv'
  <2>1. /\ signing' = signing \ {x}
        /\ tokens' = [tokens EXCEPT ![x.code.tx] = @ \cup {x}]
        /\ UNCHANGED <<tx, jar, fetches, codes, oauthClock, startedIn, approvedIn>>
    BY <1>8 DEF IssueToken
  <2>2. x \in Exchanges /\ x.code.tx \in TxIds
    BY <1>0 DEF GrantTypes, Exchanges, Codes
  <2>3. GrantTypes' /\ JarsAreStarters'
    BY <1>0, <2>1, <2>2 DEF GrantTypes, JarsAreStarters
  <2>4. ASSUME NEW u \in TxIds PROVE Grant(u)'
    <3>1. CodesOf(u)' = CodesOf(u)
      BY <2>1 DEF CodesOf
    <3>2. Exchanged(u)' \subseteq Exchanged(u)
      BY <1>0, <2>1, <2>2 DEF Exchanged, GrantTypes
    <3> QED BY <1>0, <2>1, <3>1, <3>2, GrantOnlyLoses
  <2> QED BY <2>3, <2>4 DEF GrantInv
<1>9. CASE CleanupOAuth
  <2>1. /\ tx' = [t \in TxIds |-> IF tx[t].state \in {"pending", "approved"} /\ tx[t].expires <= oauthClock
                                  THEN [tx[t] EXCEPT !.state = "consumed"] ELSE tx[t]]
        /\ codes' \subseteq codes
        /\ UNCHANGED <<jar, fetches, signing, oauthClock, startedIn, approvedIn, tokens>>
    BY <1>9 DEF CleanupOAuth
  <2>2. GrantTypes' /\ JarsAreStarters'
    BY <1>0, <2>1 DEF GrantTypes, JarsAreStarters
  <2>3. ASSUME NEW u \in TxIds PROVE Grant(u)'
    <3>1. CodesOf(u)' \subseteq CodesOf(u) /\ Exchanged(u)' = Exchanged(u)
      BY <2>1 DEF CodesOf, Exchanged
    <3>2. /\ tx'[u].state \in {tx[u].state, "consumed"}
          /\ tx'[u].client = tx[u].client /\ tx'[u].challenge = tx[u].challenge
      BY <1>0, <2>1 DEF GrantTypes
    <3> QED BY <1>0, <2>1, <3>1, <3>2, GrantOnlyLoses
  <2> QED BY <2>2, <2>3 DEF GrantInv
<1>10. CASE RestartOAuth
  <2>1. /\ tx' = [t \in TxIds |-> IF tx[t].state = "none" THEN tx[t]
                                  ELSE [tx[t] EXCEPT !.state = "consumed"]]
        /\ fetches' = [t \in TxIds |-> 0]
        /\ signing' = {}
        /\ UNCHANGED <<jar, codes, oauthClock, startedIn, approvedIn, tokens>>
    BY <1>10 DEF RestartOAuth
  <2>2. GrantTypes' /\ JarsAreStarters'
    BY <1>0, <2>1 DEF GrantTypes, JarsAreStarters
  <2>3. ASSUME NEW u \in TxIds PROVE Grant(u)'
    <3>1. CodesOf(u)' = CodesOf(u) /\ Exchanged(u)' \subseteq Exchanged(u)
      BY <2>1 DEF CodesOf, Exchanged
    <3>2. /\ tx'[u].state \in {tx[u].state, "consumed"}
          /\ tx'[u].client = tx[u].client /\ tx'[u].challenge = tx[u].challenge
      BY <1>0, <2>1 DEF GrantTypes
    <3> QED BY <1>0, <2>1, <3>1, <3>2, GrantOnlyLoses
  <2> QED BY <2>2, <2>3 DEF GrantInv
<1>11. CASE OAuthTick \/ UNCHANGED oauthVars
  <2>1. /\ oauthClock' \in {oauthClock, oauthClock + 1}
        /\ UNCHANGED <<tx, jar, fetches, codes, signing, startedIn, approvedIn, tokens>>
    BY <1>11 DEF OAuthTick, oauthVars
  <2>2. GrantTypes' /\ JarsAreStarters'
    BY <1>0, <2>1 DEF GrantTypes, JarsAreStarters
  <2> QED BY <1>0, <2>1, <2>2 DEF GrantInv, Grant, CodesOf, Exchanged
<1> QED BY <1>1, <1>2, <1>3, <1>4, <1>5, <1>6, <1>7, <1>8, <1>9, <1>10, <1>11 DEF OAuthNext

\* One approval yields one token at most, for the client and verifier it was
\* asked for, in the browser it was asked in, within its code's life: over any
\* number of transactions, callbacks, exchanges, cleanups and restarts.
THEOREM OneTokenCorrect == OAuthSpec => []OneTokenPerApproval
<1>1. GrantInv => OneTokenPerApproval
  <2> SUFFICES ASSUME GrantInv, NEW t \in TxIds
               PROVE  /\ Cardinality(tokens[t]) <= 1
                      /\ \A x \in tokens[t] :
                           /\ approvedIn[t] # {} /\ approvedIn[t] \subseteq startedIn[t]
                           /\ x.client = tx[t].client /\ x.verifier = tx[t].challenge
                           /\ x.at <= x.code.expires
    BY DEF OneTokenPerApproval
  <2>1. Grant(t) /\ tokens[t] \subseteq Exchanged(t)
    BY DEF GrantInv, Exchanged
  <2>2. Unique(tokens[t])
    BY <2>1 DEF Grant, Unique
  <2> QED BY <2>1, <2>2, UniqueCardinality DEF Grant
<1> QED BY InitGrantInv, NextGrantInv, <1>1, PTL DEF OAuthSpec

----------------------------------------------------------------------------
(* Logins *)

Callbacks == [login : Logins, browser : WebBrowsers, provider : Providers, n : {0}]

WebTypes ==
  /\ login \in [Logins -> [state : {"none", "open", "gone"}, provider : Providers, expires : Nat]]
  /\ txCookie \in [WebBrowsers -> [{"/auth", "/oauth"} -> Logins \cup {NoLogin}]]
  /\ identifying \subseteq Callbacks
  /\ webSession \subseteq [of : Logins, expires : Nat]
  /\ webCookie \in [WebBrowsers -> Logins \cup {NoLogin}]
  /\ webRequest \in [WebBrowsers -> Logins \cup {NoLogin}]
  /\ webClock \in Nat
  /\ opened \in [Logins -> SUBSET WebBrowsers]
  /\ made \in [Logins -> SUBSET Callbacks]

\* The callbacks of a login that passed its checks.
Answers(t) == {x \in identifying : x.login = t} \cup made[t]

(***************************************************************************)
(* The inductive invariant.  A login that may still be called back has no  *)
(* callback that passed; afterwards it has one at most, from the browser   *)
(* it was opened in.  A transaction cookie is in that browser only, a      *)
(* session cookie, and the principal of a request, in the browser of the   *)
(* callback that made the session.                                         *)
(***************************************************************************)
LoginOk(t) ==
  /\ login[t].state = "none" => opened[t] = {}
  /\ login[t].state # "gone" => Answers(t) = {}
  /\ Unique(Answers(t))
  /\ \A x \in Answers(t) : x.provider = login[t].provider /\ {x.browser} = opened[t]

CookiesAreOpeners ==
  \A b \in WebBrowsers, path \in {"/auth", "/oauth"} :
    txCookie[b][path] # NoLogin => opened[txCookie[b][path]] = {b}

SessionsAreOwn ==
  \A b \in WebBrowsers :
    /\ webCookie[b] # NoLogin => \E x \in made[webCookie[b]] : x.browser = b
    /\ webRequest[b] # NoLogin => \E x \in made[webRequest[b]] : x.browser = b

WebInv ==
  /\ WebTypes
  /\ CookiesAreOpeners
  /\ SessionsAreOwn
  /\ \A t \in Logins : LoginOk(t)

LEMMA InitWebInv == WebInit => WebInv
<1> SUFFICES ASSUME WebInit PROVE WebInv
  OBVIOUS
<1>1. WebTypes
  BY DEF WebInit, WebTypes, Providers
<1>2. CookiesAreOpeners /\ SessionsAreOwn
  BY DEF WebInit, CookiesAreOpeners, SessionsAreOwn
<1>3. ASSUME NEW t \in Logins PROVE LoginOk(t)
  <2>1. Answers(t) = {}
    BY DEF WebInit, Answers
  <2> QED BY <2>1 DEF WebInit, LoginOk, Unique
<1> QED BY <1>1, <1>2, <1>3 DEF WebInv

\* A step that only takes from a login leaves it sound.
LEMMA LoginOnlyLoses ==
  ASSUME NEW t \in Logins, LoginOk(t),
         login'[t].state \in {login[t].state, "gone"}, login'[t].provider = login[t].provider,
         Answers(t)' \subseteq Answers(t), opened'[t] = opened[t]
  PROVE  LoginOk(t)'
<1>1. Unique(Answers(t)')
  BY DEF LoginOk, Unique
<1>2. \A x \in Answers(t)' : x.provider = login'[t].provider /\ {x.browser} = opened'[t]
  BY DEF LoginOk
<1> QED BY <1>1, <1>2 DEF LoginOk, Unique

\* Who has a session has made it, also later: nothing is ever taken from made.
LEMMA SessionsStayOwn ==
  ASSUME WebTypes, SessionsAreOwn,
         \A t \in Logins : made[t] \subseteq made'[t],
         \A b \in WebBrowsers : webCookie'[b] \in {webCookie[b], NoLogin},
         \A b \in WebBrowsers : webRequest'[b] \in {webRequest[b], webCookie[b], NoLogin}
  PROVE  SessionsAreOwn'
<1> SUFFICES ASSUME NEW b \in WebBrowsers
             PROVE  /\ webCookie'[b] # NoLogin => \E x \in made'[webCookie'[b]] : x.browser = b
                    /\ webRequest'[b] # NoLogin => \E x \in made'[webRequest'[b]] : x.browser = b
  BY DEF SessionsAreOwn
<1>1. ASSUME NEW t \in {webCookie[b], webRequest[b]}, t # NoLogin
      PROVE  \E x \in made'[t] : x.browser = b
  <2>1. t \in Logins
    BY <1>1 DEF WebTypes
  <2> QED BY <1>1, <2>1 DEF SessionsAreOwn
<1> QED BY <1>1

LEMMA NextWebInv == WebInv /\ [WebNext]_webVars => WebInv'
<1> SUFFICES ASSUME WebInv, [WebNext]_webVars PROVE WebInv'
  OBVIOUS
<1>0. /\ WebTypes /\ CookiesAreOpeners /\ SessionsAreOwn
      /\ \A t \in Logins : LoginOk(t)
  BY DEF WebInv
<1>ttl. NoLogin \notin Logins /\ LoginTtl \in Nat /\ WebSessionTtl \in Nat
  BY WebAssumption
<1>path. \A p \in Providers : CookiePath[p] \in {"/auth", "/oauth"}
  BY DEF Providers, CookiePath
<1>1. ASSUME NEW t \in Logins, NEW b \in WebBrowsers, NEW p \in Providers, StartLogin(t, b, p)
      PROVE  WebInv'
  <2>1. /\ login[t].state = "none"
        /\ login' = [login EXCEPT ![t] = [state |-> "open", provider |-> p,
                                          expires |-> webClock + LoginTtl]]
        /\ txCookie' = [txCookie EXCEPT ![b][CookiePath[p]] = t]
        /\ opened' = [opened EXCEPT ![t] = {b}]
        /\ UNCHANGED <<identifying, webSession, webCookie, webRequest, webClock, made>>
    BY <1>1 DEF StartLogin
  <2>2. opened[t] = {} /\ Answers(t) = {}
    BY <1>0, <2>1 DEF LoginOk
  <2>3. WebTypes'
    <3>1. txCookie' \in [WebBrowsers -> [{"/auth", "/oauth"} -> Logins \cup {NoLogin}]]
      BY <1>0, <1>path, <2>1 DEF WebTypes
    <3> QED BY <1>0, <1>ttl, <2>1, <3>1 DEF WebTypes
  <2>4. CookiesAreOpeners'
    <3> SUFFICES ASSUME NEW d \in WebBrowsers, NEW path \in {"/auth", "/oauth"},
                        txCookie'[d][path] # NoLogin
                 PROVE  opened'[txCookie'[d][path]] = {d}
      BY DEF CookiesAreOpeners
    <3>1. (txCookie'[d][path] = t /\ d = b) \/ txCookie'[d][path] = txCookie[d][path]
      BY <1>0, <1>path, <2>1 DEF WebTypes
    <3>2. CASE txCookie'[d][path] = t /\ d = b
      BY <1>0, <2>1, <3>2 DEF WebTypes
    <3>3. CASE txCookie'[d][path] = txCookie[d][path]
      <4>1. txCookie[d][path] \in Logins /\ opened[txCookie[d][path]] = {d}
        BY <1>0, <3>3 DEF WebTypes, CookiesAreOpeners
      <4>2. txCookie[d][path] # t
        BY <2>2, <4>1
      <4> QED BY <1>0, <2>1, <3>3, <4>1, <4>2 DEF WebTypes
    <3> QED BY <3>1, <3>2, <3>3
  <2>5. SessionsAreOwn'
    BY <1>0, <2>1, SessionsStayOwn
  <2>6. ASSUME NEW u \in Logins PROVE LoginOk(u)'
    <3>1. Answers(u)' = Answers(u)
      BY <2>1 DEF Answers
    <3>2. CASE u = t
      BY <1>0, <2>1, <2>2, <3>1, <3>2 DEF LoginOk, WebTypes, Unique
    <3>3. CASE u # t
      BY <1>0, <2>1, <3>1, <3>3, LoginOnlyLoses DEF WebTypes
    <3> QED BY <3>2, <3>3
  <2> QED BY <2>3, <2>4, <2>5, <2>6 DEF WebInv
\* A callback spends the login; if it passes it is the only one that ever does.
<1>2. ASSUME NEW t \in Logins, NEW b \in WebBrowsers, NEW p \in Providers,
             NEW path \in {"/auth", "/oauth"}, LoginCallback(t, b, p, path)
      PROVE  WebInv'
  <2> DEFINE x == [login |-> t, browser |-> b, provider |-> p, n |-> 0]
             passes == login[t].provider = p /\ txCookie[b][path] = t
  <2>1. /\ login[t].state = "open"
        /\ login' = [login EXCEPT ![t].state = "gone"]
        /\ identifying' = identifying \cup
             {y \in [login : {t}, browser : {b}, provider : {p}, n : {Attempts(t)}] :
                login[t].provider = p /\ login[t].expires >= webClock /\ txCookie[b][path] = t}
        /\ UNCHANGED <<txCookie, webSession, webCookie, webRequest, webClock, opened, made>>
    BY <1>2 DEF LoginCallback, Spent
  <2>2. {y \in identifying : y.login = t} = {} /\ made[t] = {}
    BY <1>0, <2>1 DEF LoginOk, Answers
  <2>3. Attempts(t) = 0
    BY <2>2, FS_EmptySet DEF Attempts
  <2>4. identifying' = identifying \/ (passes /\ identifying' = identifying \cup {x})
    <3> DEFINE all == [login : {t}, browser : {b}, provider : {p}, n : {Attempts(t)}]
               serves == login[t].provider = p /\ login[t].expires >= webClock /\ txCookie[b][path] = t
    <3>1. \A y \in all : y = x
      BY <2>3
    <3>2. x \in all
      BY <2>3
    <3>3. all = {x}
      BY <3>1, <3>2
    <3>4. identifying' = identifying \cup {y \in all : serves}
      BY <2>1
    <3> HIDE DEF all, x
    <3>5. CASE serves
      BY <3>3, <3>4, <3>5
    <3>6. CASE ~serves
      BY <3>4, <3>6
    <3> QED BY <3>5, <3>6
  <2>5. x \in Callbacks
    BY DEF Callbacks
  <2>6. WebTypes'
    BY <1>0, <2>1, <2>4, <2>5 DEF WebTypes
  <2>7. CookiesAreOpeners' /\ SessionsAreOwn'
    BY <1>0, <2>1 DEF CookiesAreOpeners, SessionsAreOwn
  <2>8. passes => opened[t] = {b}
    BY <1>0, <1>ttl DEF CookiesAreOpeners
  <2>9. ASSUME NEW u \in Logins PROVE LoginOk(u)'
    <3>1. CASE u = t
      <4>1. Answers(t)' = {} \/ (passes /\ Answers(t)' = {x})
        <5>1. CASE identifying' = identifying
          BY <2>1, <2>2, <5>1 DEF Answers
        <5>2. CASE passes /\ identifying' = identifying \cup {x}
          <6>1. x.login = t
            OBVIOUS
          <6> HIDE DEF x
          <6> QED BY <2>1, <2>2, <5>2, <6>1 DEF Answers
        <5> QED BY <2>4, <5>1, <5>2
      <4>2. login'[t].state = "gone" /\ login'[t].provider = login[t].provider
        BY <1>0, <2>1 DEF WebTypes
      <4> QED BY <2>1, <2>8, <3>1, <4>1, <4>2 DEF LoginOk, Unique
    <3>2. CASE u # t
      <4>1. Answers(u)' = Answers(u)
        BY <2>1, <2>4, <3>2 DEF Answers
      <4> QED BY <1>0, <2>1, <3>2, <4>1, LoginOnlyLoses DEF WebTypes
    <3> QED BY <3>1, <3>2
  <2> QED BY <2>6, <2>7, <2>9 DEF WebInv
<1>3. ASSUME NEW x \in identifying, Identified(x) PROVE WebInv'
  <2> DEFINE t == x.login
             b == x.browser
  <2>1. /\ identifying' = identifying \ {x}
        /\ webSession' = webSession \cup {[of |-> t, expires |-> webClock + WebSessionTtl]}
        /\ webCookie' = [webCookie EXCEPT ![b] = t]
        /\ txCookie' = [txCookie EXCEPT ![b][CookiePath[x.provider]] = NoLogin]
        /\ made' = [made EXCEPT ![t] = @ \cup {x}]
        /\ UNCHANGED <<login, webRequest, webClock, opened>>
    BY <1>3 DEF Identified
  <2>2. x \in Callbacks /\ t \in Logins /\ b \in WebBrowsers /\ x.provider \in Providers
    BY <1>0 DEF WebTypes, Callbacks
  <2>3. /\ txCookie' \in [WebBrowsers -> [{"/auth", "/oauth"} -> Logins \cup {NoLogin}]]
        /\ \A d \in WebBrowsers, path \in {"/auth", "/oauth"} :
             txCookie'[d][path] \in {txCookie[d][path], NoLogin}
    BY <1>0, <1>path, <2>1, <2>2 DEF WebTypes
  <2>4. WebTypes'
    <3>1. [of |-> t, expires |-> webClock + WebSessionTtl] \in [of : Logins, expires : Nat]
      BY <1>0, <1>ttl, <2>2 DEF WebTypes
    <3>2. made' \in [Logins -> SUBSET Callbacks]
      BY <1>0, <2>1, <2>2 DEF WebTypes
    <3>3. webCookie' \in [WebBrowsers -> Logins \cup {NoLogin}]
      BY <1>0, <2>1, <2>2 DEF WebTypes
    <3> QED BY <1>0, <2>1, <2>3, <3>1, <3>2, <3>3 DEF WebTypes
  <2>5. CookiesAreOpeners'
    BY <1>0, <2>1, <2>3 DEF CookiesAreOpeners
  <2>6. x \in made'[t] /\ \A u \in Logins : made[u] \subseteq made'[u]
    BY <1>0, <2>1, <2>2 DEF WebTypes
  <2>7. SessionsAreOwn'
    <3> SUFFICES ASSUME NEW d \in WebBrowsers
                 PROVE  /\ webCookie'[d] # NoLogin => \E y \in made'[webCookie'[d]] : y.browser = d
                        /\ webRequest'[d] # NoLogin => \E y \in made'[webRequest'[d]] : y.browser = d
      BY DEF SessionsAreOwn
    <3>1. webRequest[d] # NoLogin => \E y \in made'[webRequest[d]] : y.browser = d
      <4>1. webRequest[d] # NoLogin => webRequest[d] \in Logins
        BY <1>0 DEF WebTypes
      <4> QED BY <1>0, <2>6, <4>1 DEF SessionsAreOwn
    <3>2. CASE d = b
      BY <1>0, <2>1, <2>2, <2>6, <3>1, <3>2 DEF WebTypes
    <3>3. CASE d # b
      <4>1. webCookie'[d] = webCookie[d] /\ (webCookie[d] # NoLogin => webCookie[d] \in Logins)
        BY <1>0, <2>1, <3>3 DEF WebTypes
      <4> QED BY <1>0, <2>1, <2>6, <3>1, <4>1 DEF SessionsAreOwn
    <3> QED BY <3>2, <3>3
  <2>8. ASSUME NEW u \in Logins PROVE LoginOk(u)'
    <3>1. Answers(u)' \subseteq Answers(u)
      BY <1>0, <1>3, <2>1, <2>2 DEF Answers, WebTypes
    <3> QED BY <1>0, <2>1, <3>1, LoginOnlyLoses
  <2> QED BY <2>4, <2>5, <2>7, <2>8 DEF WebInv
<1>4. ASSUME NEW x \in identifying, NotIdentified(x) PROVE WebInv'
  <2>1. /\ identifying' \subseteq identifying
        /\ UNCHANGED <<login, txCookie, webSession, webCookie, webRequest, webClock, opened, made>>
    BY <1>4 DEF NotIdentified
  <2>2. WebTypes' /\ CookiesAreOpeners' /\ SessionsAreOwn'
    BY <1>0, <2>1 DEF WebTypes, CookiesAreOpeners, SessionsAreOwn
  <2>3. ASSUME NEW u \in Logins PROVE LoginOk(u)'
    <3>1. Answers(u)' \subseteq Answers(u)
      BY <2>1 DEF Answers
    <3> QED BY <1>0, <2>1, <3>1, LoginOnlyLoses
  <2> QED BY <2>2, <2>3 DEF WebInv
\* A request is for the session its browser had when it began.
<1>5. ASSUME NEW b \in WebBrowsers, BeginWebRequest(b) \/ EndWebRequest(b) \/ Logout(b) PROVE WebInv'
  <2>1. UNCHANGED <<login, txCookie, identifying, webClock, opened, made>>
    BY <1>5 DEF BeginWebRequest, EndWebRequest, Logout
  <2>2. /\ webSession' \subseteq webSession
        /\ webCookie' \in [WebBrowsers -> Logins \cup {NoLogin}]
        /\ webRequest' \in [WebBrowsers -> Logins \cup {NoLogin}]
        /\ \A d \in WebBrowsers : webCookie'[d] \in {webCookie[d], NoLogin}
        /\ \A d \in WebBrowsers : webRequest'[d] \in {webRequest[d], webCookie[d], NoLogin}
    BY <1>0, <1>5 DEF BeginWebRequest, EndWebRequest, Logout, WebTypes
  <2>3. WebTypes'
    BY <1>0, <2>1, <2>2 DEF WebTypes
  <2>4. CookiesAreOpeners' /\ SessionsAreOwn'
    BY <1>0, <2>1, <2>2, SessionsStayOwn DEF CookiesAreOpeners
  <2> QED BY <1>0, <2>1, <2>3, <2>4 DEF WebInv, LoginOk, Answers
<1>6. CASE PruneWebSessions \/ WebTick \/ UNCHANGED webVars
  <2>1. UNCHANGED <<login, txCookie, identifying, webCookie, webRequest, opened, made>>
    BY <1>6 DEF PruneWebSessions, WebTick, webVars
  <2>2. webSession' \subseteq webSession /\ webClock' \in {webClock, webClock + 1}
    BY <1>6 DEF PruneWebSessions, WebTick, webVars
  <2>3. WebTypes' /\ CookiesAreOpeners' /\ SessionsAreOwn'
    BY <1>0, <2>1, <2>2 DEF WebTypes, CookiesAreOpeners, SessionsAreOwn
  <2> QED BY <1>0, <2>1, <2>3 DEF WebInv, LoginOk, Answers
<1>7. CASE RestartWeb
  <2>1. /\ login' = [t \in Logins |-> IF login[t].state = "open" THEN [login[t] EXCEPT !.state = "gone"]
                                      ELSE login[t]]
        /\ identifying' = {}
        /\ webRequest' = [b \in WebBrowsers |-> NoLogin]
        /\ UNCHANGED <<txCookie, webSession, webCookie, webClock, opened, made>>
    BY <1>7 DEF RestartWeb
  <2>2. WebTypes' /\ CookiesAreOpeners' /\ SessionsAreOwn'
    BY <1>0, <2>1 DEF WebTypes, CookiesAreOpeners, SessionsAreOwn
  <2>3. ASSUME NEW u \in Logins PROVE LoginOk(u)'
    <3>1. Answers(u)' \subseteq Answers(u)
      BY <2>1 DEF Answers
    <3>2. login'[u].state \in {login[u].state, "gone"} /\ login'[u].provider = login[u].provider
      BY <1>0, <2>1 DEF WebTypes
    <3> QED BY <1>0, <2>1, <3>1, <3>2, LoginOnlyLoses
  <2> QED BY <2>2, <2>3 DEF WebInv
<1> QED BY <1>1, <1>2, <1>3, <1>4, <1>5, <1>6, <1>7 DEF WebNext

\* A login makes one session at most, in the browser and for the provider it was
\* started with, and no request acts for the login of another browser: over any
\* number of logins, callbacks, logouts and restarts.
THEOREM OneSessionCorrect == WebSpec => []OneSessionPerLogin
<1>1. WebInv => OneSessionPerLogin
  <2> SUFFICES ASSUME WebInv PROVE OneSessionPerLogin
    OBVIOUS
  <2>1. ASSUME NEW t \in Logins
        PROVE  /\ Cardinality(made[t]) <= 1
               /\ \A x \in made[t] : x.provider = login[t].provider /\ {x.browser} = opened[t]
    <3>1. LoginOk(t) /\ made[t] \subseteq Answers(t)
      BY DEF WebInv, Answers
    <3>2. Unique(made[t])
      BY <3>1 DEF LoginOk, Unique
    <3> QED BY <3>1, <3>2, UniqueCardinality DEF LoginOk
  <2> QED BY <2>1 DEF WebInv, SessionsAreOwn, OneSessionPerLogin
<1> QED BY InitWebInv, NextWebInv, <1>1, PTL DEF WebSpec

----------------------------------------------------------------------------
(* Devices *)

DeviceRows == [status : {"none", "pending", "offline", "online", "revoked", "removed"},
               alias : Aliases \cup {NoKey}, key : DeviceKeys \cup {NoKey}]

DeviceTypes ==
  /\ device \in [DeviceIds -> DeviceRows]
  /\ enrollment \in [DeviceIds -> {"none", "fresh", "used", "gone"}]
  /\ linked \in [DeviceIds -> DeviceKeys \cup {NoKey}]
  /\ edit \in [Edits -> [of : DeviceIds \cup {"none"}, row : DeviceRows]]
  /\ job \in [Jobs -> [of : DeviceIds \cup {"none"}, row : {"none", "sent", "over", "gone"},
                       pending : BOOLEAN]]
  /\ enrolledWith \in [DeviceIds -> SUBSET DeviceKeys]
  /\ putBack \in SUBSET DeviceIds

\* The key a device enrolled with, or none: all that may be found in its row.
OwnKeys(d) == {NoKey} \cup enrolledWith[d]

(***************************************************************************)
(* The inductive invariant.  An enrollment token that may still be used    *)
(* was not used.  The row of a linked device says so, but where a PATCH     *)
(* put an older status back.  A PATCH under way copied a row of its device  *)
(* that was present, and what it copied is not past what the device ever   *)
(* was: its alias, its key or none yet.                                    *)
(***************************************************************************)
Enrolled1(d) ==
  /\ device[d].status = "none" => enrollment[d] = "none"
  /\ enrollment[d] \in {"none", "fresh"} => enrolledWith[d] = {}
  /\ Unique(enrolledWith[d])
  /\ {linked[d], device[d].key} \subseteq OwnKeys(d)

LinkedOk(d) == linked[d] # NoKey /\ d \notin putBack => device[d].status = "online"

RemovedOk(d) ==
  device[d].status = "removed" =>
    /\ enrollment[d] = "gone"
    /\ \A j \in Jobs : job[j].of = d => job[j].row = "gone"

DeviceOk(d) == Enrolled1(d) /\ LinkedOk(d) /\ RemovedOk(d)

EditOk(e) ==
  edit[e] # NoEdit =>
    /\ edit[e].of \in DeviceIds
    /\ device[edit[e].of].status # "none"
    /\ edit[e].row.status \notin {"none", "removed"}
    /\ edit[e].row.alias = device[edit[e].of].alias
    /\ edit[e].row.key \in OwnKeys(edit[e].of)

AliasesAreUnique ==
  \A d, o \in DeviceIds : Present(d) /\ Present(o) /\ device[d].alias = device[o].alias => d = o

DeviceInv ==
  /\ DeviceTypes
  /\ \A d \in DeviceIds : DeviceOk(d)
  /\ \A e \in Edits : EditOk(e)
  /\ AliasesAreUnique

LEMMA InitDeviceInv == DevicesInit => DeviceInv
<1> SUFFICES ASSUME DevicesInit PROVE DeviceInv
  OBVIOUS
<1>1. DeviceTypes
  BY DEF DevicesInit, DeviceTypes, DeviceRows, NoDevice, NoEdit, NoJob
<1>2. ASSUME NEW d \in DeviceIds PROVE DeviceOk(d) /\ ~Present(d)
  BY DEF DevicesInit, NoDevice, DeviceOk, LinkedOk, Enrolled1, RemovedOk, OwnKeys, Unique, Present
<1>3. ASSUME NEW e \in Edits PROVE EditOk(e)
  BY DEF DevicesInit, EditOk
<1> QED BY <1>1, <1>2, <1>3 DEF DeviceInv, AliasesAreUnique

\* A step that writes no row, and hands out no key that is not the device's own,
\* keeps a device as it was.
LEMMA DeviceUntouched ==
  ASSUME NEW d \in DeviceIds, DeviceOk(d),
         device'[d] = device[d], enrolledWith'[d] = enrolledWith[d],
         enrollment'[d] = enrollment[d]
           \/ (enrollment[d] \in {"fresh", "used"} /\ enrollment'[d] \in {"used", "gone"}),
         linked'[d] \in {linked[d], NoKey},
         d \in putBack => d \in putBack' \/ linked'[d] = NoKey,
         \A j \in Jobs : job'[j].of = d => job[j].of = d /\ (job[j].row = "gone" => job'[j].row = "gone")
  PROVE  DeviceOk(d)'
<1>1. OwnKeys(d)' = OwnKeys(d) /\ NoKey \in OwnKeys(d)
  BY DEF OwnKeys
<1> QED BY <1>1 DEF DeviceOk, LinkedOk, Enrolled1, RemovedOk

\* Where rows keep their aliases and nothing comes back, names stay unique.
LEMMA AliasesStay ==
  ASSUME AliasesAreUnique,
         \A d \in DeviceIds : Present(d)' => Present(d) /\ device'[d].alias = device[d].alias
  PROVE  AliasesAreUnique'
<1> SUFFICES ASSUME NEW d \in DeviceIds, NEW o \in DeviceIds, Present(d)', Present(o)',
                    device'[d].alias = device'[o].alias
             PROVE  d = o
  BY DEF AliasesAreUnique
<1> QED BY DEF AliasesAreUnique

\* A PATCH under way stays sound while rows keep their aliases and keys.
LEMMA EditStays ==
  ASSUME NEW e \in Edits, EditOk(e), edit'[e] = edit[e],
         \A d \in DeviceIds : device[d].status # "none" =>
           /\ device'[d].status # "none" /\ device'[d].alias = device[d].alias
           /\ enrolledWith[d] \subseteq enrolledWith'[d]
  PROVE  EditOk(e)'
<1> SUFFICES ASSUME edit[e] # NoEdit PROVE EditOk(e)'
  BY DEF EditOk
<1>1. edit[e].of \in DeviceIds /\ device[edit[e].of].status # "none"
  BY DEF EditOk
<1>2. OwnKeys(edit[e].of) \subseteq OwnKeys(edit[e].of)'
  BY <1>1 DEF OwnKeys
<1> QED BY <1>1, <1>2 DEF EditOk

\* Where only the status of a row is written, its alias and key stay.
LEMMA StatusWritten ==
  ASSUME DeviceTypes, NEW d \in DeviceIds,
         NEW s \in {"offline", "online", "revoked", "removed"},
         device' = [device EXCEPT ![d].status = s]
  PROVE  /\ device' \in [DeviceIds -> DeviceRows]
         /\ \A o \in DeviceIds :
              /\ device'[o].alias = device[o].alias /\ device'[o].key = device[o].key
              /\ device'[o].status = IF o = d THEN s ELSE device[o].status
<1>0. device \in [DeviceIds -> DeviceRows]
  BY DEF DeviceTypes
<1>1. PICK r \in DeviceRows : r = device[d]
  BY <1>0
<1>2. [r EXCEPT !.status = s] \in DeviceRows
  BY DEF DeviceRows
<1>3. device' = [device EXCEPT ![d] = [r EXCEPT !.status = s]]
  BY <1>1
<1>4. ASSUME NEW o \in DeviceIds
      PROVE  /\ device'[o].alias = device[o].alias /\ device'[o].key = device[o].key
             /\ device'[o].status = IF o = d THEN s ELSE device[o].status
  <2>1. CASE o = d
    BY <1>0, <2>1 DEF DeviceRows
  <2>2. CASE o # d
    BY <1>0, <2>2
  <2> QED BY <2>1, <2>2
<1> QED BY <1>0, <1>2, <1>3, <1>4

LEMMA NextDeviceInv == DeviceInv /\ [DevicesNext]_deviceVars => DeviceInv'
<1> SUFFICES ASSUME DeviceInv, [DevicesNext]_deviceVars PROVE DeviceInv'
  OBVIOUS
<1>0. /\ DeviceTypes /\ AliasesAreUnique
      /\ \A d \in DeviceIds : DeviceOk(d)
      /\ \A e \in Edits : EditOk(e)
  BY DEF DeviceInv
<1>none. NoKey \notin DeviceKeys /\ NoKey \notin Aliases 
  BY DeviceAssumption
<1>1. ASSUME NEW d \in DeviceIds, NEW name \in Aliases, CreateEnrollmentToken(d, name)
      PROVE  DeviceInv'
  <2>1. /\ device[d].status = "none"
        /\ \A o \in DeviceIds : Present(o) => device[o].alias # name
        /\ device' = [device EXCEPT ![d] = [status |-> "pending", alias |-> name, key |-> NoKey]]
        /\ enrollment' = [enrollment EXCEPT ![d] = "fresh"]
        /\ UNCHANGED <<linked, edit, job, enrolledWith, putBack>>
    BY <1>1 DEF CreateEnrollmentToken
  <2>2. enrolledWith[d] = {}
    BY <1>0, <2>1 DEF DeviceOk, Enrolled1
  <2>3. DeviceTypes'
    BY <1>0, <1>none, <2>1 DEF DeviceTypes, DeviceRows
  <2>4. ASSUME NEW o \in DeviceIds PROVE DeviceOk(o)'
    <3>1. CASE o = d
      <4>1. linked[d] \in OwnKeys(d) /\ OwnKeys(d)' = OwnKeys(d) /\ NoKey \in OwnKeys(d)
        BY <1>0, <2>1 DEF DeviceOk, Enrolled1, OwnKeys
      <4> QED BY <1>0, <2>1, <2>2, <3>1, <4>1
              DEF DeviceOk, LinkedOk, Enrolled1, RemovedOk, DeviceTypes, Unique
    <3>2. CASE o # d
      BY <1>0, <2>1, <3>2, DeviceUntouched DEF DeviceTypes
    <3> QED BY <3>1, <3>2
  <2>5. ASSUME NEW e \in Edits PROVE EditOk(e)'
    BY <1>0, <2>1, EditStays DEF DeviceTypes
  <2>6. AliasesAreUnique'
    BY <1>0, <2>1 DEF AliasesAreUnique, Present, DeviceTypes
  <2> QED BY <2>3, <2>4, <2>5, <2>6 DEF DeviceInv
<1>2. ASSUME NEW d \in DeviceIds, NEW k \in DeviceKeys, Enroll(d, k) PROVE DeviceInv'
  <2>1. /\ enrollment[d] = "fresh"
        /\ Present(d) /\ device[d].status # "revoked"
        /\ enrollment' = [enrollment EXCEPT ![d] = "used"]
        /\ device' = [device EXCEPT ![d].status = "offline", ![d].key = k]
        /\ enrolledWith' = [enrolledWith EXCEPT ![d] = @ \cup {k}]
        /\ UNCHANGED <<linked, edit, job, putBack>>
    BY <1>2 DEF Enroll
  <2>2. enrolledWith[d] = {}
    BY <1>0, <2>1 DEF DeviceOk, Enrolled1
  <2>4. enrolledWith'[d] = {k}
    BY <1>0, <2>1, <2>2 DEF DeviceTypes
  <2>5. /\ device'[d].status = "offline" /\ device'[d].key = k /\ device'[d].alias = device[d].alias
        /\ \A o \in DeviceIds : o # d => device'[o] = device[o] /\ enrolledWith'[o] = enrolledWith[o]
                                         /\ enrollment'[o] = enrollment[o]
        /\ enrollment'[d] = "used"
    BY <1>0, <2>1 DEF DeviceTypes, DeviceRows
  <2>6. DeviceTypes'
    <3>1. device' \in [DeviceIds -> DeviceRows]
      <4>1. device' = [o \in DeviceIds |-> device'[o]]
        BY <1>0, <2>1 DEF DeviceTypes
      <4>2. device'[d] = [device[d] EXCEPT !.status = "offline", !.key = k]
        BY <1>0, <2>1 DEF DeviceTypes, DeviceRows
      <4>3. device'[d] \in DeviceRows
        <5>1. PICK r \in DeviceRows : r = device[d]
          BY <1>0 DEF DeviceTypes
        <5>2. [[r EXCEPT !.status = "offline"] EXCEPT !.key = k] \in DeviceRows
          BY DEF DeviceRows
        <5> QED BY <4>2, <5>1, <5>2
      <4> QED BY <1>0, <2>5, <4>1, <4>3 DEF DeviceTypes
    <3>2. enrolledWith' \in [DeviceIds -> SUBSET DeviceKeys]
      BY <1>0, <2>1 DEF DeviceTypes
    <3> QED BY <1>0, <2>1, <3>1, <3>2 DEF DeviceTypes
  <2>7. ASSUME NEW o \in DeviceIds PROVE DeviceOk(o)'
    <3>1. CASE o = d
      <4>1. linked[d] = NoKey
        BY <1>0, <2>2 DEF DeviceOk, Enrolled1, OwnKeys
      <4>2. k \in OwnKeys(d)' /\ NoKey \in OwnKeys(d)'
        BY <2>4 DEF OwnKeys
      <4> QED BY <2>1, <2>4, <2>5, <3>1, <4>1, <4>2
              DEF DeviceOk, LinkedOk, Enrolled1, RemovedOk, Unique
    <3>2. CASE o # d
      BY <1>0, <2>1, <2>5, <3>2, DeviceUntouched
    <3> QED BY <3>1, <3>2
  <2>8. ASSUME NEW e \in Edits PROVE EditOk(e)'
    BY <1>0, <2>1, <2>2, <2>5, EditStays
  <2>9. AliasesAreUnique'
    BY <1>0, <2>1, <2>5, AliasesStay DEF Present
  <2> QED BY <2>6, <2>7, <2>8, <2>9 DEF DeviceInv
<1>3. ASSUME NEW d \in DeviceIds, PruneEnrollment(d) PROVE DeviceInv'
  <2>1. /\ enrollment[d] \in {"fresh", "used"}
        /\ enrollment' = [enrollment EXCEPT ![d] = "gone"]
        /\ UNCHANGED <<device, linked, edit, job, enrolledWith, putBack>>
    BY <1>3 DEF PruneEnrollment
  <2>2. DeviceTypes'
    BY <1>0, <2>1 DEF DeviceTypes
  <2>3. ASSUME NEW o \in DeviceIds PROVE DeviceOk(o)'
    BY <1>0, <2>1, DeviceUntouched DEF DeviceTypes
  <2>4. ASSUME NEW e \in Edits PROVE EditOk(e)'
    BY <1>0, <2>1, EditStays
  <2>5. AliasesAreUnique'
    BY <1>0, <2>1, AliasesStay DEF Present
  <2> QED BY <2>2, <2>3, <2>4, <2>5 DEF DeviceInv
<1>4. ASSUME NEW e \in Edits, NEW d \in DeviceIds, StartEdit(e, d) PROVE DeviceInv'
  <2>1. /\ Present(d)
        /\ edit' = [edit EXCEPT ![e] = [of |-> d, row |-> device[d]]]
        /\ UNCHANGED <<device, enrollment, linked, job, enrolledWith, putBack>>
    BY <1>4 DEF StartEdit
  <2>2. DeviceTypes'
    BY <1>0, <2>1 DEF DeviceTypes
  <2>3. ASSUME NEW f \in Edits PROVE EditOk(f)'
    <3>1. CASE f = e
      <4>1. edit'[e].of = d /\ edit'[e].row = device[d]
        BY <1>0, <2>1 DEF DeviceTypes
      <4>2. device[d].key \in OwnKeys(d)
        BY <1>0 DEF DeviceOk, Enrolled1
      <4> QED BY <2>1, <3>1, <4>1, <4>2 DEF EditOk, OwnKeys, Present
    <3>2. CASE f # e
      BY <1>0, <2>1, <3>2, EditStays DEF DeviceTypes
    <3> QED BY <3>1, <3>2
  <2> QED BY <1>0, <2>1, <2>2, <2>3
          DEF DeviceInv, DeviceOk, LinkedOk, Enrolled1, RemovedOk, OwnKeys, AliasesAreUnique, Present
\* What a PATCH writes back is older than the row, but of the same device.
<1>5. ASSUME NEW e \in Edits, FinishEdit(e) PROVE DeviceInv'
  <2>0. edit[e] # NoEdit
    BY <1>5 DEF FinishEdit
  <2>1. PICK d \in DeviceIds, row \in DeviceRows :
          /\ d = edit[e].of /\ row = edit[e].row
          /\ device' = IF Present(d) THEN [device EXCEPT ![d] = row] ELSE device
          /\ edit' = [edit EXCEPT ![e] = NoEdit]
          /\ putBack' = putBack \cup {o \in DeviceIds :
                          linked[o] # NoKey /\ device'[o].status # device[o].status}
          /\ UNCHANGED <<enrollment, linked, job, enrolledWith>>
    BY <1>0, <1>5 DEF FinishEdit, UpdateRow, EditOk, DeviceTypes
  <2>2. /\ row.status \notin {"none", "removed"}
        /\ row.alias = device[d].alias
        /\ row.key \in OwnKeys(d)
    BY <1>0, <2>0, <2>1 DEF EditOk
  <2>3. /\ \A o \in DeviceIds : o # d => device'[o] = device[o]
        /\ device'[d] = device[d] \/ (Present(d) /\ device'[d] = row)
    BY <1>0, <2>1, <2>2 DEF DeviceTypes
  <2>4. DeviceTypes'
    <3>1. edit' \in [Edits -> [of : DeviceIds \cup {"none"}, row : DeviceRows]]
      BY <1>0, <2>1 DEF DeviceTypes, NoEdit, NoDevice, DeviceRows
    <3> QED BY <1>0, <2>1, <2>2, <3>1 DEF DeviceTypes
  <2>5. ASSUME NEW o \in DeviceIds PROVE DeviceOk(o)'
    <3>1. CASE device'[o] = device[o]
      BY <1>0, <2>1, <3>1, DeviceUntouched
    <3>2. CASE o = d /\ Present(d) /\ device'[d] = row
      <4>1. OwnKeys(d)' = OwnKeys(d)
        BY <2>1 DEF OwnKeys
      <4> QED BY <1>0, <2>1, <2>2, <3>2, <4>1
              DEF DeviceOk, LinkedOk, Enrolled1, RemovedOk, Present
    <3> QED BY <2>3, <3>1, <3>2
  <2>6. \A o \in DeviceIds : device[o].status # "none" =>
          device'[o].status # "none" /\ device'[o].alias = device[o].alias
    BY <2>2, <2>3
  <2>7. ASSUME NEW f \in Edits PROVE EditOk(f)'
    <3>1. CASE f = e
      BY <1>0, <2>1, <3>1 DEF EditOk, DeviceTypes
    <3>2. CASE f # e
      BY <1>0, <2>1, <2>6, <3>2, EditStays DEF DeviceTypes
    <3> QED BY <3>1, <3>2
  <2>8. AliasesAreUnique'
    BY <1>0, <2>2, <2>3, AliasesStay DEF Present
  <2> QED BY <2>4, <2>5, <2>7, <2>8 DEF DeviceInv
<1>6. ASSUME NEW d \in DeviceIds, RevokeDevice(d) PROVE DeviceInv'
  <2>1. /\ Present(d)
        /\ device' = [device EXCEPT ![d].status = "revoked"]
        /\ linked' = [linked EXCEPT ![d] = NoKey]
        /\ putBack' = putBack \ {d}
        /\ UNCHANGED <<enrollment, edit, job, enrolledWith>>
    BY <1>6 DEF RevokeDevice
  <2>2. DeviceTypes'
    <3>1. device' \in [DeviceIds -> DeviceRows]
      BY <1>0, <2>1, StatusWritten
    <3> QED BY <1>0, <2>1, <3>1 DEF DeviceTypes
  <2>3. \A o \in DeviceIds :
          /\ device'[o].alias = device[o].alias /\ device'[o].key = device[o].key
          /\ device'[o].status = IF o = d THEN "revoked" ELSE device[o].status
          /\ linked'[o] = IF o = d THEN NoKey ELSE linked[o]
    <3>1. \A o \in DeviceIds :
            /\ device'[o].alias = device[o].alias /\ device'[o].key = device[o].key
            /\ device'[o].status = IF o = d THEN "revoked" ELSE device[o].status
      BY <1>0, <2>1, StatusWritten
    <3>2. \A o \in DeviceIds : linked'[o] = IF o = d THEN NoKey ELSE linked[o]
      BY <1>0, <2>1 DEF DeviceTypes
    <3> QED BY <3>1, <3>2
  <2>4. ASSUME NEW o \in DeviceIds PROVE DeviceOk(o)'
    <3>1. OwnKeys(o)' = OwnKeys(o) /\ NoKey \in OwnKeys(o)
      BY <2>1 DEF OwnKeys
    <3> QED BY <1>0, <2>1, <2>3, <3>1
            DEF DeviceOk, LinkedOk, Enrolled1, RemovedOk, Present
  <2>5. ASSUME NEW e \in Edits PROVE EditOk(e)'
    BY <1>0, <2>1, <2>3, EditStays
  <2>6. AliasesAreUnique'
    BY <1>0, <2>1, <2>3, AliasesStay DEF Present
  <2> QED BY <2>2, <2>4, <2>5, <2>6 DEF DeviceInv
\* The row, its token and its actions go in one turn, and its connection unless the
\* row said revoked: then there is none, but after a PATCH.
<1>7. ASSUME NEW d \in DeviceIds, RemoveDevice(d) PROVE DeviceInv'
  <2>1. /\ Present(d)
        /\ device' = [device EXCEPT ![d].status = "removed"]
        /\ enrollment' = [enrollment EXCEPT ![d] = "gone"]
        /\ job' = [j \in Jobs |-> IF job[j].of = d THEN [job[j] EXCEPT !.row = "gone"] ELSE job[j]]
        /\ linked' = IF device[d].status = "revoked" THEN linked ELSE [linked EXCEPT ![d] = NoKey]
        /\ UNCHANGED <<edit, enrolledWith, putBack>>
    BY <1>7 DEF RemoveDevice, Removed, EndService
  <2>2. DeviceTypes'
    <3>1. device' \in [DeviceIds -> DeviceRows]
      BY <1>0, <2>1, StatusWritten
    <3> QED BY <1>0, <2>1, <3>1 DEF DeviceTypes
  <2>3. \A o \in DeviceIds :
          /\ device'[o].alias = device[o].alias /\ device'[o].key = device[o].key
          /\ device'[o].status = IF o = d THEN "removed" ELSE device[o].status
          /\ linked'[o] = IF o = d /\ device[d].status # "revoked" THEN NoKey ELSE linked[o]
          /\ enrollment'[o] = IF o = d THEN "gone" ELSE enrollment[o]
    <3>1. \A o \in DeviceIds :
            /\ linked'[o] = IF o = d /\ device[d].status # "revoked" THEN NoKey ELSE linked[o]
            /\ enrollment'[o] = IF o = d THEN "gone" ELSE enrollment[o]
      BY <1>0, <2>1 DEF DeviceTypes
    <3>2. \A o \in DeviceIds :
            /\ device'[o].alias = device[o].alias /\ device'[o].key = device[o].key
            /\ device'[o].status = IF o = d THEN "removed" ELSE device[o].status
      BY <1>0, <2>1, StatusWritten
    <3> QED BY <3>1, <3>2
  <2>4. \A j \in Jobs : /\ job'[j].of = job[j].of
                        /\ job[j].of = d => job'[j].row = "gone"
                        /\ job[j].row = "gone" => job'[j].row = "gone"
    BY <1>0, <2>1 DEF DeviceTypes
  <2>5. ASSUME NEW o \in DeviceIds PROVE DeviceOk(o)'
    <3>1. OwnKeys(o)' = OwnKeys(o) /\ NoKey \in OwnKeys(o)
      BY <2>1 DEF OwnKeys
    <3>2. Enrolled1(o)'
      BY <1>0, <2>1, <2>3, <3>1 DEF DeviceOk, Enrolled1, Present
    <3>3. LinkedOk(o)'
      BY <1>0, <2>1, <2>3 DEF DeviceOk, LinkedOk
    <3>4. RemovedOk(o)'
      BY <1>0, <2>3, <2>4 DEF DeviceOk, RemovedOk
    <3> QED BY <3>2, <3>3, <3>4 DEF DeviceOk
  <2>6. ASSUME NEW e \in Edits PROVE EditOk(e)'
    BY <1>0, <2>1, <2>3, EditStays
  <2>7. AliasesAreUnique'
    BY <1>0, <2>1, <2>3, AliasesStay DEF Present
  <2> QED BY <2>2, <2>5, <2>6, <2>7 DEF DeviceInv
\* A hello proves the key of the row, which is the key of the enrollment.
<1>8. ASSUME NEW d \in DeviceIds, NEW k \in DeviceKeys, Link(d, k) PROVE DeviceInv'
  <2>1. /\ Present(d) /\ device[d].key = k
        /\ linked' = [linked EXCEPT ![d] = k]
        /\ device' = [device EXCEPT ![d].status = "online"]
        /\ putBack' = putBack \ {d}
        /\ UNCHANGED <<enrollment, edit, job, enrolledWith>>
    BY <1>8 DEF Link
  <2>2. DeviceTypes'
    <3>1. device' \in [DeviceIds -> DeviceRows]
      BY <1>0, <2>1, StatusWritten
    <3> QED BY <1>0, <2>1, <3>1 DEF DeviceTypes
  <2>3. \A o \in DeviceIds :
          /\ device'[o].alias = device[o].alias /\ device'[o].key = device[o].key
          /\ device'[o].status = IF o = d THEN "online" ELSE device[o].status
          /\ linked'[o] = IF o = d THEN k ELSE linked[o]
    <3>1. \A o \in DeviceIds :
            /\ device'[o].alias = device[o].alias /\ device'[o].key = device[o].key
            /\ device'[o].status = IF o = d THEN "online" ELSE device[o].status
      BY <1>0, <2>1, StatusWritten
    <3>2. \A o \in DeviceIds : linked'[o] = IF o = d THEN k ELSE linked[o]
      BY <1>0, <2>1 DEF DeviceTypes
    <3> QED BY <3>1, <3>2
  <2>4. ASSUME NEW o \in DeviceIds PROVE DeviceOk(o)'
    <3>1. OwnKeys(o)' = OwnKeys(o)
      BY <2>1 DEF OwnKeys
    <3> QED BY <1>0, <2>1, <2>3, <3>1
            DEF DeviceOk, LinkedOk, Enrolled1, RemovedOk, Present
  <2>5. ASSUME NEW e \in Edits PROVE EditOk(e)'
    BY <1>0, <2>1, <2>3, EditStays
  <2>6. AliasesAreUnique'
    BY <1>0, <2>1, <2>3, AliasesStay DEF Present
  <2> QED BY <2>2, <2>4, <2>5, <2>6 DEF DeviceInv
<1>9. ASSUME NEW d \in DeviceIds, Unlink(d) PROVE DeviceInv'
  <2>1. /\ linked' = [linked EXCEPT ![d] = NoKey]
        /\ device' = device \/ (Present(d) /\ device' = [device EXCEPT ![d].status = "offline"])
        /\ putBack' = putBack \ {d}
        /\ UNCHANGED <<enrollment, edit, job, enrolledWith>>
    BY <1>9 DEF Unlink
  <2>2. DeviceTypes'
    <3>1. device' \in [DeviceIds -> DeviceRows]
      <4>1. CASE device' = device
        BY <1>0, <4>1 DEF DeviceTypes
      <4>2. CASE device' = [device EXCEPT ![d].status = "offline"]
        BY <1>0, <4>2, StatusWritten
      <4> QED BY <2>1, <4>1, <4>2
    <3> QED BY <1>0, <2>1, <3>1 DEF DeviceTypes
  <2>3. \A o \in DeviceIds :
          /\ device'[o].alias = device[o].alias /\ device'[o].key = device[o].key
          /\ \/ device'[o].status = device[o].status
             \/ Present(o) /\ o = d /\ device'[o].status = "offline"
          /\ linked'[o] = IF o = d THEN NoKey ELSE linked[o]
    <3>1. \A o \in DeviceIds : linked'[o] = IF o = d THEN NoKey ELSE linked[o]
      BY <1>0, <2>1 DEF DeviceTypes
    <3>2. CASE device' = device
      BY <3>1, <3>2
    <3>3. CASE Present(d) /\ device' = [device EXCEPT ![d].status = "offline"]
      <4>1. \A o \in DeviceIds :
              /\ device'[o].alias = device[o].alias /\ device'[o].key = device[o].key
              /\ device'[o].status = IF o = d THEN "offline" ELSE device[o].status
        BY <1>0, <3>3, StatusWritten
      <4> QED BY <3>1, <3>3, <4>1
    <3> QED BY <2>1, <3>2, <3>3
  <2>4. ASSUME NEW o \in DeviceIds PROVE DeviceOk(o)'
    <3>1. OwnKeys(o)' = OwnKeys(o) /\ NoKey \in OwnKeys(o)
      BY <2>1 DEF OwnKeys
    <3> QED BY <1>0, <2>1, <2>3, <3>1
            DEF DeviceOk, LinkedOk, Enrolled1, RemovedOk, Present
  <2>5. ASSUME NEW e \in Edits PROVE EditOk(e)'
    BY <1>0, <2>1, <2>3, EditStays
  <2>6. AliasesAreUnique'
    BY <1>0, <2>1, <2>3, AliasesStay DEF Present
  <2> QED BY <2>2, <2>4, <2>5, <2>6 DEF DeviceInv
\* Actions start on devices that are present, and leave no row a removal took.
<1>10. ASSUME NEW j \in Jobs, NEW d \in DeviceIds, StartJob(j, d) PROVE DeviceInv'
  <2>1. /\ Present(d)
        /\ job' = [job EXCEPT ![j] = [of |-> d, row |-> "sent", pending |-> TRUE]]
        /\ UNCHANGED <<device, enrollment, linked, edit, enrolledWith, putBack>>
    BY <1>10 DEF StartJob
  <2>2. DeviceTypes'
    BY <1>0, <2>1 DEF DeviceTypes
  <2>3. ASSUME NEW o \in DeviceIds PROVE DeviceOk(o)'
    BY <1>0, <2>1 DEF DeviceOk, LinkedOk, Enrolled1, RemovedOk, OwnKeys, Present, DeviceTypes
  <2> QED BY <1>0, <2>1, <2>2, <2>3 DEF DeviceInv, EditOk, OwnKeys, AliasesAreUnique, Present
<1>11. ASSUME NEW j \in Jobs, FinishJob(j) PROVE DeviceInv'
  <2>1. /\ job' = [job EXCEPT ![j].pending = FALSE,
                              ![j].row = IF job[j].row = "gone" THEN "gone" ELSE "over"]
        /\ UNCHANGED <<device, enrollment, linked, edit, enrolledWith, putBack>>
    BY <1>11 DEF FinishJob
  <2>2. \A i \in Jobs : job'[i].of = job[i].of /\ (job[i].row = "gone" => job'[i].row = "gone")
    BY <1>0, <2>1 DEF DeviceTypes
  <2>3. DeviceTypes'
    <3>1. PICK over \in {"gone", "over"} : over = IF job[j].row = "gone" THEN "gone" ELSE "over"
      OBVIOUS
    <3>2. \A i \in Jobs : job'[i] \in [of : DeviceIds \cup {"none"},
                                      row : {"none", "sent", "over", "gone"}, pending : BOOLEAN]
      BY <1>0, <2>1, <3>1 DEF DeviceTypes
    <3>3. job' = [i \in Jobs |-> job'[i]]
      BY <1>0, <2>1 DEF DeviceTypes
    <3> QED BY <1>0, <2>1, <3>2, <3>3 DEF DeviceTypes
  <2>4. ASSUME NEW o \in DeviceIds PROVE DeviceOk(o)'
    BY <1>0, <2>1, <2>2, DeviceUntouched
  <2> QED BY <1>0, <2>1, <2>3, <2>4 DEF DeviceInv, EditOk, OwnKeys, AliasesAreUnique, Present
<1>12. CASE RestartDevices
  <2>1. /\ linked' = [d \in DeviceIds |-> NoKey]
        /\ edit' = [e \in Edits |-> NoEdit]
        /\ job' = [j \in Jobs |-> [job[j] EXCEPT !.pending = FALSE]]
        /\ putBack' = {}
        /\ UNCHANGED <<device, enrollment, enrolledWith>>
    BY <1>12 DEF RestartDevices
  <2>2. DeviceTypes'
    BY <1>0, <2>1 DEF DeviceTypes, NoEdit, NoDevice, DeviceRows
  <2>3. \A j \in Jobs : job'[j].of = job[j].of /\ job'[j].row = job[j].row
    BY <1>0, <2>1 DEF DeviceTypes
  <2>4. ASSUME NEW o \in DeviceIds PROVE DeviceOk(o)'
    BY <1>0, <2>1, <2>3, DeviceUntouched
  <2>5. \A e \in Edits : EditOk(e)'
    BY <2>1 DEF EditOk
  <2> QED BY <1>0, <2>1, <2>2, <2>4, <2>5 DEF DeviceInv, AliasesAreUnique, Present
<1>13. CASE UNCHANGED deviceVars
  BY <1>0, <1>13
     DEF DeviceInv, DeviceTypes, DeviceOk, LinkedOk, Enrolled1, RemovedOk, EditOk, OwnKeys,
         AliasesAreUnique, Present, deviceVars
<1> QED BY <1>1, <1>2, <1>3, <1>4, <1>5, <1>6, <1>7, <1>8, <1>9, <1>10, <1>11, <1>12, <1>13
        DEF DevicesNext

\* A device has one life: one enrollment, with a key that no PATCH of an older row
\* takes from it, and after its removal nothing of it but the connection of a row
\* that a PATCH had changed the status of, for any number of devices, names, PATCHes
\* and actions.
THEOREM OneLifeCorrect == DevicesSpec => []OneLife
<1>1. DeviceInv => OneLife
  <2> SUFFICES ASSUME DeviceInv PROVE OneLife
    OBVIOUS
  <2>1. OneEnrollment
    <3> SUFFICES ASSUME NEW d \in DeviceIds
                 PROVE  /\ Cardinality(enrolledWith[d]) <= 1
                        /\ {linked[d], device[d].key} \ {NoKey} \subseteq enrolledWith[d]
      BY DEF OneEnrollment
    <3>1. Enrolled1(d)
      BY DEF DeviceInv, DeviceOk
    <3> QED BY <3>1, UniqueCardinality DEF Enrolled1, OwnKeys
  <2>2. RemovedLeavesNothing
    BY DEF DeviceInv, DeviceOk, LinkedOk, RemovedOk, AliasesAreUnique, RemovedLeavesNothing
  <2> QED BY <2>1, <2>2 DEF OneLife
<1> QED BY InitDeviceInv, NextDeviceInv, <1>1, PTL DEF DevicesSpec

----------------------------------------------------------------------------
(* Repeated messages *)

LastAccepted(m) == acceptedAt[m][Len(acceptedAt[m])]

WindowTypes ==
  /\ message \in [Messages -> [kind : Kinds \cup {"none"}, stamp : Nat, version : Nat]]
  /\ acceptedAt \in [Messages -> Seq(Nat)]
  /\ version \in Nat
  /\ windowClock \in Nat

\* What a receiver still knows of a message it accepted: the nonce, or that it is
\* no longer good, or by the version that it was applied.
HelloKnown(m) ==
  windowClock >= LastAccepted(m) + NonceTtl
    \/ \E e \in helloSeen : e.id = m /\ e.until = LastAccepted(m) + NonceTtl
ActionKnown(m) ==
  windowClock >= message[m].stamp \/ Has(actionSeen, m)
PolicyKnown(m) == version >= message[m].version /\ Len(acceptedAt[m]) = 1

Known(m) ==
  acceptedAt[m] # <<>> =>
    /\ message[m].kind \in Kinds
    /\ message[m].kind = "hello" => HelloKnown(m)
    /\ message[m].kind = "action" => ActionKnown(m)
    /\ message[m].kind = "policy" => PolicyKnown(m)

AcceptedInOrder(m) ==
  acceptedAt[m] # <<>> => acceptedAt[m][1] <= LastAccepted(m) /\ LastAccepted(m) <= windowClock

\* What the property says of one message.
RepeatKnown(m) ==
  Len(acceptedAt[m]) > 1 =>
    \/ /\ message[m].kind = "hello" /\ message[m].stamp >= acceptedAt[m][1]
       /\ LastAccepted(m) >= acceptedAt[m][1] + NonceTtl
    \/ message[m].kind = "action" /\ LastAccepted(m) = message[m].stamp

(***************************************************************************)
(* The inductive invariant: an accepted message is known to its receiver,  *)
(* or it is good no longer than now.                                       *)
(***************************************************************************)
ActionsSeen ==
  \A e \in actionSeen :
    e.id \in Messages /\ message[e.id].kind = "action" /\ e.until = message[e.id].stamp

WindowInv ==
  /\ WindowTypes
  /\ ActionsSeen
  /\ \A m \in Messages : Known(m) /\ AcceptedInOrder(m) /\ RepeatKnown(m)

LEMMA InitWindowInv == WindowInit => WindowInv
<1> SUFFICES ASSUME WindowInit PROVE WindowInv
  OBVIOUS
<1>1. message \in [Messages -> [kind : Kinds \cup {"none"}, stamp : Nat, version : Nat]]
  BY DEF WindowInit, NotIssued
<1>2. acceptedAt \in [Messages -> Seq(Nat)] /\ \A m \in Messages : acceptedAt[m] = <<>>
  BY DEF WindowInit
<1>3. \A m \in Messages : Len(acceptedAt[m]) = 0
  BY <1>2
<1> QED BY <1>1, <1>2, <1>3 DEF WindowInit, WindowInv, WindowTypes, ActionsSeen, Known, AcceptedInOrder, RepeatKnown

\* What is remembered is there, and what was there is, but for the oldest.
LEMMA Remembered ==
  ASSUME NEW seen, NEW m, NEW until
  PROVE  /\ seen \subseteq Remember(seen, m, until)
         /\ \E e \in Remember(seen, m, until) : e.id = m /\ e.until = until
         /\ Has(RememberCapped(seen, m, until), m)
         /\ \A e \in RememberCapped(seen, m, until) : e \in seen \/ (e.id = m /\ e.until = until)
<1>1. PICK entry : entry = [id |-> m, until |-> until, turn |-> Turn(seen)]
  OBVIOUS
<1>2. entry.id = m /\ entry.until = until /\ Remember(seen, m, until) = seen \cup {entry}
  BY <1>1 DEF Remember
<1>3. PICK kept, last : /\ kept \subseteq seen /\ last.id = m /\ last.until = until
                        /\ RememberCapped(seen, m, until) = kept \cup {last}
  <2>1. PICK kept : kept = IF Cardinality(seen) < MaxSeen THEN seen ELSE WithoutOldest(seen)
    OBVIOUS
  <2>2. PICK last : last = [id |-> m, until |-> until, turn |-> Turn(kept)]
    OBVIOUS
  <2>3. kept \subseteq seen
    BY <2>1 DEF WithoutOldest
  <2>4. RememberCapped(seen, m, until) = kept \cup {last}
    BY <2>1, <2>2 DEF RememberCapped, Remember
  <2> QED BY <2>2, <2>3, <2>4
<1> QED BY <1>2, <1>3 DEF Has

\* A message forgotten in history is as if it had not come.
LEMMA Forgotten ==
  ASSUME NEW m \in Messages, acceptedAt'[m] = <<>>
  PROVE  Known(m)' /\ AcceptedInOrder(m)' /\ RepeatKnown(m)'
<1>1. Len(acceptedAt'[m]) = 0
  OBVIOUS
<1> QED BY <1>1 DEF Known, AcceptedInOrder, RepeatKnown

\* A message is known as long as what its receiver keeps of it is not pruned
\* before its time.
LEMMA StillKnown ==
  ASSUME WindowInv, NEW m \in Messages,
         message'[m] = message[m], acceptedAt'[m] = acceptedAt[m],
         windowClock' \in Nat, windowClock <= windowClock', version' \in Nat, version <= version',
         message[m].kind = "hello" =>
           \A e \in helloSeen : e.id = m /\ e.until > windowClock' => e \in helloSeen',
         message[m].kind = "action" /\ Has(actionSeen, m) =>
           Has(actionSeen', m) \/ windowClock' >= message[m].stamp
  PROVE  Known(m)' /\ AcceptedInOrder(m)' /\ RepeatKnown(m)'
<1> DEFINE a == acceptedAt[m]
<1>1. /\ windowClock \in Nat /\ version \in Nat /\ NonceTtl \in Nat
      /\ message[m].stamp \in Nat /\ message[m].version \in Nat
      /\ a \in Seq(Nat) /\ Known(m) /\ AcceptedInOrder(m) /\ RepeatKnown(m)
  BY WindowAssumption DEF WindowInv, WindowTypes
<1>2. a # <<>> => a[1] \in Nat /\ a[Len(a)] \in Nat /\ Len(a) \in Nat
  BY <1>1
<1>3. LastAccepted(m)' = LastAccepted(m)
  BY DEF LastAccepted
<1>4. RepeatKnown(m)'
  BY <1>1, <1>3 DEF RepeatKnown
<1>5. AcceptedInOrder(m)'
  BY <1>1, <1>2, <1>3 DEF AcceptedInOrder, LastAccepted
<1>6. ASSUME a # <<>>, message[m].kind = "hello" PROVE HelloKnown(m)'
  <2>1. HelloKnown(m) /\ LastAccepted(m) \in Nat
    BY <1>1, <1>2, <1>6 DEF Known, LastAccepted
  <2>2. CASE windowClock' >= LastAccepted(m) + NonceTtl
    BY <1>3, <2>2 DEF HelloKnown
  <2>3. CASE ~(windowClock' >= LastAccepted(m) + NonceTtl)
    <3>1. PICK e \in helloSeen : e.id = m /\ e.until = LastAccepted(m) + NonceTtl
      BY <1>1, <2>1, <2>3 DEF HelloKnown
    <3>2. e \in helloSeen'
      BY <1>1, <1>6, <2>1, <2>3, <3>1
    <3> QED BY <1>3, <3>1, <3>2 DEF HelloKnown
  <2> QED BY <2>2, <2>3
<1>7. ASSUME a # <<>>, message[m].kind = "action" PROVE ActionKnown(m)'
  BY <1>1, <1>7 DEF Known, ActionKnown, Has
<1>8. ASSUME a # <<>>, message[m].kind = "policy" PROVE PolicyKnown(m)'
  BY <1>1, <1>8 DEF Known, PolicyKnown
<1>9. Known(m)'
  BY <1>1, <1>6, <1>7, <1>8 DEF Known
<1> QED BY <1>4, <1>5, <1>9

\* What a message accepted now leaves in the history.
LEMMA AcceptedNow ==
  ASSUME WindowInv, NEW m \in Messages, acceptedAt'[m] = Append(acceptedAt[m], windowClock),
         windowClock' = windowClock
  PROVE  /\ acceptedAt'[m] \in Seq(Nat) /\ acceptedAt'[m] # <<>>
         /\ AcceptedInOrder(m)'
         /\ LastAccepted(m)' = windowClock
         /\ Len(acceptedAt'[m]) = Len(acceptedAt[m]) + 1
         /\ acceptedAt[m] = <<>> =>
              Len(acceptedAt'[m]) = 1 /\ acceptedAt'[m][1] = windowClock /\ RepeatKnown(m)'
         /\ acceptedAt[m] # <<>> => acceptedAt'[m][1] = acceptedAt[m][1] /\ LastAccepted(m) \in Nat
                                   /\ acceptedAt[m][1] \in Nat
<1>1. acceptedAt[m] \in Seq(Nat) /\ windowClock \in Nat
  BY DEF WindowInv, WindowTypes
<1>2. Len(acceptedAt[m]) \in Nat
  BY <1>1
<1>3. acceptedAt[m] = <<>> => Len(acceptedAt[m]) = 0
  OBVIOUS
<1>4. acceptedAt[m] # <<>> => 1 \in 1..Len(acceptedAt[m]) /\ Len(acceptedAt[m]) \in 1..Len(acceptedAt[m])
  BY <1>1, <1>2
<1>5. acceptedAt'[m] \in Seq(Nat) /\ Len(acceptedAt'[m]) = Len(acceptedAt[m]) + 1
      /\ acceptedAt'[m][Len(acceptedAt[m]) + 1] = windowClock
      /\ \A i \in 1..Len(acceptedAt[m]) : acceptedAt'[m][i] = acceptedAt[m][i]
  BY <1>1
<1>6. acceptedAt'[m] # <<>>
  BY <1>2, <1>5
<1>7. LastAccepted(m)' = windowClock
  BY <1>5 DEF LastAccepted
<1>8. acceptedAt[m] # <<>> => /\ acceptedAt'[m][1] = acceptedAt[m][1] /\ acceptedAt[m][1] \in Nat
                              /\ LastAccepted(m) \in Nat
                              /\ acceptedAt[m][1] <= LastAccepted(m) /\ LastAccepted(m) <= windowClock
  BY <1>1, <1>4, <1>5 DEF LastAccepted, WindowInv, AcceptedInOrder
<1>9. AcceptedInOrder(m)'
  BY <1>1, <1>3, <1>5, <1>7, <1>8 DEF AcceptedInOrder
<1>10. ASSUME acceptedAt[m] = <<>> PROVE Len(acceptedAt'[m]) = 1 /\ RepeatKnown(m)'
  <2>1. PICK length : length = Len(acceptedAt'[m])
    OBVIOUS
  <2>2. length = 1
    BY <1>3, <1>5, <1>10, <2>1
  <2>3. ~(length > 1)
    BY <2>2
  <2> QED BY <2>1, <2>2, <2>3 DEF RepeatKnown
<1> QED BY <1>1, <1>2, <1>3, <1>5, <1>6, <1>7, <1>8, <1>9, <1>10

\* Accept appends to one history, and keeps or clears the others.
LEMMA AcceptKeeps ==
  ASSUME WindowInv, NEW m \in Messages, NEW before, NEW after, Accept(m, before, after)
  PROVE  /\ acceptedAt'[m] = Append(acceptedAt[m], windowClock)
         /\ \A n \in Messages \ {m} :
              acceptedAt'[n] = acceptedAt[n] \/ (acceptedAt'[n] = <<>> /\ Has(before, n) /\ ~Has(after, n))
         /\ \A n \in Messages \ {m} : acceptedAt'[n] = <<>> \/ ~Has(before, n) \/ Has(after, n)
         /\ acceptedAt' \in [Messages -> Seq(Nat)]
<1>1. acceptedAt \in [Messages -> Seq(Nat)] /\ windowClock \in Nat
  BY DEF WindowInv, WindowTypes
<1>2. /\ acceptedAt'[m] = Append(acceptedAt[m], windowClock)
      /\ \A n \in Messages \ {m} :
           acceptedAt'[n] = IF Has(before, n) /\ ~Has(after, n) THEN <<>> ELSE acceptedAt[n]
      /\ acceptedAt' = [n \in Messages |-> acceptedAt'[n]]
  BY DEF Accept
<1>3. ASSUME NEW n \in Messages PROVE acceptedAt'[n] \in Seq(Nat)
  <2>1. CASE n = m
    <3>1. acceptedAt[m] \in Seq(Nat) /\ windowClock \in Nat
      BY <1>1
    <3>2. Append(acceptedAt[m], windowClock) \in Seq(Nat)
      BY <3>1
    <3> QED BY <1>2, <2>1, <3>2
  <2>2. CASE n # m
    <3>1. acceptedAt[n] \in Seq(Nat) /\ <<>> \in Seq(Nat)
      BY <1>1
    <3> QED BY <1>2, <2>2, <3>1
  <2> QED BY <2>1, <2>2
<1>4. acceptedAt' \in [Messages -> Seq(Nat)]
  BY <1>2, <1>3
<1> QED BY <1>2, <1>4

LEMMA IssueInv ==
  ASSUME WindowInv, NEW m \in Messages, NEW kind \in Kinds, NEW stamp \in Nat, NEW v \in Nat,
         Issue(m, kind, stamp, v)
  PROVE  WindowInv'
<1>1. WindowTypes'
  <2>1. [kind |-> kind, stamp |-> stamp, version |-> v]
          \in [kind : Kinds \cup {"none"}, stamp : Nat, version : Nat]
    OBVIOUS
  <2> QED BY <2>1 DEF WindowInv, WindowTypes, Issue
<1>2. /\ \A n \in Messages \ {m} : message'[n] = message[n]
      /\ message[m] = NotIssued /\ NotIssued.kind = "none" /\ "none" \notin Kinds
  BY DEF Issue, NotIssued, Kinds, WindowInv, WindowTypes
<1>3. acceptedAt'[m] = <<>>
  BY <1>2 DEF Issue, WindowInv, Known
<1>4. Known(m)' /\ AcceptedInOrder(m)' /\ RepeatKnown(m)'
  BY <1>3, Forgotten
<1>5. ASSUME NEW n \in Messages \ {m} PROVE Known(n)' /\ AcceptedInOrder(n)' /\ RepeatKnown(n)'
  BY <1>1, <1>2, StillKnown DEF Issue, WindowInv, WindowTypes
<1>6. ActionsSeen'
  BY <1>2 DEF WindowInv, ActionsSeen, Issue, Kinds
<1> QED BY <1>1, <1>4, <1>5, <1>6 DEF WindowInv

LEMMA ReceiveHelloInv ==
  ASSUME WindowInv, NEW m \in Messages, ReceiveHello(m)
  PROVE  WindowInv'
<1> DEFINE seen == Prune(helloSeen)
<1>1. /\ message[m].kind = "hello" /\ windowClock <= message[m].stamp + NonceTtl
      /\ UNCHANGED <<message, policySeen, actionSeen, version, windowClock>>
      /\ windowClock \in Nat /\ version \in Nat /\ NonceTtl \in Nat /\ message[m].stamp \in Nat
      /\ acceptedAt \in [Messages -> Seq(Nat)]
  BY WindowAssumption DEF ReceiveHello, WindowInv, WindowTypes
<1>2. \A e \in helloSeen : e.until > windowClock => e \in seen
  BY DEF Prune
<1>3. CASE Has(seen, m)
  <2>1. helloSeen' = seen /\ UNCHANGED acceptedAt
    BY <1>3 DEF ReceiveHello
  <2>2. ASSUME NEW n \in Messages PROVE Known(n)' /\ AcceptedInOrder(n)' /\ RepeatKnown(n)'
    <3>1. /\ message'[n] = message[n] /\ acceptedAt'[n] = acceptedAt[n]
          /\ windowClock' \in Nat /\ windowClock <= windowClock'
          /\ version' \in Nat /\ version <= version'
          /\ Has(actionSeen, n) => Has(actionSeen', n)
      BY <1>1, <2>1
    <3>2. \A e \in helloSeen : e.until > windowClock' => e \in helloSeen'
      BY <1>1, <1>2, <2>1
    <3> QED BY <3>1, <3>2, StillKnown
  <2> QED BY <1>1, <2>1, <2>2 DEF WindowInv, WindowTypes, ActionsSeen
<1>4. CASE ~Has(seen, m)
  <2>1. helloSeen' = Remember(seen, m, Until(m)) /\ Accept(m, seen, helloSeen')
    BY <1>4 DEF ReceiveHello
  <2>2. /\ seen \subseteq helloSeen'
        /\ \E e \in helloSeen' : e.id = m /\ e.until = windowClock + NonceTtl
    BY <2>1, Remembered DEF Until
  <2>3. /\ acceptedAt'[m] = Append(acceptedAt[m], windowClock)
        /\ \A n \in Messages \ {m} : acceptedAt'[n] \in {acceptedAt[n], <<>>}
        /\ acceptedAt' \in [Messages -> Seq(Nat)]
    BY <2>1, AcceptKeeps
  <2>4. ASSUME NEW n \in Messages \ {m} PROVE Known(n)' /\ AcceptedInOrder(n)' /\ RepeatKnown(n)'
    <3>1. CASE acceptedAt'[n] = <<>>
      BY <3>1, Forgotten
    <3>2. CASE acceptedAt'[n] = acceptedAt[n]
      BY <1>1, <1>2, <2>2, <3>2, StillKnown
    <3> QED BY <2>3, <3>1, <3>2
  <2>5. Known(m)' /\ AcceptedInOrder(m)' /\ RepeatKnown(m)'
    <3>1. HelloKnown(m)'
      BY <1>1, <2>2, <2>3, AcceptedNow DEF HelloKnown
    <3>2. Known(m)'
      BY <1>1, <3>1 DEF Known, Kinds
    <3>3. acceptedAt[m] # <<>> => windowClock >= LastAccepted(m) + NonceTtl
      <4> SUFFICES ASSUME acceptedAt[m] # <<>> PROVE windowClock >= LastAccepted(m) + NonceTtl
        OBVIOUS
      <4>1. HelloKnown(m) /\ LastAccepted(m) \in Nat
        BY <1>1, <2>3, AcceptedNow DEF WindowInv, Known
      <4>2. ASSUME NEW e \in helloSeen, e.id = m, e.until = LastAccepted(m) + NonceTtl
            PROVE  ~(e.until > windowClock)
        BY <1>2, <1>4, <4>2 DEF Has
      <4> QED BY <1>1, <4>1, <4>2 DEF HelloKnown
    <3>4. /\ LastAccepted(m)' = windowClock /\ AcceptedInOrder(m)'
          /\ acceptedAt[m] = <<>> => RepeatKnown(m)'
          /\ acceptedAt[m] # <<>> => acceptedAt'[m][1] = acceptedAt[m][1] /\ LastAccepted(m) \in Nat
                                    /\ acceptedAt[m][1] \in Nat /\ acceptedAt[m][1] <= LastAccepted(m)
      BY <1>1, <2>3, AcceptedNow DEF WindowInv, AcceptedInOrder
    <3>5. RepeatKnown(m)'
      <4>1. CASE acceptedAt[m] = <<>>
        BY <3>4, <4>1
      <4>2. CASE acceptedAt[m] # <<>>
        BY <1>1, <3>3, <3>4, <4>2 DEF RepeatKnown
      <4> QED BY <4>1, <4>2
    <3> QED BY <3>2, <3>4, <3>5
  <2> QED BY <1>1, <2>3, <2>4, <2>5 DEF WindowInv, WindowTypes, ActionsSeen
<1> QED BY <1>3, <1>4

LEMMA ReceivePolicyInv ==
  ASSUME WindowInv, NEW m \in Messages, ReceivePolicy(m)
  PROVE  WindowInv'
<1>1. /\ message[m].kind = "policy" /\ UNCHANGED <<message, helloSeen, actionSeen, windowClock>>
      /\ windowClock \in Nat /\ version \in Nat /\ message[m].version \in Nat
      /\ acceptedAt \in [Messages -> Seq(Nat)]
  BY DEF ReceivePolicy, WindowInv, WindowTypes
<1>2. CASE UNCHANGED <<version, acceptedAt>>
  <2>1. ASSUME NEW n \in Messages PROVE Known(n)' /\ AcceptedInOrder(n)' /\ RepeatKnown(n)'
    BY <1>1, <1>2, StillKnown
  <2> QED BY <1>1, <1>2, <2>1 DEF WindowInv, WindowTypes, ActionsSeen
<1>3. CASE /\ message[m].version > version /\ version' = message[m].version
           /\ acceptedAt' = [acceptedAt EXCEPT ![m] = Append(@, windowClock)]
  <2>1. /\ acceptedAt'[m] = Append(acceptedAt[m], windowClock)
        /\ \A n \in Messages \ {m} : acceptedAt'[n] = acceptedAt[n]
    BY <1>1, <1>3
  <2>2. acceptedAt' \in [Messages -> Seq(Nat)]
    BY <1>1, <1>3, <2>1, AcceptedNow
  <2>3. ASSUME NEW n \in Messages \ {m} PROVE Known(n)' /\ AcceptedInOrder(n)' /\ RepeatKnown(n)'
    BY <1>1, <1>3, <2>1, StillKnown
  <2>4. acceptedAt[m] = <<>>
    BY <1>1, <1>3 DEF WindowInv, Known, PolicyKnown
  <2>5. Len(acceptedAt'[m]) = 1 /\ acceptedAt'[m][1] = windowClock /\ LastAccepted(m)' = windowClock
    BY <1>1, <2>1, <2>4, AcceptedNow
  <2>6. Known(m)' /\ AcceptedInOrder(m)' /\ RepeatKnown(m)'
    BY <1>1, <1>3, <2>5 DEF Known, Kinds, PolicyKnown, AcceptedInOrder, RepeatKnown
  <2> QED BY <1>1, <1>3, <2>2, <2>3, <2>6 DEF WindowInv, WindowTypes, ActionsSeen
<1> QED BY <1>2, <1>3 DEF ReceivePolicy

LEMMA ReceiveActionInv ==
  ASSUME WindowInv, NEW m \in Messages, ReceiveAction(m)
  PROVE  WindowInv'
<1> DEFINE seen == Prune(actionSeen)
<1>1. /\ message[m].kind = "action" /\ ~Has(actionSeen, m) /\ windowClock <= message[m].stamp
      /\ UNCHANGED <<message, helloSeen, policySeen, version, windowClock>>
      /\ windowClock \in Nat /\ version \in Nat /\ message[m].stamp \in Nat
      /\ actionSeen' = RememberCapped(seen, m, message[m].stamp)
      /\ Accept(m, seen, actionSeen')
  BY DEF ReceiveAction, WindowInv, WindowTypes
<1>2. /\ Has(actionSeen', m)
      /\ \A e \in actionSeen' : e \in actionSeen \/ (e.id = m /\ e.until = message[m].stamp)
  BY <1>1, Remembered DEF Prune
<1>3. /\ acceptedAt'[m] = Append(acceptedAt[m], windowClock)
      /\ \A n \in Messages \ {m} : acceptedAt'[n] \in {acceptedAt[n], <<>>}
      /\ \A n \in Messages \ {m} : acceptedAt'[n] = <<>> \/ ~Has(seen, n) \/ Has(actionSeen', n)
      /\ acceptedAt' \in [Messages -> Seq(Nat)]
  BY <1>1, AcceptKeeps
<1>4. ActionsSeen'
  BY <1>1, <1>2 DEF WindowInv, ActionsSeen
<1>5. ASSUME NEW n \in Messages \ {m} PROVE Known(n)' /\ AcceptedInOrder(n)' /\ RepeatKnown(n)'
  <2>1. CASE acceptedAt'[n] = <<>>
    BY <2>1, Forgotten
  <2>2. CASE acceptedAt'[n] = acceptedAt[n] /\ acceptedAt'[n] # <<>>
    <3>1. message[n].stamp \in Nat
      BY DEF WindowInv, WindowTypes
    <3>2. Has(actionSeen, n) => Has(seen, n) \/ windowClock >= message[n].stamp
      BY <1>1, <3>1 DEF WindowInv, ActionsSeen, Has, Prune
    <3>3. Has(actionSeen, n) => Has(actionSeen', n) \/ windowClock' >= message[n].stamp
      BY <1>1, <1>3, <2>2, <3>2
    <3> QED BY <1>1, <2>2, <3>3, StillKnown
  <2> QED BY <1>3, <2>1, <2>2
<1>6. Known(m)' /\ AcceptedInOrder(m)' /\ RepeatKnown(m)'
  <2>1. Known(m)'
    BY <1>1, <1>2 DEF Known, Kinds, ActionKnown
  <2>2. acceptedAt[m] # <<>> => windowClock = message[m].stamp
    BY <1>1 DEF WindowInv, Known, ActionKnown
  <2>3. /\ LastAccepted(m)' = windowClock /\ AcceptedInOrder(m)'
        /\ acceptedAt[m] = <<>> => RepeatKnown(m)'
    BY <1>1, <1>3, AcceptedNow
  <2>4. RepeatKnown(m)'
    BY <1>1, <2>2, <2>3 DEF RepeatKnown
  <2> QED BY <2>1, <2>3, <2>4
<1> QED BY <1>1, <1>3, <1>4, <1>5, <1>6 DEF WindowInv, WindowTypes

\* Cleanups, restarts and the clock.
LEMMA WindowsPass ==
  ASSUME WindowInv,
         \/ CleanupEphemeralState \/ RestartControlPlane \/ RestartAgent
         \/ WindowTick \/ UNCHANGED windowVars
  PROVE  WindowInv'
<1>1. /\ windowClock \in Nat /\ version \in Nat /\ acceptedAt \in [Messages -> Seq(Nat)]
      /\ \A n \in Messages : message[n].stamp \in Nat
  BY DEF WindowInv, WindowTypes
<1>2. CASE CleanupEphemeralState
  <2>1. ASSUME NEW n \in Messages PROVE Known(n)' /\ AcceptedInOrder(n)' /\ RepeatKnown(n)'
    BY <1>1, <1>2, StillKnown DEF CleanupEphemeralState, Prune
  <2> QED BY <1>2, <2>1 DEF CleanupEphemeralState, WindowInv, WindowTypes, ActionsSeen
<1>3. CASE RestartControlPlane
  <2>1. ASSUME NEW n \in Messages PROVE Known(n)' /\ AcceptedInOrder(n)' /\ RepeatKnown(n)'
    <3>1. CASE acceptedAt'[n] = <<>>
      BY <3>1, Forgotten
    <3>2. CASE acceptedAt'[n] # <<>>
      <4>1. message[n].kind # "hello" /\ acceptedAt'[n] = acceptedAt[n]
        BY <1>3, <3>2 DEF RestartControlPlane, Restarted
      <4> QED BY <1>1, <1>3, <4>1, StillKnown DEF RestartControlPlane
    <3> QED BY <3>1, <3>2
  <2>2. acceptedAt' \in [Messages -> Seq(Nat)]
    BY <1>1, <1>3 DEF RestartControlPlane, Restarted
  <2> QED BY <1>3, <2>1, <2>2 DEF RestartControlPlane, WindowInv, WindowTypes, ActionsSeen
<1>4. CASE RestartAgent
  <2>1. ASSUME NEW n \in Messages PROVE Known(n)' /\ AcceptedInOrder(n)' /\ RepeatKnown(n)'
    <3>1. CASE acceptedAt'[n] = <<>>
      BY <3>1, Forgotten
    <3>2. CASE acceptedAt'[n] # <<>>
      <4>1. message[n].kind # "action" /\ acceptedAt'[n] = acceptedAt[n]
        BY <1>4, <3>2 DEF RestartAgent, Restarted
      <4> QED BY <1>1, <1>4, <4>1, StillKnown DEF RestartAgent
    <3> QED BY <3>1, <3>2
  <2>2. acceptedAt' \in [Messages -> Seq(Nat)]
    BY <1>1, <1>4 DEF RestartAgent, Restarted
  <2> QED BY <1>4, <2>1, <2>2 DEF RestartAgent, WindowInv, WindowTypes, ActionsSeen
<1>5. CASE WindowTick
  <2>1. ASSUME NEW n \in Messages PROVE Known(n)' /\ AcceptedInOrder(n)' /\ RepeatKnown(n)'
    BY <1>1, <1>5, StillKnown DEF WindowTick
  <2> QED BY <1>1, <1>5, <2>1 DEF WindowTick, WindowInv, WindowTypes, ActionsSeen
<1>6. CASE UNCHANGED windowVars
  <2>1. ASSUME NEW n \in Messages PROVE Known(n)' /\ AcceptedInOrder(n)' /\ RepeatKnown(n)'
    BY <1>1, <1>6, StillKnown DEF windowVars
  <2> QED BY <1>1, <1>6, <2>1 DEF windowVars, WindowInv, WindowTypes, ActionsSeen
<1> QED BY <1>2, <1>3, <1>4, <1>5, <1>6

\* A receiver that runs, and has not dropped a message for others, takes it twice
\* only at the very ends of its windows, and never a policy update, for any
\* messages, windows and limits (hasReplayedHello, validatePolicyUpdate,
\* acceptAgentAction, rememberAction and pruneNonceWindow).
THEOREM RepeatsCorrect == WindowSpec => []RepeatsAreKnown
<1>1. WindowInv /\ [WindowNext]_windowVars => WindowInv'
  <2>1. 0..WindowMaxClock \subseteq Nat /\ 1..MaxVersion \subseteq Nat /\ 0 \in Nat
        /\ {"hello", "policy", "action"} = Kinds
    BY WindowAssumption DEF Kinds
  <2> QED BY <2>1, IssueInv, ReceiveHelloInv, ReceivePolicyInv, ReceiveActionInv, WindowsPass DEF WindowNext
<1>2. WindowInv => RepeatsAreKnown
  BY DEF WindowInv, RepeatKnown, LastAccepted, RepeatsAreKnown
<1> QED BY InitWindowInv, <1>1, <1>2, PTL DEF WindowSpec
=============================================================================
