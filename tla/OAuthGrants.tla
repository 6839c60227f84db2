----------------------------- MODULE OAuthGrants -----------------------------
(***************************************************************************)
(* The authorization server of the control plane:                          *)
(* src/src/remote/oauth-handler.ts over the tables of store.ts.            *)
(*                                                                         *)
(* A grant starts in a browser (authorize), is approved there, comes back  *)
(* from the identity provider (callback), waits for the provider's answer  *)
(* and ends in an authorization code, which a client exchanges for a       *)
(* token.  Transactions and registration windows are in memory, clients    *)
(* and codes in the store.                                                 *)
(***************************************************************************)
EXTENDS Naturals, FiniteSets

CONSTANTS
  TxIds,          \* transaction ids, one per authorize request
  Browsers,       \* cookie jars
  NoTx,           \* no cookie
  OAuthClients,   \* client ids
  Verifiers,      \* PKCE verifiers (and, hashed, their challenges)
  NoGrantor,      \* no client or verifier yet
  Peers,          \* peers that register clients
  MaxOAuthClients,   \* config.maxOAuthClients
  PeerMax, PeerWindow,   \* registrations of a peer, and the window they count in
  CodeTtl,        \* config.authCodeTtlSeconds
  OAuthMaxClock   \* bound on the clock

ASSUME OAuthAssumption ==
  /\ NoTx \notin TxIds
  /\ NoGrantor \notin OAuthClients \cup Verifiers
  /\ {MaxOAuthClients, PeerMax, PeerWindow, CodeTtl, OAuthMaxClock} \subseteq Nat

VARIABLES
  oauthClients,   \* rows of oauth_clients
  attempts,       \* registrationAttempts
  tx,             \* authorizeTransactions: their state, client, challenge, expiry
  jar,            \* the cookie ssh_mcp_oauth_tx of each browser
  fetches,        \* callbacks of a transaction that await the identity provider
  codes,          \* rows of oauth_authorization_codes
  signing,        \* exchanges that await issueAccessToken
  oauthClock,
  \* history of a transaction:
  startedIn,      \* its browser
  approvedIn,     \* the browsers it was approved in
  tokens          \* the exchanges that got a token for it

oauthVars == <<oauthClients, attempts, tx, jar, fetches, codes, signing, oauthClock,
               startedIn, approvedIn, tokens>>

NoTransaction == [state |-> "none", client |-> NoGrantor, challenge |-> NoGrantor, expires |-> 0]

OAuthInit ==
  /\ oauthClients = {}
  /\ attempts = [p \in Peers |-> [count |-> 0, expires |-> 0]]
  /\ tx = [t \in TxIds |-> NoTransaction]
  /\ jar = [b \in Browsers |-> NoTx]
  /\ fetches = [t \in TxIds |-> 0]
  /\ codes = {}
  /\ signing = {}
  /\ oauthClock = 0
  /\ startedIn = [t \in TxIds |-> {}]
  /\ approvedIn = [t \in TxIds |-> {}]
  /\ tokens = [t \in TxIds |-> {}]

history == <<startedIn, approvedIn, tokens>>

----------------------------------------------------------------------------
(* Clients *)

\* The window a registration counts in.
WindowOfPeer(p) == IF attempts[p].expires > oauthClock THEN attempts[p]
                   ELSE [count |-> 0, expires |-> oauthClock + PeerWindow]

\* handleRegister: the peer's attempt counts, also if the table is full.
Register(p, c) ==
  LET window == WindowOfPeer(p)
  IN /\ window.count < PeerMax
     /\ c \notin oauthClients
     /\ attempts' = [attempts EXCEPT ![p] = [window EXCEPT !.count = @ + 1]]
     /\ oauthClients' = IF Cardinality(oauthClients) < MaxOAuthClients THEN oauthClients \cup {c}
                        ELSE oauthClients
     /\ UNCHANGED <<tx, jar, fetches, codes, signing, oauthClock, history>>

----------------------------------------------------------------------------
(* Grants *)

\* validateAuthorizeParams: an unknown client with a redirect URI of ChatGPT is
\* restored, whatever the limit.
WithRestored(c) == oauthClients \cup {c}

\* handleAuthorize.  The page sets the cookie of its browser, over that of an
\* earlier transaction.
Authorize(t, b, c, v) ==
  /\ tx[t].state = "none"
  /\ oauthClients' = WithRestored(c)
  /\ tx' = [tx EXCEPT ![t] = [state |-> "pending", client |-> c, challenge |-> v,
                              expires |-> oauthClock + CodeTtl]]
  /\ jar' = [jar EXCEPT ![b] = t]
  /\ startedIn' = [startedIn EXCEPT ![t] = {b}]
  /\ UNCHANGED <<attempts, fetches, codes, signing, oauthClock, approvedIn, tokens>>

InTime(t) == tx[t].expires >= oauthClock

MatchingBrowser(t, b) == jar[b] = t

\* handleApprove.
Approve(t, b) ==
  /\ tx[t].state \in {"pending", "approved"}
  /\ InTime(t)
  /\ MatchingBrowser(t, b)
  /\ tx' = [tx EXCEPT ![t].state = "approved"]
  /\ approvedIn' = [approvedIn EXCEPT ![t] = @ \cup {b}]
  /\ UNCHANGED <<oauthClients, attempts, jar, fetches, codes, signing, oauthClock, startedIn, tokens>>

\* Slip: the transaction is deleted when the provider has answered.
ConsumedLater(t) == tx

\* consumeOAuthCallback deletes the transaction first, whether or not it serves.
Consumed(t) == [tx EXCEPT ![t].state = "consumed"]

\* The callback of either provider, up to its await of the provider.
Callback(t, b) ==
  /\ tx[t].state \in {"pending", "approved"}
  /\ tx' = Consumed(t)
  /\ fetches' = [fetches EXCEPT ![t] =
                   IF tx[t].state = "approved" /\ InTime(t) /\ MatchingBrowser(t, b) THEN @ + 1 ELSE @]
  /\ UNCHANGED <<oauthClients, attempts, jar, codes, signing, oauthClock, history>>

\* issueAuthorizationCode: a code of full life.
NewCode(t) == [tx |-> t, n |-> Cardinality({k \in codes : k.tx = t}), used |-> FALSE,
               expires |-> oauthClock + CodeTtl]

\* The provider answers: completeOAuthCallback issues a code, and takes whatever
\* cookie the browser holds by now.
FetchUser(t) ==
  /\ fetches[t] > 0
  /\ fetches' = [fetches EXCEPT ![t] = @ - 1]
  /\ codes' = codes \cup {NewCode(t)}
  /\ jar' = [b \in Browsers |-> IF b \in startedIn[t] THEN NoTx ELSE jar[b]]
  /\ UNCHANGED <<oauthClients, attempts, tx, signing, oauthClock, history>>

\* The exchange fails, or the user is not allowed.
FetchFails(t) ==
  /\ fetches[t] > 0
  /\ fetches' = [fetches EXCEPT ![t] = @ - 1]
  /\ UNCHANGED <<oauthClients, attempts, tx, jar, codes, signing, oauthClock, history>>

----------------------------------------------------------------------------
(* Codes *)

\* The checks of handleToken, in one turn with the conditional update of
\* markAuthorizationCodeUsed.
Redeemable(k, c, v) ==
  /\ c = tx[k.tx].client
  /\ ~k.used
  /\ k.expires >= oauthClock
  /\ v = tx[k.tx].challenge

\* markAuthorizationCodeUsed
WithUsed(k) == (codes \ {k}) \cup {[k EXCEPT !.used = TRUE]}

\* handleToken, from the body of the request to its await of issueAccessToken.
ExchangeCode(k, c, v) ==
  /\ k \in codes
  /\ c \in oauthClients
  /\ Redeemable(k, c, v)
  /\ codes' = WithUsed(k)
  /\ signing' = signing \cup {[code |-> k, client |-> c, verifier |-> v, at |-> oauthClock]}
  /\ UNCHANGED <<oauthClients, attempts, tx, jar, fetches, oauthClock, history>>

IssueToken(x) ==
  /\ x \in signing
  /\ signing' = signing \ {x}
  /\ tokens' = [tokens EXCEPT ![x.code.tx] = @ \cup {x}]
  /\ UNCHANGED <<oauthClients, attempts, tx, jar, fetches, codes, oauthClock, startedIn, approvedIn>>

----------------------------------------------------------------------------
(* Maintenance *)

\* cleanupExpired and pruneExpiredTransientRecords, every minute: a transaction
\* or code goes at the very time at which it may still be used.
CleanupOAuth ==
  /\ attempts' = [p \in Peers |-> IF attempts[p].expires <= oauthClock
                                  THEN [count |-> 0, expires |-> 0] ELSE attempts[p]]
  /\ tx' = [t \in TxIds |-> IF tx[t].state \in {"pending", "approved"} /\ tx[t].expires <= oauthClock
                            THEN [tx[t] EXCEPT !.state = "consumed"] ELSE tx[t]]
  /\ codes' = {k \in codes : k.expires > oauthClock}
  /\ UNCHANGED <<oauthClients, jar, fetches, signing, oauthClock, history>>

\* A stop or crash, and a start.
RestartOAuth ==
  /\ attempts' = [p \in Peers |-> [count |-> 0, expires |-> 0]]
  /\ tx' = [t \in TxIds |-> IF tx[t].state = "none" THEN tx[t] ELSE [tx[t] EXCEPT !.state = "consumed"]]
  /\ fetches' = [t \in TxIds |-> 0]
  /\ signing' = {}
  /\ UNCHANGED <<oauthClients, jar, codes, oauthClock, history>>

OAuthTick ==
  /\ oauthClock < OAuthMaxClock
  /\ oauthClock' = oauthClock + 1
  /\ UNCHANGED <<oauthClients, attempts, tx, jar, fetches, codes, signing, history>>

OAuthNext ==
  \/ \E p \in Peers, c \in OAuthClients : Register(p, c)
  \/ \E t \in TxIds, b \in Browsers :
       \/ \E c \in OAuthClients, v \in Verifiers : Authorize(t, b, c, v)
       \/ Approve(t, b)
       \/ Callback(t, b)
  \/ \E t \in TxIds : FetchUser(t) \/ FetchFails(t)
  \/ \E k \in codes, c \in OAuthClients, v \in Verifiers : ExchangeCode(k, c, v)
  \/ \E x \in signing : IssueToken(x)
  \/ CleanupOAuth
  \/ RestartOAuth
  \/ OAuthTick

OAuthSpec == OAuthInit /\ [][OAuthNext]_oauthVars

----------------------------------------------------------------------------

\* One approval yields one token at most, over repeated callbacks, repeated
\* exchanges, cleanups and restarts; it goes to the client and verifier the
\* grant was started with, was approved in the browser it was started in, and
\* no later than its code's life.
OneTokenPerApproval ==
  \A t \in TxIds :
    /\ Cardinality(tokens[t]) <= 1
    /\ \A x \in tokens[t] :
         /\ approvedIn[t] # {} /\ approvedIn[t] \subseteq startedIn[t]
         /\ x.client = tx[t].client /\ x.verifier = tx[t].challenge
         /\ x.at <= x.code.expires
=============================================================================
