----------------------------- MODULE MCServer -----------------------------
(* What the two HTTP servers keep of their clients, for TLC: one of the      *)
(* parts runs, the others rest in their initial states.                      *)
EXTENDS HttpServer, ToolCalls, OAuthGrants, WebLogins, MessageWindows

VARIABLE part

ServerInit ==
  /\ part \in {"http", "tool calls", "oauth", "web logins", "messages"}
  /\ HttpInit /\ LimitInit /\ OAuthInit /\ WebInit /\ WindowInit

LocalPart ==
  /\ \/ part = "http" /\ HttpNext /\ UNCHANGED limitVars
     \/ part = "tool calls" /\ LimitNext /\ UNCHANGED httpVars
  /\ UNCHANGED <<part, oauthVars, webVars, windowVars>>

RemotePart ==
  /\ \/ part = "oauth" /\ OAuthNext /\ UNCHANGED <<webVars, windowVars>>
     \/ part = "web logins" /\ WebNext /\ UNCHANGED <<oauthVars, windowVars>>
     \/ part = "messages" /\ WindowNext /\ UNCHANGED <<oauthVars, webVars>>
  /\ UNCHANGED <<part, httpVars, limitVars>>

ServerSpec ==
  /\ ServerInit
  /\ [][LocalPart \/ RemotePart]_<<part, httpVars, limitVars, oauthVars, webVars, windowVars>>
  /\ HttpFairness
=============================================================================
