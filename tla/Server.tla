------------------------------- MODULE Server -------------------------------
(***************************************************************************)
(* The server process (server/src/index.ts) without its notifications      *)
(* (module Notify): OAuth provider, MCP sessions and admin panel.  A       *)
(* session is opened or deleted by a client with a token or the API key.   *)
(* All three lose what they have in memory when the process restarts,      *)
(* which update-check.sh makes it do with every update.                    *)
(***************************************************************************)
EXTENDS OAuth, McpSessions, AdminPanel

vars == <<oauthVars, sessionVars, limitVars, keyVars>>

Init == OAuthInit /\ SessionsInit /\ AdminInit

\* validateAuth: an access token, or the API key if the server has one.
Admitted == tokens # {} \/ apiKey # NoKey

Authorizes == OAuthNext /\ UNCHANGED <<sessionVars, limitVars, keyVars>>
Serves ==
    /\ \E s \in Sids : (Admitted /\ Authenticated(s)) \/ Unasked(s)
    /\ UNCHANGED <<oauthVars, limitVars, keyVars>>
Administers == AdminNext /\ UNCHANGED <<oauthVars, sessionVars>>
Restarts == OAuthRestarts /\ SessionsRestart /\ AdminRestarts

Next == Authorizes \/ Serves \/ Administers \/ Restarts

Spec == Init /\ [][Next]_vars

-----------------------------------------------------------------------------

TypeOK == OAuthTypeOK /\ SessionsTypeOK /\ AdminTypeOK

=============================================================================
