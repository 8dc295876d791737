---------------------------- MODULE McpSessions ----------------------------
(***************************************************************************)
(* The sessions of the MCP server (server/src/mcp/server.ts): sseSessions, *)
(* which live as long as their connection, and streamableSessions, which   *)
(* are registered when the handler of their first request returns - after  *)
(* the client had its answer, with the id - and live until a DELETE.       *)
(***************************************************************************)
CONSTANTS Sse, Streamable    \* ids of sessions, of either transport

ASSUME KindsAssumption == Sse \cap Streamable = {}

VARIABLES
    sessions,    \* the ids in the two tables
    opening,     \* ids whose first request is still in handleStreamableHTTP
    client       \* how the client of each id stands

sessionVars == <<sessions, opening, client>>

Sids == Sse \cup Streamable

\* A client has its session open; it has left an SSE connection, or has sent DELETE;
\* DELETE was refused, or answered with success; it is gone without a word; or it
\* has no session any more.
Stands == {"new", "open", "leaving", "refused", "deleted", "gone", "ended"}

SessionsTypeOK ==
    sessions \subseteq Sids /\ opening \subseteq Streamable /\ client \in [Sids -> Stands]
SessionsInit == sessions = {} /\ opening = {} /\ client = [s \in Sids |-> "new"]

Stand(s, from, to) == client[s] \in from /\ client' = [client EXCEPT ![s] = to]

-----------------------------------------------------------------------------

handleSSE(s) ==
    s \in Sse /\ Stand(s, {"new"}, "open") /\ sessions' = sessions \cup {s} /\ UNCHANGED opening

\* "close" is emitted, some time after the client has ended the connection or is gone.
SseCloses(s) ==
    s \in Sse /\ Stand(s, {"leaving"}, "ended") /\ sessions' = sessions \ {s} /\ UNCHANGED opening

\* A POST without a session, up to its answer; its handler is still under way.
StreamableBegins(s) ==
    /\ s \in Streamable /\ Stand(s, {"new"}, "open")
    /\ opening' = opening \cup {s} /\ UNCHANGED sessions

\* handleRequest returns and the session is registered, whatever became of its client.
StreamableRegisters(s) ==
    /\ s \in opening
    /\ opening' = opening \ {s} /\ sessions' = sessions \cup {s}
    /\ UNCHANGED client

\* The client ends its SSE connection, or sends DELETE; it may do so again after a
\* refusal.
Leaves(s) ==
    /\ Stand(s, IF s \in Sse THEN {"open"} ELSE {"open", "refused"}, "leaving")
    /\ UNCHANGED <<sessions, opening>>

\* A plausible bug: DELETE of a session that is not there is a success.
StreamableDeletesAny(s) ==
    /\ s \in Streamable /\ Stand(s, {"leaving"}, "deleted")
    /\ sessions' = sessions \ {s} /\ UNCHANGED opening

\* DELETE: the transport closes, and onclose takes it out of the table.
StreamableDeletes(s) ==
    /\ s \in Streamable \cap sessions /\ Stand(s, {"leaving"}, "deleted")
    /\ sessions' = sessions \ {s} /\ UNCHANGED opening

\* 400: the session is not registered, or not yet; or 401: the token is no longer good.
RefusesDelete(s) ==
    s \in Streamable /\ Stand(s, {"leaving"}, "refused") /\ UNCHANGED <<sessions, opening>>

\* A client of a streamable session need not tell that it goes.
GoesAway(s) ==
    s \in Streamable /\ Stand(s, {"open", "refused"}, "gone") /\ UNCHANGED <<sessions, opening>>

\* validateAuth lets these through.
Authenticated(s) == handleSSE(s) \/ StreamableBegins(s) \/ StreamableDeletes(s)
Unasked(s) ==
    \/ SseCloses(s) \/ StreamableRegisters(s) \/ Leaves(s) \/ RefusesDelete(s)
    \/ GoesAway(s)

SessionsRestart ==
    /\ sessions' = {} /\ opening' = {}
    /\ client' = [s \in Sids |-> IF client[s] = "new" THEN "new" ELSE "ended"]

-----------------------------------------------------------------------------

\* The admin panel counts the sessions as connected clients.  Every client with an
\* open session is among them, or will be when its first request has been handled;
\* and no session is there, or still to come, whose connection has closed or whose
\* DELETE was answered with success.  Sessions of clients that went without a word,
\* or whose DELETE came before the session was registered and that did not ask
\* again, stay in the table for good: this is what the code does.
ConnectedClients ==
    /\ \A s \in Sids : client[s] = "open" => s \in sessions \cup opening
    /\ \A s \in sessions \cup opening :
         \/ client[s] \in {"open", "leaving"}
         \/ s \in Streamable /\ client[s] \in {"refused", "gone"}

=============================================================================
