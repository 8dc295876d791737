------------------------------- MODULE OAuth -------------------------------
(***************************************************************************)
(* The OAuth provider of the MCP server (server/src/mcp/oauth.ts) and its  *)
(* clients.  Each consent of the owner stands for the code it yields and   *)
(* the tokens that come of it, numbered as they are issued: a token is a   *)
(* pair of its consent and number, of which one is kept in tokens (while   *)
(* it has not expired: an expired one is refused whether it was deleted or *)
(* not) and one in refreshTokens.                                          *)
(*                                                                         *)
(* A client may ask again before an answer comes, and answers get lost.    *)
(* Requests of a client with a code or a token of another, and those with  *)
(* a wrong password, are refused and change nothing.                       *)
(***************************************************************************)
EXTENDS Naturals

CONSTANTS
    Consents,    \* approvals of the consent form, each by a client of its own
    Requests,    \* POST /token, in progress
    MaxTokens    \* bound: tokens that come of a consent

ASSUME TokensAssumption == MaxTokens \in Nat

VARIABLES
    clients,         \* the clients store
    codes,           \* consents whose code is good
    tokens,          \* access tokens that verify
    refreshTokens,
    issued,          \* how many tokens came of each consent
    request,         \* what became of each POST /token
    held,            \* number of the token the client holds; 0: its code
    broken           \* history variable: consents with an answer lost, a refresh
                     \* token revoked, the code expired, or a restart

oauthVars == <<clients, codes, tokens, refreshTokens, issued, request, held, broken>>

Tokens == Consents \X (1 .. MaxTokens)
Code == 0
Idle == [at |-> "idle"]
\* gives: what the request shows, or the token that is its answer.
TokenRequests ==
    {Idle} \cup [at : {"sent", "checked", "answered", "refused"},
                 consent : Consents, gives : 0 .. MaxTokens]
Approved(c) == c \in codes \/ issued[c] > 0 \/ c \in broken

OAuthTypeOK ==
    /\ clients \subseteq Consents /\ codes \subseteq Consents /\ broken \subseteq Consents
    /\ tokens \subseteq Tokens /\ refreshTokens \subseteq Tokens
    /\ \A t, u \in refreshTokens : t[1] = u[1] => t = u
    /\ issued \in [Consents -> 0 .. MaxTokens]
    /\ held \in [Consents -> 0 .. MaxTokens]
    /\ request \in [Requests -> TokenRequests]

OAuthInit ==
    /\ clients = {} /\ codes = {} /\ tokens = {} /\ refreshTokens = {} /\ broken = {}
    /\ issued = [c \in Consents |-> 0] /\ held = [c \in Consents |-> 0]
    /\ request = [q \in Requests |-> Idle]

Becomes(q, at) == request' = [request EXCEPT ![q].at = at]

-----------------------------------------------------------------------------

registerClient ==
    /\ \E c \in Consents : clients' = clients \cup {c}
    /\ UNCHANGED <<codes, tokens, refreshTokens, issued, request, held, broken>>

\* The password is right: a code, by redirect to the client.
authorize ==
    /\ \E c \in clients : ~Approved(c) /\ codes' = codes \cup {c}
    /\ UNCHANGED <<clients, tokens, refreshTokens, issued, request, held, broken>>

\* The client shows its code, or for a new token the one it holds.
Asks(q) ==
    /\ request[q] = Idle
    /\ \E c \in Consents :
         /\ Approved(c)
         /\ request' = [request EXCEPT ![q] = [at |-> "sent", consent |-> c, gives |-> held[c]]]
    /\ UNCHANGED <<clients, codes, tokens, refreshTokens, issued, held, broken>>

\* challengeForAuthorizationCode, awaited before the exchange.
ChecksChallenge(q) ==
    /\ request[q].at = "sent" /\ request[q].gives = Code
    /\ Becomes(q, IF request[q].consent \in codes THEN "checked" ELSE "refused")
    /\ UNCHANGED <<clients, codes, tokens, refreshTokens, issued, held, broken>>

\* Two new tokens, the refresh token in place of those given.
Issues(q, old) ==
    LET c == request[q].consent
        n == issued[c] + 1
    IN /\ n <= MaxTokens
       /\ issued' = [issued EXCEPT ![c] = n]
       /\ tokens' = tokens \cup {<<c, n>>}
       /\ refreshTokens' = (refreshTokens \ old) \cup {<<c, n>>}
       /\ request' = [request EXCEPT ![q] = [at |-> "answered", consent |-> c, gives |-> n]]

Refuses(q) == Becomes(q, "refused") /\ UNCHANGED <<codes, tokens, refreshTokens, issued>>

\* A plausible bug: the code is left for another use.
exchangeAuthorizationCodeKeeps(q) ==
    /\ request[q].at = "checked"
    /\ IF request[q].consent \in codes
       THEN Issues(q, {}) /\ UNCHANGED codes
       ELSE Refuses(q)
    /\ UNCHANGED <<clients, held, broken>>

exchangeAuthorizationCode(q) ==
    /\ request[q].at = "checked"
    /\ IF request[q].consent \in codes
       THEN Issues(q, {}) /\ codes' = codes \ {request[q].consent}
       ELSE Refuses(q)
    /\ UNCHANGED <<clients, held, broken>>

\* A plausible bug: the old refresh token stays.
exchangeRefreshTokenKeeps(q) ==
    /\ request[q].at = "sent" /\ request[q].gives # Code
    /\ IF <<request[q].consent, request[q].gives>> \in refreshTokens
       THEN Issues(q, {}) /\ UNCHANGED codes
       ELSE Refuses(q)
    /\ UNCHANGED <<clients, held, broken>>

\* A plausible bug: the old refresh token is deleted and no other comes for it.
exchangeRefreshTokenDrops(q) ==
    LET old == <<request[q].consent, request[q].gives>> IN
    /\ request[q].at = "sent" /\ request[q].gives # Code
    /\ old \in refreshTokens
    /\ refreshTokens' = refreshTokens \ {old}
    /\ Becomes(q, "answered")
    /\ UNCHANGED <<clients, codes, tokens, issued, held, broken>>

exchangeRefreshToken(q) ==
    LET old == <<request[q].consent, request[q].gives>> IN
    /\ request[q].at = "sent" /\ request[q].gives # Code
    /\ IF old \in refreshTokens
       THEN Issues(q, {old}) /\ UNCHANGED codes
       ELSE Refuses(q)
    /\ UNCHANGED <<clients, held, broken>>

\* The client holds what it was answered, and goes on with what it has if it
\* was refused.
Arrives(q) ==
    /\ request[q].at \in {"answered", "refused"}
    /\ held' = IF request[q].at = "answered"
               THEN [held EXCEPT ![request[q].consent] = request[q].gives] ELSE held
    /\ request' = [request EXCEPT ![q] = Idle]
    /\ UNCHANGED <<clients, codes, tokens, refreshTokens, issued, broken>>

\* The request or its answer is lost.
Lost(q) ==
    /\ request[q].at \in {"sent", "answered"}
    /\ broken' = IF request[q].at = "answered"
                 THEN broken \cup {request[q].consent} ELSE broken
    /\ request' = [request EXCEPT ![q] = Idle]
    /\ UNCHANGED <<clients, codes, tokens, refreshTokens, issued, held>>

\* revokeToken deletes the one token it is given.
revokeToken ==
    /\ \/ \E t \in tokens : tokens' = tokens \ {t} /\ UNCHANGED <<refreshTokens, broken>>
       \/ \E t \in refreshTokens :
            /\ refreshTokens' = refreshTokens \ {t}
            /\ broken' = broken \cup {t[1]}
            /\ UNCHANGED tokens
    /\ UNCHANGED <<clients, codes, issued, request, held>>

\* Ten minutes, an hour.  A refresh token does not expire.
Expires ==
    /\ \/ \E c \in codes : codes' = codes \ {c} /\ broken' = broken \cup {c} /\ UNCHANGED tokens
       \/ \E t \in tokens : tokens' = tokens \ {t} /\ UNCHANGED <<codes, broken>>
    /\ UNCHANGED <<clients, refreshTokens, issued, request, held>>

OAuthNext ==
    \/ registerClient \/ authorize \/ revokeToken \/ Expires
    \/ \E q \in Requests :
        \/ Asks(q) \/ ChecksChallenge(q) \/ exchangeAuthorizationCode(q)
        \/ exchangeRefreshToken(q) \/ Arrives(q) \/ Lost(q)

\* All of it is in memory.
OAuthRestarts ==
    /\ clients' = {} /\ codes' = {} /\ tokens' = {} /\ refreshTokens' = {}
    /\ request' = [q \in Requests |-> Idle]
    /\ broken' = {c \in Consents : Approved(c)}
    /\ UNCHANGED <<issued, held>>

-----------------------------------------------------------------------------

Answered(q, c) == request[q].at = "answered" /\ request[q].consent = c

\* A client is never left with a token that will not do, however often it asks
\* for the next one before an answer comes: what it holds can be exchanged, or
\* the answer to the exchange is on its way - until an answer is lost, a token
\* is revoked, its code expires or the server restarts.
InStep(c) ==
    \/ IF held[c] = Code THEN c \in codes ELSE <<c, held[c]>> \in refreshTokens
    \/ \E q \in Requests : Answered(q, c)
ClientInStep == \A c \in Consents \ broken : Approved(c) => InStep(c)

\* The provider implements Grants: a consent gives access once, whatever is
\* asked twice or side by side, and never again after its tokens have ended.
GrantOf(c) ==
    IF \E t \in tokens \cup refreshTokens : t[1] = c THEN "access"
    ELSE IF c \in codes THEN "code"
    ELSE IF Approved(c) THEN "ended" ELSE "none"
Abstract == INSTANCE Grants WITH grant <- [c \in Consents |-> GrantOf(c)]
GrantsOnce == Abstract!Spec

=============================================================================
