---------------------------- MODULE ServerProofs ----------------------------
(***************************************************************************)
(* Proofs about the server process, for every number of consents,          *)
(* requests, tokens, sessions, keys and login attempts: the invariants of  *)
(* the OAuth provider, the sessions and the admin panel, and that the      *)
(* provider implements Grants.                                             *)
(***************************************************************************)
EXTENDS Server, TLAPS

\* A step of the server is a step of each part, a restart of all, or neither.
LEMMA NextCases ==
    ASSUME [Next]_vars
    PROVE  /\ OAuthNext \/ OAuthRestarts \/ UNCHANGED oauthVars
           /\ \/ \E s \in Sids : Authenticated(s) \/ Unasked(s)
              \/ SessionsRestart \/ UNCHANGED sessionVars
           /\ AdminNext \/ AdminRestarts \/ UNCHANGED <<limitVars, keyVars>>
BY DEF Next, vars, Authorizes, Serves, Administers, Restarts

\* A step of the OAuth provider, one disjunct per action of the code.
LEMMA OAuthCases ==
    ASSUME OAuthNext
    PROVE  \/ registerClient \/ authorize \/ revokeToken \/ Expires
           \/ \E q \in Requests : Asks(q)
           \/ \E q \in Requests : ChecksChallenge(q)
           \/ \E q \in Requests : exchangeAuthorizationCode(q)
           \/ \E q \in Requests : exchangeRefreshToken(q)
           \/ \E q \in Requests : Arrives(q)
           \/ \E q \in Requests : Lost(q)
BY DEF OAuthNext

-----------------------------------------------------------------------------
(***************************************************************************)
(* The OAuth provider.  Its types alone are not inductive: that a consent  *)
(* has one refresh token needs that a good code has not been used, and     *)
(* that the numbers of tokens have been issued.                            *)
(***************************************************************************)

\* A request that is on its way, or its answer.
Requested(q) == request[q].at \in {"sent", "checked", "answered", "refused"}

OAuthInv ==
    /\ OAuthTypeOK
    /\ \A c \in codes : issued[c] = 0
    /\ \A t \in tokens \cup refreshTokens : t[2] <= issued[t[1]]
    /\ \A c \in Consents : held[c] <= issued[c]
    /\ \A q \in Requests : Requested(q) => request[q].gives <= issued[request[q].consent]
    /\ \A q \in Requests : request[q].at = "answered" => request[q].gives > 0

\* The client of an unbroken consent has no use of what others of its requests
\* show once one is answered: the answer is one, later than what the client holds
\* and what it ever asked by, and the token it gives is the one that will do.
Asking(q, c) ==
    request[q].at \in {"sent", "checked", "refused"} /\ request[q].consent = c
AnswersOf(c) ==
    /\ \A q \in Requests : Asking(q, c) => request[q].gives <= held[c]
    /\ \A q \in Requests : Answered(q, c) =>
         /\ request[q].gives > held[c]
         /\ <<c, request[q].gives>> \in refreshTokens
         /\ \A r \in Requests : Answered(r, c) => r = q
ClientInv == \A c \in Consents \ broken : AnswersOf(c) /\ (Approved(c) => InStep(c))

\* What a request is, by where it is: helper of every step that moves one.
LEMMA RequestFacts ==
    ASSUME OAuthTypeOK, NEW q \in Requests
    PROVE  /\ request[q].at \in {"idle", "sent", "checked", "answered", "refused"}
           /\ request[q].at = "idle" <=> request[q] = Idle
           /\ Requested(q) <=> request[q].at # "idle"
           /\ Requested(q) =>
                /\ request[q].consent \in Consents
                /\ request[q].gives \in 0 .. MaxTokens
<1>1. request[q] \in TokenRequests
  BY DEF OAuthTypeOK
<1>2. CASE request[q] = Idle
  BY <1>2 DEF Idle, Requested
<1>3. CASE request[q] \in [at : {"sent", "checked", "answered", "refused"},
                           consent : Consents, gives : 0 .. MaxTokens]
  BY <1>3 DEF Idle, Requested
<1> QED
  BY <1>1, <1>2, <1>3 DEF TokenRequests

\* Becomes changes where a request is and nothing else.
LEMMA BecomesFacts ==
    ASSUME OAuthTypeOK, NEW q \in Requests, Requested(q),
           NEW at \in {"sent", "checked", "answered", "refused"}, Becomes(q, at)
    PROVE  /\ request' \in [Requests -> TokenRequests]
           /\ request'[q].at = at
           /\ request'[q].consent = request[q].consent
           /\ request'[q].gives = request[q].gives
           /\ \A r \in Requests \ {q} : request'[r] = request[r]
<1>1. request[q] \in [at : {"sent", "checked", "answered", "refused"},
                      consent : Consents, gives : 0 .. MaxTokens]
  BY DEF OAuthTypeOK, TokenRequests, Requested, Idle
<1>2. [request[q] EXCEPT !.at = at]
         = [at |-> at, consent |-> request[q].consent, gives |-> request[q].gives]
  BY <1>1
<1>3. request' = [request EXCEPT ![q] =
                    [at |-> at, consent |-> request[q].consent, gives |-> request[q].gives]]
  BY <1>2 DEF Becomes
<1>4. [at |-> at, consent |-> request[q].consent, gives |-> request[q].gives] \in TokenRequests
  BY <1>1 DEF TokenRequests
<1> QED
  BY <1>3, <1>4 DEF OAuthTypeOK

\* Issues gives the request's consent the next number and answers with it.
LEMMA IssuesFacts ==
    ASSUME OAuthTypeOK, NEW q \in Requests, Requested(q), NEW old, Issues(q, old)
    PROVE  /\ issued[request[q].consent] + 1 \in 1 .. MaxTokens
           /\ request' \in [Requests -> TokenRequests]
           /\ request'[q].at = "answered"
           /\ request'[q].consent = request[q].consent
           /\ request'[q].gives = issued[request[q].consent] + 1
           /\ \A r \in Requests \ {q} : request'[r] = request[r]
<1> DEFINE c == request[q].consent
           n == issued[c] + 1
<1>1. request[q] \in [at : {"sent", "checked", "answered", "refused"},
                      consent : Consents, gives : 0 .. MaxTokens]
  BY DEF OAuthTypeOK, TokenRequests, Requested, Idle
<1>2. n \in 1 .. MaxTokens
  BY <1>1, TokensAssumption DEF OAuthTypeOK, Issues
<1>3. request' = [request EXCEPT ![q] = [at |-> "answered", consent |-> c, gives |-> n]]
  BY DEF Issues
<1>4. [at |-> "answered", consent |-> c, gives |-> n] \in TokenRequests
  BY <1>1, <1>2, TokensAssumption DEF TokenRequests
<1> HIDE DEF c, n
<1>5. /\ request' \in [Requests -> TokenRequests]
      /\ request'[q] = [at |-> "answered", consent |-> c, gives |-> n]
      /\ \A r \in Requests \ {q} : request'[r] = request[r]
  BY <1>3, <1>4 DEF OAuthTypeOK
<1> QED
  BY <1>2, <1>5 DEF c, n

\* A server that starts has no client, no code and no token.
LEMMA OAuthInvInit == OAuthInit => OAuthInv
<1> SUFFICES ASSUME OAuthInit PROVE OAuthInv
  OBVIOUS
<1>1. OAuthTypeOK
  BY TokensAssumption DEF OAuthInit, OAuthTypeOK, TokenRequests
<1>2. \A q \in Requests : request[q].at = "idle"
  BY DEF OAuthInit, Idle
<1> QED
  BY <1>1, <1>2 DEF OAuthInit, OAuthInv, Requested

\* One step per action; those that leave the tokens and requests alone first.
LEMMA OAuthInvStep == OAuthInv /\ OAuthNext => OAuthInv'
<1> SUFFICES ASSUME OAuthInv, OAuthNext PROVE OAuthInv'
  OBVIOUS
<1> USE TokensAssumption
<1>1. CASE registerClient
  BY <1>1 DEF registerClient, OAuthInv, OAuthTypeOK, Requested
<1>2. CASE authorize
  BY <1>2 DEF authorize, Approved, OAuthInv, OAuthTypeOK, Requested
<1>3. CASE revokeToken
  BY <1>3 DEF revokeToken, OAuthInv, OAuthTypeOK, Requested, Tokens
<1>4. CASE Expires
  BY <1>4 DEF Expires, OAuthInv, OAuthTypeOK, Requested
<1>5. ASSUME NEW q \in Requests, Asks(q) PROVE OAuthInv'
  <2>1. PICK c \in Consents :
          request' = [request EXCEPT ![q] = [at |-> "sent", consent |-> c, gives |-> held[c]]]
    BY <1>5 DEF Asks
  <2>2. [at |-> "sent", consent |-> c, gives |-> held[c]] \in TokenRequests
    BY DEF OAuthInv, OAuthTypeOK, TokenRequests
  <2>3. request' \in [Requests -> TokenRequests]
    BY <2>1, <2>2 DEF OAuthInv, OAuthTypeOK
  <2> QED
    BY <1>5, <2>1, <2>3 DEF Asks, OAuthInv, OAuthTypeOK, Requested
<1>6. ASSUME NEW q \in Requests, ChecksChallenge(q) PROVE OAuthInv'
  BY <1>6, BecomesFacts DEF ChecksChallenge, OAuthInv, OAuthTypeOK, Requested
<1>7. ASSUME NEW q \in Requests, exchangeAuthorizationCode(q) PROVE OAuthInv'
  <2> DEFINE c == request[q].consent
  <2>1. Requested(q) /\ c \in Consents
    BY <1>7, RequestFacts DEF exchangeAuthorizationCode, OAuthInv, Requested
  <2>2. CASE c \in codes /\ Issues(q, {}) /\ codes' = codes \ {c}
    <3>1. <<c, issued[c] + 1>> \in Tokens
      BY <2>1, <2>2, IssuesFacts DEF OAuthInv, Tokens
    <3>2. \A t \in refreshTokens : t[1] # c
      BY <2>2 DEF OAuthInv, OAuthTypeOK, Tokens
    <3>3. /\ tokens' = tokens \cup {<<c, issued[c] + 1>>}
          /\ refreshTokens' = refreshTokens \cup {<<c, issued[c] + 1>>}
          /\ issued' = [issued EXCEPT ![c] = issued[c] + 1]
          /\ UNCHANGED <<clients, held, broken>>
      BY <1>7, <2>2 DEF exchangeAuthorizationCode, Issues
    <3>4. \A t, u \in refreshTokens' : t[1] = u[1] => t = u
      BY <3>2, <3>3 DEF OAuthInv, OAuthTypeOK
    <3>5. issued' \in [Consents -> 0 .. MaxTokens]
      BY <2>1, <2>2, <3>3, IssuesFacts DEF OAuthInv, OAuthTypeOK
    <3>6. OAuthTypeOK'
      BY <2>1, <2>2, <3>1, <3>3, <3>4, <3>5, IssuesFacts DEF OAuthInv, OAuthTypeOK
    <3>7. /\ issued'[c] = issued[c] + 1
          /\ \A d \in Consents \ {c} : issued'[d] = issued[d]
      BY <2>1, <3>3 DEF OAuthInv, OAuthTypeOK
    <3>8. \A t \in (tokens \cup refreshTokens)' : t[2] <= issued'[t[1]]
      BY <2>1, <3>3, <3>7 DEF OAuthInv, OAuthTypeOK, Tokens
    <3>9. \A r \in Requests : Requested(r)' => request'[r].gives <= issued'[request'[r].consent]
      <4> TAKE r \in Requests
      <4>1. CASE r = q
        BY <2>1, <2>2, <3>7, <4>1, IssuesFacts DEF OAuthInv
      <4>2. CASE r # q
        BY <2>1, <2>2, <3>7, <4>2, IssuesFacts, RequestFacts DEF OAuthInv, OAuthTypeOK, Requested
      <4> QED
        BY <4>1, <4>2
    <3>10. \A d \in codes' : issued'[d] = 0
      BY <2>1, <2>2, <3>7 DEF OAuthInv, OAuthTypeOK
    <3>11. \A d \in Consents : held'[d] <= issued'[d]
      BY <2>1, <3>3, <3>7 DEF OAuthInv, OAuthTypeOK
    <3>12. \A r \in Requests : request'[r].at = "answered" => request'[r].gives > 0
      BY <2>1, <2>2, IssuesFacts DEF OAuthInv
    <3> QED
      BY <3>6, <3>8, <3>9, <3>10, <3>11, <3>12 DEF OAuthInv
  <2>3. CASE Refuses(q)
    BY <1>7, <2>1, <2>3, BecomesFacts
    DEF exchangeAuthorizationCode, Refuses, OAuthInv, OAuthTypeOK, Requested
  <2> QED
    BY <1>7, <2>2, <2>3 DEF exchangeAuthorizationCode
<1>8. ASSUME NEW q \in Requests, exchangeRefreshToken(q) PROVE OAuthInv'
  <2> DEFINE c == request[q].consent
             old == <<c, request[q].gives>>
  <2>1. Requested(q) /\ c \in Consents
    BY <1>8, RequestFacts DEF exchangeRefreshToken, OAuthInv, Requested
  <2>2. CASE old \in refreshTokens /\ Issues(q, {old}) /\ UNCHANGED codes
    <3>0. c \notin codes
      BY <2>2 DEF OAuthInv, OAuthTypeOK, Tokens
    <3>1. <<c, issued[c] + 1>> \in Tokens
      BY <2>1, <2>2, IssuesFacts DEF OAuthInv, Tokens
    <3>2. \A t \in (refreshTokens \ {old}) : t[1] # c
      BY <2>2 DEF OAuthInv, OAuthTypeOK
    <3>3. /\ tokens' = tokens \cup {<<c, issued[c] + 1>>}
          /\ refreshTokens' = (refreshTokens \ {old}) \cup {<<c, issued[c] + 1>>}
          /\ issued' = [issued EXCEPT ![c] = issued[c] + 1]
          /\ UNCHANGED <<clients, held, broken>>
      BY <1>8, <2>2 DEF exchangeRefreshToken, Issues
    <3>4. \A t, u \in refreshTokens' : t[1] = u[1] => t = u
      BY <3>2, <3>3 DEF OAuthInv, OAuthTypeOK
    <3>5. issued' \in [Consents -> 0 .. MaxTokens]
      BY <2>1, <2>2, <3>3, IssuesFacts DEF OAuthInv, OAuthTypeOK
    <3>6. OAuthTypeOK'
      BY <2>1, <2>2, <3>1, <3>3, <3>4, <3>5, IssuesFacts DEF OAuthInv, OAuthTypeOK
    <3>7. /\ issued'[c] = issued[c] + 1
          /\ \A d \in Consents \ {c} : issued'[d] = issued[d]
      BY <2>1, <3>3 DEF OAuthInv, OAuthTypeOK
    <3>8. \A t \in (tokens \cup refreshTokens)' : t[2] <= issued'[t[1]]
      BY <2>1, <3>3, <3>7 DEF OAuthInv, OAuthTypeOK, Tokens
    <3>9. \A r \in Requests : Requested(r)' => request'[r].gives <= issued'[request'[r].consent]
      <4> TAKE r \in Requests
      <4>1. CASE r = q
        BY <2>1, <2>2, <3>7, <4>1, IssuesFacts DEF OAuthInv
      <4>2. CASE r # q
        BY <2>1, <2>2, <3>7, <4>2, IssuesFacts, RequestFacts DEF OAuthInv, OAuthTypeOK, Requested
      <4> QED
        BY <4>1, <4>2
    <3>10. \A d \in codes' : issued'[d] = 0
      BY <2>1, <2>2, <3>7, <3>0 DEF OAuthInv, OAuthTypeOK
    <3>11. \A d \in Consents : held'[d] <= issued'[d]
      BY <2>1, <3>3, <3>7 DEF OAuthInv, OAuthTypeOK
    <3>12. \A r \in Requests : request'[r].at = "answered" => request'[r].gives > 0
      BY <2>1, <2>2, IssuesFacts DEF OAuthInv
    <3> QED
      BY <3>6, <3>8, <3>9, <3>10, <3>11, <3>12 DEF OAuthInv
  <2>3. CASE Refuses(q)
    BY <1>8, <2>1, <2>3, BecomesFacts
    DEF exchangeRefreshToken, Refuses, OAuthInv, OAuthTypeOK, Requested
  <2> QED
    BY <1>8, <2>2, <2>3 DEF exchangeRefreshToken
<1>9. ASSUME NEW q \in Requests, Arrives(q) PROVE OAuthInv'
  <2>1. request' = [request EXCEPT ![q] = Idle]
    BY <1>9 DEF Arrives
  <2>2. request' \in [Requests -> TokenRequests]
    BY <2>1 DEF OAuthInv, OAuthTypeOK, TokenRequests
  <2>3. request'[q].at = "idle" /\ \A r \in Requests \ {q} : request'[r] = request[r]
    BY <2>1 DEF OAuthInv, OAuthTypeOK, Idle
  <2>4. /\ held' \in [Consents -> 0 .. MaxTokens]
        /\ \A c \in Consents : held'[c] <= issued[c]
    BY <1>9, RequestFacts DEF Arrives, OAuthInv, OAuthTypeOK, Requested
  <2> QED
    BY <1>9, <2>2, <2>3, <2>4 DEF Arrives, OAuthInv, OAuthTypeOK, Requested
<1>10. ASSUME NEW q \in Requests, Lost(q) PROVE OAuthInv'
  <2>1. request' = [request EXCEPT ![q] = Idle]
    BY <1>10 DEF Lost
  <2>2. request' \in [Requests -> TokenRequests]
    BY <2>1 DEF OAuthInv, OAuthTypeOK, TokenRequests
  <2>3. request'[q].at = "idle" /\ \A r \in Requests \ {q} : request'[r] = request[r]
    BY <2>1 DEF OAuthInv, OAuthTypeOK, Idle
  <2>4. broken' \subseteq Consents
    BY <1>10, RequestFacts DEF Lost, OAuthInv, OAuthTypeOK, Requested
  <2> QED
    BY <1>10, <2>2, <2>3, <2>4 DEF Lost, OAuthInv, OAuthTypeOK, Requested
<1> QED
  BY OAuthCases, <1>1, <1>2, <1>3, <1>4, <1>5, <1>6, <1>7, <1>8, <1>9, <1>10

\* A restart forgets all of them, and the requests.
LEMMA OAuthInvRestart == OAuthInv /\ OAuthRestarts => OAuthInv'
<1> SUFFICES ASSUME OAuthInv, OAuthRestarts PROVE OAuthInv'
  OBVIOUS
<1>1. request' \in [Requests -> TokenRequests] /\ \A q \in Requests : request'[q].at = "idle"
  BY DEF OAuthRestarts, TokenRequests, Idle
<1> QED
  BY <1>1 DEF OAuthRestarts, OAuthInv, OAuthTypeOK, Requested

\* Steps of the other parts do not touch them.
LEMMA OAuthInvStutter == OAuthInv /\ UNCHANGED oauthVars => OAuthInv'
BY DEF OAuthInv, OAuthTypeOK, Requested, oauthVars

\* So OAuthInv holds throughout.
LEMMA OAuthInvariant == Spec => []OAuthInv
<1>1. Init => OAuthInv
  BY OAuthInvInit DEF Init
<1>2. OAuthInv /\ [Next]_vars => OAuthInv'
  BY NextCases, OAuthInvStep, OAuthInvRestart, OAuthInvStutter
<1> QED
  BY <1>1, <1>2, PTL DEF Spec

\* The type of everything the server keeps, in every reachable state: the OAuth
\* provider's with one refresh token for a consent, which OAuthInv needs.
THEOREM TypeCorrect == Spec => []TypeOK
<1>1. Init => SessionsTypeOK /\ AdminTypeOK
  <2>1. NoRecord \in [count : Nat, resetAt : 0 .. MaxTime + Window]
    BY LimitAssumption DEF NoRecord
  <2>2. SessionsInit => SessionsTypeOK
    BY DEF SessionsInit, SessionsTypeOK, Stands
  <2>3. AdminInit => AdminTypeOK
    <3> SUFFICES ASSUME AdminInit PROVE AdminTypeOK
      OBVIOUS
    <3>1. now \in 0 .. MaxTime /\ passed \in [0 .. MaxTime -> Nat]
      BY LimitAssumption DEF AdminInit
    <3>2. apiKey \in Keys \cup {NoKey} /\ form \in Forms
      BY DEF AdminInit
    <3> QED
      BY <2>1, <3>1, <3>2 DEF AdminInit, AdminTypeOK
  <2> QED
    BY <2>2, <2>3 DEF Init
<1>2. ASSUME SessionsTypeOK, [Next]_vars PROVE SessionsTypeOK'
  <2>1. CASE \E s \in Sids : Authenticated(s) \/ Unasked(s)
    BY <1>2, <2>1 DEF SessionsTypeOK, Stands, Stand, Authenticated, Unasked, handleSSE,
       StreamableBegins, StreamableDeletes, SseCloses, StreamableRegisters, Leaves,
       RefusesDelete, GoesAway, Sids
  <2>2. CASE SessionsRestart
    BY <1>2, <2>2 DEF SessionsTypeOK, Stands, SessionsRestart
  <2>3. CASE UNCHANGED sessionVars
    BY <1>2, <2>3 DEF SessionsTypeOK, sessionVars
  <2> QED
    BY <1>2, NextCases, <2>1, <2>2, <2>3
<1>3. ASSUME AdminTypeOK, [Next]_vars PROVE AdminTypeOK'
  <2> USE LimitAssumption DEF AdminTypeOK
  <2>1. CASE checkRateLimit /\ UNCHANGED keyVars
    <3>1. Passes /\ UNCHANGED <<now, apiKey, env, form>>
      BY <2>1 DEF checkRateLimit, keyVars
    <3>2. passed' \in [0 .. MaxTime -> Nat]
      BY <1>3, <3>1 DEF Passes
    <3>3. [count |-> 1, resetAt |-> now + Window] \in [count : Nat, resetAt : 0 .. MaxTime + Window]
      BY <1>3
    <3>4. [record EXCEPT !.count = @ + 1] \in [count : Nat, resetAt : 0 .. MaxTime + Window]
      BY <1>3
    <3> QED
      BY <1>3, <2>1, <3>1, <3>2, <3>3, <3>4 DEF checkRateLimit
  <2>2. CASE TimePasses /\ UNCHANGED keyVars
    BY <1>3, <2>2 DEF TimePasses, keyVars
  <2>3. CASE regenerateKey /\ UNCHANGED limitVars
    BY <1>3, <2>3 DEF regenerateKey, Writes, BreaksOff, Forms, limitVars
  <2>4. CASE AdminRestarts
    <3>1. record' \in [count : Nat, resetAt : 0 .. MaxTime + Window]
      BY <1>3, <2>4 DEF AdminRestarts, NoRecord
    <3>2. passed' \in [0 .. MaxTime -> Nat] /\ now' \in 0 .. MaxTime
      BY <1>3, <2>4 DEF AdminRestarts
    <3>3. apiKey' \in Keys \cup {NoKey} /\ env' \in Keys \cup {NoKey} /\ form' \in Forms
      BY <1>3, <2>4 DEF AdminRestarts, Writes, BreaksOff, Forms
    <3> QED
      BY <3>1, <3>2, <3>3
  <2>5. CASE UNCHANGED <<limitVars, keyVars>>
    BY <1>3, <2>5 DEF limitVars, keyVars
  <2> QED
    BY <1>3, NextCases, <2>1, <2>2, <2>3, <2>4, <2>5 DEF AdminNext
<1>4. OAuthInv => OAuthTypeOK
  BY DEF OAuthInv
<1> QED
  BY <1>1, <1>2, <1>3, <1>4, OAuthInvariant, PTL DEF Spec, TypeOK

-----------------------------------------------------------------------------
(***************************************************************************)
(* The client of an unbroken consent.                                      *)
(***************************************************************************)

\* Without a consent there is nothing to keep in step.
LEMMA ClientInvInit == OAuthInit => ClientInv
<1> SUFFICES ASSUME OAuthInit PROVE ClientInv
  OBVIOUS
<1>1. \A q \in Requests : request[q].at = "idle"
  BY DEF OAuthInit, Idle
<1>2. ASSUME NEW c \in Consents PROVE ~Approved(c)
  <2>1. issued[c] = 0 /\ c \notin codes /\ c \notin broken
    BY DEF OAuthInit
  <2> QED
    BY <2>1 DEF Approved
<1> QED
  BY <1>1, <1>2 DEF ClientInv, AnswersOf, Answered, Asking

\* A step that answers no request and takes no token of an unbroken consent: each
\* request stays, goes on, is refused or ends.
LEMMA ClientInvKept ==
    ASSUME OAuthInv, ClientInv, NEW c \in Consents, c \notin broken,
           \A r \in Requests :
              /\ Answered(r, c)' <=> Answered(r, c)
              /\ Asking(r, c)' => Asking(r, c)
              /\ Answered(r, c)' \/ Asking(r, c)' => request'[r].gives = request[r].gives,
           held'[c] = held[c],
           Approved(c)' => Approved(c),
           c \in codes => c \in codes',
           \A t \in refreshTokens : t[1] = c => t \in refreshTokens'
    PROVE  AnswersOf(c)' /\ (Approved(c)' => InStep(c)')
<1>1. AnswersOf(c) /\ (Approved(c) => InStep(c))
  BY DEF ClientInv
<1>2. AnswersOf(c)'
  BY <1>1 DEF AnswersOf, Answered, Asking
<1>3. ASSUME Approved(c)' PROVE InStep(c)'
  BY <1>1, <1>3 DEF InStep, Answered
<1> QED
  BY <1>2, <1>3

\* A request is refused: nothing else changes.
LEMMA ClientInvRefused ==
    ASSUME OAuthInv, ClientInv, NEW c \in Consents, c \notin broken,
           NEW q \in Requests, request[q].at \in {"sent", "checked"}, Refuses(q),
           UNCHANGED <<held, broken>>
    PROVE  AnswersOf(c)' /\ (Approved(c)' => InStep(c)')
<1>1. \A r \in Requests :
         /\ Answered(r, c)' <=> Answered(r, c)
         /\ Asking(r, c)' => Asking(r, c)
         /\ Answered(r, c)' \/ Asking(r, c)' => request'[r].gives = request[r].gives
  BY BecomesFacts DEF Refuses, Answered, Asking, Requested, OAuthInv
<1> QED
  BY <1>1, ClientInvKept DEF Refuses, Approved

\* A token is issued for a request of a consent that no other request has one for.
LEMMA ClientInvAnswers ==
    ASSUME OAuthInv, ClientInv, NEW c \in Consents, c \notin broken,
           NEW q \in Requests, request[q].at \in {"sent", "checked"},
           NEW old \in SUBSET {<<request[q].consent, request[q].gives>>}, Issues(q, old),
           codes \ {request[q].consent} \subseteq codes',
           codes' \subseteq codes,
           c = request[q].consent => \A r \in Requests : ~Answered(r, c),
           UNCHANGED <<held, broken>>
    PROVE  AnswersOf(c)' /\ (Approved(c)' => InStep(c)')
<1> DEFINE d == request[q].consent
           n == issued[d] + 1
<1>1. Requested(q) /\ d \in Consents
  BY RequestFacts DEF Requested, OAuthInv
<1>2. /\ request'[q].at = "answered" /\ request'[q].consent = d /\ request'[q].gives = n
      /\ \A r \in Requests \ {q} : request'[r] = request[r]
  BY <1>1, IssuesFacts DEF OAuthInv
<1>3. /\ refreshTokens' = (refreshTokens \ old) \cup {<<d, n>>}
      /\ issued' = [issued EXCEPT ![d] = n]
  BY DEF Issues
<1>4. CASE c = d
  <2>1. AnswersOf(c)
    BY DEF ClientInv
  <2>2. \A r \in Requests : Answered(r, c)' <=> r = q
    BY <1>2, <1>4 DEF Answered
  <2>3. n > held[c] /\ <<c, n>> \in refreshTokens'
    BY <1>3, <1>4 DEF OAuthInv, OAuthTypeOK
  <2>4. \A r \in Requests : Asking(r, c)' => request'[r].gives <= held[c]
    BY <1>2, <2>1 DEF AnswersOf, Asking
  <2>5. AnswersOf(c)'
    BY <1>2, <1>4, <2>2, <2>3, <2>4 DEF AnswersOf
  <2> QED
    BY <2>2, <2>5 DEF InStep
<1>5. CASE c # d
  <2>1. \A r \in Requests :
           /\ Answered(r, c)' <=> Answered(r, c)
           /\ Asking(r, c)' => Asking(r, c)
           /\ Answered(r, c)' \/ Asking(r, c)' => request'[r].gives = request[r].gives
    BY <1>2, <1>5 DEF Answered, Asking
  <2>2. issued'[c] = issued[c]
    BY <1>1, <1>3, <1>5 DEF OAuthInv, OAuthTypeOK
  <2>3. Approved(c)' => Approved(c)
    BY <2>2 DEF Approved
  <2>4. \A t \in refreshTokens : t[1] = c => t \in refreshTokens'
    BY <1>3, <1>5
  <2>5. c \in codes => c \in codes'
    BY <1>5
  <2> QED
    BY <2>1, <2>3, <2>4, <2>5, ClientInvKept
<1> QED
  BY <1>4, <1>5

\* A request that takes the client's code or refresh token away answers with the
\* next one, in the same step; whatever else can part the two breaks the consent.
LEMMA ClientInvStep == OAuthInv /\ ClientInv /\ OAuthNext => ClientInv'
<1> SUFFICES ASSUME OAuthInv, ClientInv, OAuthNext,
                    NEW c \in Consents, c \notin broken'
             PROVE  AnswersOf(c)' /\ (Approved(c)' => InStep(c)')
  BY DEF ClientInv
<1> USE TokensAssumption
<1>0. c \notin broken
  BY DEF OAuthNext, registerClient, authorize, revokeToken, Expires, Asks, ChecksChallenge,
         exchangeAuthorizationCode, exchangeRefreshToken, Arrives, Lost
<1>1. CASE registerClient
  BY <1>0, <1>1, ClientInvKept DEF registerClient, Answered, Asking, Approved
<1>2. CASE authorize
  <2>1. UNCHANGED <<request, held, issued, refreshTokens, broken>>
    BY <1>2 DEF authorize
  <2>2. CASE Approved(c)' /\ ~Approved(c)
    <3>1. held[c] = 0 /\ c \in codes'
      BY <1>2, <2>1, <2>2 DEF authorize, Approved, OAuthInv, OAuthTypeOK
    <3> QED
      BY <1>0, <2>1, <3>1 DEF ClientInv, AnswersOf, Answered, Asking, InStep, Code
  <2>3. CASE Approved(c)' => Approved(c)
    BY <1>0, <1>2, <2>1, <2>3, ClientInvKept DEF authorize, Answered, Asking
  <2> QED
    BY <2>2, <2>3
<1>3. CASE revokeToken
  BY <1>0, <1>3, ClientInvKept
  DEF revokeToken, Answered, Asking, Approved, OAuthInv, OAuthTypeOK
<1>4. CASE Expires
  BY <1>0, <1>4, ClientInvKept DEF Expires, Answered, Asking, Approved
<1>5. ASSUME NEW q \in Requests, Asks(q) PROVE AnswersOf(c)' /\ (Approved(c)' => InStep(c)')
  <2>1. UNCHANGED <<codes, refreshTokens, issued, held, broken>>
    BY <1>5 DEF Asks
  <2>2. request[q].at = "idle"
    BY <1>5 DEF Asks, Idle
  <2>3. PICK d \in Consents :
          request' = [request EXCEPT ![q] = [at |-> "sent", consent |-> d, gives |-> held[d]]]
    BY <1>5 DEF Asks
  <2>4. /\ request'[q].at = "sent" /\ request'[q].consent = d /\ request'[q].gives = held[d]
        /\ \A r \in Requests \ {q} : request'[r] = request[r]
    BY <2>3 DEF OAuthInv, OAuthTypeOK
  <2>5. \A r \in Requests : Answered(r, c)' <=> Answered(r, c)
    BY <2>2, <2>4 DEF Answered
  <2>6. AnswersOf(c) /\ (Approved(c) => InStep(c))
    BY <1>0 DEF ClientInv
  <2>7. InStep(c) => InStep(c)'
    BY <2>1, <2>5 DEF InStep
  <2>8. \A r \in Requests : Asking(r, c)' => request'[r].gives <= held[c]
    BY <2>4, <2>6 DEF AnswersOf, Asking, OAuthInv, OAuthTypeOK
  <2>9. \A r \in Requests : Answered(r, c) => request'[r] = request[r]
    BY <2>2, <2>4 DEF Answered
  <2> QED
    BY <2>1, <2>5, <2>6, <2>7, <2>8, <2>9 DEF AnswersOf, Approved, Answered, Asking
<1>6. ASSUME NEW q \in Requests, ChecksChallenge(q)
      PROVE  AnswersOf(c)' /\ (Approved(c)' => InStep(c)')
  <2>1. UNCHANGED <<codes, refreshTokens, issued, held, broken>>
    BY <1>6 DEF ChecksChallenge
  <2>2. \A r \in Requests :
           /\ Answered(r, c)' <=> Answered(r, c)
           /\ Asking(r, c)' => Asking(r, c)
           /\ Answered(r, c)' \/ Asking(r, c)' => request'[r].gives = request[r].gives
    BY <1>6, BecomesFacts DEF ChecksChallenge, Answered, Asking, Requested, OAuthInv
  <2> QED
    BY <1>0, <2>1, <2>2, ClientInvKept DEF Approved
<1>7. ASSUME NEW q \in Requests, exchangeAuthorizationCode(q)
      PROVE  AnswersOf(c)' /\ (Approved(c)' => InStep(c)')
  <2>1. request[q].at = "checked" /\ UNCHANGED <<held, broken>>
    BY <1>7 DEF exchangeAuthorizationCode
  <2>2. CASE Issues(q, {}) /\ request[q].consent \in codes /\ codes' = codes \ {request[q].consent}
    <3>1. \A r \in Requests : ~Answered(r, request[q].consent)
      BY <2>2, RequestFacts DEF Answered, OAuthInv, OAuthTypeOK, Requested
    <3> QED
      BY <1>0, <2>1, <2>2, <3>1, ClientInvAnswers
  <2>3. CASE Refuses(q)
    BY <1>0, <2>1, <2>3, ClientInvRefused
  <2> QED
    BY <1>7, <2>2, <2>3 DEF exchangeAuthorizationCode
<1>8. ASSUME NEW q \in Requests, exchangeRefreshToken(q)
      PROVE  AnswersOf(c)' /\ (Approved(c)' => InStep(c)')
  <2> DEFINE d == request[q].consent
             old == <<d, request[q].gives>>
  <2>1. request[q].at = "sent" /\ UNCHANGED <<held, broken>>
    BY <1>8 DEF exchangeRefreshToken
  <2>2. CASE Issues(q, {old}) /\ old \in refreshTokens /\ UNCHANGED codes
    <3>1. ASSUME NEW r \in Requests, Answered(r, c), c = d PROVE FALSE
      <4>1. AnswersOf(c)
        BY <1>0 DEF ClientInv
      <4>2. <<c, request[r].gives>> \in refreshTokens /\ request[r].gives > held[c]
        BY <3>1, <4>1 DEF AnswersOf
      <4>3. request[q].gives <= held[c]
        BY <2>1, <3>1, <4>1 DEF AnswersOf, Asking
      <4>4. request[r].gives = request[q].gives
        BY <2>2, <3>1, <4>2 DEF OAuthInv, OAuthTypeOK
      <4> QED
        BY <4>2, <4>3, <4>4, RequestFacts, <2>1 DEF OAuthInv, OAuthTypeOK, Requested
    <3> QED
      BY <1>0, <2>1, <2>2, <3>1, ClientInvAnswers
  <2>3. CASE Refuses(q)
    BY <1>0, <2>1, <2>3, ClientInvRefused
  <2> QED
    BY <1>8, <2>2, <2>3 DEF exchangeRefreshToken
<1>9. ASSUME NEW q \in Requests, Arrives(q) PROVE AnswersOf(c)' /\ (Approved(c)' => InStep(c)')
  <2>1. /\ UNCHANGED <<codes, refreshTokens, issued, broken>>
        /\ request'[q].at = "idle" /\ \A r \in Requests \ {q} : request'[r] = request[r]
    BY <1>9 DEF Arrives, OAuthInv, OAuthTypeOK, Idle
  <2>2. Requested(q)
    BY <1>9 DEF Arrives, Requested
  <2>3. AnswersOf(c) /\ held[c] \in Nat
    BY <1>0 DEF ClientInv, OAuthInv, OAuthTypeOK
  <2>4. CASE Answered(q, c)
    <3>1. held'[c] = request[q].gives
      BY <1>9, <2>4 DEF Arrives, Answered, OAuthInv, OAuthTypeOK
    <3>2. request[q].gives > held[c] /\ <<c, request[q].gives>> \in refreshTokens
      BY <2>3, <2>4 DEF AnswersOf
    <3>3. \A r \in Requests : ~Answered(r, c)'
      BY <2>1, <2>3, <2>4 DEF AnswersOf, Answered
    <3>4. \A r \in Requests : Asking(r, c)' => Asking(r, c) /\ request'[r].gives = request[r].gives
      BY <2>1 DEF Asking
    <3>5. \A r \in Requests : Asking(r, c)' => request'[r].gives <= held'[c]
      <4> SUFFICES ASSUME NEW r \in Requests, Asking(r, c)' PROVE request'[r].gives <= held'[c]
        OBVIOUS
      <4>1. request'[r].gives = request[r].gives /\ request[r].gives <= held[c]
        BY <2>3, <3>4 DEF AnswersOf
      <4>2. request[r].gives \in Nat /\ request[q].gives \in Nat
        BY <2>2, <3>4, RequestFacts DEF Asking, Requested, OAuthInv
      <4> QED
        BY <2>3, <3>1, <3>2, <4>1, <4>2
    <3>6. InStep(c)'
      BY <2>1, <2>3, <3>1, <3>2 DEF InStep, Code
    <3> QED
      BY <3>3, <3>5, <3>6 DEF AnswersOf
  <2>5. CASE ~Answered(q, c)
    <3>1. held'[c] = held[c]
      BY <1>9, <2>5 DEF Arrives, Answered, OAuthInv, OAuthTypeOK
    <3>2. \A r \in Requests :
             /\ Answered(r, c)' <=> Answered(r, c)
             /\ Asking(r, c)' => Asking(r, c)
             /\ Answered(r, c)' \/ Asking(r, c)' => request'[r].gives = request[r].gives
      BY <2>1, <2>5 DEF Answered, Asking
    <3> QED
      BY <1>0, <2>1, <3>1, <3>2, ClientInvKept DEF Approved
  <2> QED
    BY <2>4, <2>5
<1>10. ASSUME NEW q \in Requests, Lost(q) PROVE AnswersOf(c)' /\ (Approved(c)' => InStep(c)')
  <2>1. /\ UNCHANGED <<codes, refreshTokens, issued, held>>
        /\ request'[q].at = "idle" /\ \A r \in Requests \ {q} : request'[r] = request[r]
    BY <1>10 DEF Lost, OAuthInv, OAuthTypeOK, Idle
  <2>2. ~Answered(q, c)
    BY <1>10 DEF Lost, Answered
  <2>3. \A r \in Requests :
           /\ Answered(r, c)' <=> Answered(r, c)
           /\ Asking(r, c)' => Asking(r, c)
           /\ Answered(r, c)' \/ Asking(r, c)' => request'[r].gives = request[r].gives
    BY <2>1, <2>2 DEF Answered, Asking
  <2>4. Approved(c)' => Approved(c)
    BY <1>10, <2>1 DEF Lost, Approved
  <2> QED
    BY <1>0, <2>1, <2>3, <2>4, ClientInvKept
<1> QED
  BY OAuthCases, <1>1, <1>2, <1>3, <1>4, <1>5, <1>6, <1>7, <1>8, <1>9, <1>10

\* A restart breaks every consent that was given.
LEMMA ClientInvRestart == OAuthInv /\ OAuthRestarts => ClientInv'
<1> SUFFICES ASSUME OAuthInv, OAuthRestarts PROVE ClientInv'
  OBVIOUS
<1>1. \A q \in Requests : request'[q].at = "idle"
  BY DEF OAuthRestarts, Idle
<1>2. \A c \in Consents \ broken' : ~Approved(c)'
  BY DEF OAuthRestarts, Approved
<1> QED
  BY <1>1, <1>2 DEF ClientInv, AnswersOf, Answered, Asking

\* Whatever its requests meet, the client of a consent holds a token that will do
\* or its answer is on its way (ClientInStep): the token exchange of OAuth, for
\* every number of consents, of requests side by side and of tokens.
THEOREM ClientInStepHolds == Spec => []ClientInStep
<1>1. Init => ClientInv
  BY ClientInvInit DEF Init
<1>2. ASSUME OAuthInv, ClientInv, [Next]_vars PROVE ClientInv'
  <2>1. CASE UNCHANGED oauthVars
    BY <1>2, <2>1
    DEF oauthVars, ClientInv, AnswersOf, Answered, Asking, Approved, InStep
  <2> QED
    BY <1>2, <2>1, NextCases, ClientInvStep, ClientInvRestart
<1>3. ClientInv => ClientInStep
  BY DEF ClientInv, ClientInStep
<1> QED
  BY <1>1, <1>2, <1>3, OAuthInvariant, PTL DEF Spec

-----------------------------------------------------------------------------
(***************************************************************************)
(* The OAuth provider implements Grants.  A consent has ended when it was  *)
(* given and has neither a good code nor a token; OAuthInv is what keeps   *)
(* that from changing: an unused code has issued nothing, a refresh token  *)
(* that is exchanged was there.                                            *)
(***************************************************************************)

Live(c) == \E t \in tokens \cup refreshTokens : t[1] = c

\* What a consent is worth, by what the tables hold of it.
LEMMA GrantCases ==
    ASSUME NEW c \in Consents
    PROVE  /\ GrantOf(c) = "access" <=> Live(c)
           /\ GrantOf(c) = "code" <=> ~Live(c) /\ c \in codes
           /\ GrantOf(c) = "ended" <=> ~Live(c) /\ c \notin codes /\ Approved(c)
           /\ GrantOf(c) = "none" <=> ~Live(c) /\ c \notin codes /\ ~Approved(c)
BY DEF GrantOf, Live

GrantsNow == [c \in Consents |-> GrantOf(c)]

\* While every consent keeps what it has, or some that had something have ended,
\* the step is one of Grants or none.
LEMMA GrantsEnd ==
    ASSUME \A c \in Consents :
              \/ GrantOf(c)' = GrantOf(c)
              \/ GrantOf(c) \in {"code", "access"} /\ GrantOf(c)' = "ended"
    PROVE  Abstract!Next \/ UNCHANGED GrantsNow
<1> DEFINE cs == {c \in Consents : GrantOf(c)' # GrantOf(c)}
<1>1. \A c \in cs : GrantsNow[c] \in {"code", "access"}
  BY DEF GrantsNow
<1>2. GrantsNow' = [c \in Consents |-> IF c \in cs THEN "ended" ELSE GrantsNow[c]]
  BY DEF GrantsNow
<1>3. Abstract!Ended(cs)
  BY <1>1, <1>2 DEF Abstract!Ended, GrantsNow
<1> QED
  BY <1>3 DEF Abstract!Next

\* Whoever has a token, a code or an answer was given its grant.
LEMMA LiveIsApproved ==
    ASSUME OAuthInv, NEW c \in Consents
    PROVE  /\ Live(c) => Approved(c) /\ c \notin codes /\ issued[c] > 0
           /\ \A q \in Requests : Answered(q, c) => Approved(c)
<1>1. Live(c) => issued[c] > 0
  BY DEF Live, OAuthInv, OAuthTypeOK, Tokens
<1>2. \A q \in Requests : Answered(q, c) => issued[c] > 0
  BY RequestFacts DEF Answered, OAuthInv, OAuthTypeOK, Requested
<1> QED
  BY <1>1, <1>2 DEF Approved, OAuthInv

\* A step that gives no new grant: GrantsEnd by its parts.
LEMMA GrantsFade ==
    ASSUME OAuthInv,
           \A c \in Consents :
              /\ Approved(c)' <=> Approved(c)
              /\ Live(c)' => Live(c)
              /\ c \in codes' => c \in codes
    PROVE  Abstract!Next \/ UNCHANGED GrantsNow
<1> SUFFICES ASSUME NEW c \in Consents
             PROVE  \/ GrantOf(c)' = GrantOf(c)
                    \/ GrantOf(c) \in {"code", "access"} /\ GrantOf(c)' = "ended"
  BY GrantsEnd
<1>1. /\ GrantOf(c)' = "access" <=> Live(c)'
      /\ GrantOf(c)' = "code" <=> ~Live(c)' /\ c \in codes'
      /\ GrantOf(c)' = "ended" <=> ~Live(c)' /\ c \notin codes' /\ Approved(c)'
      /\ GrantOf(c)' = "none" <=> ~Live(c)' /\ c \notin codes' /\ ~Approved(c)'
  BY DEF GrantOf, Live
<1> QED
  BY <1>1, GrantCases, LiveIsApproved DEF Approved

\* Every step of the provider grants, uses or ends one consent, or none.
LEMMA GrantsStep == OAuthInv /\ OAuthNext => Abstract!Next \/ UNCHANGED GrantsNow
<1> SUFFICES ASSUME OAuthInv, OAuthNext PROVE Abstract!Next \/ UNCHANGED GrantsNow
  OBVIOUS
<1>1. CASE registerClient
  BY <1>1, GrantsFade DEF registerClient, Live, Approved
<1>2. CASE authorize
  <2>1. PICK c \in Consents : ~Approved(c) /\ codes' = codes \cup {c}
    BY <1>2 DEF authorize, OAuthInv, OAuthTypeOK
  <2>2. UNCHANGED <<tokens, refreshTokens, issued, broken>>
    BY <1>2 DEF authorize
  <2>3. GrantOf(c) = "none" /\ GrantOf(c)' = "code"
    BY <2>1, <2>2, LiveIsApproved DEF GrantOf, Live, Approved
  <2>4. \A d \in Consents \ {c} : GrantOf(d)' = GrantOf(d)
    BY <2>1, <2>2 DEF GrantOf, Approved
  <2>5. Abstract!Given(c)
    BY <2>1, <2>3, <2>4 DEF Abstract!Given
  <2> QED
    BY <2>5 DEF Abstract!Next
<1>3. CASE revokeToken
  BY <1>3, GrantsFade, LiveIsApproved DEF revokeToken, Live, Approved, OAuthInv, OAuthTypeOK
<1>4. CASE Expires
  BY <1>4, GrantsFade DEF Expires, Live, Approved
<1>5. ASSUME NEW q \in Requests, Asks(q) PROVE Abstract!Next \/ UNCHANGED GrantsNow
  BY <1>5, GrantsFade DEF Asks, Live, Approved
<1>6. ASSUME NEW q \in Requests, ChecksChallenge(q) PROVE Abstract!Next \/ UNCHANGED GrantsNow
  BY <1>6, GrantsFade DEF ChecksChallenge, Live, Approved
<1>7. ASSUME NEW q \in Requests, exchangeAuthorizationCode(q)
      PROVE  Abstract!Next \/ UNCHANGED GrantsNow
  <2>0. PICK c : c = request[q].consent
    OBVIOUS
  <2>1. CASE Refuses(q)
    BY <1>7, <2>1, GrantsFade DEF exchangeAuthorizationCode, Refuses, Live, Approved
  <2>2. CASE c \in codes /\ Issues(q, {}) /\ codes' = codes \ {c}
    <3>1. c \in Consents
      BY <2>2 DEF OAuthInv, OAuthTypeOK
    <3>2. /\ tokens' = tokens \cup {<<c, issued[c] + 1>>}
          /\ refreshTokens' = refreshTokens \cup {<<c, issued[c] + 1>>}
          /\ \A d \in Consents \ {c} : issued'[d] = issued[d]
          /\ UNCHANGED broken
      BY <1>7, <2>0, <2>2 DEF exchangeAuthorizationCode, Issues, OAuthInv, OAuthTypeOK
    <3>3. GrantOf(c) = "code" /\ GrantOf(c)' = "access"
      <4>1. GrantOf(c) = "code"
        BY <2>2, <3>1, LiveIsApproved, GrantCases
      <4>2. <<c, issued[c] + 1>> \in tokens' /\ <<c, issued[c] + 1>>[1] = c
        BY <3>2
      <4>3. GrantOf(c)' = "access"
        BY <4>2 DEF GrantOf
      <4> QED
        BY <4>1, <4>3
    <3>4. \A d \in Consents \ {c} : GrantOf(d)' = GrantOf(d)
      BY <2>2, <3>2 DEF GrantOf, Approved
    <3>5. Abstract!Redeemed(c)
      BY <3>1, <3>3, <3>4 DEF Abstract!Redeemed
    <3> QED
      BY <3>1, <3>5 DEF Abstract!Next
  <2> QED
    BY <1>7, <2>0, <2>1, <2>2 DEF exchangeAuthorizationCode
<1>8. ASSUME NEW q \in Requests, exchangeRefreshToken(q)
      PROVE  Abstract!Next \/ UNCHANGED GrantsNow
  <2> DEFINE c == request[q].consent
             old == <<c, request[q].gives>>
  <2>1. CASE Refuses(q)
    BY <1>8, <2>1, GrantsFade DEF exchangeRefreshToken, Refuses, Live, Approved
  <2>2. CASE old \in refreshTokens /\ Issues(q, {old}) /\ UNCHANGED codes
    <3>1. c \in Consents /\ Live(c)
      BY <2>2 DEF OAuthInv, OAuthTypeOK, Tokens, Live
    <3>2. /\ tokens' = tokens \cup {<<c, issued[c] + 1>>}
          /\ refreshTokens' = (refreshTokens \ {old}) \cup {<<c, issued[c] + 1>>}
          /\ issued' = [issued EXCEPT ![c] = issued[c] + 1]
          /\ UNCHANGED broken
      BY <1>8, <2>2 DEF exchangeRefreshToken, Issues
    <3>3. issued[c] + 1 > 0 /\ issued[c] > 0 /\ issued'[c] = issued[c] + 1
      BY <3>1, <3>2, LiveIsApproved DEF OAuthInv, OAuthTypeOK
    <3>4. \A d \in Consents \ {c} : Live(d)' <=> Live(d)
      BY <3>2 DEF Live
    <3>5. \A d \in Consents : (Live(d)' => Live(d)) /\ (Approved(d)' <=> Approved(d))
      BY <2>2, <3>1, <3>2, <3>3, <3>4 DEF Approved, OAuthInv, OAuthTypeOK
    <3> QED
      BY <2>2, <3>5, GrantsFade
  <2> QED
    BY <1>8, <2>1, <2>2 DEF exchangeRefreshToken
<1>9. ASSUME NEW q \in Requests, Arrives(q) PROVE Abstract!Next \/ UNCHANGED GrantsNow
  BY <1>9, GrantsFade DEF Arrives, Live, Approved
<1>10. ASSUME NEW q \in Requests, Lost(q) PROVE Abstract!Next \/ UNCHANGED GrantsNow
  BY <1>10, GrantsFade, LiveIsApproved DEF Lost, Answered, Live, Approved
<1> QED
  BY OAuthCases, <1>1, <1>2, <1>3, <1>4, <1>5, <1>6, <1>7, <1>8, <1>9, <1>10

\* A restart ends all that were given.
LEMMA GrantsRestart == OAuthInv /\ OAuthRestarts => Abstract!Next \/ UNCHANGED GrantsNow
<1> SUFFICES ASSUME OAuthInv, OAuthRestarts PROVE Abstract!Next \/ UNCHANGED GrantsNow
  OBVIOUS
<1>1. \A c \in Consents : Approved(c)' <=> Approved(c)
  BY DEF OAuthRestarts, Approved
<1> QED
  BY <1>1, GrantsFade DEF OAuthRestarts, Live

\* The provider implements Grants (GrantsOnce): whatever is asked twice or side by
\* side, expires, is revoked or lost, a consent yields access once and never again.
THEOREM GrantsOnceHolds == Spec => GrantsOnce
<1>1. Init => Abstract!Init
  <2> SUFFICES ASSUME Init, NEW c \in Consents PROVE GrantOf(c) = "none"
    BY DEF Abstract!Init
  <2>1. issued[c] = 0 /\ codes = {} /\ tokens = {} /\ refreshTokens = {} /\ broken = {}
    BY DEF Init, OAuthInit
  <2> QED
    BY <2>1 DEF GrantOf, Approved
<1>2. OAuthInv /\ [Next]_vars => [Abstract!Next]_GrantsNow
  <2>1. UNCHANGED oauthVars => UNCHANGED GrantsNow
    BY DEF oauthVars, GrantsNow, GrantOf, Approved
  <2> QED
    BY <2>1, NextCases, GrantsStep, GrantsRestart
<1> QED
  BY <1>1, <1>2, OAuthInvariant, PTL DEF Spec, GrantsOnce, Abstract!Spec, GrantsNow

-----------------------------------------------------------------------------
(***************************************************************************)
(* The sessions.  The server registers a session without asking whether    *)
(* its client is still there, and takes one out without knowing of those   *)
(* to come: the invariant needs that no session is registered twice, and   *)
(* that a new client has none.                                             *)
(***************************************************************************)

SessionsInv == ConnectedClients /\ sessions \cap opening = {}

\* One step per action of a client or of the handlers.
LEMMA SessionsStep ==
    ASSUME SessionsTypeOK, SessionsInv, NEW s \in Sids, Authenticated(s) \/ Unasked(s)
    PROVE  SessionsInv'
<1> USE DEF SessionsTypeOK, SessionsInv, ConnectedClients, Sids, Stand
<1>1. CASE handleSSE(s)
  BY <1>1 DEF handleSSE
<1>2. CASE SseCloses(s)
  BY <1>2, KindsAssumption DEF SseCloses
<1>3. CASE StreamableBegins(s)
  BY <1>3 DEF StreamableBegins
<1>4. CASE StreamableRegisters(s)
  BY <1>4 DEF StreamableRegisters
<1>5. CASE Leaves(s)
  BY <1>5 DEF Leaves
<1>6. CASE StreamableDeletes(s)
  BY <1>6 DEF StreamableDeletes
<1>7. CASE RefusesDelete(s)
  BY <1>7 DEF RefusesDelete
<1>8. CASE GoesAway(s)
  BY <1>8 DEF GoesAway
<1> QED
  BY <1>1, <1>2, <1>3, <1>4, <1>5, <1>6, <1>7, <1>8 DEF Authenticated, Unasked

\* No client with an open session is missing from those the admin panel counts, and
\* none is counted, now or when its first request has been handled, whose connection
\* closed or whose DELETE succeeded: whenever the handlers and the clients take
\* their steps, with DELETEs that come too early and are sent again
\* (ConnectedClients).
THEOREM ConnectedClientsHolds == Spec => []ConnectedClients
<1>1. Init => SessionsInv
  BY DEF Init, SessionsInit, SessionsInv, ConnectedClients
<1>2. TypeOK /\ SessionsInv /\ [Next]_vars => SessionsInv'
  <2> SUFFICES ASSUME SessionsTypeOK, SessionsInv, [Next]_vars PROVE SessionsInv'
    BY DEF TypeOK
  <2>1. CASE SessionsRestart
    BY <2>1 DEF SessionsRestart, SessionsInv, ConnectedClients
  <2>2. CASE UNCHANGED sessionVars
    BY <2>2 DEF sessionVars, SessionsInv, ConnectedClients
  <2> QED
    BY NextCases, SessionsStep, <2>1, <2>2
<1>3. SessionsInv => ConnectedClients
  BY DEF SessionsInv
<1> QED
  BY <1>1, <1>2, <1>3, TypeCorrect, PTL DEF Spec

-----------------------------------------------------------------------------
(***************************************************************************)
(* The login attempts.  The bound is about what passed, and the limiter    *)
(* keeps one count: the invariant says that the count is what passed since *)
(* the window began, that one attempt began it, and that what passed       *)
(* shortly before it leaves out the one that began the window before.      *)
(***************************************************************************)

\* When the window that is open, or was last, began.
start == record.resetAt - Window

LimitInv ==
    /\ AttemptsBounded
    /\ \A t \in 0 .. MaxTime : now <= t => passed[t] = passed[now]
    /\ \A t, u \in 0 .. MaxTime : t <= u => passed[t] <= passed[u]
    /\ record.count = 0 => \A t \in 0 .. MaxTime : passed[t] = 0
    /\ record.count > 0 =>
         /\ start \in 0 .. now
         /\ record.count <= MaxAttempts
         /\ passed[now] = Before(start) + record.count
         /\ now > record.resetAt => Before(now) = passed[now]
         /\ passed[start] > Before(start)
         /\ \A t \in 0 .. start :
              start < t + Window => Before(start) - Before(t) <= MaxAttempts - 1

\* passed counts up: what passed before a time passed up to any later one.
LEMMA BeforeFacts ==
    ASSUME AdminTypeOK, LimitInv
    PROVE  /\ \A t \in 0 .. MaxTime : Before(t) \in Nat /\ passed[t] \in Nat
           /\ \A t, u \in 0 .. MaxTime :
                /\ t <= u => Before(t) <= Before(u) /\ Before(t) <= passed[u]
                /\ u < t => passed[u] <= Before(t)
<1> USE LimitAssumption DEF AdminTypeOK, LimitInv
<1>1. \A t \in 0 .. MaxTime : Before(t) \in Nat /\ passed[t] \in Nat
  BY DEF Before
<1>2. \A t, u \in 0 .. MaxTime : t <= u => Before(t) <= Before(u) /\ Before(t) <= passed[u]
  BY DEF Before
<1>3. \A t, u \in 0 .. MaxTime : u < t => passed[u] <= Before(t)
  BY DEF Before
<1> QED
  BY <1>1, <1>2, <1>3

\* An attempt counts from now on.
LEMMA PassesFacts ==
    ASSUME AdminTypeOK, LimitInv, Passes
    PROVE  \A t \in 0 .. MaxTime :
             /\ passed'[t] = IF t < now THEN passed[t] ELSE passed[t] + 1
             /\ Before(t)' = IF t <= now THEN Before(t) ELSE Before(t) + 1
<1> USE LimitAssumption DEF AdminTypeOK, Passes
<1>1. \A t \in 0 .. MaxTime : passed'[t] = IF t < now THEN passed[t] ELSE passed[t] + 1
  OBVIOUS
<1> QED
  BY <1>1 DEF Before

\* Attempts of a window and of the end of what came before it, put together.
LEMMA BoundedByWindow ==
    ASSUME AdminTypeOK, LimitInv, Passes, UNCHANGED now,
           NEW w \in 0 .. now, NEW n \in 1 .. MaxAttempts,
           passed[now] + 1 = Before(w) + n,
           \A t \in 0 .. w : w < t + Window => Before(w) - Before(t) <= MaxAttempts - 1
    PROVE  AttemptsBounded'
<1> USE LimitAssumption
<1> SUFFICES ASSUME NEW t \in 0 .. MaxTime, NEW u \in 0 .. MaxTime, u < t + Window
             PROVE  passed'[u] - Before(t)' <= 2 * MaxAttempts - 1
  BY DEF AttemptsBounded
<1>0. now \in 0 .. MaxTime /\ w \in 0 .. MaxTime
  BY DEF AdminTypeOK
<1>1. CASE u < now /\ t <= u
  <2>1. passed'[u] = passed[u] /\ Before(t)' = Before(t)
    BY <1>0, <1>1, PassesFacts
  <2> QED
    BY <2>1 DEF LimitInv, AttemptsBounded
<1>2. CASE u < t
  <2>1. passed[u] <= Before(t) /\ passed[u] \in Nat /\ Before(t) \in Nat
    BY <1>2, BeforeFacts
  <2>2. passed'[u] <= Before(t)'
    BY <1>0, <1>2, <2>1, PassesFacts
  <2>3. passed'[u] \in Nat /\ Before(t)' \in Nat
    BY <2>1, PassesFacts
  <2> QED
    BY <2>2, <2>3
<1>3. CASE now <= u /\ t <= u
  <2>1. passed'[u] = Before(w) + n
    BY <1>0, <1>3, PassesFacts DEF LimitInv
  <2>2. Before(w) \in Nat /\ Before(t) \in Nat
    BY <1>0, BeforeFacts
  <2>3. CASE t <= w
    <3>1. Before(t)' = Before(t) /\ Before(w) - Before(t) <= MaxAttempts - 1
      BY <1>0, <1>3, <2>3, PassesFacts
    <3> QED
      BY <2>1, <2>2, <3>1
  <2>4. CASE w < t
    <3>1. Before(w) <= Before(t)'
      BY <1>0, <2>2, <2>4, BeforeFacts, PassesFacts
    <3>2. Before(t)' \in Nat
      BY <2>2, PassesFacts
    <3> QED
      BY <2>1, <2>2, <3>1, <3>2
  <2> QED
    BY <1>0, <2>3, <2>4
<1> QED
  BY <1>0, <1>1, <1>2, <1>3

\* An attempt that passes is in the window that is open, or opens one after it: then
\* the window before it has let through at most its limit.
LEMMA LimitStep == AdminTypeOK /\ LimitInv /\ checkRateLimit => LimitInv'
<1> SUFFICES ASSUME AdminTypeOK, LimitInv, checkRateLimit PROVE LimitInv'
  OBVIOUS
<1> USE LimitAssumption
<1>1. Passes /\ UNCHANGED now /\ now \in 0 .. MaxTime
  BY DEF checkRateLimit, AdminTypeOK
<1>2. /\ \A t \in 0 .. MaxTime : now <= t => passed'[t] = passed'[now]
      /\ \A t, u \in 0 .. MaxTime : t <= u => passed'[t] <= passed'[u]
  BY <1>1, PassesFacts, BeforeFacts DEF LimitInv
<1>3. /\ passed'[now] = passed[now] + 1 /\ Before(now)' = Before(now)
      /\ passed[now] \in Nat /\ Before(now) \in Nat
  BY <1>1, PassesFacts, BeforeFacts
<1>4. start \in Int /\ record.count \in Nat
  BY DEF start, AdminTypeOK
\* The attempt begins a window: the one before ended without attempts since.
<1>5. CASE /\ record' = [count |-> 1, resetAt |-> now + Window]
           /\ record.count = 0 \/ now > record.resetAt
  <2>1. record'.count = 1 /\ start' = now /\ record'.resetAt = now + Window
    BY <1>1, <1>5 DEF start
  <2>2. Before(now) = passed[now]
    BY <1>1, <1>5, <1>4 DEF LimitInv, Before
  <2>3. ASSUME NEW t \in 0 .. now, now < t + Window
        PROVE  Before(now) - Before(t) <= MaxAttempts - 1
    <3>1. CASE record.count = 0
      <4>1. passed[now] = 0 /\ Before(t) \in Nat
        BY <1>1, <3>1, BeforeFacts DEF LimitInv
      <4> QED
        BY <2>2, <4>1
    <3>2. CASE record.count # 0
      <4>1. start \in 0 .. now /\ start < t /\ start \in 0 .. MaxTime /\ t \in 0 .. MaxTime
        <5>1. start \in 0 .. now
          BY <1>4, <3>2 DEF LimitInv
        <5>2. record.resetAt \in Int /\ record.resetAt < now
          BY <1>5, <3>2 DEF AdminTypeOK
        <5> QED
          BY <1>1, <2>3, <5>1, <5>2 DEF start
      <4>2. passed[now] = Before(start) + record.count /\ record.count <= MaxAttempts
        BY <1>4, <3>2 DEF LimitInv
      <4>3. Before(start) + 1 <= Before(t) /\ Before(t) \in Nat /\ Before(start) \in Nat
        BY <1>4, <3>2, <4>1, BeforeFacts DEF LimitInv
      <4> QED
        BY <1>4, <2>2, <4>2, <4>3
    <3> QED
      BY <3>1, <3>2
  <2>4. AttemptsBounded'
    BY <1>1, <1>3, <2>2, <2>3, BoundedByWindow
  <2>5. \A t \in 0 .. now : Before(t)' = Before(t)
    BY <1>1, PassesFacts
  <2> QED
    BY <1>1, <1>2, <1>3, <2>1, <2>2, <2>3, <2>4, <2>5 DEF LimitInv
\* The attempt is one more of its window.
<1>6. CASE /\ record' = [record EXCEPT !.count = @ + 1] /\ record.count # 0
           /\ now <= record.resetAt /\ record.count < MaxAttempts
  <2>0. PICK s : s = start
    OBVIOUS
  <2>1. record'.count = record.count + 1 /\ start' = s /\ record'.resetAt = record.resetAt
    BY <1>6, <2>0 DEF start, AdminTypeOK
  <2>2. /\ s \in 0 .. now /\ s \in 0 .. MaxTime
        /\ passed[now] = Before(s) + record.count
        /\ passed[s] > Before(s)
        /\ \A t \in 0 .. s : s < t + Window => Before(s) - Before(t) <= MaxAttempts - 1
    BY <1>1, <1>4, <1>6, <2>0 DEF LimitInv
  <2>3. Before(s) \in Nat /\ passed[s] \in Nat
    BY <2>2, BeforeFacts
  <2>4. AttemptsBounded'
    <3>1. record.count + 1 \in 1 .. MaxAttempts /\ passed[now] + 1 = Before(s) + (record.count + 1)
      BY <1>3, <1>4, <1>6, <2>2, <2>3
    <3> QED
      BY <1>1, <2>2, <3>1, BoundedByWindow
  <2>5. \A t \in 0 .. s : Before(t)' = Before(t)
    BY <1>1, <2>2, PassesFacts
  <2>6. passed'[s] > Before(s)'
    <3>1. Before(s)' = Before(s)
      BY <2>2, <2>5
    <3>2. passed'[s] = passed[s] \/ passed'[s] = passed[s] + 1
      BY <1>1, <2>2, PassesFacts
    <3> QED
      BY <2>2, <2>3, <3>1, <3>2
  <2>7. passed'[now] = Before(s)' + record'.count /\ record'.count <= MaxAttempts /\ record'.count > 0
    BY <1>3, <1>4, <1>6, <2>1, <2>2, <2>3, <2>5
  <2>8. \A t \in 0 .. s : s < t + Window => Before(s)' - Before(t)' <= MaxAttempts - 1
    BY <2>2, <2>5
  <2>9. ~(now' > record'.resetAt)
    BY <1>1, <1>6, <2>1 DEF AdminTypeOK
  <2> QED
    BY <1>1, <1>2, <2>1, <2>2, <2>4, <2>6, <2>7, <2>8, <2>9 DEF LimitInv
<1> QED
  BY <1>5, <1>6 DEF checkRateLimit, AdminTypeOK

\* No window of a minute sees more attempts than AttemptsBounded says, whenever
\* the attempts come and the windows of the limiter begin.
THEOREM AttemptsBoundedHolds == Spec => []AttemptsBounded
<1> USE LimitAssumption
<1>1. Init => LimitInv
  <2> SUFFICES ASSUME Init PROVE LimitInv
    OBVIOUS
  <2>1. now = 0 /\ record.count = 0 /\ \A t \in 0 .. MaxTime : passed[t] = 0
    BY DEF Init, AdminInit, NoRecord
  <2> QED
    BY <2>1 DEF LimitInv, AttemptsBounded, Before
<1>2. TypeOK /\ LimitInv /\ [Next]_vars => LimitInv'
  <2> SUFFICES ASSUME AdminTypeOK, LimitInv, [Next]_vars PROVE LimitInv'
    BY DEF TypeOK
  <2>1. CASE TimePasses
    <3>1. now' = now + 1 /\ now' \in 0 .. MaxTime /\ now \in 0 .. MaxTime
      BY <2>1 DEF TimePasses, AdminTypeOK
    <3>2. start' = start /\ start \in Int /\ record' = record /\ passed' = passed
      BY <2>1 DEF TimePasses, start, AdminTypeOK
    <3>3. \A t \in 0 .. MaxTime : Before(t)' = Before(t)
      BY <3>2 DEF Before
    <3>4. AttemptsBounded'
      BY <3>2 DEF LimitInv, AttemptsBounded, Before
    <3>5. passed'[now'] = passed[now]
      BY <3>1, <3>2 DEF LimitInv
    <3>6. \A t \in 0 .. MaxTime : now' <= t => passed'[t] = passed'[now']
      BY <3>1, <3>2, <3>5 DEF LimitInv
    <3>7. Before(now') = passed[now]
      BY <3>1 DEF Before
    <3>8. record.count > 0 =>
            /\ start \in 0 .. now' /\ start \in 0 .. MaxTime
            /\ passed[now] = Before(start) + record.count
            /\ passed[start] > Before(start)
            /\ \A t \in 0 .. start :
                 start < t + Window => Before(start) - Before(t) <= MaxAttempts - 1
      BY <3>1, <3>2 DEF LimitInv
    <3> QED
      BY <3>1, <3>2, <3>3, <3>4, <3>5, <3>6, <3>7, <3>8 DEF LimitInv
  <2>2. CASE AdminRestarts
    <3>1. record'.count = 0 /\ now' = now /\ now \in 0 .. MaxTime
      BY <2>2 DEF AdminRestarts, NoRecord, AdminTypeOK
    <3>2. \A t \in 0 .. MaxTime : passed'[t] = 0
      BY <2>2 DEF AdminRestarts
    <3> QED
      BY <3>1, <3>2 DEF LimitInv, AttemptsBounded, Before
  <2>3. CASE UNCHANGED limitVars
    BY <2>3 DEF limitVars, LimitInv, AttemptsBounded, Before, start
  <2> QED
    BY NextCases, LimitStep, <2>1, <2>2, <2>3 DEF AdminNext
<1>3. LimitInv => AttemptsBounded
  BY DEF LimitInv
<1> QED
  BY <1>1, <1>2, <1>3, TypeCorrect, PTL DEF Spec

=============================================================================
