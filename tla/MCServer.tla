------------------------------ MODULE MCServer ------------------------------
(***************************************************************************)
(* Two consents with two requests and two tokens each; one session of      *)
(* either transport; two keys; three attempts in windows of three ticks.   *)
(***************************************************************************)
EXTENDS Server, TLC

CONSTANTS c1, c2, q1, q2, k1, k2, sse, http

MCConsents == {c1, c2}
MCRequests == {q1, q2}
MCKeys == {k1, k2}
MCSse == {sse}
MCStreamable == {http}

\* Requests are alike, and so are consents and keys.
Symmetry == Permutations(MCRequests) \cup Permutations(MCConsents) \cup Permutations(MCKeys)

\* Bounds of the search: the parts share only the restart and who is admitted,
\* so at most one of them is looked at in full at a time.
Tokenless == issued = [c \in Consents |-> 0] /\ codes = {} /\ clients = {}
NoSessions == \A s \in Sids : client[s] = "new"
NoAttempts == now = 0 /\ record = NoRecord
SameKey == apiKey = env /\ form = "line"
OneRotates == \E c \in Consents : issued[c] <= 1
NoKeys == SameKey /\ env = NoKey
Bounds ==
    \/ NoSessions /\ NoAttempts /\ NoKeys /\ OneRotates
    \/ Tokenless /\ NoAttempts
    \/ Tokenless /\ NoSessions /\ SameKey

=============================================================================
