------------------------------- MODULE Grants -------------------------------
(***************************************************************************)
(* What the OAuth provider promises of one consent of the owner: it yields *)
(* access once, and when that has ended it has ended for good.             *)
(***************************************************************************)
CONSTANT Consents

VARIABLE grant

Init == grant = [c \in Consents |-> "none"]

Given(c) == grant[c] = "none" /\ grant' = [grant EXCEPT ![c] = "code"]
Redeemed(c) == grant[c] = "code" /\ grant' = [grant EXCEPT ![c] = "access"]
Ended(cs) ==
    /\ \A c \in cs : grant[c] \in {"code", "access"}
    /\ grant' = [c \in Consents |-> IF c \in cs THEN "ended" ELSE grant[c]]

Next ==
    \/ \E c \in Consents : Given(c) \/ Redeemed(c)
    \/ \E cs \in SUBSET Consents : Ended(cs)

Spec == Init /\ [][Next]_grant

=============================================================================
