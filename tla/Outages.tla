------------------------------ MODULE Outages ------------------------------
(***************************************************************************)
(* The bridge and the server together: what becomes of an outage of the    *)
(* session until the owner hears of it.  Callbacks and GET /status are all *)
(* that passes between the two.                                            *)
(***************************************************************************)
EXTENDS Naturals, Sequences

CONSTANTS MaxIncidents, MaxEvents, Trip, MaxRestarts, NtfyFails, Debounced,
    CallsFail    \* whether a callback may be lost

VARIABLES
    device, link, channel, code, events, main, connected, loggedIn, account,
    qr, reader, relogin, logout, calls, incidents, mishaps,
    pending, offline, stuck, poll, quiet, inbox, restarts

\* GET /status: nobody answers while the process is down or not yet serving.
online == main = "up" /\ connected

B == INSTANCE BridgeSession
S == INSTANCE Notify

ASSUME OutagesAssumption ==
    /\ MaxIncidents \in Nat /\ MaxEvents \in Nat \ {0}
    /\ Trip \in Nat \ {0} /\ MaxRestarts \in Nat
    /\ NtfyFails \in BOOLEAN /\ CallsFail \in BOOLEAN /\ Debounced \subseteq S!Notices

bridgeVars == <<device, link, channel, code, events, main, connected, loggedIn,
                account, qr, reader, relogin, logout, incidents, mishaps>>
serverVars == <<pending, offline, stuck, poll, quiet, inbox, restarts>>
vars == <<bridgeVars, serverVars, calls>>

Init == B!Init /\ S!Init

BridgeStep == (B!WhatsApp \/ B!Bridge) /\ UNCHANGED serverVars
CallLost ==
    /\ CallsFail
    /\ \E e \in B!Callbacks : B!CallEnds(e)
    /\ UNCHANGED serverVars
ServerStep == S!Next /\ UNCHANGED bridgeVars

Next == BridgeStep \/ CallLost \/ ServerStep

\* The bridge's fairness; and a request on the loopback interface ends, one way
\* or the other; the watchdog's timer fires and its poll is answered.
Fairness ==
    /\ WF_vars(B!Start /\ UNCHANGED serverVars)
    /\ WF_vars((B!MainSetsFields \/ B!LogoutSetsFields) /\ UNCHANGED serverVars)
    /\ WF_vars(B!Handlers /\ UNCHANGED serverVars)
    /\ WF_vars(B!Relogin /\ UNCHANGED serverVars)
    /\ WF_vars(B!OffersCodes /\ UNCHANGED serverVars)
    /\ WF_vars(S!Events /\ UNCHANGED bridgeVars)
    /\ WF_vars(S!Watchdog /\ UNCHANGED bridgeVars)

Spec == Init /\ [][Next]_vars /\ Fairness

-----------------------------------------------------------------------------
\* The server's variables keep their types, whatever the bridge sends and says.
TypeOK == S!TypeOK

\* An outage that ends the session or its connection for good does not go
\* unnoticed: even when every callback is lost and the server restarts in
\* between, the watchdog trips and stays tripped.
OutageNoticed ==
    <>[](link \in {"off", "pairing", "offering"} /\ mishaps = {}) => <>[]stuck

\* index.ts:182: "whatsmeow emits no callback when it fails to reconnect", the
\* watchdog is there for that.  Then an account that cannot reconnect trips it.
SilentOutageNoticed == <>[](main = "up" /\ link = "retrying") => <>stuck

=============================================================================
