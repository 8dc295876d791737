------------------------------- MODULE Notify -------------------------------
(***************************************************************************)
(* How the server tells the owner of outages:                              *)
(*                                                                         *)
(*   index.ts   the callback route and the watchdog that polls GET /status *)
(*   ntfy.ts    notify and its debounce                                    *)
(*                                                                         *)
(* calls and online are the bridge's: its callbacks on their way, and what *)
(* GET /status would answer, FALSE when the bridge does not answer at all. *)
(* A poll is answered before the next one is due.                          *)
(***************************************************************************)
EXTENDS Naturals

CONSTANTS
    Trip,          \* WATCHDOG_TRIP_MINUTES, in polls
    MaxRestarts,   \* how often the server restarts
    NtfyFails,     \* whether a request to ntfy may fail
    Debounced      \* the kinds of notice that may come again within DEBOUNCE_MS

Notices == {"disconnect", "qr_ready", "stuck_offline", "connected"}

VARIABLES
    calls, online,
    pending,     \* pendingReconnectNotify
    offline,     \* consecutiveOfflinePolls, which the model stops counting at Trip
    stuck,       \* stuckNotified
    poll,        \* the answer the watchdog awaits: "none", "connected" or "offline"
    quiet,       \* the kinds of notice sent in the last DEBOUNCE_MS: lastNotified
    inbox,       \* the last notice that reached the owner
    restarts

watchdog == <<offline, stuck, poll>>
ntfy == <<quiet, inbox>>
serverVars == <<pending, watchdog, ntfy, restarts>>

Init ==
    /\ pending = FALSE
    /\ offline = 0 /\ stuck = FALSE /\ poll = "none"
    /\ quiet = {} /\ inbox = "none" /\ restarts = 0

-----------------------------------------------------------------------------
\* notify: the debounce counts a notice before it is sent, and an error of the
\* request is swallowed.
Notify(notice) ==
    IF notice \in quiet THEN UNCHANGED ntfy
    ELSE /\ quiet' = quiet \cup ({notice} \cap Debounced)
         /\ inbox' \in IF NtfyFails THEN {inbox, notice} ELSE {notice}

QuietEnds(notice) ==
    /\ notice \in quiet /\ quiet' = quiet \ {notice}
    /\ UNCHANGED <<pending, watchdog, inbox, restarts, calls>>

-----------------------------------------------------------------------------
(***************************************************************************)
(* POST /bridge/events                                                     *)
(***************************************************************************)

Receive(e) == e \in calls /\ calls' = calls \ {e} /\ UNCHANGED <<watchdog, restarts>>

SessionBreaks ==
    \E e \in {"logged_out", "stream_replaced"} :
        /\ Receive(e)
        /\ pending' = TRUE
        /\ Notify("disconnect")

QRReady ==
    /\ Receive("qr_ready")
    /\ pending' = TRUE
    /\ Notify("qr_ready")

\* A reconnect on its own is not announced, the end of an outage is.
Connected ==
    /\ Receive("connected")
    /\ pending' = FALSE
    /\ IF pending THEN Notify("connected") ELSE UNCHANGED ntfy

-----------------------------------------------------------------------------
(***************************************************************************)
(* The watchdog: setInterval awaits GET /status, then acts on the answer.  *)
(***************************************************************************)

PollAsks ==
    /\ poll = "none"
    /\ poll' = IF online THEN "connected" ELSE "offline"
    /\ UNCHANGED <<pending, offline, stuck, ntfy, restarts, calls>>

\* A plausible bug: the count starts again and the notice does not.
PollConnectedKeepsStuck ==
    /\ poll = "connected" /\ poll' = "none"
    /\ pending' = (pending \/ stuck)
    /\ offline' = 0
    /\ UNCHANGED <<stuck, ntfy, restarts, calls>>

\* After a notice the next Connected is to be announced.
PollConnected ==
    /\ poll = "connected" /\ poll' = "none"
    /\ pending' = (pending \/ stuck)
    /\ offline' = 0 /\ stuck' = FALSE
    /\ UNCHANGED <<ntfy, restarts, calls>>

\* Not connected, or no answer.
PollOffline ==
    /\ poll = "offline" /\ poll' = "none"
    /\ offline' = IF offline < Trip THEN offline + 1 ELSE Trip
    /\ IF ~stuck /\ offline' >= Trip
       THEN stuck' = TRUE /\ Notify("stuck_offline")
       ELSE UNCHANGED <<stuck, ntfy>>
    /\ UNCHANGED <<pending, restarts, calls>>

\* All of this is kept in memory.
ServerRestarts ==
    /\ restarts < MaxRestarts /\ restarts' = restarts + 1
    /\ pending' = FALSE
    /\ offline' = 0 /\ stuck' = FALSE /\ poll' = "none"
    /\ quiet' = {}
    /\ UNCHANGED <<inbox, calls>>

Watchdog == PollAsks \/ PollConnected \/ PollOffline
Events == SessionBreaks \/ QRReady \/ Connected
Next == Events \/ Watchdog \/ ServerRestarts \/ \E n \in Debounced : QuietEnds(n)

\* Every variable keeps its type, and a watchdog that has tripped has counted up.
TypeOK ==
    /\ pending \in BOOLEAN /\ stuck \in BOOLEAN
    /\ offline \in 0 .. Trip /\ (stuck => offline = Trip)
    /\ poll \in {"none", "connected", "offline"}
    /\ quiet \subseteq Debounced /\ inbox \in Notices \cup {"none"}
    /\ restarts \in 0 .. MaxRestarts

=============================================================================
