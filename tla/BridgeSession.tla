--------------------------- MODULE BridgeSession ---------------------------
(***************************************************************************)
(* What the bridge says of its WhatsApp session, GET /status and GET /qr,  *)
(* and the session as it is:                                               *)
(*                                                                         *)
(*   main.go      start-up, with a session and without                     *)
(*   handlers.go  the handlers of whatsmeow's connection events, and the   *)
(*                goroutine that asks for a new QR code after a logout     *)
(*   api.go       POST /logout                                             *)
(*                                                                         *)
(* device, link, channel and code belong to whatsmeow, modelled from how   *)
(* the bridge uses it.  Its events reach the handlers one at a time and in *)
(* order, while main, the goroutines that read a QR channel, POST /logout  *)
(* and the goroutines that send callbacks run at their own pace.           *)
(***************************************************************************)
EXTENDS Naturals, Sequences

CONSTANTS
    MaxIncidents,   \* how often something may go wrong with the session
    MaxEvents       \* whatsmeow's events that wait to be handled

ASSUME BoundsAssumption == MaxIncidents \in Nat /\ MaxEvents \in Nat \ {0}

VARIABLES
    device,      \* Client.Store.ID # nil: the account is linked to a phone
    link,        \* the websocket: "off", "retrying" to log in, "up", or without a
                 \* device "pairing" and, once it has sent codes, "offering"
    channel,     \* a QR channel is open
    code,        \* it holds a code that nobody has read
    events,      \* the events not handled yet, oldest first
    main,        \* "down", "connecting" (before it sets the fields) or "up"
    connected, loggedIn, account,    \* the fields; account: whether it is set
    qr,          \* QRCode: "none", "shown" or "expired" (QRExpires has passed)
    reader,      \* the goroutine reading the QR channel: "none", "main", "relogin"
    relogin,     \* the goroutine of handleLoggedOut sleeps before its attempt
    logout,      \* POST /logout: Client.Logout has returned, the fields are not set
    calls,       \* callbacks on their way to the server
    incidents,   \* how often something has gone wrong
    mishaps      \* history variable: the fields may be out of step, and why

whatsmeow == <<device, link, channel, code>>
fields == <<connected, loggedIn, account>>
goroutines == <<main, reader, relogin, logout>>
vars == <<whatsmeow, events, goroutines, fields, qr, calls, incidents, mishaps>>

LateStart == "main set the fields after a LoggedOut or StreamReplaced"
LateConnected == "Connected was handled after POST /logout"
LogoutFailed == "POST /logout set the fields although Logout failed"
NoNewCode == "the attempt to get a QR code after a logout failed"
Mishaps == {LateStart, LateConnected, LogoutFailed, NoNewCode}

Incident == incidents < MaxIncidents /\ incidents' = incidents + 1
Emit(e) == Len(events) < MaxEvents /\ events' = Append(events, e)
Callback(e) == calls' = calls \cup {e}

Init ==
    /\ device \in BOOLEAN /\ link = "off" /\ channel = FALSE /\ code = FALSE
    /\ events = <<>>
    /\ main = "down" /\ reader = "none" /\ relogin = FALSE /\ logout = FALSE
    /\ connected = FALSE /\ loggedIn = FALSE /\ account = FALSE
    /\ qr = "none" /\ calls = {} /\ incidents = 0 /\ mishaps = {}

-----------------------------------------------------------------------------
(***************************************************************************)
(* main()                                                                  *)
(***************************************************************************)

\* A linked account: Connect returns once the websocket is open, before the
\* login is through.  A new device: a QR channel and a goroutine to read it.
Start ==
    /\ main = "down"
    /\ \/ /\ device
          /\ main' = "connecting" /\ link' = "retrying"
          /\ UNCHANGED <<channel, reader>>
       \/ /\ ~device
          /\ main' = "up" /\ link' = "pairing" /\ channel' = TRUE /\ reader' = "main"
    /\ UNCHANGED <<device, code, events, relogin, logout, fields, qr, calls, incidents, mishaps>>

\* The lines after Connect.  They do not look at what the handlers have set.
MainSetsFields ==
    /\ main = "connecting"
    /\ main' = "up"
    /\ connected' = TRUE /\ loggedIn' = TRUE
    /\ account' = (device \/ account)
    /\ mishaps' = mishaps \cup (IF link \in {"retrying", "up"} \/ events # <<>>
                                THEN {} ELSE {LateStart})
    /\ UNCHANGED <<whatsmeow, events, reader, relogin, logout, qr, calls, incidents>>

\* The process ends, and with it everything but the device in session.db.
Exit ==
    /\ main # "down" /\ Incident
    /\ main' = "down" /\ link' = "off" /\ channel' = FALSE /\ code' = FALSE
    /\ events' = <<>> /\ reader' = "none" /\ relogin' = FALSE /\ logout' = FALSE
    /\ connected' = FALSE /\ loggedIn' = FALSE /\ account' = FALSE
    /\ qr' = "none" /\ calls' = {} /\ mishaps' = {}
    /\ UNCHANGED device

-----------------------------------------------------------------------------
(***************************************************************************)
(* whatsmeow and WhatsApp                                                  *)
(***************************************************************************)

\* The login goes through, at first or after a reconnect.
LogsIn ==
    /\ link = "retrying" /\ device
    /\ link' = "up" /\ Emit("Connected")
    /\ UNCHANGED <<device, channel, code, goroutines, fields, qr, calls, incidents, mishaps>>

\* The websocket drops; whatsmeow retries and tells nobody.
Drops ==
    /\ link = "up" /\ Incident
    /\ link' = "retrying"
    /\ UNCHANGED <<device, channel, code, events, goroutines, fields, qr, calls, mishaps>>

\* The owner unlinks the device on the phone, or WhatsApp does.
Unlinked ==
    /\ link \in {"retrying", "up"} /\ device /\ Incident
    /\ device' = FALSE /\ link' = "off" /\ Emit("LoggedOut")
    /\ UNCHANGED <<channel, code, goroutines, fields, qr, calls, mishaps>>

\* Another client takes the session over; whatsmeow does not reconnect.
Replaced ==
    /\ link = "up" /\ Incident
    /\ link' = "off" /\ Emit("StreamReplaced")
    /\ UNCHANGED <<device, channel, code, goroutines, fields, qr, calls, mishaps>>

\* WhatsApp sends codes: one event with all of them and, one after the other,
\* the items of the QR channel.
OffersCodes ==
    /\ link = "pairing"
    /\ link' = "offering" /\ code' = TRUE /\ Emit("QR")
    /\ UNCHANGED <<device, channel, goroutines, fields, qr, calls, incidents, mishaps>>

NextCode ==
    /\ link = "offering" /\ ~code
    /\ code' = TRUE
    /\ UNCHANGED <<device, link, channel, events, goroutines, fields, qr, calls, incidents, mishaps>>

\* The owner scans a code that GET /qr shows; whatsmeow logs in with the device.
Scanned ==
    /\ link = "offering" /\ qr = "shown"
    /\ device' = TRUE /\ link' = "retrying" /\ channel' = FALSE
    /\ Emit("PairSuccess")
    /\ UNCHANGED <<code, goroutines, fields, qr, calls, incidents, mishaps>>

\* Nobody scans for minutes, so that all codes have been read: the channel ends
\* with "timeout" and the websocket closes.
CodesRunOut ==
    /\ link = "offering" /\ ~code /\ events = <<>> /\ Incident
    /\ link' = "off" /\ channel' = FALSE
    /\ UNCHANGED <<device, code, events, goroutines, fields, qr, calls, mishaps>>

-----------------------------------------------------------------------------
(***************************************************************************)
(* RegisterEventHandlers: the handlers                                     *)
(***************************************************************************)

Handle(e) == events # <<>> /\ Head(events) = e /\ events' = Tail(events)

handleQR ==
    /\ Handle("QR")
    /\ qr' = "shown"
    /\ connected' = FALSE /\ loggedIn' = FALSE
    /\ Callback("qr_ready")
    /\ mishaps' = mishaps \ {LateStart}
    /\ UNCHANGED <<whatsmeow, goroutines, account, incidents>>

handlePairSuccess ==
    /\ Handle("PairSuccess")
    /\ qr' = "none" /\ loggedIn' = TRUE /\ account' = TRUE
    /\ UNCHANGED <<whatsmeow, goroutines, connected, calls, incidents, mishaps>>

\* A plausible bug: only what handlePairSuccess left out is set.
handleConnectedForgets ==
    /\ Handle("Connected")
    /\ qr' = "none"
    /\ Callback("connected")
    /\ UNCHANGED <<whatsmeow, goroutines, fields, incidents, mishaps>>

handleConnected ==
    /\ Handle("Connected")
    /\ connected' = TRUE /\ loggedIn' = TRUE /\ qr' = "none"
    /\ account' = (device \/ account)
    /\ Callback("connected")
    /\ mishaps' = (mishaps \ {LogoutFailed}) \cup
                      (IF ~device /\ ~logout /\ Tail(events) = <<>>
                       THEN {LateConnected} ELSE {})
    /\ UNCHANGED <<whatsmeow, goroutines, incidents>>

handleLoggedOut ==
    /\ Handle("LoggedOut")
    /\ connected' = FALSE /\ loggedIn' = FALSE /\ account' = FALSE
    /\ relogin' = TRUE
    /\ Callback("logged_out")
    /\ UNCHANGED <<whatsmeow, main, reader, logout, qr, incidents, mishaps>>

\* A plausible bug: the takeover is reported and the field left as it is.
handleStreamReplacedKeeps ==
    /\ Handle("StreamReplaced")
    /\ Callback("stream_replaced")
    /\ UNCHANGED <<whatsmeow, goroutines, fields, qr, incidents, mishaps>>

handleStreamReplaced ==
    /\ Handle("StreamReplaced")
    /\ connected' = FALSE
    /\ Callback("stream_replaced")
    /\ UNCHANGED <<whatsmeow, goroutines, loggedIn, account, qr, incidents, mishaps>>

\* A plausible bug: the QR channel is opened and nobody connects.
ReloginWithoutConnect ==
    /\ relogin /\ relogin' = FALSE
    /\ channel' = TRUE /\ reader' = "relogin"
    /\ UNCHANGED <<device, link, code, events, main, logout, fields, qr, calls, incidents, mishaps>>

\* The goroutine of handleLoggedOut after its two seconds: GetQRChannel and
\* Connect.  When one of them fails it gives up.
Relogin ==
    /\ relogin /\ relogin' = FALSE
    /\ \/ /\ ~device /\ link = "off"
          /\ channel' = TRUE /\ link' = "pairing" /\ reader' = "relogin"
          /\ UNCHANGED <<incidents, mishaps>>
       \/ /\ Incident
          /\ mishaps' = mishaps \cup {NoNewCode}
          /\ UNCHANGED <<channel, link, reader>>
    /\ UNCHANGED <<device, code, events, main, logout, fields, qr, calls>>

\* A plausible bug: the loop ends at the first code.
ReadsOneCode ==
    /\ reader # "none" /\ code
    /\ code' = FALSE /\ qr' = "shown" /\ reader' = "none"
    /\ UNCHANGED <<device, link, channel, events, main, relogin, logout, fields, calls,
                   incidents, mishaps>>

\* The goroutine that reads the QR channel: main's, or that of handleLoggedOut,
\* which also sends the callback.
ReadsCode ==
    /\ reader # "none" /\ code
    /\ code' = FALSE /\ qr' = "shown"
    /\ IF reader = "relogin" THEN Callback("qr_ready") ELSE UNCHANGED calls
    /\ UNCHANGED <<device, link, channel, events, goroutines, fields, incidents, mishaps>>

ReaderEnds ==
    /\ reader # "none" /\ ~code /\ ~channel
    /\ reader' = "none"
    /\ UNCHANGED <<whatsmeow, events, main, relogin, logout, fields, qr, calls, incidents, mishaps>>

\* Twenty seconds after a code was set: handleQREndpoint shows it no more.
CodeExpires ==
    /\ qr = "shown"
    /\ qr' = "expired"
    /\ UNCHANGED <<whatsmeow, events, goroutines, fields, calls, incidents, mishaps>>

-----------------------------------------------------------------------------
(***************************************************************************)
(* POST /logout: Client.Logout, which emits no event, then the fields.     *)
(***************************************************************************)

handleLogout ==
    /\ main = "up" /\ ~logout /\ Incident
    /\ logout' = TRUE
    /\ \/ /\ link = "up" /\ device
          /\ device' = FALSE /\ link' = "off"
       \/ UNCHANGED <<device, link>>
    /\ UNCHANGED <<channel, code, events, main, reader, relogin, fields, qr, calls, mishaps>>

LogoutSetsFields ==
    /\ logout /\ logout' = FALSE
    /\ connected' = FALSE /\ loggedIn' = FALSE /\ account' = FALSE
    /\ mishaps' = mishaps \cup (IF device THEN {LogoutFailed} ELSE {})
    /\ UNCHANGED <<whatsmeow, events, main, reader, relogin, qr, calls, incidents>>

-----------------------------------------------------------------------------
\* notifyCallback's goroutine: the request arrives once, or not at all.
CallEnds(e) ==
    /\ e \in calls /\ calls' = calls \ {e}
    /\ UNCHANGED <<whatsmeow, events, goroutines, fields, qr, incidents, mishaps>>

WhatsApp ==
    \/ LogsIn \/ Drops \/ Unlinked \/ Replaced
    \/ OffersCodes \/ NextCode \/ Scanned \/ CodesRunOut
Handlers ==
    handleQR \/ handlePairSuccess \/ handleConnected \/ handleLoggedOut \/ handleStreamReplaced
Readers == Relogin \/ ReadsCode \/ ReaderEnds \/ CodeExpires
Logout == handleLogout \/ LogoutSetsFields
Bridge == Start \/ MainSetsFields \/ Exit \/ Handlers \/ Readers \/ Logout

Callbacks == {"qr_ready", "connected", "logged_out", "stream_replaced"}
Next == WhatsApp \/ Bridge \/ \E e \in Callbacks : CallEnds(e)

\* systemd starts the process again, goroutines are scheduled, events handled,
\* requests end; a server that is asked for codes sends them.  Nothing is
\* assumed of logins, scans and what goes wrong.
Fairness ==
    /\ WF_vars(Start) /\ WF_vars(MainSetsFields) /\ WF_vars(LogoutSetsFields)
    /\ WF_vars(Handlers)
    /\ WF_vars(Relogin) /\ WF_vars(ReadsCode) /\ WF_vars(ReaderEnds) /\ WF_vars(CodeExpires)
    /\ WF_vars(OffersCodes) /\ WF_vars(NextCode)
    /\ \A e \in Callbacks : WF_vars(CallEnds(e))

Spec == Init /\ [][Next]_vars /\ Fairness

-----------------------------------------------------------------------------
(***************************************************************************)
(* Properties                                                              *)
(***************************************************************************)

Events == {"QR", "PairSuccess", "Connected", "LoggedOut", "StreamReplaced"}

\* Every variable keeps its type, the queue of events within its bound, and an
\* open QR channel has a goroutine that reads it.
TypeOK ==
    /\ device \in BOOLEAN /\ channel \in BOOLEAN /\ code \in BOOLEAN
    /\ link \in {"off", "retrying", "pairing", "offering", "up"}
    /\ events \in Seq(Events) /\ Len(events) <= MaxEvents
    /\ main \in {"down", "connecting", "up"} /\ reader \in {"none", "main", "relogin"}
    /\ relogin \in BOOLEAN /\ logout \in BOOLEAN
    /\ connected \in BOOLEAN /\ loggedIn \in BOOLEAN /\ account \in BOOLEAN
    /\ channel => reader # "none"
    /\ qr \in {"none", "shown", "expired"}
    /\ calls \subseteq Callbacks
    /\ incidents \in 0 .. MaxIncidents /\ mishaps \subseteq Mishaps

\* Nothing is under way that will still set the fields.
Settled == main = "up" /\ events = <<>> /\ ~relogin /\ ~logout

\* GET /status does not go on claiming a session that has ended: once all
\* events are handled, "connected" means that the account is linked and the
\* client in touch or retrying.  main and handleConnected can break this by
\* setting the fields too late, and only they.
NeverClaimsDeadSession ==
    Settled /\ connected /\ mishaps \cap {LateStart, LateConnected} = {} =>
        device /\ link \in {"up", "retrying"}

\* GET /status does not go on denying a session that is there, whatever pairing,
\* drops, takeovers and restarts came before.  Only POST /logout breaks this,
\* which clears the fields although Logout failed.
LiveSessionReported ==
    Settled /\ link = "up" /\ LogoutFailed \notin mishaps =>
        connected /\ loggedIn /\ account

\* After a logout on the phone the owner gets a QR code to scan, unless the one
\* attempt to ask for it fails or the process ends.
UnlinkedGetsCode ==
    relogin ~> qr = "shown" \/ main = "down" \/ NoNewCode \in mishaps

=============================================================================
