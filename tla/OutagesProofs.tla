--------------------------- MODULE OutagesProofs ---------------------------
(***************************************************************************)
(* Proofs about the bridge and the server together, for any number of      *)
(* incidents, restarts and polls.                                          *)
(*                                                                         *)
(* Together the two make only steps that each could make alone.  So what   *)
(* is proved of the bridge by itself, whose server may be anything, holds  *)
(* with this server too: nothing the server does makes GET /status lie.    *)
(***************************************************************************)
EXTENDS Outages, TLAPS

Session == INSTANCE BridgeSessionProofs

\* The bridge by itself, but for its fairness: here a callback may be lost only
\* where CallsFail says so, and what the bridge is owed the server must grant.
BridgeAlone == B!Init /\ [][B!Next]_(B!vars)

-----------------------------------------------------------------------------
\* A callback that the server receives has ended.
LEMMA ReceiptEndsCall ==
    ASSUME NEW e \in B!Callbacks, S!Receive(e), UNCHANGED bridgeVars
    PROVE  B!CallEnds(e)
BY DEF S!Receive, B!CallEnds, bridgeVars, B!whatsmeow, B!fields, B!goroutines

\* Every step of the two is a step of the bridge, or leaves the bridge alone.
LEMMA StepOfBridge == [Next]_vars => [B!Next]_(B!vars)
<1> USE DEF vars, bridgeVars, B!vars, B!whatsmeow, B!fields, B!goroutines
<1>1. ASSUME S!Next, UNCHANGED bridgeVars PROVE [B!Next]_(B!vars)
  <2>1. CASE \E e \in B!Callbacks : S!Receive(e)
    BY <1>1, <2>1, ReceiptEndsCall DEF B!Next
  <2>2. CASE UNCHANGED calls
    BY <1>1, <2>2
  <2> QED
    BY <1>1, <2>1, <2>2 DEF S!Next, S!Events, S!Watchdog, S!SessionBreaks, S!QRReady,
       S!Connected, S!PollAsks, S!PollConnected, S!PollOffline, S!ServerRestarts, S!QuietEnds,
       B!Callbacks
<1> QED
  BY <1>1 DEF Next, BridgeStep, CallLost, ServerStep, B!Next

\* The bridge here and the bridge that is proved about are the same.
LEMMA SameBridge ==
    /\ B!Init <=> Session!Init
    /\ B!Next <=> Session!Next
    /\ UNCHANGED B!vars <=> UNCHANGED Session!vars
    /\ B!TypeOK <=> Session!TypeOK
    /\ B!NeverClaimsDeadSession <=> Session!NeverClaimsDeadSession
    /\ B!LiveSessionReported <=> Session!LiveSessionReported
<1>1. UNCHANGED B!vars <=> UNCHANGED Session!vars
  BY DEF B!vars, B!whatsmeow, B!fields, B!goroutines,
     Session!vars, Session!whatsmeow, Session!fields, Session!goroutines
<1>2. B!Init <=> Session!Init
  BY DEF B!Init, Session!Init
<1>3. B!TypeOK <=> Session!TypeOK
  BY DEF B!TypeOK, Session!TypeOK, B!Events, Session!Events, B!Callbacks, Session!Callbacks,
     B!Mishaps, Session!Mishaps, B!LateStart, Session!LateStart, B!LateConnected,
     Session!LateConnected, B!LogoutFailed, Session!LogoutFailed, B!NoNewCode, Session!NoNewCode
<1>4. /\ B!NeverClaimsDeadSession <=> Session!NeverClaimsDeadSession
      /\ B!LiveSessionReported <=> Session!LiveSessionReported
  BY DEF B!NeverClaimsDeadSession, Session!NeverClaimsDeadSession, B!LiveSessionReported,
     Session!LiveSessionReported, B!Settled, Session!Settled, B!LateStart, Session!LateStart,
     B!LateConnected, Session!LateConnected, B!LogoutFailed, Session!LogoutFailed
<1>5. B!Next <=> Session!Next
  BY DEF B!Next, Session!Next, B!WhatsApp, Session!WhatsApp, B!LogsIn,
     Session!LogsIn, B!Drops, Session!Drops, B!Unlinked, Session!Unlinked,
     B!Replaced, Session!Replaced, B!OffersCodes, Session!OffersCodes, B!NextCode,
     Session!NextCode, B!Scanned, Session!Scanned, B!CodesRunOut,
     Session!CodesRunOut, B!Bridge, Session!Bridge, B!Start, Session!Start,
     B!MainSetsFields, Session!MainSetsFields, B!Exit, Session!Exit, B!Handlers,
     Session!Handlers, B!handleQR, Session!handleQR, B!handlePairSuccess,
     Session!handlePairSuccess, B!handleConnected, Session!handleConnected,
     B!handleLoggedOut, Session!handleLoggedOut, B!handleStreamReplaced,
     Session!handleStreamReplaced, B!Readers, Session!Readers, B!Relogin,
     Session!Relogin, B!ReadsCode, Session!ReadsCode, B!ReaderEnds,
     Session!ReaderEnds, B!CodeExpires, Session!CodeExpires, B!Logout,
     Session!Logout, B!handleLogout, Session!handleLogout, B!LogoutSetsFields,
     Session!LogoutSetsFields, B!CallEnds, Session!CallEnds, B!Callbacks,
     Session!Callbacks, B!Handle, Session!Handle, B!Emit, Session!Emit, B!Incident,
     Session!Incident, B!Callback, Session!Callback, B!LateStart, Session!LateStart,
     B!LateConnected, Session!LateConnected, B!LogoutFailed, Session!LogoutFailed,
     B!NoNewCode, Session!NoNewCode, B!whatsmeow, Session!whatsmeow, B!fields,
     Session!fields, B!goroutines, Session!goroutines
<1> QED
  BY <1>1, <1>2, <1>3, <1>4, <1>5

-----------------------------------------------------------------------------
\* The parts of TypeOK: the notices, and the watchdog with the rest.
Notices == quiet \subseteq Debounced /\ inbox \in S!Notices \cup {"none"}
Flags ==
    pending \in BOOLEAN /\ stuck \in BOOLEAN /\ poll \in {"none", "connected", "offline"}
Counts == offline \in 0 .. Trip /\ restarts \in 0 .. MaxRestarts
Tripped == stuck => offline = Trip

\* What is counted up to.
LEMMA TripCounts == Trip \in Nat /\ 0 < Trip /\ MaxRestarts \in Nat
BY OutagesAssumption

\* A notice is sent or debounced: the debounce remembers only the kinds it is to.
LEMMA NotifyTypes ==
    ASSUME Notices, NEW n \in S!Notices, S!Notify(n)
    PROVE  Notices'
BY DEF Notices, S!Notify, S!ntfy

\* Every step of the server keeps the types.
LEMMA ServerKeepsTypes ==
    Notices /\ Flags /\ Counts /\ Tripped /\ S!Next => (Notices /\ Flags /\ Counts /\ Tripped)'
<1> SUFFICES ASSUME Notices, Flags, Counts, Tripped, S!Next
             PROVE  Notices' /\ Flags' /\ Counts' /\ Tripped'
  OBVIOUS
<1>1. Notices'
  <2> USE NotifyTypes DEF S!watchdog, S!ntfy, S!Receive
  <2>1. CASE S!Events
    BY <2>1 DEF S!Events, S!SessionBreaks, S!QRReady, S!Connected, S!Notices, Notices
  <2>2. CASE S!Watchdog
    BY <2>2 DEF S!Watchdog, S!PollAsks, S!PollConnected, S!PollOffline, S!Notices, Notices
  <2>3. CASE S!ServerRestarts \/ \E n \in Debounced : S!QuietEnds(n)
    BY <2>3 DEF S!ServerRestarts, S!QuietEnds, Notices
  <2> QED
    BY <2>1, <2>2, <2>3 DEF S!Next
<1> USE DEF S!Next, S!Events, S!SessionBreaks, S!QRReady, S!Connected, S!QuietEnds, S!Watchdog,
            S!PollAsks, S!PollConnected, S!PollOffline, S!ServerRestarts, S!watchdog, S!Receive
<1>2. Flags'
  BY DEF Flags
<1>3. Counts'
  BY TripCounts DEF Counts
<1>4. Tripped'
  <2>1. CASE S!PollOffline
    <3>1. stuck => offline' = Trip
      BY <2>1, TripCounts DEF Tripped, Counts
    <3>2. stuck' => stuck \/ offline' >= Trip
      BY <2>1 DEF S!Notify
    <3> QED
      BY <3>1, <3>2, <1>3, TripCounts DEF Tripped, Counts
  <2>2. CASE S!PollConnected \/ S!ServerRestarts
    BY <2>2 DEF Tripped
  <2>3. CASE UNCHANGED <<stuck, offline>>
    BY <2>3 DEF Tripped
  <2> QED
    BY <2>1, <2>2, <2>3
<1> QED
  BY <1>1, <1>2, <1>3, <1>4

-----------------------------------------------------------------------------
\* The server's variables keep their types, whatever the bridge sends and says,
\* and a watchdog that has tripped has counted up.
THEOREM ServerTypeCorrect == Spec => []TypeOK
<1>1. TypeOK <=> Notices /\ Flags /\ Counts /\ Tripped
  BY DEF TypeOK, S!TypeOK, Notices, Flags, Counts, Tripped
<1>2. Init => Notices /\ Flags
  BY DEF Init, S!Init, Notices, Flags
<1>3. Init => Counts /\ Tripped
  BY TripCounts DEF Init, S!Init, Counts, Tripped
<1>4. Notices /\ Flags /\ Counts /\ Tripped /\ [Next]_vars =>
        (Notices /\ Flags /\ Counts /\ Tripped)'
  <2>1. Notices /\ Flags /\ Counts /\ Tripped /\ UNCHANGED serverVars =>
          (Notices /\ Flags /\ Counts /\ Tripped)'
    BY DEF serverVars, Notices, Flags, Counts, Tripped
  <2> QED
    BY <2>1, ServerKeepsTypes DEF Next, BridgeStep, CallLost, ServerStep, vars
<1> QED
  BY <1>1, <1>2, <1>3, <1>4, PTL DEF Spec

\* The two together do what the bridge alone may do.
THEOREM ImplementsBridge == Spec => BridgeAlone
BY StepOfBridge, PTL DEF Spec, Init, BridgeAlone

\* Beside this server too, GET /status does not go on claiming a session that
\* has ended, nor denying one that is there.
THEOREM StatusIsTrue ==
    Spec => [](B!TypeOK /\ B!NeverClaimsDeadSession /\ B!LiveSessionReported)
<1>1. Init => Session!Inv
  BY Session!InvInit, SameBridge, OutagesAssumption DEF Init
<1>2. Session!Inv /\ [Next]_vars => Session!Inv'
  <2>1. ASSUME [Next]_vars PROVE [Session!Next]_(Session!vars)
    <3>1. [B!Next]_(B!vars)
      BY <2>1, StepOfBridge
    <3> QED
      BY <3>1, SameBridge
  <2> QED
    BY <2>1, Session!InvStep, OutagesAssumption
<1>3. Session!Inv => B!TypeOK /\ B!NeverClaimsDeadSession /\ B!LiveSessionReported
  BY SameBridge DEF Session!Inv, Session!SessionInv, Session!ClaimsInv, Session!ReportsInv,
     Session!Alive, Session!NeverClaimsDeadSession, Session!LiveSessionReported, Session!Settled
<1> QED
  BY <1>1, <1>2, <1>3, PTL DEF Spec

=============================================================================
