------------------------ MODULE BridgeSessionProofs ------------------------
(***************************************************************************)
(* Proofs about the bridge's session, for any number of incidents and any  *)
(* length of the queue of events.                                          *)
(*                                                                         *)
(* The two properties are about moments when nothing is under way.  What   *)
(* makes them inductive is the queue: the newest event that waits to be    *)
(* handled tells how the link stands, since nothing changes the link       *)
(* without an event but a drop, a POST /logout and the end of the codes.   *)
(***************************************************************************)
EXTENDS BridgeSession, SequenceTheorems, TLAPS

Newest == events[Len(events)]
Ends == {"LoggedOut", "StreamReplaced"}

\* A process that is down has nothing under way.
DownInv ==
    main = "down" =>
        link = "off" /\ events = <<>> /\ ~relogin /\ ~logout /\ ~connected

\* The client logs in with a device and pairs without.
LinkInv ==
    /\ link \in {"retrying", "up"} => device
    /\ link \in {"pairing", "offering"} => ~device

\* The end of a session is the last event until the bridge connects again.
EndsLast == \A i \in 1 .. Len(events) : events[i] \in Ends => i = Len(events)

NewestTells ==
    events # <<>> =>
        /\ Newest = "QR" => link = "offering"
        /\ Newest = "PairSuccess" => link = "retrying"
        /\ Newest = "Connected" => link \in {"up", "retrying"} \/ (link = "off" /\ ~device)
        /\ Newest = "LoggedOut" => link = "off" /\ ~device
        /\ Newest = "StreamReplaced" => link = "off"
        /\ link = "up" => Newest = "Connected"

\* The goroutine of handleLoggedOut is alone: no event comes until it has asked
\* for a code.
ReloginInv == relogin => events = <<>> /\ link = "off" /\ ~device

Alive == device /\ link \in {"up", "retrying"}

\* A claim without a session is about to be corrected.
ClaimsInv ==
    connected /\ mishaps \cap {LateStart, LateConnected} = {} =>
        Alive \/ logout \/ events # <<>>

\* A session that is up has been told of, or is about to be.
ReportsInv ==
    link = "up" /\ events = <<>> /\ LogoutFailed \notin mishaps =>
        connected /\ loggedIn /\ account

SessionInv ==
    DownInv /\ LinkInv /\ EndsLast /\ NewestTells /\ ReloginInv /\ ClaimsInv /\ ReportsInv
Inv == TypeOK /\ SessionInv

\* The parts of TypeOK: what is not in the queue, and the queue.
Bools ==
    /\ device \in BOOLEAN /\ channel \in BOOLEAN /\ code \in BOOLEAN
    /\ relogin \in BOOLEAN /\ logout \in BOOLEAN
    /\ connected \in BOOLEAN /\ loggedIn \in BOOLEAN /\ account \in BOOLEAN
Places ==
    /\ link \in {"off", "retrying", "pairing", "offering", "up"}
    /\ main \in {"down", "connecting", "up"} /\ reader \in {"none", "main", "relogin"}
    /\ channel => reader # "none"
    /\ qr \in {"none", "shown", "expired"}
Counts ==
    /\ calls \subseteq Callbacks
    /\ incidents \in 0 .. MaxIncidents /\ mishaps \subseteq Mishaps

QueueBounded == events \in Seq(Events) /\ Len(events) <= MaxEvents

-----------------------------------------------------------------------------
\* Appending to a sequence of events, and taking the first one from it.
LEMMA AppendFacts ==
    ASSUME NEW q \in Seq(Events), NEW e \in Events
    PROVE  LET r == Append(q, e) IN
           /\ r \in Seq(Events) /\ Len(r) = Len(q) + 1 /\ r # <<>> /\ r[Len(r)] = e
           /\ \A i \in 1 .. Len(q) : r[i] = q[i]
BY AppendProperties, LenProperties

\* Taking the first of a queue of events.
LEMMA TailFacts ==
    ASSUME NEW q \in Seq(Events), q # <<>>
    PROVE  LET r == Tail(q) IN
           /\ r \in Seq(Events) /\ Len(r) = Len(q) - 1 /\ Len(q) \in Nat /\ Len(q) > 0
           /\ r = <<>> <=> Len(q) = 1
           /\ \A i \in 1 .. Len(r) : r[i] = q[i + 1]
           /\ Head(q) = q[1] /\ Head(q) \in Events
<1>1. Len(q) \in Nat /\ Len(q) # 0
  BY LenProperties, EmptySeq
<1>2. /\ Tail(q) \in Seq(Events) /\ Len(Tail(q)) = Len(q) - 1 /\ Head(q) \in Events
      /\ \A i \in 1 .. Len(Tail(q)) : Tail(q)[i] = q[i + 1]
  BY HeadTailProperties
<1>3. Tail(q) = <<>> <=> Len(Tail(q)) = 0
  BY <1>2, EmptySeq
<1>4. Head(q) = q[1]
  OBVIOUS
<1> QED
  BY <1>1, <1>2, <1>3, <1>4

\* Events are emitted while there is a link, so behind no end of a session.
LEMMA EmitFacts ==
    ASSUME TypeOK, EndsLast, NewestTells, link # "off", NEW e \in Events, Emit(e)
    PROVE  /\ events' \in Seq(Events) /\ Len(events') <= MaxEvents
           /\ events' # <<>> /\ Newest' = e /\ EndsLast'
<1> DEFINE n == Len(events)
<1>1. events \in Seq(Events) /\ n \in Nat
  BY LenProperties DEF TypeOK
<1>2. /\ events' \in Seq(Events) /\ Len(events') = n + 1 /\ events' # <<>>
      /\ events'[n + 1] = e /\ \A i \in 1 .. n : events'[i] = events[i]
  BY <1>1, AppendFacts DEF Emit
<1>3. Newest' = e
  BY <1>2 DEF Newest
<1>4. \A i \in 1 .. n : events[i] \notin Ends
  <2> SUFFICES ASSUME NEW i \in 1 .. n, events[i] \in Ends PROVE FALSE
    OBVIOUS
  <2>1. events # <<>>
    BY <1>1, EmptySeq
  <2>2. Newest \in Ends
    BY DEF EndsLast, Newest
  <2> QED
    BY <2>1, <2>2 DEF NewestTells, Ends
<1>5. EndsLast'
  BY <1>1, <1>2, <1>4 DEF EndsLast
<1>6. n + 1 <= MaxEvents
  BY <1>1, BoundsAssumption DEF Emit
<1> QED
  BY <1>2, <1>3, <1>5, <1>6

\* Events are handled oldest first: the newest stays the newest until it is
\* handled itself, and the end of a session is handled last.
LEMMA HandleFacts ==
    ASSUME TypeOK, EndsLast, NEW e, Handle(e)
    PROVE  /\ events' \in Seq(Events) /\ Len(events') <= MaxEvents /\ EndsLast'
           /\ events # <<>> /\ events' = Tail(events)
           /\ events' # <<>> => Newest' = Newest /\ e \notin Ends
           /\ events' = <<>> => Newest = e
<1> DEFINE n == Len(events)
<1>1. /\ events' \in Seq(Events) /\ Len(events') = n - 1 /\ n \in Nat /\ n > 0
      /\ events' = <<>> <=> n = 1
      /\ \A i \in 1 .. n - 1 : events'[i] = events[i + 1]
      /\ events[1] = e
  BY TailFacts DEF TypeOK, Handle
<1>2. events' # <<>> => Newest' = Newest
  BY <1>1 DEF Newest
<1>3. events' # <<>> => e \notin Ends
  BY <1>1 DEF EndsLast
<1>4. EndsLast'
  <2> SUFFICES ASSUME NEW i \in 1 .. n - 1, events[i + 1] \in Ends PROVE i = n - 1
    BY <1>1 DEF EndsLast
  <2> QED
    BY <1>1 DEF EndsLast
<1>5. Len(events') <= MaxEvents
  BY <1>1, BoundsAssumption DEF TypeOK
<1>6. events' = <<>> => Newest = e
  BY <1>1 DEF Newest
<1> QED
  BY <1>1, <1>2, <1>3, <1>4, <1>5, <1>6 DEF Handle

\* What a step leaves of the queue when it leaves the queue alone.
LEMMA QueueStays ==
    ASSUME UNCHANGED events, EndsLast
    PROVE  Newest' = Newest /\ EndsLast'
BY DEF Newest, EndsLast

-----------------------------------------------------------------------------
\* The variables but for the queue keep their types whatever the queue holds.
LEMMA TypesStep == TypeOK /\ [Next]_vars => (Bools /\ Places /\ Counts)'
<1>0. TypeOK <=> Bools /\ Places /\ Counts /\ QueueBounded
  BY DEF TypeOK, Bools, Places, Counts, QueueBounded
<1> USE <1>0, BoundsAssumption DEF Bools, Places, Counts, Callbacks, Mishaps, Callback, Incident,
           whatsmeow, fields, goroutines
<1>1. ASSUME TypeOK, WhatsApp PROVE (Bools /\ Places /\ Counts)'
  <2> USE <1>1 DEF WhatsApp, LogsIn, Drops, Unlinked, Replaced, OffersCodes,
      NextCode, Scanned, CodesRunOut
  <2>1. Bools'
    OBVIOUS
  <2>2. Places'
    OBVIOUS
  <2>3. Counts'
    OBVIOUS
  <2> QED
    BY <2>1, <2>2, <2>3
<1>2. ASSUME TypeOK, Handlers PROVE (Bools /\ Places /\ Counts)'
  <2> USE <1>2 DEF Handlers, handleQR, handlePairSuccess, handleConnected,
      handleLoggedOut, handleStreamReplaced
  <2>1. Bools'
    OBVIOUS
  <2>2. Places'
    OBVIOUS
  <2>3. Counts'
    OBVIOUS
  <2> QED
    BY <2>1, <2>2, <2>3
<1>3. ASSUME TypeOK, Start \/ MainSetsFields \/ Exit PROVE (Bools /\ Places /\ Counts)'
  <2> USE <1>3 DEF Start, MainSetsFields, Exit
  <2>1. Bools'
    OBVIOUS
  <2>2. Places'
    OBVIOUS
  <2>3. Counts'
    OBVIOUS
  <2> QED
    BY <2>1, <2>2, <2>3
<1>4. ASSUME TypeOK, Readers \/ Logout PROVE (Bools /\ Places /\ Counts)'
  <2> USE <1>4 DEF Readers, Relogin, ReadsCode, ReaderEnds, CodeExpires, Logout,
      handleLogout, LogoutSetsFields
  <2>1. Bools'
    OBVIOUS
  <2>2. Places'
    OBVIOUS
  <2>3. Counts'
    OBVIOUS
  <2> QED
    BY <2>1, <2>2, <2>3
<1>5. ASSUME TypeOK, UNCHANGED vars \/ \E e \in Callbacks : CallEnds(e)
      PROVE (Bools /\ Places /\ Counts)'
  BY <1>5 DEF vars, CallEnds
<1> QED
  BY <1>1, <1>2, <1>3, <1>4, <1>5 DEF Next, Bridge

\* Inv holds in the initial states.
LEMMA InvInit == Init => Inv
<1> USE DEF Init, fields
<1>1. Init => TypeOK
  <2>1. Init => Bools /\ Places
    BY DEF Bools, Places
  <2>2. Init => Counts
    BY BoundsAssumption DEF Counts
  <2>3. Init => QueueBounded
    BY BoundsAssumption, EmptySeq DEF QueueBounded
  <2> QED
    BY <2>1, <2>2, <2>3 DEF TypeOK, Bools, Places, Counts, QueueBounded
<1>2. Init => SessionInv
  BY EmptySeq DEF SessionInv, DownInv, LinkInv, EndsLast, NewestTells, ReloginInv, ClaimsInv,
     ReportsInv, Alive
<1> QED
  BY <1>1, <1>2 DEF Inv

\* The steps of whatsmeow and WhatsApp keep Inv.
LEMMA WhatsAppKeepsInv == Inv /\ WhatsApp => (QueueBounded /\ SessionInv)'
<1> SUFFICES ASSUME Inv, WhatsApp PROVE (QueueBounded /\ SessionInv)'
  OBVIOUS
<1> USE BoundsAssumption
<1>t. TypeOK /\ EndsLast /\ NewestTells
  BY DEF Inv, SessionInv
<1> USE DEF Inv, QueueBounded, SessionInv, TypeOK, DownInv, LinkInv, NewestTells,
            ReloginInv, ClaimsInv, ReportsInv, Alive, whatsmeow, fields, goroutines, Events, Incident
<1>1. CASE LogsIn
  BY <1>1, EmitFacts DEF LogsIn
<1>2. CASE Drops
  BY <1>2, QueueStays DEF Drops
<1>3. CASE Unlinked
  BY <1>3, EmitFacts DEF Unlinked
<1>4. CASE Replaced
  BY <1>4, EmitFacts DEF Replaced
<1>5. CASE OffersCodes
  BY <1>5, EmitFacts DEF OffersCodes
<1>6. CASE NextCode
  BY <1>6, QueueStays DEF NextCode
<1>7. CASE Scanned
  BY <1>7, EmitFacts DEF Scanned
<1>8. CASE CodesRunOut
  BY <1>8, QueueStays DEF CodesRunOut
<1> QED
  BY <1>1, <1>2, <1>3, <1>4, <1>5, <1>6, <1>7, <1>8 DEF WhatsApp

\* The handlers keep Inv.
LEMMA HandlersKeepInv == Inv /\ Handlers => (QueueBounded /\ SessionInv)'
<1> SUFFICES ASSUME Inv, Handlers PROVE (QueueBounded /\ SessionInv)'
  OBVIOUS
<1> USE BoundsAssumption
<1> USE DEF Inv, QueueBounded, SessionInv, TypeOK, DownInv, LinkInv, NewestTells,
            ReloginInv, ClaimsInv, ReportsInv, Alive, whatsmeow, fields, goroutines, Events, Incident, Callback, Callbacks
<1>1. CASE handleQR
  BY <1>1, HandleFacts DEF handleQR, Ends
<1>2. CASE handlePairSuccess
  BY <1>2, HandleFacts DEF handlePairSuccess, Ends
<1>3. CASE handleConnected
  BY <1>3, HandleFacts DEF handleConnected, Ends, Mishaps
<1>4. CASE handleLoggedOut
  BY <1>4, HandleFacts DEF handleLoggedOut, Ends
<1>5. CASE handleStreamReplaced
  BY <1>5, HandleFacts DEF handleStreamReplaced, Ends
<1> QED
  BY <1>1, <1>2, <1>3, <1>4, <1>5 DEF Handlers

\* So do main, the goroutines that read the QR channel, POST /logout and the
\* end of the process.
LEMMA ProcessKeepsInv ==
    Inv /\ (Start \/ MainSetsFields \/ Exit \/ Readers \/ Logout) =>
        (QueueBounded /\ SessionInv)'
<1> SUFFICES ASSUME Inv, Start \/ MainSetsFields \/ Exit \/ Readers \/ Logout
               PROVE  (QueueBounded /\ SessionInv)'
  OBVIOUS
<1> USE BoundsAssumption
<1> USE DEF Inv, QueueBounded, SessionInv, TypeOK, DownInv, LinkInv, NewestTells,
            ReloginInv, ClaimsInv, ReportsInv, Alive, whatsmeow, fields, goroutines, Incident
<1>1. CASE Start
  BY <1>1, QueueStays DEF Start
<1>2. CASE MainSetsFields
  BY <1>2, QueueStays DEF MainSetsFields
<1>3. CASE Exit
  BY <1>3, EmptySeq DEF Exit, EndsLast
<1>4. CASE Relogin
  BY <1>4, QueueStays DEF Relogin
<1>5. CASE ReadsCode
  BY <1>5, QueueStays DEF ReadsCode, Callback, Callbacks
<1>6. CASE ReaderEnds
  BY <1>6, QueueStays DEF ReaderEnds
<1>7. CASE CodeExpires
  BY <1>7, QueueStays DEF CodeExpires
<1>8. CASE handleLogout
  BY <1>8, QueueStays DEF handleLogout
<1>9. CASE LogoutSetsFields
  BY <1>9, QueueStays DEF LogoutSetsFields
<1> QED
  BY <1>1, <1>2, <1>3, <1>4, <1>5, <1>6, <1>7, <1>8, <1>9 DEF Readers, Logout

\* Every step keeps Inv.
LEMMA InvStep == Inv /\ [Next]_vars => Inv'
<1> SUFFICES ASSUME Inv, [Next]_vars PROVE (QueueBounded /\ SessionInv)'
  BY TypesStep DEF Inv, TypeOK, Bools, Places, Counts, QueueBounded
<1>1. CASE UNCHANGED vars \/ \E e \in Callbacks : CallEnds(e)
  BY <1>1, QueueStays DEF CallEnds, vars, whatsmeow, fields, goroutines, Inv, QueueBounded,
     SessionInv, TypeOK, DownInv, LinkInv, NewestTells, ReloginInv, ClaimsInv, ReportsInv, Alive
<1> QED
  BY <1>1, WhatsAppKeepsInv, HandlersKeepInv, ProcessKeepsInv DEF Next, Bridge

\* Inv holds in every reachable state.
LEMMA Invariant == Spec => []Inv
BY InvInit, InvStep, PTL DEF Spec

-----------------------------------------------------------------------------
\* Every variable keeps its type, and an open QR channel has a reader.
THEOREM TypeCorrect == Spec => []TypeOK
<1>1. Inv => TypeOK
  BY DEF Inv
<1> QED
  BY <1>1, Invariant, PTL

\* GET /status does not go on claiming a session that has ended.
THEOREM NeverClaimsDeadSessionHolds == Spec => []NeverClaimsDeadSession
<1>1. Inv => NeverClaimsDeadSession
  BY DEF Inv, SessionInv, ClaimsInv, Alive, NeverClaimsDeadSession, Settled
<1> QED
  BY <1>1, Invariant, PTL

\* GET /status does not go on denying a session that is there.
THEOREM LiveSessionReportedHolds == Spec => []LiveSessionReported
<1>1. Inv => LiveSessionReported
  BY DEF Inv, SessionInv, ReportsInv, LiveSessionReported, Settled
<1> QED
  BY <1>1, Invariant, PTL

=============================================================================
