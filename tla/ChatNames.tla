----------------------------- MODULE ChatNames -----------------------------
(***************************************************************************)
(* The name a chat is listed under: resolveChatName (bridge/handlers.go)   *)
(* looks it up, UpsertChat (store.go) writes it, GET /chats and            *)
(* GET /contacts show the contact's name before the chat's.                *)
(*                                                                         *)
(* A name is a real one (saved, pushed, or a group's subject) or a         *)
(* stand-in: a number, the chat's own or its sender's, or "Group <number>" *)
(* while the subject cannot be had.  handleMessage writes what it found    *)
(* once, handleHistorySync with every message of the conversation; the     *)
(* model lets both write again.                                            *)
(***************************************************************************)
CONSTANT Handlers   \* handleMessage and handleHistorySync calls on the chat

VARIABLES
    isGroup,    \* the chat is a group
    contact,    \* contacts has a name for the chat's JID
    rowName,    \* chats.name
    resolved    \* the name each handler found and writes

nameVars == <<isGroup, contact, rowName, resolved>>

Real == "real"
StandIn == "stand-in"
Unnamed == "unnamed"   \* no row, no name in it, or no handler
Names == {Real, StandIn, Unnamed}

NamesTypeOK ==
    /\ isGroup \in BOOLEAN /\ contact \in BOOLEAN
    /\ rowName \in Names
    /\ resolved \in [Handlers -> Names]

NamesInit ==
    /\ NamesTypeOK
    /\ isGroup => ~contact
    /\ resolved = [h \in Handlers |-> Unnamed]

-----------------------------------------------------------------------------

\* What is found of a chat without a name: a subject from the conversation or
\* the server, a contact from either store, or nothing.
FindsName(h, name) == resolved' = [resolved EXCEPT ![h] = name]

\* A plausible bug: the name in the row is not looked at.
resolveChatNameAnew(h) ==
    /\ resolved[h] = Unnamed
    /\ FindsName(h, Real) \/ (~contact /\ FindsName(h, StandIn))
    /\ UNCHANGED <<isGroup, contact, rowName>>

\* A contact found in whatsmeow's store is kept; an error of UpsertContact is
\* ignored.
resolveChatName(h) ==
    /\ resolved[h] = Unnamed
    /\ IF rowName # Unnamed
       THEN FindsName(h, rowName) /\ UNCHANGED contact
       ELSE \/ FindsName(h, Real) /\ contact' \in {contact, ~isGroup}
            \/ ~contact /\ FindsName(h, StandIn) /\ UNCHANGED contact
    /\ UNCHANGED <<isGroup, rowName>>

\* UpsertChat: a name that is not empty replaces the row's.  history goes on to
\* its next message with the name it has.
WritesName(h) ==
    /\ resolved[h] # Unnamed
    /\ rowName' = resolved[h]
    /\ UNCHANGED <<isGroup, contact, resolved>>

\* The handler ends, or the process.
HandlerEnds(h) ==
    /\ resolved[h] # Unnamed
    /\ FindsName(h, Unnamed)
    /\ UNCHANGED <<isGroup, contact, rowName>>

\* UpsertContact of a push name, or SyncContacts.  No writer empties a name.
ContactArrives ==
    /\ ~isGroup
    /\ contact' = TRUE
    /\ UNCHANGED <<isGroup, rowName, resolved>>

\* GetChats, and SearchContacts likewise; without a name the JID is shown.
Shown == IF contact THEN Real ELSE rowName

NamesChat ==
    \/ ContactArrives
    \/ \E h \in Handlers : resolveChatName(h) \/ WritesName(h) \/ HandlerEnds(h)

-----------------------------------------------------------------------------

\* A chat listed under a real name is never again listed under a number, by
\* whatever order of handlers, failures and restarts - once no handler is left
\* that looked before the name was there.  (One that did overwrites it.)
NameSettled ==
    Shown = Real /\ (contact \/ \A h \in Handlers : resolved[h] # StandIn)
NameForGood == [][NameSettled => NameSettled']_nameVars

=============================================================================
