------------------------------- MODULE Ingest -------------------------------
(***************************************************************************)
(* How messages get into messages.db under the right conversation:         *)
(*                                                                         *)
(*   main.go      start-up: resolver, first refresh, one-time LID backfill *)
(*   lidmap.go    the refresh that replaces the resolver's maps            *)
(*   handlers.go  handleMessage, handleHistorySync and SyncContacts, which *)
(*                whatsmeow runs on goroutines of their own                *)
(*   store.go     the statements they execute (module MessageTables)       *)
(*                                                                         *)
(* A step of a handler is a look-up in the resolver, an SQL statement, or  *)
(* a look-up with the statement that follows it: the look-up leaves its    *)
(* result in a local variable, so what comes between the two (a refresh, a *)
(* statement of another handler, a crash) might as well come after or      *)
(* before both.  The handlers interleave at every step with each other,    *)
(* with whatsmeow's writes to its lid map, with the refresh and with a     *)
(* crash, which loses the process and keeps the tables.  One handler of    *)
(* each kind is in flight at a time.                                       *)
(***************************************************************************)
EXTENDS MessageTables

CONSTANTS
    PushNamed,    \* people whose messages carry a push name
    WaContacts    \* JIDs that whatsmeow's own contact store has a name for

ASSUME NamedAssumption == PushNamed \subseteq Phones /\ WaContacts \subseteq JIDs

VARIABLES
    lidMap,      \* lids mapped in session.db (written by whatsmeow)
    phase,       \* how far main() has come
    resolver,    \* NewLIDResolver succeeded (otherwise the resolver is nil)
    cached,      \* lids in the resolver's maps
    migrated,    \* schema_migrations has a row for lid_backfill_v1
    chats, messages, contacts,
    live,        \* the handleMessage call in flight
    history,     \* the handleHistorySync call in flight
    sync,        \* the entries a SyncContacts call is about to write
    backfilled,  \* history variable: the lids the backfill rewrote, while every
                 \* start since then could read the lid map
    mishaps      \* history variable: what has gone wrong with chat rows

process == <<phase, resolver, cached>>
tables == <<chats, messages, contacts>>
handlers == <<live, history, sync>>
vars == <<lidMap, process, migrated, tables, handlers, backfilled, mishaps>>

Idle == [at |-> "idle"]
NoSync == {}

ChatWriteFailed == "an UpsertChat failed"
ChatsCollided == "the backfill found both forms of a chat"
Mishaps == {ChatWriteFailed, ChatsCollided}

LiveCalls ==
    {Idle} \cup [at : {"sender", "name", "chat", "message"},
                 id : Ids, chat : JIDs, sender : JIDs]
HistoryCalls ==
    {Idle} \cup [at : {"next"}, conv : Phones \cup Groups, chat : JIDs]
           \cup [at : {"message"}, conv : Phones \cup Groups, chat : JIDs,
                 id : Ids, sender : Users \cup JIDs]

-----------------------------------------------------------------------------
(***************************************************************************)
(* A database an earlier build may have left: it kept every JID as it      *)
(* came, and its chat rows have the time of their newest message, by the   *)
(* order of texts.  A new installation is the case without rows.           *)
(***************************************************************************)

LegacyRows ==
    {r \in [id : Ids, chat : JIDs, sender : Lids \cup Phones] :
        /\ r.chat \in Forms(Conv[r.id])
        /\ \E j \in Forms(Author[r.id]) : r.sender = j.user
        /\ Incoming1to1(r.id) => r.sender = r.chat.user}

Init ==
    /\ lidMap \in SUBSET Lids
    /\ messages \in SUBSET LegacyRows
    /\ \A m, n \in messages : m.id = n.id /\ m.chat = n.chat => m = n
    /\ chats \in [JIDs -> ChatTimes]
    /\ \A m \in messages : Covers(chats[m.chat], TimeOf[m.id])
    /\ \A j \in JIDs : chats[j] # NoRow =>
           \E m \in messages : m.chat = j /\ TimeOf[m.id] = chats[j]
    /\ contacts = {}
    /\ phase = "down" /\ resolver = FALSE /\ cached = {}
    /\ migrated = FALSE
    /\ live = Idle /\ history = Idle /\ sync = NoSync
    /\ backfilled = {} /\ mishaps = {}

-----------------------------------------------------------------------------
(***************************************************************************)
(* Start-up and the resolver.                                              *)
(***************************************************************************)

\* NewLIDResolver opens session.db: its maps are empty until the refresh.
OpenResolver ==
    /\ phase = "down"
    /\ \/ phase' = "opened" /\ resolver' = TRUE /\ UNCHANGED backfilled
       \/ phase' = "up" /\ resolver' = FALSE /\ backfilled' = {}
    /\ UNCHANGED <<cached, lidMap, migrated, tables, handlers, mishaps>>

\* The first Refresh.  An error is logged and the start goes on.
InitialRefresh ==
    /\ phase = "opened"
    /\ phase' = "refreshed"
    /\ \/ cached' = lidMap /\ UNCHANGED backfilled
       \/ cached' = cached /\ backfilled' = {}
    /\ UNCHANGED <<resolver, lidMap, migrated, tables, handlers, mishaps>>

\* MigrateLIDChats: one transaction, or only the mark if the snapshot is empty,
\* or nothing: it was applied before, or an error rolled it back.
MigrateLIDChats ==
    /\ phase = "refreshed"
    /\ phase' = "up"
    /\ \/ /\ ~migrated
          /\ cached # {}
          /\ migrated' = TRUE
          /\ backfilled' = cached
          /\ chats' = MigrateChats(chats, cached)
          /\ messages' = MigrateMessages(messages, cached)
          /\ contacts' = MigrateContacts(contacts, cached)
          /\ mishaps' = mishaps \cup
                (IF ChatRowsCollide(chats, cached) THEN {ChatsCollided} ELSE {})
       \/ /\ ~migrated
          /\ cached = {}
          /\ migrated' = TRUE
          /\ UNCHANGED <<tables, backfilled, mishaps>>
       \/ UNCHANGED <<migrated, tables, backfilled, mishaps>>
    /\ UNCHANGED <<resolver, cached, lidMap, handlers>>

\* StartAutoRefresh: the ticker's Refresh.  One that fails changes nothing.
AutoRefresh ==
    /\ phase = "up" /\ resolver
    /\ cached' = lidMap
    /\ UNCHANGED <<phase, resolver, lidMap, migrated, tables, handlers, backfilled, mishaps>>

\* whatsmeow learns a mapping from the server and writes it to session.db.
LearnMapping ==
    /\ phase = "up"
    /\ \E l \in Lids \ lidMap : lidMap' = lidMap \cup {l}
    /\ UNCHANGED <<process, migrated, tables, handlers, backfilled, mishaps>>

\* The process ends at any point; transactions are whole or not there.
Crash ==
    /\ phase # "down"
    /\ phase' = "down" /\ resolver' = FALSE /\ cached' = {}
    /\ live' = Idle /\ history' = Idle /\ sync' = NoSync
    /\ UNCHANGED <<lidMap, migrated, tables, backfilled, mishaps>>

-----------------------------------------------------------------------------
(***************************************************************************)
(* handleMessage                                                           *)
(***************************************************************************)

\* The contact row resolveChatName takes over from whatsmeow's store, when the
\* chat has no row (so no name) and the bridge has no contact for it.
ContactsAfterName(jid) ==
    IF /\ chats[jid] = NoRow /\ jid.server # "g.us"
       /\ jid \in WaContacts
    THEN contacts \cup {jid}
    ELSE contacts

\* chatJID := Resolver.Normalize(Info.Chat), with the sender still to come.
Deliver(id, chat, sender) ==
    live' = [at |-> "sender", id |-> id, chat |-> Normalize(chat, cached), sender |-> sender]

LiveArrives ==
    /\ phase = "up" /\ live = Idle
    /\ \E id \in Ids :
         \E chat \in Forms(Conv[id]) :
           \E sender \in Forms(Author[id]) :
             /\ Incoming1to1(id) => sender = chat
             /\ Deliver(id, chat, sender)
    /\ UNCHANGED <<lidMap, process, migrated, tables, history, sync, backfilled, mishaps>>

\* The author's push name, kept under the author's JID; an error of
\* UpsertContact is ignored.
CaptureContact(id, jid) ==
    \/ /\ Author[id] \in PushNamed /\ Author[id] # Me
       /\ contacts' = contacts \cup {jid}
    \/ UNCHANGED contacts

\* A plausible bug: the sender column gets the user part as it came.
LiveSenderRaw ==
    /\ live.at = "sender"
    /\ live' = [live EXCEPT !.at = "name"]
    /\ CaptureContact(live.id, live.sender)
    /\ UNCHANGED <<lidMap, process, migrated, chats, messages, history, sync, backfilled, mishaps>>

\* senderJID := Resolver.Normalize(Info.Sender), a second look-up.
LiveSender ==
    /\ live.at = "sender"
    /\ LET sender == Normalize(live.sender, cached) IN
       /\ live' = [live EXCEPT !.at = "name", !.sender = sender]
       /\ CaptureContact(live.id, sender)
    /\ UNCHANGED <<lidMap, process, migrated, chats, messages, history, sync, backfilled, mishaps>>

LiveName ==
    /\ live.at = "name"
    /\ contacts' \in {contacts, ContactsAfterName(live.chat)}
    /\ live' = [live EXCEPT !.at = "chat"]
    /\ UNCHANGED <<lidMap, process, migrated, chats, messages, history, sync, backfilled, mishaps>>

\* An error of UpsertChat is ignored: the message is stored all the same.
LiveChat ==
    /\ live.at = "chat"
    /\ \/ chats' = UpsertChat(chats, live.chat, TimeOf[live.id]) /\ UNCHANGED mishaps
       \/ UNCHANGED chats /\ mishaps' = mishaps \cup {ChatWriteFailed}
    /\ live' = [live EXCEPT !.at = "message"]
    /\ UNCHANGED <<lidMap, process, migrated, messages, contacts, history, sync, backfilled>>

\* Nothing is stored of a message without text and media, or on an error.
LiveMessage ==
    /\ live.at = "message"
    /\ messages' \in {messages,
                      StoreMessage(messages, Row(live.id, live.chat, live.sender.user))}
    /\ live' = Idle
    /\ UNCHANGED <<lidMap, process, migrated, chats, contacts, history, sync, backfilled, mishaps>>

-----------------------------------------------------------------------------
(***************************************************************************)
(* handleHistorySync, one conversation: of the initial sync, of a replay   *)
(* after a restart or of the answer to POST /resync, with any of its       *)
(* messages in any order.                                                  *)
(***************************************************************************)

HistoryBegins(conv, chat) ==
    /\ history' = [at |-> "next", conv |-> conv, chat |-> chat]
    /\ contacts' \in {contacts, ContactsAfterName(chat)}

\* A plausible bug: the conversation's JID is not normalised.
HistoryArrivesRaw ==
    /\ phase = "up" /\ history = Idle
    /\ \E c \in Phones \cup Groups : \E jid \in Forms(c) : HistoryBegins(c, jid)
    /\ UNCHANGED <<lidMap, process, migrated, chats, messages, live, sync, backfilled, mishaps>>

HistoryArrives ==
    /\ phase = "up" /\ history = Idle
    /\ \E c \in Phones \cup Groups :
         \E jid \in Forms(c) : HistoryBegins(c, Normalize(jid, cached))
    /\ UNCHANGED <<lidMap, process, migrated, chats, messages, live, sync, backfilled, mishaps>>

\* A plausible bug: the test of FromMe is the wrong way round.
SendersInHistorySwapped(id, chat) ==
    {chat.user} \cup IF Author[id] # Me THEN {Me} ELSE {}

\* Key.Participant, which group messages carry, is a full JID; the own account's
\* user part stands for own messages while the client has an account; without
\* either the chat's user part is taken.
SendersInHistory(id, chat) ==
    {chat.user} \cup
    IF Author[id] = Me THEN {Me}
    ELSE IF Conv[id] \in Groups THEN Forms(Author[id]) ELSE {}

\* NormalizeUser on the sender, then UpsertChat, whose error is ignored.
HistoryChat ==
    /\ history.at = "next"
    /\ \E id \in {i \in Ids : Conv[i] = history.conv} :
         /\ \E sender \in SendersInHistory(id, history.chat) :
              history' = [at |-> "message", conv |-> history.conv, chat |-> history.chat,
                          id |-> id, sender |-> NormalizeUser(sender, cached)]
         /\ \/ chats' = UpsertChat(chats, history.chat, TimeOf[id]) /\ UNCHANGED mishaps
            \/ UNCHANGED chats /\ mishaps' = mishaps \cup {ChatWriteFailed}
    /\ UNCHANGED <<lidMap, process, migrated, messages, contacts, live, sync, backfilled>>

HistoryMessage ==
    /\ history.at = "message"
    /\ messages' \in {messages,
                      StoreMessage(messages, Row(history.id, history.chat, history.sender))}
    /\ history' = [at |-> "next", conv |-> history.conv, chat |-> history.chat]
    /\ UNCHANGED <<lidMap, process, migrated, chats, contacts, live, sync, backfilled, mishaps>>

HistoryEnds ==
    /\ history.at = "next"
    /\ history' = Idle
    /\ UNCHANGED <<lidMap, process, migrated, tables, live, sync, backfilled, mishaps>>

-----------------------------------------------------------------------------
(***************************************************************************)
(* SyncContacts, started by main() and by every Connected event: the JIDs  *)
(* are normalised first, the rows written in one transaction later.        *)
(***************************************************************************)

SyncReads ==
    /\ phase = "up" /\ sync = NoSync
    /\ sync' = {Normalize(j, cached) : j \in WaContacts}
    /\ UNCHANGED <<lidMap, process, migrated, tables, live, history, backfilled, mishaps>>

SyncWrites ==
    /\ sync # NoSync
    /\ contacts' \in {contacts, contacts \cup sync}
    /\ sync' = NoSync
    /\ UNCHANGED <<lidMap, process, migrated, chats, messages, live, history, backfilled, mishaps>>

-----------------------------------------------------------------------------

Startup == OpenResolver \/ InitialRefresh \/ MigrateLIDChats
HandleMessage ==
    LiveArrives \/ LiveSender \/ LiveName \/ LiveChat \/ LiveMessage
HandleHistorySync ==
    HistoryArrives \/ HistoryChat \/ HistoryMessage \/ HistoryEnds
SyncContacts == SyncReads \/ SyncWrites

Next ==
    \/ Startup \/ AutoRefresh \/ LearnMapping \/ Crash
    \/ HandleMessage \/ HandleHistorySync \/ SyncContacts

Spec == Init /\ [][Next]_vars

-----------------------------------------------------------------------------
(***************************************************************************)
(* Properties                                                              *)
(***************************************************************************)

\* Every variable keeps its type, in particular every key of the three tables
\* is a JID of a known namespace, whatever Normalize and the backfill rewrote.
TypeOK ==
    /\ lidMap \subseteq Lids /\ cached \subseteq Lids /\ backfilled \subseteq Lids
    /\ phase \in {"down", "opened", "refreshed", "up"}
    /\ resolver \in BOOLEAN /\ migrated \in BOOLEAN
    /\ chats \in [JIDs -> ChatTimes]
    /\ messages \subseteq Rows
    /\ contacts \subseteq JIDs /\ sync \subseteq JIDs
    /\ live \in LiveCalls /\ history \in HistoryCalls
    /\ mishaps \subseteq Mishaps

\* A message is only ever stored in a conversation of its own, under one of the
\* JIDs of that person or group: neither a normalisation nor the backfill nor a
\* replay files it with somebody else.  The same holds of the sender column of
\* a message from the other side of a 1:1 chat.
NeverMisfiled ==
    \A m \in messages :
        /\ m.chat \in Forms(Conv[m.id])
        /\ Incoming1to1(m.id) => m.sender \in NamesOf[Author[m.id]]

\* GET /chats finds every conversation that has a message: a row of messages
\* has its row of chats, although a crash may come between the two writes and
\* the backfill moves both.  Only an UpsertChat that failed can break this.
MessageHasChat ==
    ChatWriteFailed \notin mishaps => \A m \in messages : chats[m.chat] # NoRow

\* GET /chats does not sort a conversation behind one whose messages all come
\* before its newest: in the order of texts, by which it sorts, the time of a chat
\* is not before that of a message in it, in whatever order live messages and
\* history arrive, unless a write failed or the backfill dropped a chat row.  In
\* seconds it may be, by as much as the clock was set back.
ChatTimeCoversMessages ==
    mishaps \cap {ChatWriteFailed, ChatsCollided} = {} =>
        \A m \in messages : Covers(chats[m.chat], TimeOf[m.id])

\* What the backfill merged stays merged: as long as every start can read the
\* lid map, no table gets a row under a lid the backfill rewrote, across
\* restarts, refreshes and handlers in flight, nor a sender column that lid.
BackfillHolds ==
    \A l \in backfilled :
        /\ chats[LidJID(l)] = NoRow
        /\ LidJID(l) \notin contacts
        /\ \A m \in messages : m.chat # LidJID(l) /\ m.sender # l

\* In a 1:1 chat the two look-ups of one message may see different maps, but
\* only one way: a message filed under the phone never has the lid as sender.
SenderNeverBehindChat ==
    \A m \in messages :
        Incoming1to1(m.id) /\ m.chat = PhoneJID(Conv[m.id]) => m.sender \notin Lids

\* messages.db implements the archive: through crashes, replays, REPLACEs and
\* the backfill's deletes, a stored message stays in its own conversation and
\* a listed conversation stays listed.
Archived == {i \in Ids : \E m \in messages : m.id = i /\ m.chat \in Forms(Conv[i])}
Listed == {c \in Phones \cup Groups : \E j \in Forms(c) : chats[j] # NoRow}
Archive == INSTANCE Archive
    WITH Conversations <- Phones \cup Groups, archived <- Archived, listed <- Listed
NeverLosesHistory == Archive!Spec

-----------------------------------------------------------------------------
(***************************************************************************)
(* What comments of the repository say, and the code does not do.          *)
(***************************************************************************)

\* store.go:113: mappings that appear after the backfill are handled at write
\* time, so running it again is not necessary.  Then a message of a person
\* whose lid the resolver maps is not left under the lid.
LaterMappingsHandled ==
    phase = "up" /\ migrated => \A m \in messages : m.chat \notin LidJIDsOf(cached)

\* store.go:464: GetChats returns the chats ordered by most recent message, so
\* the time it orders by is not older than a message of the chat.
OrderedByMostRecent == \A m \in messages : chats[m.chat] >= TimeOf[m.id]

=============================================================================
