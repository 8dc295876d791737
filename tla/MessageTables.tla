--------------------------- MODULE MessageTables ---------------------------
(***************************************************************************)
(* The tables of messages.db (bridge/store.go) and what one statement of   *)
(* the bridge does to them.                                                *)
(*                                                                         *)
(*   chats     JID -> last_message_time, NoRow where there is no row       *)
(*   messages  a set of rows [id, chat, sender]; (id, chat) is the key     *)
(*   contacts  the JIDs that have a contact row, each with a name          *)
(*                                                                         *)
(* An id stands for a message of WhatsApp: the conversation it belongs to, *)
(* who wrote it and when are its own (Conv, Author, TimeOf), so that a row *)
(* can be told right or wrong.  Text, media and names are left out.        *)
(*                                                                         *)
(* SQLite keeps a time as the text of the local clock with its offset from *)
(* UTC and compares texts: when the clock is set back, a later time may    *)
(* come before an earlier one.                                             *)
(***************************************************************************)
EXTENDS LidIdentity, Naturals

CONSTANTS
    Ids,      \* message ids
    Conv,     \* the conversation of each: a phone (1:1) or a group
    Author,   \* the phone of the person who wrote it
    TimeOf,   \* its timestamp
    TextOf,   \* the place of each timestamp in the order of the texts
    Me        \* the phone of the bridge's own account

Times == {TimeOf[id] : id \in Ids}

ASSUME MessageAssumption ==
    /\ Conv \in [Ids -> Phones \cup Groups]
    /\ Author \in [Ids -> Phones]
    /\ TimeOf \in [Ids -> Nat \ {0}]
    /\ TextOf \in [Times -> Nat]
    /\ Me \in Phones

NoRow == 0
ChatTimes == {NoRow} \cup Times

\* The JIDs by which WhatsApp may address a person or a group.
FormsOf ==
    [c \in Phones \cup Groups |->
        {j \in JIDs : j.user = c \/ (j.user \in Lids /\ PnOf[j.user] = c)}]
Forms(c) == FormsOf[c]
\* What the sender column may hold of a person: a bare user part or a full JID.
NamesOf == [c \in Phones \cup Groups |-> FormsOf[c] \cup {j.user : j \in FormsOf[c]}]
\* A message from the other side of a 1:1 chat.
Incoming1to1(id) == Conv[id] \in Phones /\ Author[id] = Conv[id]

\* The sender column: a bare user part, or the full JID handleHistorySync lets in.
Row(id, chat, sender) == [id |-> id, chat |-> chat, sender |-> sender]
Rows == [id : Ids, chat : JIDs, sender : Users \cup JIDs]

-----------------------------------------------------------------------------
(***************************************************************************)
(* The write statements of the handlers.                                   *)
(***************************************************************************)

\* A plausible bug: a late delivery of an old message sets the time back.
UpsertChatOverwrites(chats, jid, time) == [chats EXCEPT ![jid] = time]

\* A chat row whose time is not before a message's, as SQLite compares the two.
Covers(chatTime, time) == chatTime # NoRow /\ TextOf[chatTime] >= TextOf[time]

\* ON CONFLICT ... MAX(chats.last_message_time, excluded.last_message_time)
UpsertChat(chats, jid, time) ==
    [chats EXCEPT ![jid] = IF Covers(@, time) THEN @ ELSE time]

\* INSERT OR REPLACE on the primary key (id, chat_jid)
StoreMessage(messages, row) ==
    {m \in messages : m.id # row.id \/ m.chat # row.chat} \cup {row}

-----------------------------------------------------------------------------
(***************************************************************************)
(* The transaction of MigrateLIDChats for a snapshot of the resolver.      *)
(* Lids and phones are disjoint and no two lids share a phone, so the      *)
(* order in which the loop takes the pairs makes no difference.            *)
(***************************************************************************)

LidJIDsOf(snapshot) == {LidJID(l) : l \in snapshot}

\* A plausible bug: the lid rows are deleted and nothing takes their place.
MigrateChatsDrops(chats, snapshot) ==
    [j \in JIDs |-> IF j \in LidJIDsOf(snapshot) THEN NoRow ELSE chats[j]]

\* UPDATE OR IGNORE chats, then DELETE: the phone row that is there wins.
MigrateChats(chats, snapshot) ==
    [j \in JIDs |->
        IF j \in LidJIDsOf(snapshot) THEN NoRow
        ELSE IF chats[j] = NoRow /\ \E l \in snapshot : j = PhoneJID(PnOf[l])
             THEN chats[LidJID(CHOOSE l \in snapshot : j = PhoneJID(PnOf[l]))]
             ELSE chats[j]]

MigratedSender(sender, snapshot) ==
    IF sender \in snapshot THEN PnOf[sender] ELSE sender

\* A row that moves, unless the phone conversation has the message already.
Moves(messages, m, snapshot) ==
    /\ m.chat \in LidJIDsOf(snapshot)
    /\ \A n \in messages : ~(n.id = m.id /\ n.chat = PhoneJID(PnOf[m.chat.user]))

\* A plausible bug: UPDATE OR IGNORE is left out and the lid rows deleted.
MigrateMessagesDrops(messages, snapshot) ==
    {Row(m.id, m.chat, MigratedSender(m.sender, snapshot)) :
        m \in {n \in messages : n.chat \notin LidJIDsOf(snapshot)}}

\* The three UPDATE and DELETE statements on messages.
MigrateMessages(messages, snapshot) ==
    {Row(m.id, m.chat, MigratedSender(m.sender, snapshot)) :
        m \in {n \in messages : n.chat \notin LidJIDsOf(snapshot)}}
    \cup {Row(m.id, PhoneJID(PnOf[m.chat.user]), MigratedSender(m.sender, snapshot)) :
            m \in {n \in messages : Moves(messages, n, snapshot)}}

MigrateContacts(contacts, snapshot) ==
    (contacts \ LidJIDsOf(snapshot))
    \cup {PhoneJID(PnOf[l]) : l \in {k \in snapshot : LidJID(k) \in contacts}}

\* Both forms of some person have a chat row: the lid row's time is dropped.
ChatRowsCollide(chats, snapshot) ==
    \E l \in snapshot : chats[LidJID(l)] # NoRow /\ chats[PhoneJID(PnOf[l])] # NoRow

=============================================================================
