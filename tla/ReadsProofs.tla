---------------------------- MODULE ReadsProofs ----------------------------
(***************************************************************************)
(* What the readers of messages.db may rely on, for any people, messages,  *)
(* lids and contact stores: GET /chats finds the conversation of every     *)
(* message and orders it by its newest, a sender is not behind the chat it *)
(* is in, a person is not taken for two, and no history is lost.           *)
(***************************************************************************)
EXTENDS Reads, IngestProofs

\* The chat row that a handler has written for its message is there until the
\* message is stored.
RowsInv ==
    /\ MessageHasChat
    /\ ChatWriteFailed \notin mishaps =>
         /\ live.at = "message" => chats[live.chat] # NoRow
         /\ history.at = "message" => chats[history.chat] # NoRow

\* And its time covers the message's.
TimesInv ==
    /\ ChatTimeCoversMessages
    /\ mishaps \cap {ChatWriteFailed, ChatsCollided} = {} =>
         /\ live.at = "message" => Covers(chats[live.chat], TimeOf[live.id])
         /\ history.at = "message" => Covers(chats[history.chat], TimeOf[history.id])

\* A message filed under the phone came from the phone, or from a lid that the
\* resolver still maps when the sender is looked up.
LiveSenderInv ==
    live.at # "idle" /\ Incoming1to1(live.id) /\ live.chat = PhoneJID(Conv[live.id]) =>
        live.sender.user \notin IF live.at = "sender" THEN Lids \ cached ELSE Lids

\* In a 1:1 chat the other side is never named by a full JID.
BareSenders ==
    /\ \A m \in messages : Incoming1to1(m.id) => m.sender \in Users
    /\ history.at = "message" /\ Incoming1to1(history.id) =>
         /\ history.sender \in Users
         /\ history.chat = PhoneJID(Conv[history.id]) => history.sender \notin Lids

SenderInv == SenderNeverBehindChat /\ LiveSenderInv /\ BareSenders

-----------------------------------------------------------------------------
(***************************************************************************)
(* Chat rows and their times                                               *)
(***************************************************************************)

\* The backfill moves a chat row with its messages.  It loses a time only where
\* both forms of a person have a row.
LEMMA MigrateChatsKeeps ==
    ASSUME NEW c \in [JIDs -> ChatTimes], NEW S \in SUBSET Lids, NEW j \in JIDs
    PROVE  LET after == MigrateChats(c, S)[Normalize(j, S)] IN
           c[j] # NoRow => after # NoRow /\ (~ChatRowsCollide(c, S) => after = c[j])
<1>3. CASE j \notin LidJIDsOf(S)
  <2>1. Normalize(j, S) = j
    BY <1>3, NormalizeCases
  <2>2. c[j] # NoRow => MigrateChats(c, S)[j] = c[j]
    BY <1>3 DEF MigrateChats
  <2> QED
    BY <2>1, <2>2
<1>4. CASE j \in LidJIDsOf(S)
  <2>1. PICK l \in S : j = LidJID(l)
    BY <1>4 DEF LidJIDsOf
  <2> DEFINE q == PhoneJID(PnOf[l])
  <2>2. Normalize(j, S) = q /\ q \in JIDs /\ q \notin LidJIDsOf(S)
    BY <2>1, NormalizeCases, JIDConstructors, PnOfAssumption DEF LidJIDsOf
  <2>3. \A k \in S : q = PhoneJID(PnOf[k]) => k = l
    BY PnOfAssumption, JIDConstructors
  <2>4. LidJID(CHOOSE k \in S : q = PhoneJID(PnOf[k])) = j
    BY <2>1, <2>3
  <2>5. MigrateChats(c, S)[q] = IF c[q] = NoRow THEN c[j] ELSE c[q]
    BY <2>2, <2>4 DEF MigrateChats
  <2>6. ~ChatRowsCollide(c, S) => c[j] = NoRow \/ c[q] = NoRow
    BY <2>1 DEF ChatRowsCollide
  <2> QED
    BY <2>2, <2>5, <2>6
<1> QED
  BY <1>3, <1>4

\* An upsert that succeeds leaves a row that covers the message, and every chat
\* covers what it covered.
LEMMA UpsertCovers ==
    ASSUME TypeOK, NEW j \in JIDs, NEW id \in Ids,
           chats' = UpsertChat(chats, j, TimeOf[id])
    PROVE  /\ Covers(chats'[j], TimeOf[id])
           /\ \A k \in JIDs : chats[k] # NoRow => chats'[k] # NoRow
           /\ \A k \in JIDs, t \in Times : Covers(chats[k], t) => Covers(chats'[k], t)
<1>1. chats \in [JIDs -> ChatTimes] /\ TimeOf[id] \in Times
  BY TimesOrdered DEF TypeOK
<1>2. /\ Covers(chats'[j], TimeOf[id])
      /\ \A k \in JIDs, t \in Times : Covers(chats[k], t) => Covers(chats'[k], t)
      /\ \A k \in JIDs : k # j => chats'[k] = chats[k]
  BY <1>1, UpsertChatType
<1> QED
  BY <1>2 DEF Covers

\* The rows in messages name JIDs, and messages of WhatsApp.
LEMMA RowFacts ==
    ASSUME TypeOK, NEW m \in messages
    PROVE  m.chat \in JIDs /\ m.id \in Ids /\ TimeOf[m.id] \in Times
BY TimesOrdered DEF TypeOK, Rows

\* A statement on chats: an upsert, or its failure.
ChatWritten(j, id) ==
    \/ chats' = UpsertChat(chats, j, TimeOf[id]) /\ UNCHANGED mishaps
    \/ UNCHANGED chats /\ mishaps' = mishaps \cup {ChatWriteFailed}

\* Both invariants through a statement on chats, whoever executes it: what was
\* covered stays covered, and the new message is.
LEMMA ChatWrittenKeeps ==
    ASSUME TypeOK, RowsInv, TimesInv, NEW j \in JIDs, NEW id \in Ids, ChatWritten(j, id),
           UNCHANGED messages
    PROVE  /\ MessageHasChat' /\ ChatTimeCoversMessages'
           /\ ChatWriteFailed \notin mishaps' =>
                /\ ChatWriteFailed \notin mishaps /\ chats'[j] # NoRow
                /\ \A k \in JIDs : chats[k] # NoRow => chats'[k] # NoRow
           /\ mishaps' \cap {ChatWriteFailed, ChatsCollided} = {} =>
                /\ mishaps \cap {ChatWriteFailed, ChatsCollided} = {}
                /\ Covers(chats'[j], TimeOf[id])
                /\ \A k \in JIDs, t \in Times : Covers(chats[k], t) => Covers(chats'[k], t)
<1>2. CASE UNCHANGED chats /\ mishaps' = mishaps \cup {ChatWriteFailed}
  BY <1>2 DEF MessageHasChat, ChatTimeCoversMessages
<1>3. CASE chats' = UpsertChat(chats, j, TimeOf[id]) /\ UNCHANGED mishaps
  <2>1. /\ Covers(chats'[j], TimeOf[id])
        /\ \A k \in JIDs, t \in Times : Covers(chats[k], t) => Covers(chats'[k], t)
    BY <1>3, UpsertCovers
  <2>2. chats'[j] # NoRow /\ \A k \in JIDs : chats[k] # NoRow => chats'[k] # NoRow
    BY <1>3, UpsertCovers DEF Covers
  <2>3. MessageHasChat'
    BY <1>3, <2>2, RowFacts DEF RowsInv, MessageHasChat
  <2>4. ChatTimeCoversMessages'
    <3> SUFFICES ASSUME mishaps \cap {ChatWriteFailed, ChatsCollided} = {}, NEW m \in messages
                 PROVE  Covers(chats'[m.chat], TimeOf[m.id])
      BY <1>3 DEF ChatTimeCoversMessages
    <3>1. Covers(chats[m.chat], TimeOf[m.id])
      BY DEF TimesInv, ChatTimeCoversMessages
    <3> QED
      BY <2>1, <3>1, RowFacts
  <2> QED
    BY <1>3, <2>1, <2>2, <2>3, <2>4
<1> QED
  BY <1>2, <1>3 DEF ChatWritten

\* A message is stored by a handler whose statement on chats came before.
LEMMA StoreKeeps ==
    ASSUME TypeOK, RowsInv, TimesInv, NEW r,
           messages' \in {messages, StoreMessage(messages, r)}, UNCHANGED <<chats, mishaps>>,
           ChatWriteFailed \notin mishaps => chats[r.chat] # NoRow,
           mishaps \cap {ChatWriteFailed, ChatsCollided} = {} =>
               Covers(chats[r.chat], TimeOf[r.id])
    PROVE  MessageHasChat' /\ ChatTimeCoversMessages'
<1>1. \A m \in messages' : m \in messages \/ m = r
  BY StoreMessageRows
<1> QED
  BY <1>1 DEF RowsInv, TimesInv, MessageHasChat, ChatTimeCoversMessages

\* The backfill, which runs before any handler, moves messages and chat rows alike.
LEMMA MigrateKeeps ==
    ASSUME TypeOK, RowsInv, TimesInv, MigrateLIDChats
    PROVE  MessageHasChat' /\ ChatTimeCoversMessages'
<1>1. CASE UNCHANGED <<tables, mishaps>>
  BY <1>1 DEF tables, RowsInv, TimesInv, MessageHasChat, ChatTimeCoversMessages
<1>2. CASE /\ chats' = MigrateChats(chats, cached)
           /\ messages' = MigrateMessages(messages, cached)
           /\ mishaps' = mishaps \cup
                 (IF ChatRowsCollide(chats, cached) THEN {ChatsCollided} ELSE {})
  <2> SUFFICES ASSUME NEW m \in messages'
               PROVE  /\ ChatWriteFailed \notin mishaps' => chats'[m.chat] # NoRow
                      /\ mishaps' \cap {ChatWriteFailed, ChatsCollided} = {} =>
                            Covers(chats'[m.chat], TimeOf[m.id])
    BY DEF MessageHasChat, ChatTimeCoversMessages
  <2>1. chats \in [JIDs -> ChatTimes] /\ messages \in SUBSET Rows /\ cached \in SUBSET Lids
    BY DEF TypeOK
  <2>2. PICK n \in messages : m.id = n.id /\ m.chat = Normalize(n.chat, cached)
    BY <1>2, <2>1, MigrateMessagesRows
  <2>3. n.chat \in JIDs
    BY RowFacts
  <2>4. chats[n.chat] # NoRow =>
          /\ chats'[m.chat] # NoRow
          /\ ~ChatRowsCollide(chats, cached) => chats'[m.chat] = chats[n.chat]
    BY <1>2, <2>1, <2>2, <2>3, MigrateChatsKeeps
  <2>5. ChatWriteFailed \notin mishaps' => chats'[m.chat] # NoRow
    BY <1>2, <2>4 DEF RowsInv, MessageHasChat
  <2>6. ASSUME mishaps' \cap {ChatWriteFailed, ChatsCollided} = {}
        PROVE  Covers(chats'[m.chat], TimeOf[m.id])
    <3>1. ~ChatRowsCollide(chats, cached) /\ mishaps \cap {ChatWriteFailed, ChatsCollided} = {}
      BY <1>2, <2>6
    <3>2. Covers(chats[n.chat], TimeOf[n.id])
      BY <3>1 DEF TimesInv, ChatTimeCoversMessages
    <3> QED
      BY <2>2, <2>4, <3>1, <3>2 DEF Covers
  <2> QED
    BY <2>5, <2>6
<1> QED
  BY <1>1, <1>2 DEF MigrateLIDChats

\* Every step keeps the rows and their times.
LEMMA ChatsStep ==
    ASSUME BackfillInv, RowsInv, TimesInv, [Next]_vars
    PROVE  RowsInv' /\ TimesInv'
<1>1. TypeOK /\ (phase # "up" => live = Idle /\ history = Idle)
  BY DEF BackfillInv, InFlightMerged
<1>2. CASE LiveChat
  <2>1. live.at = "chat" /\ live.chat \in JIDs /\ live.id \in Ids
    BY <1>1, <1>2, LiveBusy DEF LiveChat
  <2>2. /\ ChatWritten(live.chat, live.id) /\ UNCHANGED <<messages, history>>
        /\ live'.chat = live.chat /\ live'.id = live.id
    BY <1>1, <1>2, LiveBusy DEF LiveChat, ChatWritten
  <2>3. history.at = "message" => history.chat \in JIDs /\ TimeOf[history.id] \in Times
    BY <1>1, HistoryBusy, TimesOrdered
  <2> QED
    BY <1>1, <2>1, <2>2, <2>3, ChatWrittenKeeps DEF RowsInv, TimesInv, TypeOK
<1>3. CASE HistoryChat
  <2>1. history.chat \in JIDs
    BY <1>1, <1>3, HistoryBusy DEF HistoryChat
  <2>2. PICK id \in Ids :
           /\ history'.at = "message" /\ history'.chat = history.chat /\ history'.id = id
           /\ ChatWritten(history.chat, id)
    BY <1>3 DEF HistoryChat, ChatWritten
  <2>3. UNCHANGED <<messages, live>>
    BY <1>3 DEF HistoryChat
  <2>4. live.at = "message" => live.chat \in JIDs /\ TimeOf[live.id] \in Times
    BY <1>1, LiveBusy, TimesOrdered
  <2> QED
    BY <1>1, <2>1, <2>2, <2>3, <2>4, ChatWrittenKeeps DEF RowsInv, TimesInv, TypeOK
<1>4. CASE LiveMessage
  <2> DEFINE r == Row(live.id, live.chat, live.sender.user)
  <2>1. r.chat = live.chat /\ r.id = live.id
    BY DEF Row
  <2>2. MessageHasChat' /\ ChatTimeCoversMessages'
    BY <1>1, <1>4, <2>1, StoreKeeps DEF LiveMessage, RowsInv, TimesInv
  <2> QED
    BY <1>4, <2>2 DEF LiveMessage, RowsInv, TimesInv, Idle
<1>5. CASE HistoryMessage
  <2> DEFINE r == Row(history.id, history.chat, history.sender)
  <2>1. r.chat = history.chat /\ r.id = history.id
    BY DEF Row
  <2>2. MessageHasChat' /\ ChatTimeCoversMessages'
    BY <1>1, <1>5, <2>1, StoreKeeps DEF HistoryMessage, RowsInv, TimesInv
  <2> QED
    BY <1>5, <2>2 DEF HistoryMessage, RowsInv, TimesInv
<1>6. CASE MigrateLIDChats
  <2>1. live' = Idle /\ history' = Idle
    BY <1>1, <1>6 DEF MigrateLIDChats, handlers
  <2> QED
    BY <1>1, <1>6, <2>1, MigrateKeeps DEF RowsInv, TimesInv, Idle
<1>7. CASE /\ UNCHANGED <<chats, messages, mishaps>>
           /\ live'.at = "message" => UNCHANGED live
           /\ history'.at = "message" => UNCHANGED history
  BY <1>7 DEF RowsInv, TimesInv, MessageHasChat, ChatTimeCoversMessages
<1>8. CASE LiveArrives \/ LiveSender \/ LiveName
  <2>1. LiveArrives => live'.at = "sender"
    BY DEF LiveArrives, Deliver
  <2>2. LiveSender => live'.at = "name"
    BY <1>1, LiveBusy DEF LiveSender
  <2>3. LiveName => live'.at = "chat"
    BY <1>1, LiveBusy DEF LiveName
  <2> QED
    BY <1>7, <1>8, <2>1, <2>2, <2>3 DEF LiveArrives, LiveSender, LiveName, tables
<1>9. CASE HistoryArrives \/ HistoryEnds
  <2>1. history'.at # "message"
    BY <1>9 DEF HistoryArrives, HistoryBegins, HistoryEnds, Idle
  <2> QED
    BY <1>7, <1>9, <2>1 DEF HistoryArrives, HistoryEnds, tables
<1>10. CASE \/ OpenResolver \/ InitialRefresh \/ AutoRefresh \/ LearnMapping \/ Crash
            \/ SyncContacts \/ UNCHANGED vars
  BY <1>7, <1>10 DEF OpenResolver, InitialRefresh, AutoRefresh, LearnMapping, Crash,
     SyncContacts, SyncReads, SyncWrites, vars, tables, handlers, Idle
<1> QED
  BY <1>2, <1>3, <1>4, <1>5, <1>6, <1>8, <1>9, <1>10 DEF Next, Startup, HandleMessage,
     HandleHistorySync

\* An earlier build's chat rows have the time of their newest message.
LEMMA ChatsInit == Init => RowsInv /\ TimesInv
<1> SUFFICES ASSUME Init PROVE RowsInv /\ TimesInv
  OBVIOUS
<1>1. \A m \in messages : Covers(chats[m.chat], TimeOf[m.id])
  BY DEF Init
<1>2. \A m \in messages : chats[m.chat] # NoRow
  BY <1>1 DEF Covers
<1> QED
  BY <1>1, <1>2 DEF Init, RowsInv, TimesInv, MessageHasChat, ChatTimeCoversMessages, Idle

\* GET /chats finds every conversation that has a message, unless a chat row could
\* not be written.
THEOREM MessageHasChatHolds == Spec => []MessageHasChat
<1>1. RowsInv => MessageHasChat
  BY DEF RowsInv
<1> QED
  BY <1>1, ChatsInit, ChatsStep, BackfillInit, BackfillNext, PTL DEF Spec

\* GET /chats orders a conversation by a time that no message in it exceeds in the
\* order of the texts, unless a chat row could not be written or the backfill
\* dropped one.
THEOREM ChatTimeCoversMessagesHolds == Spec => []ChatTimeCoversMessages
<1>1. TimesInv => ChatTimeCoversMessages
  BY DEF TimesInv
<1> QED
  BY <1>1, ChatsInit, ChatsStep, BackfillInit, BackfillNext, PTL DEF Spec

\* In seconds it falls behind a message by no more than the clock was ever set
\* back: where texts follow the times there is no delay.
THEOREM ChatTimeWithinSetBack ==
    ASSUME NEW CONSTANT back \in Nat,
           \A t, u \in Times : TextOf[t] >= TextOf[u] => t + back >= u
    PROVE  Spec => [](mishaps \cap {ChatWriteFailed, ChatsCollided} = {} =>
                        \A m \in messages : chats[m.chat] + back >= TimeOf[m.id])
<1>1. TypeOK /\ ChatTimeCoversMessages =>
        (mishaps \cap {ChatWriteFailed, ChatsCollided} = {} =>
            \A m \in messages : chats[m.chat] + back >= TimeOf[m.id])
  <2> SUFFICES ASSUME TypeOK, ChatTimeCoversMessages, NEW m \in messages,
                      mishaps \cap {ChatWriteFailed, ChatsCollided} = {}
               PROVE  chats[m.chat] + back >= TimeOf[m.id]
    OBVIOUS
  <2>1. Covers(chats[m.chat], TimeOf[m.id]) /\ TimeOf[m.id] \in Times
    BY RowFacts DEF ChatTimeCoversMessages
  <2>2. chats[m.chat] \in ChatTimes /\ chats[m.chat] # NoRow
    BY <2>1, RowFacts DEF TypeOK, Covers
  <2> QED
    BY <2>1, <2>2 DEF Covers, ChatTimes
<1> QED
  BY <1>1, TypeCorrect, ChatTimeCoversMessagesHolds, PTL

-----------------------------------------------------------------------------
(***************************************************************************)
(* The sender is not behind the chat                                       *)
(***************************************************************************)

\* The JIDs of a person are the phone's and those of the lids it is behind, and
\* no lid is a name of somebody else.
LEMMA PersonForms ==
    ASSUME NEW p \in Phones
    PROVE  /\ \A j \in Forms(p) : \/ j = PhoneJID(p) /\ j.user = p
                                  \/ \E l \in Lids : j = LidJID(l) /\ j.user = l /\ PnOf[l] = p
           /\ \A s \in NamesOf[p] : s \in Lids => PnOf[s] = p
<1>1. ASSUME NEW j \in Forms(p)
      PROVE  \/ j = PhoneJID(p) /\ j.user = p
             \/ \E l \in Lids : j = LidJID(l) /\ j.user = l /\ PnOf[l] = p
  <2>1. j \in JIDs /\ (j.user = p \/ (j.user \in Lids /\ PnOf[j.user] = p))
    BY DEF Forms, FormsOf
  <2> QED
    BY <2>1, JIDCases, NamespacesAssumption
<1>2. NamesOf[p] = Forms(p) \cup {j.user : j \in Forms(p)}
  BY DEF NamesOf, Forms
<1>3. ASSUME NEW s \in NamesOf[p], s \in Lids PROVE PnOf[s] = p
  <2>1. s \notin JIDs
    BY <1>3, NamespacesAssumption DEF Users
  <2>2. PICK j \in Forms(p) : s = j.user
    BY <1>2, <2>1 DEF Forms, FormsOf
  <2> QED
    BY <1>1, <1>3, <2>2, NamespacesAssumption
<1> QED
  BY <1>1, <1>3

\* A look-up that yields the phone had no lid before it that it does not map, and
\* one that starts with no such lid yields none.
LEMMA NormalizedUser ==
    ASSUME NEW j \in JIDs, NEW S \in SUBSET Lids
    PROVE  /\ \A p \in Phones : Normalize(j, S) = PhoneJID(p) => j.user \notin Lids \ S
           /\ j.user \notin Lids \ S => Normalize(j, S).user \notin Lids
<1>1. CASE j \in LidJIDsOf(S)
  <2>1. PICK l \in S : j = LidJID(l)
    BY <1>1 DEF LidJIDsOf
  <2>2. j.user = l /\ Normalize(j, S).user = PnOf[l] /\ PnOf[l] \in Phones
    BY <2>1, JIDConstructors, NormalizeCases, PnOfAssumption
  <2> QED
    BY <2>2, NamespacesAssumption
<1>2. CASE j \notin LidJIDsOf(S)
  <2>1. Normalize(j, S) = j
    BY <1>2, NormalizeCases
  <2>2. \A p \in Phones : PhoneJID(p).user \notin Lids
    BY JIDConstructors, NamespacesAssumption
  <2>3. j.user \notin S
    BY <1>2, JIDCases, NamespacesAssumption DEF LidJIDsOf
  <2> QED
    BY <2>1, <2>2, <2>3
<1> QED
  BY <1>1, <1>2

\* Of an earlier build's rows the sender is the user part of the chat.
LEMMA SenderInit == Init => SenderInv
<1> SUFFICES ASSUME Init PROVE SenderInv
  OBVIOUS
<1>1. ASSUME NEW m \in messages, Incoming1to1(m.id)
      PROVE  /\ m.sender \in Users
             /\ m.chat = PhoneJID(Conv[m.id]) => m.sender \notin Lids
  <2>1. m \in LegacyRows
    BY DEF Init
  <2>2. m.sender \in Users /\ m.sender = m.chat.user
    BY <1>1, <2>1 DEF LegacyRows, Users
  <2>3. Conv[m.id] \in Phones
    BY <1>1 DEF Incoming1to1
  <2> QED
    BY <2>2, <2>3, JIDConstructors, NamespacesAssumption
<1> QED
  BY <1>1 DEF Init, SenderInv, SenderNeverBehindChat, LiveSenderInv, BareSenders, Idle

\* The rows through a statement that stores one.
LEMMA SenderStored ==
    ASSUME SenderInv, NEW r, messages' \in {messages, StoreMessage(messages, r)},
           Incoming1to1(r.id) => /\ r.sender \in Users
                                 /\ r.chat = PhoneJID(Conv[r.id]) => r.sender \notin Lids
    PROVE  /\ SenderNeverBehindChat'
           /\ \A m \in messages' : Incoming1to1(m.id) => m.sender \in Users
<1>1. \A m \in messages' : m \in messages \/ m = r
  BY StoreMessageRows
<1> QED
  BY <1>1 DEF SenderInv, SenderNeverBehindChat, BareSenders, Incoming1to1

\* handleMessage looks up the chat, then the sender.
LEMMA SenderLive ==
    ASSUME TypeOK, SenderInv, HandleMessage
    PROVE  SenderInv'
<1> USE DEF SenderInv
<1>0. UNCHANGED <<cached, history>> /\ cached \in SUBSET Lids
  BY DEF HandleMessage, LiveArrives, LiveSender, LiveName, LiveChat, LiveMessage, process, TypeOK
<1>1. ASSUME UNCHANGED messages PROVE SenderNeverBehindChat' /\ BareSenders'
  BY <1>0, <1>1 DEF SenderNeverBehindChat, BareSenders, Incoming1to1
<1>2. CASE LiveArrives
  <2>1. PICK id \in Ids :
           \E chat \in Forms(Conv[id]) : \E sender \in Forms(Author[id]) :
             (Incoming1to1(id) => sender = chat) /\ Deliver(id, chat, sender)
    BY <1>2 DEF LiveArrives
  <2>2. PICK chat \in Forms(Conv[id]) : \E sender \in Forms(Author[id]) :
             (Incoming1to1(id) => sender = chat) /\ Deliver(id, chat, sender)
    BY <2>1
  <2>3. PICK sender \in Forms(Author[id]) :
             /\ Incoming1to1(id) => sender = chat
             /\ live' = [at |-> "sender", id |-> id,
                         chat |-> Normalize(chat, cached), sender |-> sender]
    BY <2>2 DEF Deliver
  <2>4. chat \in JIDs
    BY MessageAssumption DEF Forms, FormsOf
  <2>5. ASSUME Incoming1to1(id), Normalize(chat, cached) = PhoneJID(Conv[id])
        PROVE  sender.user \notin Lids \ cached
    BY <1>0, <2>3, <2>4, <2>5, NormalizedUser DEF Incoming1to1
  <2>6. LiveSenderInv'
    BY <1>0, <2>3, <2>5 DEF LiveSenderInv, Incoming1to1
  <2> QED
    BY <1>1, <1>2, <2>6 DEF LiveArrives, tables
<1>3. CASE LiveSender
  <2>1. /\ live.at = "sender" /\ live'.at = "name" /\ live'.id = live.id /\ live'.chat = live.chat
        /\ live'.sender = Normalize(live.sender, cached) /\ live.sender \in JIDs
    BY <1>3, LiveBusy DEF LiveSender
  <2>2. live.sender.user \notin Lids \ cached => live'.sender.user \notin Lids
    BY <1>0, <2>1, NormalizedUser
  <2>3. LiveSenderInv'
    BY <2>1, <2>2 DEF LiveSenderInv, Incoming1to1
  <2> QED
    BY <1>1, <1>3, <2>3 DEF LiveSender
<1>4. CASE LiveName \/ LiveChat
  <2>1. /\ live'.id = live.id /\ live'.chat = live.chat /\ live'.sender = live.sender
        /\ live.at \notin {"idle", "sender"} /\ live'.at \notin {"idle", "sender"}
    BY <1>4, LiveBusy DEF LiveName, LiveChat
  <2>2. LiveSenderInv'
    BY <2>1 DEF LiveSenderInv, Incoming1to1
  <2> QED
    BY <1>1, <1>4, <2>2 DEF LiveName, LiveChat
<1>5. CASE LiveMessage
  <2> DEFINE r == Row(live.id, live.chat, live.sender.user)
  <2>1. r.id = live.id /\ r.chat = live.chat /\ r.sender = live.sender.user
    BY DEF Row
  <2>2. live.at = "message" /\ live.sender.user \in Users
    BY <1>5, LiveBusy, JIDCases DEF LiveMessage
  <2>3. Incoming1to1(r.id) /\ r.chat = PhoneJID(Conv[r.id]) => r.sender \notin Lids
    BY <2>1, <2>2 DEF LiveSenderInv
  <2>4. live' = Idle /\ messages' \in {messages, StoreMessage(messages, r)}
    BY <1>5 DEF LiveMessage
  <2> HIDE DEF r
  <2>5. /\ SenderNeverBehindChat'
        /\ \A m \in messages' : Incoming1to1(m.id) => m.sender \in Users
    BY <2>1, <2>2, <2>3, <2>4, SenderStored
  <2> QED
    BY <1>0, <2>4, <2>5 DEF LiveSenderInv, BareSenders, Idle, Incoming1to1
<1> QED
  BY <1>2, <1>3, <1>4, <1>5 DEF HandleMessage

\* handleHistorySync takes the sender of a 1:1 message from the chat.
LEMMA SenderHistory ==
    ASSUME FilingInv, SenderInv, HandleHistorySync
    PROVE  SenderInv'
<1> USE DEF SenderInv
<1>0. UNCHANGED <<cached, live>> /\ cached \in SUBSET Lids /\ TypeOK
  BY DEF HandleHistorySync, HistoryArrives, HistoryChat, HistoryMessage, HistoryEnds, process,
     FilingInv, TypeOK
<1>1. LiveSenderInv' /\ (UNCHANGED messages => SenderNeverBehindChat')
  BY <1>0 DEF LiveSenderInv, SenderNeverBehindChat, Incoming1to1
<1>2. CASE HistoryArrives \/ HistoryEnds
  <2>1. history'.at # "message" /\ UNCHANGED messages
    BY <1>2 DEF HistoryArrives, HistoryBegins, HistoryEnds, Idle, tables
  <2> QED
    BY <1>1, <2>1 DEF BareSenders, Incoming1to1
<1>3. CASE HistoryChat
  <2>1. PICK id \in Ids :
           \E sender \in SendersInHistory(id, history.chat) :
              history' = [at |-> "message", conv |-> history.conv, chat |-> history.chat,
                          id |-> id, sender |-> NormalizeUser(sender, cached)]
    BY <1>3 DEF HistoryChat
  <2>2. PICK sender \in SendersInHistory(id, history.chat) :
              history' = [at |-> "message", conv |-> history.conv, chat |-> history.chat,
                          id |-> id, sender |-> NormalizeUser(sender, cached)]
    BY <2>1
  <2>3. history.chat.user \in Users
    BY <1>0, <1>3, HistoryBusy, JIDCases DEF HistoryChat
  <2>4. ASSUME Incoming1to1(id)
        PROVE  /\ history'.sender \in Users
               /\ history.chat = PhoneJID(Conv[id]) => history'.sender \notin Lids
    <3>1. Conv[id] \in Phones /\ sender \in {history.chat.user, Me} /\ Me \in Phones
      BY <2>4, NamespacesAssumption, MessageAssumption DEF SendersInHistory, Incoming1to1
    <3>2. NormalizeUser(sender, cached) \in Users
      BY <1>0, <2>3, <3>1, PnOfAssumption DEF NormalizeUser, Users
    <3>3. history.chat = PhoneJID(Conv[id]) => sender \in Phones
      BY <3>1, JIDConstructors
    <3>4. sender \in Phones => NormalizeUser(sender, cached) \notin Lids
      BY <1>0, NamespacesAssumption DEF NormalizeUser
    <3> QED
      BY <2>2, <3>2, <3>3, <3>4
  <2> QED
    BY <1>1, <1>3, <2>2, <2>4 DEF HistoryChat, BareSenders, Incoming1to1
<1>4. CASE HistoryMessage
  <2> DEFINE r == Row(history.id, history.chat, history.sender)
  <2>1. r.id = history.id /\ r.chat = history.chat /\ r.sender = history.sender
    BY DEF Row
  <2>2. /\ history.at = "message" /\ history'.at = "next"
        /\ messages' \in {messages, StoreMessage(messages, r)}
    BY <1>4 DEF HistoryMessage
  <2> HIDE DEF r
  <2>3. /\ SenderNeverBehindChat'
        /\ \A m \in messages' : Incoming1to1(m.id) => m.sender \in Users
    BY <2>1, <2>2, SenderStored DEF BareSenders
  <2> QED
    BY <1>1, <2>2, <2>3 DEF BareSenders, Incoming1to1
<1> QED
  BY <1>2, <1>3, <1>4 DEF HandleHistorySync

\* The backfill moves a message from the lid to the phone and rewrites its sender,
\* which can be no other lid.
LEMMA SenderMigrate ==
    ASSUME FilingInv, BackfillInv, SenderInv, MigrateLIDChats
    PROVE  SenderInv'
<1>1. live' = Idle /\ history' = Idle /\ cached \in SUBSET Lids /\ messages \in SUBSET Rows
  BY DEF MigrateLIDChats, BackfillInv, InFlightMerged, handlers, TypeOK
<1>2. ASSUME NEW m \in MigrateMessages(messages, cached), Incoming1to1(m.id)
      PROVE  /\ m.sender \in Users
             /\ m.chat = PhoneJID(Conv[m.id]) => m.sender \notin Lids
  <2>1. PICK n \in messages :
           /\ m.id = n.id
           /\ m.sender = MigratedSender(n.sender, cached)
           /\ m.chat = Normalize(n.chat, cached)
    BY <1>1, MigrateMessagesRows
  <2> DEFINE p == Conv[n.id]
  <2>2. p \in Phones /\ n.sender \in Users /\ n.chat \in JIDs /\ Incoming1to1(n.id)
    BY <1>1, <1>2, <2>1 DEF SenderInv, BareSenders, Rows, Incoming1to1
  <2>3. n.chat \in Forms(p) /\ n.sender \in NamesOf[p]
    BY <2>2 DEF FilingInv, NeverMisfiled, Incoming1to1
  <2>4. m.sender \in Users
    BY <1>1, <2>1, <2>2, PnOfAssumption DEF MigratedSender, Users
  <2>5. ASSUME m.chat = PhoneJID(p) PROVE m.sender \notin Lids
    <3>1. n.chat.user \notin Lids \ cached
      BY <1>1, <2>1, <2>2, <2>5, NormalizedUser
    <3>2. CASE n.chat = PhoneJID(p)
      <4>1. n.sender \notin Lids
        BY <2>2, <3>2 DEF SenderInv, SenderNeverBehindChat
      <4> QED
        BY <1>1, <2>1, <4>1 DEF MigratedSender
    <3>3. CASE \E l \in Lids : n.chat = LidJID(l) /\ n.chat.user = l /\ PnOf[l] = p
      <4>1. PICK l \in cached : PnOf[l] = p
        BY <3>1, <3>3
      <4>2. n.sender \in Lids => n.sender = l
        BY <1>1, <2>2, <2>3, <4>1, PersonForms, PnOfAssumption
      <4> QED
        BY <1>1, <2>1, <2>2, <4>1, <4>2, NamespacesAssumption DEF MigratedSender
    <3> QED
      BY <2>2, <2>3, <3>2, <3>3, PersonForms
  <2> QED
    BY <2>1, <2>4, <2>5
<1>3. CASE messages' = MigrateMessages(messages, cached)
  BY <1>1, <1>2, <1>3 DEF SenderInv, SenderNeverBehindChat, LiveSenderInv, BareSenders, Idle,
     Incoming1to1
<1>4. CASE UNCHANGED messages
  BY <1>1, <1>4 DEF SenderInv, SenderNeverBehindChat, LiveSenderInv, BareSenders, Idle,
     Incoming1to1
<1> QED
  BY <1>3, <1>4 DEF MigrateLIDChats, tables

\* Every step keeps the senders: in particular a running resolver forgets no lid.
LEMMA SenderStep ==
    ASSUME FilingInv, BackfillInv, SenderInv, [Next]_vars
    PROVE  SenderInv'
<1>1. TypeOK /\ (phase # "up" => live = Idle) /\ cached \subseteq lidMap
  BY DEF BackfillInv, InFlightMerged, ResolverCovers
<1>2. CASE /\ UNCHANGED messages
           /\ history' \in {history, Idle}
           /\ live' = Idle \/ (UNCHANGED live /\ cached \subseteq cached')
  BY <1>2 DEF SenderInv, SenderNeverBehindChat, LiveSenderInv, BareSenders, Idle, Incoming1to1
<1>3. CASE \/ OpenResolver \/ InitialRefresh \/ AutoRefresh \/ LearnMapping \/ Crash
           \/ SyncContacts \/ UNCHANGED vars
  BY <1>1, <1>2, <1>3 DEF OpenResolver, InitialRefresh, AutoRefresh, LearnMapping, Crash,
     SyncContacts, SyncReads, SyncWrites, vars, tables, handlers, process
<1> QED
  BY <1>1, <1>3, SenderLive, SenderHistory, SenderMigrate DEF Next, Startup

\* The two look-ups of a message may see different maps, but only one way: a
\* message filed under the phone never has the lid as sender.
THEOREM SenderNeverBehindChatHolds == Spec => []SenderNeverBehindChat
<1>1. SenderInv => SenderNeverBehindChat
  BY DEF SenderInv
<1> QED
  BY <1>1, SenderInit, SenderStep, FilingInit, FilingNext, BackfillInit, BackfillNext, PTL DEF Spec

-----------------------------------------------------------------------------
(***************************************************************************)
(* One person                                                              *)
(***************************************************************************)

\* The names of the person behind a lid: those under the phone go first.
NamesBehind(l) ==
    IF PhoneJID(PnOf[l]) \in contacts THEN {PhoneJID(PnOf[l])} ELSE {LidJID(l)} \cap contacts

\* Of a lid that the resolver maps, the phone and the lid classify as one person.
LEMMA MetaOfEither ==
    ASSUME TypeOK, NEW l \in cached, NEW u \in {PnOf[l], l}
    PROVE  /\ buildSenderMeta(u).phone = PnOf[l]
           /\ buildSenderMeta(u).names = NamesBehind(l)
<1> DEFINE p == PnOf[l]
<1>1. l \in Lids /\ p \in Phones /\ p \notin cached /\ cached \subseteq Lids
  BY PnOfAssumption, NamespacesAssumption DEF TypeOK
<1>2. {k \in cached : PnOf[k] = p} = {l}
  BY <1>1, PnOfAssumption
<1>3. Classify(u).phone = p /\ Classify(u).lids = {l}
  BY <1>1, <1>2 DEF Classify
<1>4. UNION {GetContactInfo(LidJID(k)) : k \in {l}} = {LidJID(l)} \cap contacts
  BY DEF GetContactInfo
<1>5. NamesBy(Classify(u)) = NamesBehind(l)
  BY <1>3, <1>4 DEF NamesBy, NamesBehind, GetContactInfo
<1> QED
  BY <1>3, <1>5 DEF buildSenderMeta

\* So do both endpoints' answers about either JID.
LEMMA EndpointsAgree ==
    ASSUME TypeOK, NEW l \in cached, NEW j \in Forms(PnOf[l]), NEW pn \in {{}, {PnOf[l]}}
    PROVE  /\ j.user \in {PnOf[l], l}
           /\ handleResolveJID(j).phone = PnOf[l] /\ handleResolveJID(j).names = NamesBehind(l)
           /\ Participant(j, pn).phone = PnOf[l] /\ Participant(j, pn).names = NamesBehind(l)
<1> DEFINE p == PnOf[l]
<1>1. l \in Lids /\ p \in Phones
  BY PnOfAssumption DEF TypeOK
<1>2. j.user \in {p, l}
  BY <1>1, PersonForms, PnOfAssumption
<1>3. /\ handleResolveJID(j).phone = buildSenderMeta(j.user).phone
      /\ handleResolveJID(j).names = buildSenderMeta(j.user).names
  BY DEF handleResolveJID, buildSenderMeta
<1> DEFINE u == IF pn = {} THEN j.user ELSE CHOOSE q \in pn : TRUE
<1>4. u \in {p, l}
  BY <1>2
<1>5. /\ Participant(j, pn).phone = buildSenderMeta(u).phone
      /\ Participant(j, pn).names = buildSenderMeta(u).names
  BY DEF Participant, buildSenderMeta
<1> QED
  BY <1>2, <1>3, <1>4, <1>5, MetaOfEither

\* And the senders of what the person wrote, in the 1:1 chat or as a user part.
LEMMA SendersAgree ==
    ASSUME FilingInv, SenderInv, NEW l \in cached, NEW m \in messages,
           Author[m.id] = PnOf[l],
           Incoming1to1(m.id) \/ m.sender \in {j.user : j \in Forms(PnOf[l])}
    PROVE  m.sender \in {PnOf[l], l}
<1> DEFINE p == PnOf[l]
<1>1. l \in Lids /\ p \in Phones
  BY PnOfAssumption DEF FilingInv, TypeOK
<1>2. Incoming1to1(m.id) => m.sender \in NamesOf[p] /\ m.sender \in Users
  BY DEF FilingInv, NeverMisfiled, SenderInv, BareSenders
<1>3. NamesOf[p] = Forms(p) \cup {j.user : j \in Forms(p)} /\ Forms(p) \subseteq JIDs
  BY <1>1 DEF NamesOf, Forms, FormsOf
<1>4. PICK j \in Forms(p) : m.sender = j.user
  BY <1>2, <1>3, NamespacesAssumption
<1> QED
  BY <1>1, <1>4, PersonForms, PnOfAssumption

\* Two forms of one contact are never taken for two people: once the resolver
\* knows the lid, every answer about a person has the same phone and names, and
\* names are found wherever a contact row was left.
THEOREM OnePersonHolds == Spec => []OnePerson
<1>1. FilingInv /\ SenderInv => OnePerson
  <2> SUFFICES ASSUME FilingInv, SenderInv, NEW l \in cached
               PROVE  LET p == PnOf[l]
                          rows == {PhoneJID(p), LidJID(l)} \cap contacts
                          answers == {<<answer.phone, answer.names>> :
                                          answer \in AnswersAbout(p)}
                      IN \E names \in SUBSET rows :
                           answers = {<<p, names>>} /\ (rows # {} => names # {})
    BY DEF OnePerson
  <2> DEFINE p == PnOf[l]
             rows == {PhoneJID(p), LidJID(l)} \cap contacts
             names == NamesBehind(l)
  <2>1. TypeOK /\ p \in Phones
    BY PnOfAssumption DEF FilingInv, TypeOK
  <2>2. ASSUME NEW answer \in AnswersAbout(p)
        PROVE  answer.phone = p /\ answer.names = names
    <3>1. CASE answer \in {handleResolveJID(j) : j \in Forms(p)}
      BY <2>1, <3>1, EndpointsAgree
    <3>2. CASE answer \in {Participant(j, pn) : j \in Forms(p), pn \in {{}, {p}}}
      BY <2>1, <3>2, EndpointsAgree
    <3>3. CASE answer \in {buildSenderMeta(m.sender) : m \in {n \in messages :
                              /\ Author[n.id] = p
                              /\ Incoming1to1(n.id) \/ n.sender \in {j.user : j \in Forms(p)}}}
      BY <2>1, <3>3, SendersAgree, MetaOfEither
    <3> QED
      BY <2>2, <3>1, <3>2, <3>3 DEF AnswersAbout
  <2>3. PhoneJID(p) \in Forms(p)
    BY <2>1, JIDConstructors DEF Forms, FormsOf
  <2>4. handleResolveJID(PhoneJID(p)) \in AnswersAbout(p)
    BY <2>3 DEF AnswersAbout
  <2>5. {<<answer.phone, answer.names>> : answer \in AnswersAbout(p)} = {<<p, names>>}
    BY <2>2, <2>4
  <2>6. names \subseteq rows /\ (rows # {} => names # {})
    BY DEF NamesBehind
  <2> HIDE DEF names
  <2> QED
    BY <2>5, <2>6
<1> QED
  BY <1>1, SenderInit, SenderStep, FilingInit, FilingNext, BackfillInit, BackfillNext, PTL DEF Spec

-----------------------------------------------------------------------------
(***************************************************************************)
(* The archive: messages.db implements Archive.  With every message in its *)
(* own conversation, what is archived are the ids that have a row.         *)
(***************************************************************************)

\* A JID is a form of one conversation only.
LEMMA FormsApart ==
    ASSUME NEW c \in Phones \cup Groups, NEW d \in Phones \cup Groups,
           NEW j \in Forms(c), j \in Forms(d)
    PROVE  c = d
BY NamespacesAssumption DEF Forms, FormsOf

\* The backfill's DELETE takes a message only where the phone conversation has it:
\* every message that was there is there under some JID.
LEMMA MigrateMessagesKeepsIds ==
    ASSUME NEW ms \in SUBSET Rows, NEW S \in SUBSET Lids
    PROVE  {m.id : m \in MigrateMessages(ms, S)} = {n.id : n \in ms}
<1>1. \A m \in MigrateMessages(ms, S) : \E n \in ms : m.id = n.id
  BY MigrateMessagesRows
<1>2. ASSUME NEW n \in ms, n.chat \notin LidJIDsOf(S) \/ Moves(ms, n, S)
      PROVE  \E m \in MigrateMessages(ms, S) : m.id = n.id
  <2>1. PICK jid : Row(n.id, jid, MigratedSender(n.sender, S)) \in MigrateMessages(ms, S)
    BY <1>2 DEF MigrateMessages
  <2> QED
    BY <2>1 DEF Row
<1>3. ASSUME NEW n \in ms, n.chat \in LidJIDsOf(S), ~Moves(ms, n, S)
      PROVE  \E m \in MigrateMessages(ms, S) : m.id = n.id
  <2>1. PICK k \in ms : k.id = n.id /\ k.chat = PhoneJID(PnOf[n.chat.user])
    BY <1>3 DEF Moves
  <2>2. n.chat.user \in Lids
    BY <1>3, JIDConstructors DEF LidJIDsOf
  <2>3. k.chat \notin LidJIDsOf(S)
    BY <2>1, <2>2, JIDConstructors, PnOfAssumption DEF LidJIDsOf
  <2> QED
    BY <1>2, <2>1, <2>3
<1> QED
  BY <1>1, <1>2, <1>3

\* A chat row after the backfill is one that was there, or the lid's moved.
LEMMA MigrateChatsRows ==
    ASSUME NEW c \in [JIDs -> ChatTimes], NEW S \in SUBSET Lids, NEW j \in JIDs,
           MigrateChats(c, S)[j] # NoRow
    PROVE  \E k \in JIDs : c[k] # NoRow /\ j = Normalize(k, S)
<1>1. j \notin LidJIDsOf(S)
  BY DEF MigrateChats
<1>2. CASE c[j] # NoRow
  BY <1>1, <1>2, NormalizeCases
<1>3. CASE c[j] = NoRow
  <2>1. /\ \E l \in S : j = PhoneJID(PnOf[l])
        /\ c[LidJID(CHOOSE l \in S : j = PhoneJID(PnOf[l]))] # NoRow
    BY <1>1, <1>3 DEF MigrateChats
  <2>2. PICK l \in S : j = PhoneJID(PnOf[l]) /\ c[LidJID(l)] # NoRow
    BY <2>1
  <2> QED
    BY <2>2, NormalizeCases, JIDConstructors
<1> QED
  BY <1>2, <1>3

\* So the backfill lists the conversations that were listed.
LEMMA MigrateChatsKeepsListed ==
    ASSUME NEW c \in [JIDs -> ChatTimes], NEW S \in SUBSET Lids, NEW p \in Phones \cup Groups
    PROVE  (\E j \in Forms(p) : MigrateChats(c, S)[j] # NoRow)
                <=> \E j \in Forms(p) : c[j] # NoRow
<1>1. \A q \in Phones \cup Groups : Forms(q) \subseteq JIDs
  BY DEF Forms, FormsOf
<1>2. ASSUME NEW j \in Forms(p), c[j] # NoRow
      PROVE  \E k \in Forms(p) : MigrateChats(c, S)[k] # NoRow
  BY <1>1, <1>2, MigrateChatsKeeps, NormalizeKeepsForms
<1>3. ASSUME NEW j \in Forms(p), MigrateChats(c, S)[j] # NoRow
      PROVE  \E k \in Forms(p) : c[k] # NoRow
  <2>1. PICK k \in JIDs : c[k] # NoRow /\ j = Normalize(k, S)
    BY <1>1, <1>3, MigrateChatsRows
  <2>2. PICK q \in Phones \cup Groups : k \in Forms(q)
    BY JIDCases, PnOfAssumption DEF Forms, FormsOf
  <2> QED
    BY <2>1, <2>2, NormalizeKeepsForms, FormsApart
<1> QED
  BY <1>2, <1>3

\* A statement on messages archives its message and loses no other.
LEMMA StoreArchives ==
    ASSUME FilingInv, FilingInv', NEW r, r.id \in Ids,
           messages' \in {messages, StoreMessage(messages, r)}, UNCHANGED chats
    PROVE  [Archive!Next]_<<Archived, Listed>>
<1>1. Archived = {m.id : m \in messages}
  BY DEF Archived, FilingInv, NeverMisfiled, TypeOK, Rows
<1>2. Archived' = {m.id : m \in messages'}
  BY DEF Archived, FilingInv, NeverMisfiled, TypeOK, Rows
<1>3. UNCHANGED Listed
  BY DEF Listed
<1>4. {m.id : m \in StoreMessage(messages, r)} = {m.id : m \in messages} \cup {r.id}
  BY StoreMessageRows
<1>5. UNCHANGED Archived \/ Archived' = Archived \cup {r.id}
  BY <1>1, <1>2, <1>4
<1> QED
  BY <1>3, <1>5 DEF Archive!Next, Archive!Keep

\* A statement on chats lists its conversation and no other.
LEMMA UpsertLists ==
    ASSUME TypeOK, NEW c \in Phones \cup Groups, NEW j \in Forms(c), NEW id \in Ids,
           ChatWritten(j, id), UNCHANGED messages
    PROVE  [Archive!Next]_<<Archived, Listed>>
<1>1. UNCHANGED Archived
  BY DEF Archived
<1>2. CASE UNCHANGED chats
  BY <1>1, <1>2 DEF Listed
<1>3. CASE chats' = UpsertChat(chats, j, TimeOf[id])
  <2>1. j \in JIDs /\ \A d \in Phones \cup Groups : j \in Forms(d) => d = c
    BY FormsApart DEF Forms, FormsOf
  <2>2. chats'[j] # NoRow /\ \A k \in JIDs : k # j => chats'[k] = chats[k]
    BY <1>3, <2>1, UpsertCovers, UpsertChatElsewhere DEF Covers
  <2>3. \A d \in Phones \cup Groups : Forms(d) \subseteq JIDs
    BY DEF Forms, FormsOf
  <2>4. Listed' = Listed \cup {c}
    BY <2>1, <2>2, <2>3 DEF Listed
  <2> QED
    BY <1>1, <2>4 DEF Archive!Next, Archive!List
<1> QED
  BY <1>2, <1>3 DEF ChatWritten

\* The backfill archives and lists nothing, and loses nothing.
LEMMA MigrateLosesNothing ==
    ASSUME FilingInv, FilingInv', MigrateLIDChats
    PROVE  UNCHANGED <<Archived, Listed>>
<1>1. messages \in SUBSET Rows /\ chats \in [JIDs -> ChatTimes] /\ cached \in SUBSET Lids
  BY DEF FilingInv, TypeOK
<1>2. CASE UNCHANGED tables
  BY <1>2 DEF tables, Archived, Listed
<1>3. CASE /\ chats' = MigrateChats(chats, cached)
           /\ messages' = MigrateMessages(messages, cached)
  <2>1. Archived = {m.id : m \in messages}
    BY DEF Archived, FilingInv, NeverMisfiled, TypeOK, Rows
  <2>2. Archived' = {m.id : m \in messages'}
    BY DEF Archived, FilingInv, NeverMisfiled, TypeOK, Rows
  <2>3. Archived' = Archived
    BY <1>1, <1>3, <2>1, <2>2, MigrateMessagesKeepsIds
  <2>4. Listed' = Listed
    BY <1>1, <1>3, MigrateChatsKeepsListed DEF Listed
  <2> QED
    BY <2>3, <2>4
<1> QED
  BY <1>2, <1>3 DEF MigrateLIDChats

\* Every step of the program is a step of the archive, or none.
LEMMA ArchiveStep ==
    ASSUME FilingInv, FilingInv', [Next]_vars
    PROVE  [Archive!Next]_<<Archived, Listed>>
<1>1. TypeOK
  BY DEF FilingInv
<1>2. CASE LiveChat
  <2>1. live.at = "chat" /\ live.chat \in JIDs /\ live.id \in Ids
    BY <1>1, <1>2, LiveBusy DEF LiveChat
  <2>2. live.chat \in Forms(Conv[live.id]) /\ Conv[live.id] \in Phones \cup Groups
    BY <2>1, MessageAssumption DEF FilingInv, InFlightOwn
  <2>3. ChatWritten(live.chat, live.id) /\ UNCHANGED messages
    BY <1>2 DEF LiveChat, ChatWritten
  <2> QED
    BY <1>1, <2>1, <2>2, <2>3, UpsertLists
<1>3. CASE HistoryChat
  <2>1. history.chat \in Forms(history.conv) /\ history.conv \in Phones \cup Groups
    BY <1>1, <1>3, HistoryBusy DEF HistoryChat, FilingInv, InFlightOwn
  <2>2. PICK id \in Ids : ChatWritten(history.chat, id)
    BY <1>3 DEF HistoryChat, ChatWritten
  <2>3. UNCHANGED messages
    BY <1>3 DEF HistoryChat
  <2> QED
    BY <1>1, <2>1, <2>2, <2>3, UpsertLists
<1>4. CASE LiveMessage
  <2>1. live.id \in Ids
    BY <1>1, <1>4, LiveBusy DEF LiveMessage
  <2> QED
    BY <1>4, <2>1, StoreArchives DEF LiveMessage, Row
<1>5. CASE HistoryMessage
  <2>1. history.id \in Ids
    BY <1>1, <1>5, HistoryBusy DEF HistoryMessage
  <2> QED
    BY <1>5, <2>1, StoreArchives DEF HistoryMessage, Row
<1>6. CASE UNCHANGED <<chats, messages>>
  BY <1>6 DEF Archived, Listed
<1>7. CASE \/ OpenResolver \/ InitialRefresh \/ AutoRefresh \/ LearnMapping \/ Crash
           \/ LiveArrives \/ LiveSender \/ LiveName \/ HistoryArrives \/ HistoryEnds
           \/ SyncContacts \/ UNCHANGED vars
  BY <1>6, <1>7 DEF OpenResolver, InitialRefresh, AutoRefresh, LearnMapping, Crash,
     LiveArrives, LiveSender, LiveName, HistoryArrives, HistoryEnds,
     SyncContacts, SyncReads, SyncWrites, vars, tables
<1> QED
  BY <1>2, <1>3, <1>4, <1>5, <1>7, MigrateLosesNothing DEF Next, Startup, HandleMessage,
     HandleHistorySync

\* messages.db implements Archive: through crashes, replays, REPLACEs, failed
\* statements and the backfill's deletes, a stored message stays in its own
\* conversation and a listed conversation stays listed.
THEOREM NeverLosesHistoryHolds == Spec => NeverLosesHistory
<1>1. Init => Archive!Init
  BY DEF Archive!Init, Archived, Listed
<1>2. FilingInv /\ FilingInv' /\ [Next]_vars => [Archive!Next]_<<Archived, Listed>>
  BY ArchiveStep
<1> QED
  BY <1>1, <1>2, FilingInit, FilingNext, PTL DEF Spec, NeverLosesHistory, Archive!Spec,
     Archive!vars

=============================================================================
