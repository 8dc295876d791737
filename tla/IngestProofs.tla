---------------------------- MODULE IngestProofs ----------------------------
(***************************************************************************)
(* What holds of Ingest for any people, messages, lids and contact stores. *)
(***************************************************************************)
EXTENDS Ingest, TLAPS

-----------------------------------------------------------------------------
(***************************************************************************)
(* Identities                                                              *)
(***************************************************************************)

\* A JID is of one of three namespaces and its user part tells which.
LEMMA JIDCases ==
    ASSUME NEW j \in JIDs
    PROVE  /\ j.user \in Users
           /\ \/ j.user \in Lids /\ j = LidJID(j.user)
              \/ j.user \in Phones /\ j = PhoneJID(j.user)
              \/ j.user \in Groups /\ j = GroupJID(j.user)
BY DEF JIDs, Users, LidJID, PhoneJID, GroupJID

\* The constructors yield JIDs, and different ones for different user parts.
LEMMA JIDConstructors ==
    /\ \A l \in Lids : LidJID(l) \in JIDs /\ LidJID(l).user = l
    /\ \A p \in Phones : PhoneJID(p) \in JIDs /\ PhoneJID(p).user = p
    /\ \A l, k \in Lids : LidJID(l) = LidJID(k) => l = k
    /\ \A l \in Lids : \A p \in Phones : LidJID(l) # PhoneJID(p)
BY DEF JIDs, LidJID, PhoneJID

\* Normalize turns the lid of a known mapping into the phone behind it and
\* leaves every other JID alone.
LEMMA NormalizeCases ==
    ASSUME NEW j \in JIDs, NEW S \in SUBSET Lids
    PROVE  /\ Normalize(j, S) \in JIDs
           /\ j \notin LidJIDsOf(S) => Normalize(j, S) = j
           /\ \A l \in S : j = LidJID(l) => Normalize(j, S) = PhoneJID(PnOf[l])
<1>1. CASE j.user \in Lids /\ j = LidJID(j.user)
  BY <1>1, PnOfAssumption, JIDConstructors DEF Normalize, LidJIDsOf, LidJID
<1>2. CASE j.user \in Phones /\ j = PhoneJID(j.user)
  BY <1>2, JIDConstructors DEF Normalize, LidJIDsOf, LidJID, PhoneJID
<1>3. CASE j.user \in Groups /\ j = GroupJID(j.user)
  BY <1>3 DEF Normalize, LidJIDsOf, LidJID, GroupJID
<1> QED BY <1>1, <1>2, <1>3, JIDCases

\* Normalisation never leads to another person: it maps the forms of a
\* conversation to forms of the same conversation.
LEMMA NormalizeKeepsForms ==
    ASSUME NEW c \in Phones \cup Groups, NEW j \in Forms(c), NEW S \in SUBSET Lids
    PROVE  Normalize(j, S) \in Forms(c)
<1>1. j \in JIDs /\ (j.user = c \/ (j.user \in Lids /\ PnOf[j.user] = c))
  BY DEF Forms, FormsOf
<1>2. CASE j \in LidJIDsOf(S)
  <2>1. PICK l \in S : j = LidJID(l)
    BY <1>2 DEF LidJIDsOf
  <2>2. j.user = l /\ l \in Lids
    BY <2>1, JIDConstructors
  <2>3. PnOf[l] = c
    BY <1>1, <2>2, NamespacesAssumption
  <2>4. Normalize(j, S) = PhoneJID(c) /\ c \in Phones
    BY <1>1, <2>1, <2>2, <2>3, NormalizeCases, PnOfAssumption
  <2> QED BY <2>4, JIDConstructors DEF Forms, FormsOf
<1>3. CASE j \notin LidJIDsOf(S)
  BY <1>1, <1>3, NormalizeCases
<1> QED BY <1>2, <1>3

-----------------------------------------------------------------------------
(***************************************************************************)
(* The statements keep the tables well formed                              *)
(***************************************************************************)

\* Times are ordered by their texts; a message has one, and none is NoRow.
LEMMA TimesOrdered ==
    /\ \A id \in Ids : TimeOf[id] \in Times
    /\ \A t \in Times : t \in Nat /\ t # NoRow /\ TextOf[t] \in Nat /\ Covers(t, t)
    /\ \A s, t, u \in Times : Covers(s, t) /\ Covers(t, u) => Covers(s, u)
<1>1. \A t \in Times : t \in Nat /\ t # NoRow /\ TextOf[t] \in Nat
  BY MessageAssumption DEF Times, NoRow
<1> QED BY <1>1 DEF Covers, Times

\* An upsert writes one chat's time: not before the message's, never back.
LEMMA UpsertChatType ==
    ASSUME NEW c \in [JIDs -> ChatTimes], NEW j \in JIDs, NEW t \in Times
    PROVE  /\ UpsertChat(c, j, t) \in [JIDs -> ChatTimes]
           /\ Covers(UpsertChat(c, j, t)[j], t)
           /\ \A k \in JIDs, u \in Times : Covers(c[k], u) => Covers(UpsertChat(c, j, t)[k], u)
           /\ \A k \in JIDs : k # j => UpsertChat(c, j, t)[k] = c[k]
<1>1. UpsertChat(c, j, t)[j] = IF Covers(c[j], t) THEN c[j] ELSE t
  BY DEF UpsertChat
<1>2. \A k \in JIDs : k # j => UpsertChat(c, j, t)[k] = c[k]
  BY DEF UpsertChat
<1>3. UpsertChat(c, j, t) \in [JIDs -> ChatTimes]
  BY DEF UpsertChat, ChatTimes
<1>4. ASSUME NEW u \in Times, Covers(c[j], u), ~Covers(c[j], t) PROVE Covers(t, u)
  <2>1. c[j] \in Times /\ c[j] # NoRow
    BY <1>4 DEF Covers, ChatTimes
  <2> QED BY <1>4, <2>1, TimesOrdered DEF Covers
<1> QED BY <1>1, <1>2, <1>3, <1>4, TimesOrdered

\* An upsert, or its failure, leaves the rows of the other chats alone.
LEMMA UpsertChatElsewhere ==
    ASSUME TypeOK, NEW j \in JIDs, NEW id \in Ids,
           chats' = UpsertChat(chats, j, TimeOf[id]) \/ UNCHANGED chats
    PROVE  \A k \in JIDs : k # j => chats'[k] = chats[k]
<1>1. chats \in [JIDs -> ChatTimes] /\ TimeOf[id] \in Times
  BY TimesOrdered DEF TypeOK
<1>2. CASE chats' = UpsertChat(chats, j, TimeOf[id])
  BY <1>1, <1>2, UpsertChatType
<1> QED BY <1>2

\* A backfilled row names the phone where it named a lid of the snapshot.
LEMMA MigratedSenderType ==
    ASSUME NEW S \in SUBSET Lids, NEW s \in Users \cup JIDs
    PROVE  /\ MigratedSender(s, S) \in Users \cup JIDs
           /\ MigratedSender(s, S) \notin S
BY PnOfAssumption, NamespacesAssumption DEF MigratedSender, Users

\* The backfill leaves no chat row under a lid of the snapshot.
LEMMA MigrateChatsType ==
    ASSUME NEW c \in [JIDs -> ChatTimes], NEW S \in SUBSET Lids
    PROVE  /\ MigrateChats(c, S) \in [JIDs -> ChatTimes]
           /\ \A l \in S : MigrateChats(c, S)[LidJID(l)] = NoRow
<1>1. ASSUME NEW j \in JIDs, \E l \in S : j = PhoneJID(PnOf[l])
      PROVE  c[LidJID(CHOOSE l \in S : j = PhoneJID(PnOf[l]))] \in ChatTimes
  BY <1>1, JIDConstructors
<1>2. MigrateChats(c, S) \in [JIDs -> ChatTimes]
  BY <1>1 DEF MigrateChats, ChatTimes
<1>3. \A l \in S : LidJID(l) \in LidJIDsOf(S) /\ LidJID(l) \in JIDs
  BY JIDConstructors DEF LidJIDsOf
<1> QED BY <1>2, <1>3 DEF MigrateChats

\* Every row after the backfill comes from a row before it: the same message,
\* the chat unchanged or moved from a lid of the snapshot to its phone.
LEMMA MigrateMessagesRows ==
    ASSUME NEW ms \in SUBSET Rows, NEW S \in SUBSET Lids,
           NEW m \in MigrateMessages(ms, S)
    PROVE  /\ m \in Rows
           /\ m.sender \notin S
           /\ m.chat \notin LidJIDsOf(S)
           /\ \E n \in ms :
                /\ m.id = n.id
                /\ m.sender = MigratedSender(n.sender, S)
                /\ m.chat = Normalize(n.chat, S)
<1>1. CASE \E n \in ms : /\ n.chat \notin LidJIDsOf(S)
                         /\ m = Row(n.id, n.chat, MigratedSender(n.sender, S))
  <2>1. PICK n \in ms : /\ n.chat \notin LidJIDsOf(S)
                        /\ m = Row(n.id, n.chat, MigratedSender(n.sender, S))
    BY <1>1
  <2>2. n.id \in Ids /\ n.chat \in JIDs /\ n.sender \in Users \cup JIDs
    BY DEF Rows
  <2>3. Normalize(n.chat, S) = n.chat
    BY <2>1, <2>2, NormalizeCases
  <2> QED BY <2>1, <2>2, <2>3, MigratedSenderType DEF Row, Rows
<1>2. CASE \E n \in ms :
             /\ Moves(ms, n, S)
             /\ m = Row(n.id, PhoneJID(PnOf[n.chat.user]), MigratedSender(n.sender, S))
  <2>1. PICK n \in ms :
             /\ Moves(ms, n, S)
             /\ m = Row(n.id, PhoneJID(PnOf[n.chat.user]), MigratedSender(n.sender, S))
    BY <1>2
  <2>2. n.id \in Ids /\ n.chat \in JIDs /\ n.sender \in Users \cup JIDs
    BY DEF Rows
  <2>3. PICK l \in S : n.chat = LidJID(l)
    BY <2>1 DEF Moves, LidJIDsOf
  <2>4. n.chat.user = l /\ l \in Lids /\ PnOf[l] \in Phones
    BY <2>3, JIDConstructors, PnOfAssumption
  <2>5. m = Row(n.id, PhoneJID(PnOf[l]), MigratedSender(n.sender, S))
    BY <2>1, <2>4
  <2>6. Normalize(n.chat, S) = PhoneJID(PnOf[l])
    BY <2>2, <2>3, NormalizeCases
  <2>7. PhoneJID(PnOf[l]) \in JIDs /\ PhoneJID(PnOf[l]) \notin LidJIDsOf(S)
    BY <2>4, JIDConstructors DEF LidJIDsOf
  <2> QED BY <2>2, <2>5, <2>6, <2>7, MigratedSenderType DEF Row, Rows
<1> QED BY <1>1, <1>2 DEF MigrateMessages

\* The backfill leaves no contact row under a lid of the snapshot.
LEMMA MigrateContactsType ==
    ASSUME NEW c \in SUBSET JIDs, NEW S \in SUBSET Lids
    PROVE  /\ MigrateContacts(c, S) \in SUBSET JIDs
           /\ \A l \in S : LidJID(l) \notin MigrateContacts(c, S)
BY JIDConstructors, PnOfAssumption DEF MigrateContacts, LidJIDsOf

\* A stored row is the new one or one that was there; an old row is lost only
\* to the new one, and only if the two have the same key.
LEMMA StoreMessageRows ==
    ASSUME NEW ms, NEW r
    PROVE  /\ \A m \in StoreMessage(ms, r) : m \in ms \/ m = r
           /\ r \in StoreMessage(ms, r)
           /\ \A m \in ms : \/ m \in StoreMessage(ms, r)
                            \/ m.id = r.id /\ m.chat = r.chat
BY DEF StoreMessage

-----------------------------------------------------------------------------
(***************************************************************************)
(* Type correctness                                                        *)
(***************************************************************************)

\* A database of an earlier build is well typed.
LEMMA TypeInit == Init => TypeOK
<1> SUFFICES ASSUME Init PROVE TypeOK
  OBVIOUS
<1>1. messages \subseteq Rows
  BY DEF Init, LegacyRows, Rows, Users
<1>2. chats \in [JIDs -> ChatTimes]
  BY DEF Init
<1> QED BY <1>1, <1>2 DEF Init, TypeOK, LiveCalls, HistoryCalls, NoSync, Idle

\* The call records before and after a step.
LEMMA LiveBusy ==
    ASSUME TypeOK, live.at # "idle"
    PROVE  live \in [at : {"sender", "name", "chat", "message"},
                     id : Ids, chat : JIDs, sender : JIDs]
BY DEF TypeOK, LiveCalls, Idle

\* The same of a handleHistorySync in flight, before and after its UpsertChat.
LEMMA HistoryBusy ==
    ASSUME TypeOK
    PROVE  /\ history.at = "next" =>
                history \in [at : {"next"}, conv : Phones \cup Groups, chat : JIDs]
           /\ history.at = "message" =>
                history \in [at : {"message"}, conv : Phones \cup Groups, chat : JIDs,
                             id : Ids, sender : Users \cup JIDs]
BY DEF TypeOK, HistoryCalls, Idle

\* The three steps of a start; the backfill writes rows that are well typed.
LEMMA TypeStart ==
    ASSUME TypeOK, Startup
    PROVE  TypeOK'
<1> USE DEF TypeOK, process, tables, handlers
<1>1. CASE OpenResolver
  BY <1>1 DEF OpenResolver
<1>2. CASE InitialRefresh
  BY <1>2 DEF InitialRefresh
<1>3. CASE MigrateLIDChats
  <2>1. MigrateChats(chats, cached) \in [JIDs -> ChatTimes]
    BY MigrateChatsType
  <2>2. MigrateMessages(messages, cached) \subseteq Rows
    BY MigrateMessagesRows
  <2>3. MigrateContacts(contacts, cached) \subseteq JIDs
    BY MigrateContactsType
  <2> QED BY <1>3, <2>1, <2>2, <2>3 DEF MigrateLIDChats, Mishaps
<1> QED BY <1>1, <1>2, <1>3 DEF Startup

\* The steps of handleMessage.
LEMMA TypeLive ==
    ASSUME TypeOK, HandleMessage
    PROVE  TypeOK'
<1> USE DEF TypeOK, process, tables, handlers
<1>1. CASE LiveArrives
  <2>a. PICK id \in Ids :
           \E chat \in Forms(Conv[id]) : \E sender \in Forms(Author[id]) :
             Deliver(id, chat, sender)
    BY <1>1 DEF LiveArrives
  <2>b. PICK chat \in Forms(Conv[id]) :
           \E sender \in Forms(Author[id]) : Deliver(id, chat, sender)
    BY <2>a
  <2>1. PICK sender \in Forms(Author[id]) :
           live' = [at |-> "sender", id |-> id,
                    chat |-> Normalize(chat, cached), sender |-> sender]
    BY <2>b DEF Deliver
  <2>2. chat \in JIDs /\ sender \in JIDs
    BY MessageAssumption DEF Forms, FormsOf
  <2>3. live' \in LiveCalls
    BY <2>1, <2>2, NormalizeCases DEF LiveCalls
  <2> QED BY <1>1, <2>3 DEF LiveArrives
<1>2. CASE LiveSender
  <2>1. live' \in LiveCalls /\ Normalize(live.sender, cached) \in JIDs
    BY <1>2, LiveBusy, NormalizeCases DEF LiveSender, LiveCalls
  <2> QED BY <1>2, <2>1 DEF LiveSender, CaptureContact
<1>3. CASE LiveName
  <2>1. live' \in LiveCalls /\ live.chat \in JIDs
    BY <1>3, LiveBusy DEF LiveName, LiveCalls
  <2> QED BY <1>3, <2>1 DEF LiveName, ContactsAfterName
<1>4. CASE LiveChat
  <2>1. live' \in LiveCalls /\ live.chat \in JIDs /\ TimeOf[live.id] \in Times
    BY <1>4, LiveBusy, TimesOrdered DEF LiveChat, LiveCalls
  <2> QED BY <1>4, <2>1, UpsertChatType DEF LiveChat, Mishaps
<1>5. CASE LiveMessage
  <2>1. Row(live.id, live.chat, live.sender.user) \in Rows
    BY <1>5, LiveBusy, JIDCases DEF LiveMessage, Row, Rows
  <2> QED BY <1>5, <2>1, StoreMessageRows DEF LiveMessage, LiveCalls
<1> QED BY <1>1, <1>2, <1>3, <1>4, <1>5 DEF HandleMessage

\* Whatever a history message has as its sender is a user part or a JID.
LEMMA HistorySenderType ==
    ASSUME NEW id \in Ids, NEW chat \in JIDs, NEW S \in SUBSET Lids,
           NEW s \in SendersInHistory(id, chat)
    PROVE  NormalizeUser(s, S) \in Users \cup JIDs
<1>1. s \in Users \cup JIDs
  BY JIDCases, MessageAssumption DEF SendersInHistory, Forms, FormsOf, Users
<1> QED BY <1>1, PnOfAssumption DEF NormalizeUser, Users

\* The steps of handleHistorySync.
LEMMA TypeHistory ==
    ASSUME TypeOK, HandleHistorySync
    PROVE  TypeOK'
<1> USE DEF TypeOK, process, tables, handlers
<1>1. CASE HistoryArrives
  <2>1. PICK c \in Phones \cup Groups : \E jid \in Forms(c) :
           HistoryBegins(c, Normalize(jid, cached))
    BY <1>1 DEF HistoryArrives
  <2>2. PICK jid \in Forms(c) : HistoryBegins(c, Normalize(jid, cached))
    BY <2>1
  <2>3. Normalize(jid, cached) \in JIDs
    BY NormalizeCases DEF Forms, FormsOf
  <2> QED BY <1>1, <2>2, <2>3
          DEF HistoryArrives, HistoryBegins, HistoryCalls, ContactsAfterName
<1>2. CASE HistoryChat
  <2>1. PICK id \in Ids :
           /\ \E sender \in SendersInHistory(id, history.chat) :
                history' = [at |-> "message", conv |-> history.conv, chat |-> history.chat,
                            id |-> id, sender |-> NormalizeUser(sender, cached)]
           /\ \/ chats' = UpsertChat(chats, history.chat, TimeOf[id]) /\ UNCHANGED mishaps
              \/ UNCHANGED chats /\ mishaps' = mishaps \cup {ChatWriteFailed}
    BY <1>2 DEF HistoryChat
  <2>2. history.conv \in Phones \cup Groups /\ history.chat \in JIDs /\ TimeOf[id] \in Times
    BY <1>2, HistoryBusy, TimesOrdered DEF HistoryChat
  <2>3. PICK sender \in SendersInHistory(id, history.chat) :
           history' = [at |-> "message", conv |-> history.conv, chat |-> history.chat,
                       id |-> id, sender |-> NormalizeUser(sender, cached)]
    BY <2>1
  <2>4. history' \in HistoryCalls
    BY <2>2, <2>3, HistorySenderType DEF HistoryCalls
  <2> QED BY <1>2, <2>1, <2>2, <2>4, UpsertChatType DEF HistoryChat, Mishaps
<1>3. CASE HistoryMessage
  <2>1. Row(history.id, history.chat, history.sender) \in Rows /\ history' \in HistoryCalls
    BY <1>3, HistoryBusy DEF HistoryMessage, Row, Rows, HistoryCalls
  <2> QED BY <1>3, <2>1, StoreMessageRows DEF HistoryMessage
<1>4. CASE HistoryEnds
  BY <1>4 DEF HistoryEnds, HistoryCalls
<1> QED BY <1>1, <1>2, <1>3, <1>4 DEF HandleHistorySync

\* Every step keeps the types.
LEMMA TypeNext == TypeOK /\ [Next]_vars => TypeOK'
<1> SUFFICES ASSUME TypeOK, [Next]_vars PROVE TypeOK'
  OBVIOUS
<1> USE DEF TypeOK, process, tables, handlers
<1>1. CASE AutoRefresh
  BY <1>1 DEF AutoRefresh
<1>2. CASE LearnMapping
  BY <1>2 DEF LearnMapping
<1>3. CASE Crash
  BY <1>3 DEF Crash, LiveCalls, HistoryCalls, NoSync
<1>4. CASE SyncReads
  <2>1. \A j \in WaContacts : Normalize(j, cached) \in JIDs
    BY NormalizeCases, NamedAssumption
  <2> QED BY <1>4, <2>1 DEF SyncReads
<1>5. CASE SyncWrites
  BY <1>5 DEF SyncWrites, NoSync
<1>6. CASE UNCHANGED vars
  BY <1>6 DEF vars
<1> QED BY <1>1, <1>2, <1>3, <1>4, <1>5, <1>6, TypeStart, TypeLive, TypeHistory
        DEF Next, SyncContacts

\* Every reachable state is well typed, for any lids, people and messages.
THEOREM TypeCorrect == Spec => []TypeOK
BY TypeInit, TypeNext, PTL DEF Spec

-----------------------------------------------------------------------------
(***************************************************************************)
(* No message is filed with somebody else                                  *)
(***************************************************************************)

\* What a handler holds in its local variables belongs to its message.
InFlightOwn ==
    /\ live.at # "idle" =>
          /\ live.chat \in Forms(Conv[live.id])
          /\ Incoming1to1(live.id) => live.sender \in Forms(Conv[live.id])
    /\ history.at # "idle" => history.chat \in Forms(history.conv)
    /\ history.at = "message" =>
          /\ Conv[history.id] = history.conv
          /\ Incoming1to1(history.id) => history.sender \in NamesOf[Conv[history.id]]

FilingInv == TypeOK /\ NeverMisfiled /\ InFlightOwn

\* The row of a message is filed right.
FiledRight(id, chat, sender) ==
    /\ chat \in Forms(Conv[id])
    /\ Incoming1to1(id) => sender \in NamesOf[Conv[id]]

\* A person's names, bare or full, normalise to names of the same person.
LEMMA NormalizeUserKeepsNames ==
    ASSUME NEW p \in Phones, NEW s \in NamesOf[p], NEW S \in SUBSET Lids
    PROVE  /\ NormalizeUser(s, S) \in NamesOf[p]
           /\ MigratedSender(s, S) \in NamesOf[p]
<1>1. NamesOf[p] = Forms(p) \cup {j.user : j \in Forms(p)}
  BY DEF NamesOf, Forms
<1>2. p \in NamesOf[p]
  BY <1>1, JIDConstructors DEF Forms, FormsOf
<1>3. ASSUME s \in S
      PROVE  PnOf[s] = p
  <2>1. s \notin JIDs
    BY <1>3, NamespacesAssumption DEF Users
  <2>2. PICK j \in Forms(p) : s = j.user
    BY <1>1, <2>1 DEF Forms, FormsOf
  <2>3. j.user # p
    BY <1>3, <2>2, NamespacesAssumption
  <2> QED BY <2>2, <2>3 DEF Forms, FormsOf
<1> QED BY <1>2, <1>3 DEF NormalizeUser, MigratedSender

\* An earlier build filed under either JID of the right person.
LEMMA FilingInit == Init => FilingInv
<1> SUFFICES ASSUME Init PROVE FilingInv
  OBVIOUS
<1>1. ASSUME NEW m \in messages
      PROVE  FiledRight(m.id, m.chat, m.sender)
  <2>1. m \in LegacyRows
    BY DEF Init
  <2>2. m.id \in Ids /\ m.chat \in Forms(Conv[m.id])
    BY <2>1 DEF LegacyRows
  <2>3. Incoming1to1(m.id) => m.sender = m.chat.user
    BY <2>1 DEF LegacyRows
  <2>4. Incoming1to1(m.id) => m.chat.user \in NamesOf[Conv[m.id]]
    BY <2>2 DEF NamesOf, Forms, Incoming1to1
  <2> QED BY <2>2, <2>3, <2>4 DEF FiledRight
<1>2. NeverMisfiled
  BY <1>1 DEF NeverMisfiled, FiledRight, Incoming1to1
<1>3. InFlightOwn
  BY DEF Init, Idle, InFlightOwn
<1> QED BY <1>2, <1>3, TypeInit DEF FilingInv

\* handleMessage normalises chat and sender to forms of the same person, and stores
\* what it has normalised.
LEMMA FilingLive ==
    ASSUME FilingInv, HandleMessage, TypeOK'
    PROVE  FilingInv'
<1> USE DEF FilingInv
<1>1. ASSUME UNCHANGED messages PROVE NeverMisfiled'
  BY <1>1 DEF NeverMisfiled
<1>2. CASE LiveArrives
  <2>1. PICK id \in Ids :
           \E chat \in Forms(Conv[id]) : \E sender \in Forms(Author[id]) :
             (Incoming1to1(id) => sender = chat) /\ Deliver(id, chat, sender)
    BY <1>2 DEF LiveArrives
  <2>2. PICK chat \in Forms(Conv[id]) : \E sender \in Forms(Author[id]) :
             (Incoming1to1(id) => sender = chat) /\ Deliver(id, chat, sender)
    BY <2>1
  <2>3. PICK sender \in Forms(Author[id]) :
             /\ Incoming1to1(id) => sender = chat
             /\ live' = [at |-> "sender", id |-> id,
                         chat |-> Normalize(chat, cached), sender |-> sender]
    BY <2>2 DEF Deliver
  <2>4. Normalize(chat, cached) \in Forms(Conv[id])
    BY NormalizeKeepsForms, MessageAssumption DEF TypeOK
  <2> QED BY <1>1, <1>2, <2>3, <2>4 DEF LiveArrives, InFlightOwn, tables, Incoming1to1
<1>3. CASE LiveSender
  <2>1. Incoming1to1(live.id) => Normalize(live.sender, cached) \in Forms(Conv[live.id])
    BY <1>3, NormalizeKeepsForms DEF LiveSender, InFlightOwn, TypeOK, Incoming1to1
  <2>2. /\ live'.id = live.id /\ live'.chat = live.chat
        /\ live'.sender = Normalize(live.sender, cached)
    BY <1>3, LiveBusy DEF LiveSender
  <2> QED BY <1>1, <1>3, <2>1, <2>2 DEF LiveSender, InFlightOwn, Incoming1to1
<1>4. CASE LiveName \/ LiveChat
  <2>1. live'.id = live.id /\ live'.chat = live.chat /\ live'.sender = live.sender
    BY <1>4, LiveBusy DEF LiveName, LiveChat
  <2>2. UNCHANGED <<messages, history>> /\ live.at # "idle"
    BY <1>4 DEF LiveName, LiveChat
  <2> QED BY <1>1, <2>1, <2>2 DEF InFlightOwn, Incoming1to1
<1>5. CASE LiveMessage
  <2>1. FiledRight(live.id, live.chat, live.sender.user)
    <3>1. live.at # "idle"
      BY <1>5 DEF LiveMessage
    <3>2. Incoming1to1(live.id) => live.sender.user \in NamesOf[Conv[live.id]]
      BY <3>1 DEF InFlightOwn, NamesOf, Forms, Incoming1to1
    <3> QED BY <3>1, <3>2 DEF InFlightOwn, FiledRight
  <2>2. \A m \in messages' :
           m \in messages \/ m = Row(live.id, live.chat, live.sender.user)
    BY <1>5, StoreMessageRows DEF LiveMessage
  <2>3. NeverMisfiled'
    BY <2>1, <2>2 DEF NeverMisfiled, FiledRight, Row, Incoming1to1
  <2> QED BY <1>5, <2>3 DEF LiveMessage, InFlightOwn, Idle, Incoming1to1
<1> QED BY <1>2, <1>3, <1>4, <1>5 DEF HandleMessage

\* handleHistorySync takes the sender of a 1:1 message from the chat, which is a form
\* of the conversation.
LEMMA FilingHistory ==
    ASSUME FilingInv, HandleHistorySync, TypeOK'
    PROVE  FilingInv'
<1> USE DEF FilingInv
<1>1. ASSUME UNCHANGED messages PROVE NeverMisfiled'
  BY <1>1 DEF NeverMisfiled
<1>2. CASE HistoryArrives
  <2>1. PICK c \in Phones \cup Groups :
           \E jid \in Forms(c) : HistoryBegins(c, Normalize(jid, cached))
    BY <1>2 DEF HistoryArrives
  <2>2. PICK jid \in Forms(c) : HistoryBegins(c, Normalize(jid, cached))
    BY <2>1
  <2>3. Normalize(jid, cached) \in Forms(c)
    BY NormalizeKeepsForms DEF TypeOK
  <2> QED BY <1>1, <1>2, <2>2, <2>3
          DEF HistoryArrives, HistoryBegins, InFlightOwn, Incoming1to1
<1>3. CASE HistoryChat
  <2>1. PICK id \in Ids :
           /\ Conv[id] = history.conv
           /\ \E sender \in SendersInHistory(id, history.chat) :
                history' = [at |-> "message", conv |-> history.conv, chat |-> history.chat,
                            id |-> id, sender |-> NormalizeUser(sender, cached)]
    BY <1>3 DEF HistoryChat
  <2>2. PICK sender \in SendersInHistory(id, history.chat) :
                history' = [at |-> "message", conv |-> history.conv, chat |-> history.chat,
                            id |-> id, sender |-> NormalizeUser(sender, cached)]
    BY <2>1
  <2>3. history.chat \in Forms(Conv[id])
    BY <1>3, <2>1 DEF HistoryChat, InFlightOwn
  <2>4. ASSUME Incoming1to1(id)
        PROVE  NormalizeUser(sender, cached) \in NamesOf[Conv[id]]
    <3>1. Conv[id] \in Phones /\ Author[id] = Conv[id]
      BY <2>4 DEF Incoming1to1
    <3>2. NamesOf[Conv[id]] = Forms(Conv[id]) \cup {j.user : j \in Forms(Conv[id])}
      BY <3>1 DEF NamesOf, Forms
    <3>3. PhoneJID(Conv[id]) \in Forms(Conv[id]) /\ PhoneJID(Conv[id]).user = Conv[id]
      BY <3>1, JIDConstructors DEF Forms, FormsOf
    <3>4. sender \in {history.chat.user, Conv[id]}
      BY <3>1, NamespacesAssumption DEF SendersInHistory
    <3>5. sender \in NamesOf[Conv[id]]
      BY <2>3, <3>2, <3>3, <3>4
    <3> QED BY <3>1, <3>5, NormalizeUserKeepsNames DEF TypeOK
  <2> QED BY <1>1, <1>3, <2>1, <2>2, <2>3, <2>4
          DEF HistoryChat, InFlightOwn, Incoming1to1
<1>4. CASE HistoryMessage
  <2>1. FiledRight(history.id, history.chat, history.sender)
    BY <1>4 DEF HistoryMessage, InFlightOwn, FiledRight
  <2>2. \A m \in messages' :
           m \in messages \/ m = Row(history.id, history.chat, history.sender)
    BY <1>4, StoreMessageRows DEF HistoryMessage
  <2>3. NeverMisfiled'
    BY <2>1, <2>2 DEF NeverMisfiled, FiledRight, Row, Incoming1to1
  <2> QED BY <1>4, <2>3 DEF HistoryMessage, InFlightOwn, Incoming1to1
<1>5. CASE HistoryEnds
  BY <1>1, <1>5 DEF HistoryEnds, InFlightOwn, Idle, tables, Incoming1to1
<1> QED BY <1>2, <1>3, <1>4, <1>5 DEF HandleHistorySync

\* The backfill moves a message to the other form of its conversation, and its
\* sender to the other name of its author.
LEMMA FilingMigrate ==
    ASSUME FilingInv, MigrateLIDChats, TypeOK'
    PROVE  FilingInv'
<1> USE DEF FilingInv
<1>1. ASSUME NEW m \in MigrateMessages(messages, cached)
      PROVE  FiledRight(m.id, m.chat, m.sender)
  <2>1. PICK n \in messages :
           /\ m.id = n.id
           /\ m.sender = MigratedSender(n.sender, cached)
           /\ m.chat = Normalize(n.chat, cached)
    BY MigrateMessagesRows DEF TypeOK
  <2>2. n.id \in Ids /\ n.chat \in Forms(Conv[n.id])
    BY DEF TypeOK, Rows, NeverMisfiled
  <2>3. m.chat \in Forms(Conv[m.id])
    BY <2>1, <2>2, NormalizeKeepsForms, MessageAssumption DEF TypeOK
  <2>4. Incoming1to1(m.id) => m.sender \in NamesOf[Conv[m.id]]
    BY <2>1, NormalizeUserKeepsNames DEF TypeOK, NeverMisfiled, Incoming1to1
  <2> QED BY <2>3, <2>4 DEF FiledRight
<1>2. NeverMisfiled'
  BY <1>1 DEF MigrateLIDChats, NeverMisfiled, FiledRight, Incoming1to1, tables
<1> QED BY <1>2 DEF MigrateLIDChats, InFlightOwn, handlers, Incoming1to1

\* Every step files rightly.
LEMMA FilingNext == FilingInv /\ [Next]_vars => FilingInv'
<1> SUFFICES ASSUME FilingInv, [Next]_vars PROVE FilingInv'
  OBVIOUS
<1>1. TypeOK'
  BY TypeNext DEF FilingInv
<1>2. CASE UNCHANGED <<messages, live, history>>
  BY <1>1, <1>2 DEF FilingInv, NeverMisfiled, InFlightOwn
<1>3. CASE Crash
  BY <1>1, <1>3 DEF Crash, FilingInv, NeverMisfiled, InFlightOwn, Idle, tables
<1>4. CASE HandleMessage
  BY <1>1, <1>4, FilingLive
<1>5. CASE HandleHistorySync
  BY <1>1, <1>5, FilingHistory
<1>6. CASE MigrateLIDChats
  BY <1>1, <1>6, FilingMigrate
<1>7. CASE OpenResolver \/ InitialRefresh \/ AutoRefresh \/ LearnMapping \/ SyncContacts
  BY <1>2, <1>7 DEF OpenResolver, InitialRefresh, AutoRefresh, LearnMapping,
                    SyncContacts, SyncReads, SyncWrites, tables, handlers
<1>8. CASE UNCHANGED vars
  BY <1>2, <1>8 DEF vars, tables, handlers
<1> QED BY <1>3, <1>4, <1>5, <1>6, <1>7, <1>8 DEF Next, Startup

\* Under every interleaving, refresh and restart, a message is only ever stored
\* in a conversation of its own, with a sender that is its author if it came
\* from the other side of a 1:1 chat.
THEOREM NeverMisfiledHolds == Spec => []NeverMisfiled
<1>1. Spec => []FilingInv
  BY FilingInit, FilingNext, PTL DEF Spec
<1>2. FilingInv => NeverMisfiled
  BY DEF FilingInv
<1> QED BY <1>1, <1>2, PTL

-----------------------------------------------------------------------------
(***************************************************************************)
(* What the backfill merged stays merged                                   *)
(***************************************************************************)

\* The resolver of a running process still maps every lid the backfill rewrote,
\* for session.db keeps them, a refresh never takes one away, and a start that
\* could not read them has given the promise up.
ResolverCovers ==
    /\ cached \subseteq lidMap /\ backfilled \subseteq lidMap
    /\ phase \in {"refreshed", "up"} => backfilled \subseteq cached

\* No handler is about to write such a lid, and none runs before the backfill.
InFlightMerged ==
    /\ phase # "up" => live = Idle /\ history = Idle /\ sync = NoSync
    /\ live.at # "idle" => live.chat \notin LidJIDsOf(backfilled)
    /\ live.at \notin {"idle", "sender"} => live.sender \notin LidJIDsOf(backfilled)
    /\ history.at # "idle" => history.chat \notin LidJIDsOf(backfilled)
    /\ history.at = "message" => history.sender \notin backfilled
    /\ sync \cap LidJIDsOf(backfilled) = {}

BackfillInv == TypeOK /\ ResolverCovers /\ InFlightMerged /\ BackfillHolds

\* A look-up never returns a lid that the resolver maps.
LEMMA LookupsClear ==
    ASSUME NEW S \in SUBSET Lids, NEW B \in SUBSET S
    PROVE  /\ \A j \in JIDs : Normalize(j, S) \notin LidJIDsOf(B)
           /\ \A s \in Users \cup JIDs : NormalizeUser(s, S) \notin B
<1>1. ASSUME NEW j \in JIDs
      PROVE  Normalize(j, S) \notin LidJIDsOf(B)
  <2>1. CASE j \in LidJIDsOf(S)
    <3>1. PICK l \in S : j = LidJID(l)
      BY <2>1 DEF LidJIDsOf
    <3>2. Normalize(j, S) = PhoneJID(PnOf[l]) /\ PnOf[l] \in Phones
      BY <3>1, NormalizeCases, PnOfAssumption
    <3> QED BY <3>2, JIDConstructors DEF LidJIDsOf
  <2>2. CASE j \notin LidJIDsOf(S)
    BY <2>2, NormalizeCases DEF LidJIDsOf
  <2> QED BY <2>1, <2>2
<1>2. \A s \in Users \cup JIDs : NormalizeUser(s, S) \notin B
  BY PnOfAssumption, NamespacesAssumption DEF NormalizeUser
<1> QED BY <1>1, <1>2

\* Before the first backfill nothing is promised.
LEMMA BackfillInit == Init => BackfillInv
BY TypeInit DEF Init, BackfillInv, ResolverCovers, InFlightMerged, BackfillHolds,
                Idle, NoSync, LidJIDsOf

\* A start: the promise is given up, or the refresh covers it, or the backfill
\* makes it anew.
LEMMA BackfillStart ==
    ASSUME BackfillInv, Startup, TypeOK'
    PROVE  BackfillInv'
<1> USE DEF BackfillInv, ResolverCovers, InFlightMerged, process, tables, handlers
<1>1. CASE OpenResolver
  BY <1>1 DEF OpenResolver, BackfillHolds, LidJIDsOf, Idle, NoSync
<1>2. CASE InitialRefresh
  BY <1>2 DEF InitialRefresh, BackfillHolds, LidJIDsOf, Idle, NoSync
<1>3. CASE MigrateLIDChats
  <2>1. CASE /\ backfilled' = cached
             /\ chats' = MigrateChats(chats, cached)
             /\ messages' = MigrateMessages(messages, cached)
             /\ contacts' = MigrateContacts(contacts, cached)
    <3>1. \A l \in cached : chats'[LidJID(l)] = NoRow /\ LidJID(l) \notin contacts'
      BY <2>1, MigrateChatsType, MigrateContactsType DEF TypeOK
    <3>2. \A m \in messages' : m.chat \notin LidJIDsOf(cached) /\ m.sender \notin cached
      BY <2>1, MigrateMessagesRows DEF TypeOK
    <3>3. BackfillHolds'
      BY <2>1, <3>1, <3>2 DEF BackfillHolds, LidJIDsOf
    <3> QED BY <1>3, <2>1, <3>3 DEF MigrateLIDChats, Idle, NoSync
  <2>2. CASE UNCHANGED <<tables, backfilled>>
    BY <1>3, <2>2 DEF MigrateLIDChats, BackfillHolds, Idle, NoSync
  <2> QED BY <1>3, <2>1, <2>2 DEF MigrateLIDChats
<1> QED BY <1>1, <1>2, <1>3 DEF Startup

\* handleMessage looks its lids up in a resolver that maps what was rewritten.
LEMMA BackfillLive ==
    ASSUME BackfillInv, HandleMessage, TypeOK'
    PROVE  BackfillInv'
<1> USE DEF BackfillInv, ResolverCovers, InFlightMerged, process, tables
<1>0. /\ phase = "up" /\ live' \in LiveCalls
      /\ UNCHANGED <<lidMap, phase, cached, history, sync, backfilled>>
      /\ cached \subseteq Lids /\ backfilled \subseteq cached
  BY DEF HandleMessage, LiveArrives, LiveSender, LiveName, LiveChat, LiveMessage,
         Idle, TypeOK
<1>1. CASE LiveArrives
  <2>1. PICK id \in Ids :
           \E chat \in Forms(Conv[id]) : \E sender \in Forms(Author[id]) :
             Deliver(id, chat, sender)
    BY <1>1 DEF LiveArrives
  <2>2. PICK chat \in Forms(Conv[id]) :
           \E sender \in Forms(Author[id]) : Deliver(id, chat, sender)
    BY <2>1
  <2>3. live'.chat = Normalize(chat, cached) /\ live'.at = "sender" /\ chat \in JIDs
    BY <2>2, MessageAssumption DEF Deliver, Forms, FormsOf
  <2> QED BY <1>0, <1>1, <2>3, LookupsClear DEF LiveArrives, BackfillHolds
<1>2. CASE LiveSender
  <2>1. live.chat \notin LidJIDsOf(backfilled) /\ live'.chat = live.chat
    BY <1>2, LiveBusy DEF LiveSender
  <2>2. live'.sender = Normalize(live.sender, cached) /\ live.sender \in JIDs
    BY <1>2, LiveBusy DEF LiveSender
  <2>3. live'.sender \notin LidJIDsOf(backfilled)
    BY <1>0, <2>2, LookupsClear
  <2>4. \A j \in contacts' : j \in contacts \/ j = live'.sender
    BY <1>2, <2>2 DEF LiveSender, CaptureContact
  <2>5. BackfillHolds'
    BY <1>0, <1>2, <2>3, <2>4 DEF LiveSender, BackfillHolds, LidJIDsOf
  <2> QED BY <1>0, <2>1, <2>3, <2>5
<1>3. CASE LiveName
  <2>1. /\ live'.chat = live.chat /\ live'.sender = live.sender
        /\ live.at \notin {"idle", "sender"}
    BY <1>3, LiveBusy DEF LiveName
  <2>2. \A j \in contacts' : j \in contacts \/ j = live.chat
    BY <1>3 DEF LiveName, ContactsAfterName
  <2>3. BackfillHolds'
    BY <1>0, <1>3, <2>1, <2>2 DEF LiveName, BackfillHolds, LidJIDsOf
  <2> QED BY <1>0, <2>1, <2>3
<1>4. CASE LiveChat
  <2>1. /\ live'.chat = live.chat /\ live'.sender = live.sender
        /\ live.at \notin {"idle", "sender"}
    BY <1>4, LiveBusy DEF LiveChat
  <2>2. live.chat \in JIDs /\ live.id \in Ids
    BY <1>4, LiveBusy DEF LiveChat
  <2>3. \A j \in JIDs : j # live.chat => chats'[j] = chats[j]
    BY <1>4, <2>2, UpsertChatElsewhere DEF LiveChat
  <2>4. BackfillHolds'
    BY <1>0, <1>4, <2>1, <2>3, JIDConstructors DEF LiveChat, BackfillHolds, LidJIDsOf
  <2> QED BY <1>0, <2>1, <2>4
<1>5. CASE LiveMessage
  <2>1. /\ live.chat \notin LidJIDsOf(backfilled)
        /\ live.sender \notin LidJIDsOf(backfilled) /\ live.sender \in JIDs
    BY <1>5, LiveBusy DEF LiveMessage
  <2>2. live.sender.user \notin backfilled
    BY <1>0, <2>1, JIDCases, NamespacesAssumption DEF LidJIDsOf
  <2>3. \A m \in messages' :
           m \in messages \/ m = Row(live.id, live.chat, live.sender.user)
    BY <1>5, StoreMessageRows DEF LiveMessage
  <2>4. BackfillHolds'
    BY <1>0, <1>5, <2>1, <2>2, <2>3 DEF LiveMessage, BackfillHolds, LidJIDsOf, Row
  <2> QED BY <1>0, <1>5, <2>4 DEF LiveMessage, Idle
<1> QED BY <1>1, <1>2, <1>3, <1>4, <1>5 DEF HandleMessage

\* So does handleHistorySync, for the chat and for the bare senders.
LEMMA BackfillHistory ==
    ASSUME BackfillInv, HandleHistorySync, TypeOK'
    PROVE  BackfillInv'
<1> USE DEF BackfillInv, ResolverCovers, InFlightMerged, process, tables
<1>0. /\ phase = "up"
      /\ UNCHANGED <<lidMap, phase, cached, live, sync, backfilled>>
      /\ cached \subseteq Lids /\ backfilled \subseteq cached
  BY DEF HandleHistorySync, HistoryArrives, HistoryChat, HistoryMessage, HistoryEnds,
         Idle, TypeOK
<1>1. CASE HistoryArrives
  <2>1. PICK c \in Phones \cup Groups :
           \E jid \in Forms(c) : HistoryBegins(c, Normalize(jid, cached))
    BY <1>1 DEF HistoryArrives
  <2>2. PICK jid \in Forms(c) : HistoryBegins(c, Normalize(jid, cached))
    BY <2>1
  <2>3. /\ history'.chat = Normalize(jid, cached) /\ history'.at = "next"
        /\ jid \in JIDs
    BY <2>2 DEF HistoryBegins, Forms, FormsOf
  <2>4. history'.chat \notin LidJIDsOf(backfilled)
    BY <1>0, <2>3, LookupsClear
  <2>5. \A j \in contacts' : j \in contacts \/ j = history'.chat
    BY <2>2, <2>3 DEF HistoryBegins, ContactsAfterName
  <2>6. BackfillHolds'
    BY <1>0, <1>1, <2>4, <2>5 DEF HistoryArrives, BackfillHolds, LidJIDsOf
  <2> QED BY <1>0, <2>3, <2>4, <2>6
<1>2. CASE HistoryChat
  <2>1. PICK id \in Ids :
           /\ \E sender \in SendersInHistory(id, history.chat) :
                history' = [at |-> "message", conv |-> history.conv, chat |-> history.chat,
                            id |-> id, sender |-> NormalizeUser(sender, cached)]
           /\ \/ chats' = UpsertChat(chats, history.chat, TimeOf[id])
              \/ UNCHANGED chats
    BY <1>2 DEF HistoryChat
  <2>2. PICK sender \in SendersInHistory(id, history.chat) :
                history' = [at |-> "message", conv |-> history.conv, chat |-> history.chat,
                            id |-> id, sender |-> NormalizeUser(sender, cached)]
    BY <2>1
  <2>3. history.chat \in JIDs /\ history.chat \notin LidJIDsOf(backfilled)
    BY <1>2, HistoryBusy DEF HistoryChat
  <2>4. sender \in Users \cup JIDs
    BY <2>3, JIDCases, MessageAssumption DEF SendersInHistory, Forms, FormsOf, Users
  <2>5. history'.sender \notin backfilled /\ history'.chat = history.chat
    BY <1>0, <2>2, <2>4, LookupsClear
  <2>6. \A j \in JIDs : j # history.chat => chats'[j] = chats[j]
    BY <2>1, <2>3, UpsertChatElsewhere
  <2>7. BackfillHolds'
    BY <1>0, <1>2, <2>3, <2>6, JIDConstructors DEF HistoryChat, BackfillHolds, LidJIDsOf
  <2> QED BY <1>0, <2>3, <2>5, <2>7
<1>3. CASE HistoryMessage
  <2>1. /\ history.chat \notin LidJIDsOf(backfilled) /\ history.sender \notin backfilled
        /\ history'.chat = history.chat /\ history'.at = "next"
    BY <1>3 DEF HistoryMessage
  <2>2. \A m \in messages' :
           m \in messages \/ m = Row(history.id, history.chat, history.sender)
    BY <1>3, StoreMessageRows DEF HistoryMessage
  <2>3. BackfillHolds'
    BY <1>0, <1>3, <2>1, <2>2 DEF HistoryMessage, BackfillHolds, LidJIDsOf, Row
  <2> QED BY <1>0, <2>1, <2>3
<1>4. CASE HistoryEnds
  BY <1>0, <1>4 DEF HistoryEnds, BackfillHolds, Idle
<1> QED BY <1>1, <1>2, <1>3, <1>4 DEF HandleHistorySync

\* Every step keeps what the backfill merged.
LEMMA BackfillNext == BackfillInv /\ [Next]_vars => BackfillInv'
<1> SUFFICES ASSUME BackfillInv, [Next]_vars PROVE BackfillInv'
  OBVIOUS
<1>1. TypeOK'
  BY TypeNext DEF BackfillInv
<1> USE DEF BackfillInv, ResolverCovers, InFlightMerged, process, tables, handlers
<1>2. CASE AutoRefresh
  BY <1>1, <1>2 DEF AutoRefresh, BackfillHolds
<1>3. CASE LearnMapping
  BY <1>1, <1>3 DEF LearnMapping, BackfillHolds
<1>4. CASE Crash
  BY <1>1, <1>4 DEF Crash, BackfillHolds, Idle, NoSync
<1>5. CASE SyncReads
  <2>1. cached \subseteq Lids /\ backfilled \subseteq cached
    BY <1>5 DEF SyncReads, TypeOK
  <2>2. \A j \in WaContacts : Normalize(j, cached) \notin LidJIDsOf(backfilled)
    BY <2>1, LookupsClear, NamedAssumption
  <2> QED BY <1>1, <1>5, <2>2 DEF SyncReads, BackfillHolds
<1>6. CASE SyncWrites
  <2>1. \A l \in backfilled : LidJID(l) \notin contacts'
    BY <1>6 DEF SyncWrites, BackfillHolds, LidJIDsOf
  <2> QED BY <1>1, <1>6, <2>1 DEF SyncWrites, BackfillHolds, NoSync
<1>7. CASE UNCHANGED vars
  BY <1>1, <1>7 DEF vars, BackfillHolds
<1> QED BY <1>1, <1>2, <1>3, <1>4, <1>5, <1>6, <1>7,
           BackfillStart, BackfillLive, BackfillHistory DEF Next, SyncContacts

\* As long as every start can read the lid map, the backfill is for good: no
\* handler, refresh, replay or restart brings a merged lid back into a table.
THEOREM BackfillIsForGood == Spec => []BackfillHolds
<1>1. Spec => []BackfillInv
  BY BackfillInit, BackfillNext, PTL DEF Spec
<1>2. BackfillInv => BackfillHolds
  BY DEF BackfillInv
<1> QED BY <1>1, <1>2, PTL

=============================================================================
