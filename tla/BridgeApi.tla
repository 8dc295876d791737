----------------------------- MODULE BridgeApi -----------------------------
(***************************************************************************)
(* The bridge's HTTP API on one chat (bridge/api.go): a client walks the   *)
(* chat page by page (ChatPages) and fetches media (MediaCache) while      *)
(* messages are received, sent and recovered by POST /resync.  They meet   *)
(* in the rows of the chat.  A request may be refused (not connected, not  *)
(* well formed) or fail: then it changes nothing, which the model shows by *)
(* its not happening.                                                      *)
(***************************************************************************)
EXTENDS ChatPages, MediaCache, ChatNames

VARIABLES
    conversation,   \* the messages WhatsApp has of the chat
    anchor          \* the time from which a resync asked for older messages

vars == <<stored, walk, mediaVars, nameVars, conversation, anchor>>

NoAnchor == 0

ASSUME MediaAssumption == Media \subseteq Ids

Init ==
    /\ conversation \in SUBSET Ids
    /\ stored \in SUBSET conversation
    /\ walk = NoWalk
    /\ filename \in [Media -> FileNames \cup {NoFile}]
    /\ \A i \in Media : filename[i] = NoFile <=> i \notin stored
    /\ MediaInit
    /\ NamesInit
    /\ anchor = NoAnchor

\* A plausible bug: the media columns stay empty.
StoresNoMedia(i) == stored' = stored \cup {i} /\ UNCHANGED filename

\* StoreMessage, INSERT OR REPLACE: a media message gets a file name again.
Stores(i) ==
    /\ stored' = stored \cup {i}
    /\ IF i \in Media
       THEN \E n \in FileNames : filename' = [filename EXCEPT ![i] = n]
       ELSE UNCHANGED filename

\* handleMessage (module Ingest): a message of the chat arrives and is stored.
Receives ==
    /\ \E i \in Ids \ conversation :
         Stores(i) /\ conversation' = conversation \cup {i}
    /\ UNCHANGED <<walk, file, fetch, torn, nameVars, anchor>>

\* POST /send and /send-file: WhatsApp gets the message, the table does not, and
\* no event comes back of it.
handleSend ==
    /\ \E i \in Ids \ conversation : conversation' = conversation \cup {i}
    /\ UNCHANGED <<stored, walk, mediaVars, nameVars, anchor>>

\* POST /resync: older messages than a stored one are asked for.
handleResync ==
    /\ \E i \in stored : anchor' = TimeOf[i]
    /\ UNCHANGED <<stored, walk, mediaVars, nameVars, conversation>>

\* The answer, handled by handleHistorySync: any of them, also those stored.
HistoryStores ==
    /\ \E i \in conversation : TimeOf[i] <= anchor /\ Stores(i)
    /\ UNCHANGED <<walk, file, fetch, torn, nameVars, conversation, anchor>>

\* The process ends; the client is another one and goes on with its walk.
Crash ==
    /\ RequestsLost
    /\ resolved' = [h \in Handlers |-> Unnamed]
    /\ anchor' = NoAnchor
    /\ UNCHANGED <<stored, walk, isGroup, contact, rowName, conversation>>

Walk == (WalkBegins \/ NextPage) /\ UNCHANGED <<mediaVars, nameVars, conversation, anchor>>
ServesMedia == HandleMedia /\ UNCHANGED <<stored, walk, nameVars, conversation, anchor>>
NamesIt == NamesChat /\ UNCHANGED <<stored, walk, mediaVars, conversation, anchor>>

Next ==
    \/ Receives \/ handleSend \/ handleResync \/ HistoryStores \/ Crash
    \/ Walk \/ ServesMedia \/ NamesIt

\* A client that has begun a walk asks for the next page.
Spec == Init /\ [][Next]_vars /\ WF_vars(NextPage /\ Walk)

-----------------------------------------------------------------------------

TypeOK ==
    /\ conversation \subseteq Ids /\ stored \subseteq conversation
    /\ walk \in Walks
    /\ anchor \in Times \cup {NoAnchor}
    /\ MediaTypeOK
    /\ NamesTypeOK
    /\ \A i \in Media : filename[i] = NoFile <=> i \notin stored

=============================================================================
