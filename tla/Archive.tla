------------------------------ MODULE Archive ------------------------------
(***************************************************************************)
(* What messages.db promises its readers, whatever JIDs WhatsApp uses: a   *)
(* message that was archived is never lost, and a conversation that was    *)
(* listed stays listed.  Each enters on its own, by one write.             *)
(***************************************************************************)
CONSTANTS Ids, Conversations

VARIABLES
    archived,   \* the messages kept in the conversation they belong to
    listed      \* the conversations that have a chat row

vars == <<archived, listed>>

Init == archived \in SUBSET Ids /\ listed \in SUBSET Conversations

Keep(id) == archived' = archived \cup {id} /\ UNCHANGED listed
List(c) == listed' = listed \cup {c} /\ UNCHANGED archived

Next == (\E id \in Ids : Keep(id)) \/ (\E c \in Conversations : List(c))

Spec == Init /\ [][Next]_vars

=============================================================================
