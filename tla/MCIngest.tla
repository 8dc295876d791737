------------------------------ MODULE MCIngest ------------------------------
(***************************************************************************)
(* A small instance of Ingest: one contact known by a phone and a lid, the *)
(* own account, one group, and two messages of the contact, m2 the newer,  *)
(* in the 1:1 chat or in the group.  The clock is set back between them,   *)
(* or it is not.                                                           *)
(***************************************************************************)
EXTENDS Reads, FiniteSets

CONSTANTS lid, phone, me, group, m1, m2

MCLids == {lid}
MCPhones == {phone, me}
MCGroups == {group}
MCPnOf == [l \in MCLids |-> phone]
MCIds == {m1, m2}
MCConv == [i \in MCIds |-> phone]
MCConvGroup == [i \in MCIds |-> group]
MCAuthor == [i \in MCIds |-> phone]
MCTimeOf == [i \in MCIds |-> IF i = m1 THEN 1 ELSE 2]
MCTextOf == [t \in {1, 2} |-> t]
MCTextSetBack == [t \in {1, 2} |-> 3 - t]
MCPushNamed == {phone}
MCWaContacts == {[user |-> lid, server |-> "lid"]}

\* Bounds of the search: behaviours with at most one kind of mishap; with
\* SyncContacts under way only while no other handler is; with history only of
\* conversations that have messages; and with the newer message arriving live,
\* before or after or while history brings either of the two.  The first states
\* beyond the bounds are still checked.
OneMishap == Cardinality(mishaps) <= 1
SyncAlone == sync = NoSync \/ (live = Idle /\ history = Idle)
HistoryOfMessages == history # Idle => \E i \in Ids : Conv[i] = history.conv
LiveIsNewer == live # Idle => live.id = m2
Bounds == OneMishap /\ SyncAlone /\ HistoryOfMessages /\ LiveIsNewer

=============================================================================
