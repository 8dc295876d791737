---------------------------- MODULE LidIdentity ----------------------------
(***************************************************************************)
(* The identities of wactl's bridge and the LID resolver that unifies them *)
(* (bridge/lidmap.go).                                                     *)
(*                                                                         *)
(* WhatsApp addresses one person by two JIDs: <phone>@s.whatsapp.net and   *)
(* <lid>@lid.  whatsmeow learns which lid is whose phone one row at a time *)
(* (session.db, whatsmeow_lid_map); the resolver holds a copy of the rows  *)
(* it has read.  PnOf is the truth those rows reveal, so a copy of the     *)
(* table is the set of the lids it maps: the resolver's l2p is             *)
(* [l \in cached |-> PnOf[l]] and its p2l the inverse.                     *)
(***************************************************************************)
CONSTANTS
    Lids,     \* user parts of the @lid namespace
    Phones,   \* user parts of the @s.whatsapp.net namespace
    Groups,   \* user parts of the @g.us namespace
    PnOf      \* the phone number behind each lid

Users == Lids \cup Phones \cup Groups

LidJID(l) == [user |-> l, server |-> "lid"]
PhoneJID(p) == [user |-> p, server |-> "s.whatsapp.net"]
GroupJID(g) == [user |-> g, server |-> "g.us"]

JIDs == {LidJID(l) : l \in Lids} \cup {PhoneJID(p) : p \in Phones}
            \cup {GroupJID(g) : g \in Groups}

ASSUME NamespacesAssumption ==
    /\ Lids \cap Phones = {} /\ Lids \cap Groups = {} /\ Phones \cap Groups = {}
    /\ Users \cap JIDs = {}

\* whatsmeow_lid_map has a unique lid and a unique pn in every row.
ASSUME PnOfAssumption ==
    /\ PnOf \in [Lids -> Phones]
    /\ \A k, l \in Lids : PnOf[k] = PnOf[l] => k = l

-----------------------------------------------------------------------------

\* A plausible bug: the user part is rewritten and the server is not.
NormalizeKeepsServer(jid, cached) ==
    IF jid.server = "lid" /\ jid.user \in cached
    THEN [jid EXCEPT !.user = PnOf[jid.user]]
    ELSE jid

\* LIDResolver.Normalize: only an @lid JID with a known mapping changes.
Normalize(jid, cached) ==
    IF jid.server = "lid" /\ jid.user \in cached
    THEN PhoneJID(PnOf[jid.user])
    ELSE jid

\* LIDResolver.NormalizeUser: a bare user part is looked up in l2p whatever it
\* is.  A full JID given by mistake is no key of l2p and comes back unchanged.
NormalizeUser(user, cached) == IF user \in cached THEN PnOf[user] ELSE user

=============================================================================
