------------------------------- MODULE Reads -------------------------------
(***************************************************************************)
(* Who a message is from, as the bridge's API answers it from the tables   *)
(* of Ingest: Classify (bridge/lidmap.go), buildSenderMeta (store.go) and  *)
(* the handlers of GET /jid and GET /groups/:jid/participants (api.go).    *)
(* The look-ups of one answer are taken together.                          *)
(*                                                                         *)
(* A contact row stands for the names in it; every row has one.            *)
(***************************************************************************)
EXTENDS Ingest

\* A plausible bug: a phone's lid is not looked up.
ClassifyOneWay(user) ==
    IF user \in cached
    THEN [type |-> "lid", phone |-> PnOf[user], lids |-> {user}]
    ELSE [type |-> "phone", phone |-> user, lids |-> {}]

\* LIDResolver.Classify.  What no row of the lid map has is taken for a phone;
\* lids is the known lid of the person, or none.
Classify(user) ==
    IF user \in cached
    THEN [type |-> "lid", phone |-> PnOf[user], lids |-> {user}]
    ELSE [type |-> "phone", phone |-> user, lids |-> {l \in cached : PnOf[l] = user}]

\* GetContactInfo: the contact row of a JID, or none.
GetContactInfo(jid) == {jid} \cap contacts

\* The row by phone goes first, the row by lid only if there is none.
NamesBy(identity) ==
    LET byPhone == GetContactInfo(PhoneJID(identity.phone))
        byLid == UNION {GetContactInfo(LidJID(l)) : l \in identity.lids}
    IN IF byPhone # {} THEN byPhone ELSE byLid

buildSenderMeta(user) ==
    LET identity == Classify(user) IN
    [jid   |-> IF identity.type = "lid" THEN LidJID(user) ELSE PhoneJID(user),
     type  |-> identity.type,
     user  |-> user,
     phone |-> identity.phone,
     names |-> NamesBy(identity)]

\* GET /jid/:jid/resolve: a full JID keeps its form in the answer.
handleResolveJID(jid) ==
    [buildSenderMeta(jid.user) EXCEPT
        !.jid = jid,
        !.type = CASE jid.server = "lid" -> "lid"
                   [] jid.server = "s.whatsapp.net" -> "phone"
                   [] OTHER -> @]

\* A row of GET /groups/:jid/participants, of a member whose phone whatsmeow
\* knows (pn = {phone}) or not (pn = {}).
Participant(jid, pn) ==
    LET meta == buildSenderMeta(IF pn = {} THEN jid.user ELSE CHOOSE p \in pn : TRUE) IN
    IF jid.server = "lid" /\ meta.type = "phone"
    THEN [meta EXCEPT !.jid = jid, !.type = "lid", !.user = jid.user]
    ELSE meta

-----------------------------------------------------------------------------
(***************************************************************************)
(* Properties                                                              *)
(***************************************************************************)

\* What the API says of the person with phone p, by either of the two JIDs: the
\* two endpoints, and the senders of what p wrote, all of them in the 1:1 chat and
\* elsewhere those that are a user part.  handleHistorySync makes others in groups
\* (see NeverConflated).
AnswersAbout(p) ==
    {handleResolveJID(j) : j \in Forms(p)}
    \cup {Participant(j, pn) : j \in Forms(p), pn \in {{}, {p}}}
    \cup {buildSenderMeta(m.sender) : m \in {n \in messages :
            /\ Author[n.id] = p
            /\ Incoming1to1(n.id) \/ n.sender \in {j.user : j \in Forms(p)}}}

\* Once the resolver knows the lid, these answers about a person all have the same
\* phone and the same names, and names are found wherever one of the writers left
\* a contact row, under the phone or under the lid, before or after the mapping
\* was known (Classify, buildSenderMeta).
OnePerson ==
    \A l \in cached :
        LET p == PnOf[l]
            rows == {PhoneJID(p), LidJID(l)} \cap contacts
            answers == {<<answer.phone, answer.names>> : answer \in AnswersAbout(p)}
        IN \E names \in SUBSET rows :
             answers = {<<p, names>>} /\ (rows # {} => names # {})

-----------------------------------------------------------------------------
(***************************************************************************)
(* What the documentation says, and the code does not do.                  *)
(***************************************************************************)

\* README.md:236: fromJid, fromType and fromPhone of a message "make that
\* relationship explicit so callers never conflate two forms of the same contact".
\* Then a sender column that names the author in one of their forms is answered
\* with the author's phone once the resolver knows the lid.
NeverConflated ==
    \A m \in messages :
        LET p == Author[m.id] IN
        m.sender \in NamesOf[p] /\ (\E l \in cached : PnOf[l] = p) =>
            buildSenderMeta(m.sender).phone = p

=============================================================================
