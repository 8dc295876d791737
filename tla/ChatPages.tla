----------------------------- MODULE ChatPages -----------------------------
(***************************************************************************)
(* A client that reads one chat back page by page, over GET                *)
(* /chats/:id/messages or GET /messages/search, while handlers go on       *)
(* storing messages (GetMessages and SearchMessages of bridge/store.go).   *)
(*                                                                         *)
(* SQLite keeps a time as the text of the local clock with its offset from *)
(* UTC and compares texts: when the clock is set back, a later second may  *)
(* come before an earlier one.  TextOf is the place of a second in the     *)
(* order of the texts.                                                     *)
(***************************************************************************)
EXTENDS Naturals, FiniteSets

CONSTANTS
    Ids,      \* the messages of the chat
    TimeOf,   \* their times in whole seconds, as WhatsApp sends them
    TextOf,   \* the place of each second in the order of the texts
    Limit     \* messages of a page

Times == {TimeOf[i] : i \in Ids}

ASSUME PagesAssumption ==
    /\ IsFiniteSet(Ids)
    /\ TimeOf \in [Ids -> Nat \ {0}]
    /\ TextOf \in [Times -> Nat]
    /\ \A s, t \in Times : TextOf[s] = TextOf[t] => s = t
    /\ Limit \in Nat \ {0}

VARIABLES
    stored,   \* the messages in the table
    walk      \* the client: what it asks by, its cursor and what it was shown

Newest == 0   \* no cursor: the first page

\* begun and cuts are history: what was stored at the first request, and the
\* seconds that pages ended in.
Walks ==
    [on : BOOLEAN, by : {"before", "until"}, cursor : Times \cup {Newest},
     shown : SUBSET Ids, begun : SUBSET Ids, cuts : SUBSET Times]

NoWalk ==
    [on |-> FALSE, by |-> "before", cursor |-> Newest,
     shown |-> {}, begun |-> {}, cuts |-> {}]

-----------------------------------------------------------------------------

Text(i) == TextOf[TimeOf[i]]

\* A plausible bug: DESC is missing.
OldestOf(rows) ==
    LET size == IF Cardinality(rows) < Limit THEN Cardinality(rows) ELSE Limit IN
    {page \in SUBSET rows :
        /\ Cardinality(page) = size
        /\ \A i \in page, j \in rows \ page : Text(i) <= Text(j)}

\* ORDER BY timestamp DESC LIMIT: rows of one second come in any order.
NewestOf(rows) ==
    LET size == IF Cardinality(rows) < Limit THEN Cardinality(rows) ELSE Limit IN
    {page \in SUBSET rows :
        /\ Cardinality(page) = size
        /\ \A i \in page, j \in rows \ page : Text(i) >= Text(j)}

\* A plausible bug: the rows of the cursor's second are asked for again.
GetMessagesInclusive(before) ==
    NewestOf({i \in stored : before = Newest \/ Text(i) <= TextOf[before]})

\* timestamp < before
GetMessages(before) ==
    NewestOf({i \in stored : before = Newest \/ Text(i) < TextOf[before]})

\* timestamp <= until
SearchMessages(until) ==
    NewestOf({i \in stored : until = Newest \/ Text(i) <= TextOf[until]})

Last(page) == CHOOSE i \in page : \A j \in page : Text(i) <= Text(j)

\* The client goes on from the time of the last message of a page.  The tool
\* tells it to pass get_chat the oldest one's, which may be another.
Cursors(page, by) ==
    {TimeOf[Last(page)]} \cup
    IF by = "before"
    THEN {t \in {TimeOf[i] : i \in page} : \A i \in page : t <= TimeOf[i]}
    ELSE {}

WalkBegins ==
    /\ ~walk.on
    /\ \E by \in {"before", "until"} :
         walk' = [NoWalk EXCEPT !.on = TRUE, !.by = by, !.begun = stored]
    /\ UNCHANGED stored

\* A page that is not full is the last; so is one of a search, which has its
\* until second again, that shows nothing new.
LastPage(page) ==
    \/ Cardinality(page) < Limit
    \/ walk.by = "until" /\ page \subseteq walk.shown

NextPage ==
    /\ walk.on
    /\ \E page \in IF walk.by = "before" THEN GetMessages(walk.cursor)
                                         ELSE SearchMessages(walk.cursor) :
         IF LastPage(page)
         THEN walk' = [walk EXCEPT !.on = FALSE, !.shown = @ \cup page]
         ELSE \E t \in Cursors(page, walk.by) :
                walk' = [walk EXCEPT !.cursor = t, !.shown = @ \cup page,
                                     !.cuts = @ \cup {t}]
    /\ UNCHANGED stored

-----------------------------------------------------------------------------

\* The messages that have no place in a walk which has to ask by seconds.
LeftOut ==
    IF walk.by = "before"
    THEN {i \in Ids : TimeOf[i] \in walk.cuts}
    ELSE IF \E t \in walk.cuts : Cardinality({i \in stored : TimeOf[i] = t}) >= Limit
         THEN Ids ELSE {}

\* A walk to the end shows every message that was stored when it began, whatever
\* is stored meanwhile and whether or not the clock was set back in between -
\* except, by get_chat, messages of a second that a page ended in; by
\* search_messages, after a second with as many messages as a page.
WalkComplete == ~walk.on => walk.begun \subseteq walk.shown \cup LeftOut

\* The pages come to an end: no client is sent round in circles.
WalkEnds == walk.on ~> ~walk.on

=============================================================================
