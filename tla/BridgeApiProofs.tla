-------------------------- MODULE BridgeApiProofs --------------------------
(***************************************************************************)
(* Proofs about the bridge's API on one chat, for every set of messages,   *)
(* every order of their times and of the texts, every page size and any    *)
(* number of requests and handlers.                                        *)
(***************************************************************************)
EXTENDS BridgeApi, FiniteSetTheorems, TLAPS

\* Every set of natural numbers has a least one.
LEMMA LeastNatural ==
    ASSUME NEW S \in SUBSET Nat, S # {}
    PROVE  \E m \in S : \A n \in S : m <= n
<1>1. PICK m \in S : \A n \in S : ~ (<<n, m>> \in OpToRel(<, Nat))
  BY NatLessThanWellFounded, WFMin
<1>2. \A n \in S : n < m => <<n, m>> \in OpToRel(<, Nat)
  BY DEF OpToRel
<1>3. \A n \in S : ~ (n < m)
  BY <1>1, <1>2, Zenon
<1> QED
  BY <1>3

-----------------------------------------------------------------------------
(***************************************************************************)
(* Pages                                                                   *)
(***************************************************************************)

\* A message has a time and the text by which SQLite compares it; the query without
\* a cursor is none of the times.
LEMMA TextFacts ==
    ASSUME NEW i \in Ids
    PROVE  /\ TimeOf[i] \in Times /\ TimeOf[i] # Newest
           /\ Text(i) = TextOf[TimeOf[i]] /\ Text(i) \in Nat
BY PagesAssumption DEF Times, Text, Newest

\* The last message of a page is one of it, and none of it comes later.
LEMMA LastFacts ==
    ASSUME NEW page \in SUBSET Ids, page # {}
    PROVE  Last(page) \in page /\ \A j \in page : Text(Last(page)) <= Text(j)
<1> DEFINE texts == {Text(i) : i \in page}
<1>1. texts \in SUBSET Nat /\ texts # {}
  BY TextFacts
<1>2. PICK m \in texts : \A n \in texts : m <= n
  BY <1>1, LeastNatural
<1>3. \E i \in page : \A j \in page : Text(i) <= Text(j)
  BY <1>2
<1> QED
  BY <1>3 DEF Last

\* A page is full, or it has all rows; the rows it leaves are not newer.
LEMMA PageFacts ==
    ASSUME NEW rows \in SUBSET Ids, NEW page \in NewestOf(rows)
    PROVE  /\ page \subseteq rows
           /\ \A i \in page, j \in rows \ page : Text(i) >= Text(j)
           /\ Cardinality(page) < Limit => page = rows
           /\ ~(Cardinality(page) < Limit) => Cardinality(page) = Limit /\ page # {}
<1>1. IsFiniteSet(rows) /\ Cardinality(rows) \in Nat /\ Limit \in Nat \ {0}
  BY PagesAssumption, FS_Subset, FS_CardinalityType
<1>2. /\ page \subseteq rows
      /\ Cardinality(page) = IF Cardinality(rows) < Limit THEN Cardinality(rows) ELSE Limit
      /\ \A i \in page, j \in rows \ page : Text(i) >= Text(j)
  BY DEF NewestOf
<1>3. Cardinality(page) < Limit => page = rows
  BY <1>1, <1>2, FS_Subset
<1>4. Cardinality({}) = 0
  BY FS_EmptySet
<1> QED
  BY <1>1, <1>2, <1>3, <1>4

\* The next cursor is the time of a message of the page; of a search, of its last.
LEMMA CursorFacts ==
    ASSUME NEW page \in SUBSET Ids, page # {}, NEW by, NEW t \in Cursors(page, by)
    PROVE  /\ t \in Times /\ t # Newest
           /\ \E i \in page : t = TimeOf[i]
           /\ by # "before" => \A j \in page : TextOf[t] <= Text(j)
<1>1. \E i \in page : t = TimeOf[i]
  BY LastFacts DEF Cursors
<1>2. by # "before" => \A j \in page : TextOf[t] <= Text(j)
  BY LastFacts, TextFacts DEF Cursors
<1> QED
  BY <1>1, <1>2, TextFacts

-----------------------------------------------------------------------------
(***************************************************************************)
(* The walk.  While it is on, what it has still to show lies below its     *)
(* cursor, in the order of the texts; a walk by search_messages has shown  *)
(* nothing below it, so a page that repeats what was shown is one second.  *)
(***************************************************************************)

Ahead(i) ==
    \/ walk.cursor = Newest
    \/ walk.by = "before" /\ Text(i) < TextOf[walk.cursor]
    \/ walk.by = "until" /\ Text(i) <= TextOf[walk.cursor]

WalkInv ==
    /\ walk \in Walks /\ stored \subseteq Ids
    /\ walk.cursor # Newest => walk.cursor \in walk.cuts
    /\ \A i \in walk.begun : i \in stored
    /\ walk.on => \A i \in walk.begun : i \in walk.shown \cup LeftOut \/ Ahead(i)
    /\ walk.on /\ walk.by = "until" =>
         \A i \in walk.shown :
            walk.cursor # Newest /\ TextOf[walk.cursor] <= Text(i)
    /\ WalkComplete

\* A message left out of a walk stays left out: seconds only get fuller.
LEMMA LeftOutGrows ==
    ASSUME stored \subseteq stored', stored' \subseteq Ids,
           walk'.by = walk.by, walk.cuts \subseteq walk'.cuts
    PROVE  LeftOut \subseteq LeftOut'
<1>1. ASSUME NEW t, Cardinality({i \in stored : TimeOf[i] = t}) >= Limit
      PROVE  Cardinality({i \in stored' : TimeOf[i] = t}) >= Limit
  <2> DEFINE old == {i \in stored : TimeOf[i] = t}
             new == {i \in stored' : TimeOf[i] = t}
  <2>1. old \subseteq new /\ new \subseteq Ids
    OBVIOUS
  <2>2. IsFiniteSet(new) /\ IsFiniteSet(old) /\ Cardinality(old) <= Cardinality(new)
    BY <2>1, PagesAssumption, FS_Subset
  <2>3. Cardinality(old) \in Nat /\ Cardinality(new) \in Nat /\ Limit \in Nat
    BY <2>2, PagesAssumption, FS_CardinalityType
  <2>4. Cardinality(old) >= Limit
    BY <1>1
  <2> HIDE DEF old, new
  <2>5. Cardinality(new) >= Limit
    BY <2>2, <2>3, <2>4
  <2> QED
    BY <2>5 DEF new
<1>2. CASE walk.by = "before"
  BY <1>2 DEF LeftOut
<1>3. CASE walk.by # "before"
  BY <1>1, <1>3 DEF LeftOut
<1> QED
  BY <1>2, <1>3

\* Messages are stored beside the walk.
LEMMA WalkStores ==
    ASSUME WalkInv, UNCHANGED walk, stored \subseteq stored', stored' \subseteq Ids
    PROVE  WalkInv'
<1>1. LeftOut \subseteq LeftOut'
  BY LeftOutGrows
<1> QED
  BY <1>1 DEF WalkInv, WalkComplete, Ahead

\* A walk begins with what is stored and has shown nothing.
LEMMA WalkBeginsInv == WalkInv /\ WalkBegins => WalkInv'
<1> SUFFICES ASSUME WalkInv, WalkBegins PROVE WalkInv'
  OBVIOUS
<1>1. PICK by \in {"before", "until"} :
        walk' = [NoWalk EXCEPT !.on = TRUE, !.by = by, !.begun = stored]
  BY DEF WalkBegins
<1>2. walk' = [on |-> TRUE, by |-> by, cursor |-> Newest, shown |-> {}, begun |-> stored, cuts |-> {}]
  BY <1>1 DEF NoWalk
<1> QED
  BY <1>2 DEF WalkBegins, WalkInv, WalkComplete, Ahead, Walks

\* A page shows what stands next in the order of the texts, or ends the walk: what a
\* walk by seconds leaves out are messages of a second that was cut.
LEMMA NextPageInv == WalkInv /\ NextPage => WalkInv'
<1> SUFFICES ASSUME WalkInv, NextPage PROVE WalkInv'
  OBVIOUS
<1> DEFINE rows == {i \in stored : walk.cursor = Newest \/
                      IF walk.by = "before" THEN Text(i) < TextOf[walk.cursor]
                                            ELSE Text(i) <= TextOf[walk.cursor]}
<1>1. rows \in SUBSET Ids
  BY DEF WalkInv
<1>2. PICK page \in NewestOf(rows) :
         IF LastPage(page)
         THEN walk' = [walk EXCEPT !.on = FALSE, !.shown = @ \cup page]
         ELSE \E t \in Cursors(page, walk.by) :
                walk' = [walk EXCEPT !.cursor = t, !.shown = @ \cup page,
                                     !.cuts = @ \cup {t}]
  BY DEF NextPage, GetMessages, SearchMessages
<1>3. /\ page \subseteq rows
      /\ \A i \in page, j \in rows \ page : Text(i) >= Text(j)
      /\ Cardinality(page) < Limit => page = rows
      /\ ~(Cardinality(page) < Limit) => Cardinality(page) = Limit /\ page # {}
  <2> HIDE DEF rows
  <2> QED
    BY <1>1, PageFacts
<1>4. UNCHANGED stored /\ walk.on
  BY DEF NextPage
<1>5. walk \in Walks /\ stored \subseteq Ids /\ walk.begun \subseteq stored
  BY DEF WalkInv
<1>6. \A i \in walk.begun : i \in walk.shown \cup LeftOut \cup rows
  BY <1>4, <1>5 DEF WalkInv, Ahead
<1>7. CASE LastPage(page)
  <2>1. walk' = [on |-> FALSE, by |-> walk.by, cursor |-> walk.cursor,
                 shown |-> walk.shown \cup page, begun |-> walk.begun, cuts |-> walk.cuts]
    BY <1>2, <1>5, <1>7 DEF Walks
  <2>2. LeftOut' = LeftOut
    BY <1>4, <2>1 DEF LeftOut
  <2>3. walk.begun \subseteq walk.shown \cup page \cup LeftOut
    <3>1. CASE Cardinality(page) < Limit
      BY <1>3, <1>6, <3>1
    <3>2. CASE walk.by = "until" /\ page \subseteq walk.shown /\ ~(Cardinality(page) < Limit)
      <4>1. page # {} /\ Cardinality(page) = Limit
        BY <1>3, <3>2
      <4>2. /\ walk.cursor # Newest /\ walk.cursor \in walk.cuts /\ walk.cursor \in Times
            /\ \A i \in page : TextOf[walk.cursor] <= Text(i)
        BY <1>4, <1>5, <3>2, <4>1 DEF WalkInv, Walks
      <4>3. \A i \in page : Text(i) <= TextOf[walk.cursor]
        BY <1>3, <3>2, <4>2
      <4>4. ASSUME NEW i \in page PROVE TimeOf[i] = walk.cursor
        <5>1. i \in Ids
          BY <1>1, <1>3
        <5>2. TextOf[TimeOf[i]] = TextOf[walk.cursor] /\ TimeOf[i] \in Times
          BY <4>2, <4>3, <5>1, TextFacts, PagesAssumption
        <5> QED
          BY <4>2, <5>2, PagesAssumption
      <4> DEFINE second == {i \in stored : TimeOf[i] = walk.cursor}
      <4>5. page \subseteq second /\ second \subseteq Ids
        BY <1>3, <1>5, <4>4
      <4>6. Cardinality(second) >= Limit
        <5>1. IsFiniteSet(second) /\ Cardinality(page) <= Cardinality(second)
          BY <4>5, PagesAssumption, FS_Subset
        <5>2. Cardinality(second) \in Nat
          BY <5>1, FS_CardinalityType
        <5> QED
          BY <4>1, <5>1, <5>2, PagesAssumption
      <4>7. LeftOut = Ids
        BY <3>2, <4>2, <4>6 DEF LeftOut
      <4> QED
        BY <1>5, <4>7
    <3> QED
      BY <1>7, <3>1, <3>2 DEF LastPage
  <2>4. walk' \in Walks
    BY <1>1, <1>3, <1>5, <2>1 DEF Walks
  <2> QED
    BY <1>4, <1>5, <2>1, <2>2, <2>3, <2>4 DEF WalkInv, WalkComplete
<1>8. CASE ~LastPage(page)
  <2>1. page \in SUBSET Ids /\ page # {}
    BY <1>1, <1>3, <1>8 DEF LastPage
  <2>2. PICK t \in Cursors(page, walk.by) :
          walk' = [walk EXCEPT !.cursor = t, !.shown = @ \cup page, !.cuts = @ \cup {t}]
    BY <1>2, <1>8
  <2>3. walk' = [on |-> TRUE, by |-> walk.by, cursor |-> t, shown |-> walk.shown \cup page,
                 begun |-> walk.begun, cuts |-> walk.cuts \cup {t}]
    BY <1>4, <1>5, <2>2 DEF Walks
  <2>4. /\ t \in Times /\ t # Newest
        /\ \E i \in page : t = TimeOf[i]
        /\ walk.by # "before" => \A j \in page : TextOf[t] <= Text(j)
    BY <2>1, CursorFacts
  <2>5. LeftOut \subseteq LeftOut'
    BY <1>4, <1>5, <2>3, LeftOutGrows
  <2>6. ASSUME NEW i \in rows \ page PROVE i \in LeftOut' \/ Ahead(i)'
    <3>1. PICK j \in page : t = TimeOf[j]
      BY <2>4
    <3>2. i \in Ids /\ j \in Ids /\ TimeOf[i] \in Times
      BY <1>1, <2>1, TextFacts
    <3>3. Text(i) <= TextOf[t] /\ TextOf[t] \in Nat /\ Text(i) \in Nat
      BY <1>3, <3>1, <3>2, TextFacts
    <3>4. CASE walk.by = "until"
      BY <2>3, <3>3, <3>4 DEF Ahead
    <3>5. CASE walk.by = "before" /\ Text(i) < TextOf[t]
      BY <2>3, <3>5 DEF Ahead, Text
    <3>6. CASE walk.by = "before" /\ TextOf[TimeOf[i]] = TextOf[t]
      <4>1. TimeOf[i] = t
        BY <2>4, <3>2, <3>6, PagesAssumption
      <4> QED
        BY <2>3, <3>2, <3>6, <4>1 DEF LeftOut
    <3> QED
      BY <1>5, <3>3, <3>4, <3>5, <3>6 DEF Walks, Text
  <2>7. ASSUME walk.by = "until", NEW i \in walk.shown \cup page PROVE TextOf[t] <= Text(i)
    <3>1. CASE i \in page
      BY <2>4, <2>7, <3>1
    <3>2. CASE i \in walk.shown
      <4>1. walk.cursor \in Times /\ TextOf[walk.cursor] <= Text(i) /\ walk.cursor # Newest
        BY <1>4, <1>5, <2>7, <3>2 DEF WalkInv, Walks
      <4>2. PICK j \in page : t = TimeOf[j]
        BY <2>4
      <4>3. TextOf[t] <= TextOf[walk.cursor]
        BY <1>3, <2>7, <4>1, <4>2 DEF Text
      <4>4. i \in Ids /\ TextOf[t] \in Nat /\ TextOf[walk.cursor] \in Nat
        BY <1>5, <2>4, <3>2, <4>1, PagesAssumption DEF Walks
      <4> QED
        BY <4>1, <4>3, <4>4, TextFacts
    <3> QED
      BY <3>1, <3>2
  <2>8. walk' \in Walks
    BY <1>5, <2>1, <2>3, <2>4 DEF Walks
  <2> QED
    BY <1>4, <1>5, <1>6, <2>3, <2>4, <2>5, <2>6, <2>7, <2>8 DEF WalkInv, WalkComplete
<1> QED
  BY <1>7, <1>8

\* A step of the chat stores messages, is one of the walk, or leaves both alone.
LEMMA StoredSteps ==
    ASSUME WalkInv, conversation \subseteq Ids, [Next]_vars
    PROVE  \/ Walk
           \/ UNCHANGED walk /\ stored \subseteq stored' /\ stored' \subseteq Ids
<1> USE DEF WalkInv
<1>1. CASE Receives
  BY <1>1 DEF Receives, Stores
<1>2. CASE handleSend
  BY <1>2 DEF handleSend
<1>3. CASE handleResync
  BY <1>3 DEF handleResync
<1>4. CASE HistoryStores
  BY <1>4 DEF HistoryStores, Stores
<1>5. CASE Crash
  BY <1>5 DEF Crash
<1>6. CASE ServesMedia
  BY <1>6 DEF ServesMedia
<1>7. CASE NamesIt
  BY <1>7 DEF NamesIt
<1>8. CASE UNCHANGED vars
  BY <1>8 DEF vars
<1> QED
  BY <1>1, <1>2, <1>3, <1>4, <1>5, <1>6, <1>7, <1>8 DEF Next

-----------------------------------------------------------------------------
(***************************************************************************)
(* Media requests                                                          *)
(***************************************************************************)

Ongoing == [at : {"found", "missing", "downloaded", "writing"}, path : Paths]

\* A request is none, or under way with the path of a file.
LEMMA FetchFacts ==
    ASSUME MediaTypeOK, NEW r \in Requests
    PROVE  /\ fetch[r] = Idle \/ fetch[r] \in Ongoing
           /\ fetch[r].at # "idle" => fetch[r] \in Ongoing /\ fetch[r].path \in Paths
           /\ fetch[r].at = "idle" => fetch[r] = Idle
<1>1. fetch[r] \in Fetches
  BY DEF MediaTypeOK
<1> QED
  BY <1>1 DEF Fetches, Ongoing, Idle

\* A request goes on with its path.
LEMMA GoesFacts ==
    ASSUME MediaTypeOK, NEW r \in Requests,
           NEW from \in {"found", "missing", "downloaded"},
           NEW to \in {"missing", "downloaded", "writing"}, Goes(r, from, to)
    PROVE  /\ fetch' \in [Requests -> Fetches]
           /\ fetch[r].path \in Paths
           /\ fetch'[r] = [at |-> to, path |-> fetch[r].path]
           /\ \A q \in Requests \ {r} : fetch'[q] = fetch[q]
<1>1. fetch[r] \in Ongoing
  BY FetchFacts DEF Goes
<1>2. [fetch[r] EXCEPT !.at = to] = [at |-> to, path |-> fetch[r].path]
  BY <1>1 DEF Ongoing
<1>3. fetch' = [fetch EXCEPT ![r] = [at |-> to, path |-> fetch[r].path]]
  BY <1>2 DEF Goes
<1>4. [at |-> to, path |-> fetch[r].path] \in Fetches
  BY <1>1 DEF Ongoing, Fetches
<1> QED
  BY <1>1, <1>3, <1>4 DEF MediaTypeOK, Ongoing

\* A request ends.
LEMMA AnswersFacts ==
    ASSUME MediaTypeOK, NEW r \in Requests,
           NEW from \in {"found", "missing", "downloaded", "writing"}, Answers(r, from)
    PROVE  /\ fetch' \in [Requests -> Fetches]
           /\ fetch[r].path \in Paths /\ fetch[r] = [at |-> from, path |-> fetch[r].path]
           /\ fetch'[r] = Idle
           /\ \A q \in Requests \ {r} : fetch'[q] = fetch[q]
<1>1. fetch[r] \in Ongoing
  BY FetchFacts DEF Answers
<1> QED
  BY <1>1 DEF Answers, MediaTypeOK, Fetches, Ongoing

\* The path of a request is that of the row it looked at, until it ends.
LEMMA PathKept ==
    ASSUME MediaTypeOK, NEW r \in Requests
    PROVE  /\ Goes(r, "found", "missing") => fetch'[r].path = fetch[r].path
           /\ Goes(r, "missing", "downloaded") => fetch'[r].path = fetch[r].path
           /\ Goes(r, "downloaded", "writing") => fetch'[r].path = fetch[r].path
           /\ \A from : Answers(r, from) => fetch'[r].at = "idle"
<1>1. \A from \in {"found", "missing", "downloaded"}, to \in {"missing", "downloaded", "writing"} :
         Goes(r, from, to) => fetch'[r] = [at |-> to, path |-> fetch[r].path]
  BY GoesFacts
<1>2. \A from : Answers(r, from) => fetch'[r].at = "idle"
  BY DEF Answers, MediaTypeOK, Idle
<1> QED
  BY <1>1, <1>2

\* One step per action of handleMedia.
LEMMA MediaTypeStep == MediaTypeOK /\ HandleMedia => MediaTypeOK'
<1> SUFFICES ASSUME MediaTypeOK, NEW r \in Requests,
                    \/ Looks(r) \/ Hits(r) \/ Misses(r) \/ Downloads(r)
                    \/ WriteBegins(r) \/ WriteEnds(r) \/ WriteFails(r)
             PROVE  MediaTypeOK'
  BY DEF HandleMedia
<1>1. CASE Looks(r)
  <2>1. PICK id \in Media :
          /\ filename[id] # NoFile
          /\ fetch' = [fetch EXCEPT ![r] = [at |-> "found", path |-> <<id, filename[id]>>]]
    BY <1>1 DEF Looks
  <2>2. [at |-> "found", path |-> <<id, filename[id]>>] \in Fetches
    BY <2>1 DEF MediaTypeOK, Fetches, Paths
  <2> QED
    BY <1>1, <2>1, <2>2 DEF Looks, MediaTypeOK
<1>2. CASE Hits(r)
  BY <1>2, AnswersFacts DEF Hits, MediaTypeOK
<1>3. CASE Misses(r)
  BY <1>3, GoesFacts DEF Misses, MediaTypeOK
<1>4. CASE Downloads(r)
  BY <1>4, GoesFacts, AnswersFacts DEF Downloads, MediaTypeOK
<1>5. CASE WriteBegins(r)
  BY <1>5, GoesFacts, AnswersFacts DEF WriteBegins, MediaTypeOK
<1>6. CASE WriteEnds(r)
  BY <1>6, AnswersFacts DEF WriteEnds, MediaTypeOK
<1>7. CASE WriteFails(r)
  BY <1>7, AnswersFacts DEF WriteFails, MediaTypeOK
<1> QED
  BY <1>1, <1>2, <1>3, <1>4, <1>5, <1>6, <1>7

\* The rows of the media and their file names change together.
LEMMA StoresType ==
    ASSUME TypeOK, NEW i \in Ids, Stores(i)
    PROVE  /\ filename' \in [Media -> FileNames \cup {NoFile}]
           /\ \A j \in Media : filename'[j] = NoFile <=> j \notin stored'
<1>1. CASE i \in Media
  <2>1. PICK n \in FileNames : filename' = [filename EXCEPT ![i] = n]
    BY <1>1 DEF Stores
  <2> QED
    BY <1>1, <2>1, NoFileAssumption DEF Stores, TypeOK, MediaTypeOK
<1>2. CASE i \notin Media
  BY <1>2 DEF Stores, TypeOK, MediaTypeOK
<1> QED
  BY <1>1, <1>2

\* One step per action of resolveChatName and its callers.
LEMMA NamesTypeStep == NamesTypeOK /\ NamesChat => NamesTypeOK'
<1> SUFFICES ASSUME NamesTypeOK, NamesChat PROVE NamesTypeOK'
  OBVIOUS
<1> USE DEF NamesTypeOK, Names
<1>1. CASE ContactArrives
  BY <1>1 DEF ContactArrives
<1>2. ASSUME NEW h \in Handlers, resolveChatName(h) PROVE NamesTypeOK'
  <2>1. UNCHANGED <<isGroup, rowName>> /\ contact' \in BOOLEAN
    BY <1>2 DEF resolveChatName
  <2>2. resolved' \in [Handlers -> Names]
    BY <1>2 DEF resolveChatName, FindsName
  <2> QED
    BY <2>1, <2>2
<1>3. ASSUME NEW h \in Handlers, WritesName(h) PROVE NamesTypeOK'
  BY <1>3 DEF WritesName
<1>4. ASSUME NEW h \in Handlers, HandlerEnds(h) PROVE NamesTypeOK'
  BY <1>4 DEF HandlerEnds, FindsName
<1> QED
  BY <1>1, <1>2, <1>3, <1>4 DEF NamesChat

Inv == TypeOK /\ WalkInv

\* A chat begins empty, without a walk, a file or a request.
LEMMA InvInit == Init => Inv
<1> SUFFICES ASSUME Init PROVE Inv
  OBVIOUS
<1>1. NoWalk \in Walks
  BY DEF NoWalk, Walks
<1>2. MediaTypeOK
  BY DEF Init, MediaInit, MediaTypeOK, Fetches
<1>3. NamesTypeOK
  BY DEF Init, NamesInit
<1>4. TypeOK
  BY <1>1, <1>2, <1>3 DEF Init, TypeOK
<1>5. WalkInv
  BY <1>1, <1>4 DEF Init, TypeOK, NoWalk, WalkInv, WalkComplete
<1> QED
  BY <1>4, <1>5 DEF Inv

\* Every step of the API on a chat keeps the types and what a walk has shown.
LEMMA InvStep == Inv /\ [Next]_vars => Inv'
<1> SUFFICES ASSUME Inv, [Next]_vars PROVE Inv'
  OBVIOUS
<1> USE DEF Inv
<1>1. WalkInv'
  BY StoredSteps, WalkStores, WalkBeginsInv, NextPageInv DEF TypeOK, Walk
<1>2. CASE Receives
  <2>1. PICK i \in Ids \ conversation : Stores(i) /\ conversation' = conversation \cup {i}
    BY <1>2 DEF Receives
  <2>2. NamesTypeOK'
    BY <1>2 DEF Receives, TypeOK, NamesTypeOK, nameVars
  <2>3. stored' = stored \cup {i} /\ UNCHANGED <<walk, file, fetch, torn, anchor>>
    BY <1>2, <2>1 DEF Receives, Stores
  <2> QED
    BY <1>1, <2>1, <2>2, <2>3, StoresType DEF TypeOK, MediaTypeOK
<1>3. CASE handleSend
  BY <1>1, <1>3 DEF handleSend, TypeOK, MediaTypeOK, NamesTypeOK, mediaVars, nameVars
<1>4. CASE handleResync
  <2>1. anchor' \in Times
    BY <1>4, TextFacts DEF handleResync, TypeOK
  <2> QED
    BY <1>1, <1>4, <2>1 DEF handleResync, TypeOK, MediaTypeOK, NamesTypeOK, mediaVars, nameVars
<1>5. CASE HistoryStores
  <2>1. PICK i \in conversation : Stores(i)
    BY <1>5 DEF HistoryStores
  <2>2. NamesTypeOK'
    BY <1>5 DEF HistoryStores, TypeOK, NamesTypeOK, nameVars
  <2>3. stored' = stored \cup {i} /\ UNCHANGED <<walk, file, fetch, torn, conversation, anchor>>
    BY <1>5, <2>1 DEF HistoryStores, Stores
  <2> QED
    BY <1>1, <2>1, <2>2, <2>3, StoresType DEF TypeOK, MediaTypeOK
<1>6. CASE Crash
  <2>1. MediaTypeOK'
    BY <1>6 DEF Crash, RequestsLost, TypeOK, MediaTypeOK, Fetches
  <2>2. NamesTypeOK'
    BY <1>6 DEF Crash, TypeOK, NamesTypeOK, Names
  <2> QED
    BY <1>1, <1>6, <2>1, <2>2 DEF Crash, RequestsLost, TypeOK
<1>7. CASE Walk
  BY <1>1, <1>7 DEF Walk, WalkBegins, NextPage, WalkInv, TypeOK, MediaTypeOK, NamesTypeOK,
                    mediaVars, nameVars
<1>8. CASE ServesMedia
  <2>1. MediaTypeOK' /\ UNCHANGED filename
    BY <1>8, MediaTypeStep DEF ServesMedia, TypeOK, HandleMedia, Looks, Hits, Misses,
                               Downloads, WriteBegins, WriteEnds, WriteFails
  <2> QED
    BY <1>1, <1>8, <2>1 DEF ServesMedia, TypeOK, NamesTypeOK, nameVars
<1>9. CASE NamesIt
  <2>1. NamesTypeOK'
    BY <1>9, NamesTypeStep DEF NamesIt, TypeOK
  <2> QED
    BY <1>1, <1>9, <2>1 DEF NamesIt, TypeOK, MediaTypeOK, mediaVars
<1>10. CASE UNCHANGED vars
  BY <1>1, <1>10 DEF vars, TypeOK, MediaTypeOK, NamesTypeOK, mediaVars, nameVars
<1> QED
  BY <1>2, <1>3, <1>4, <1>5, <1>6, <1>7, <1>8, <1>9, <1>10 DEF Next

\* So both hold throughout.
LEMMA Invariant == Spec => []Inv
BY InvInit, InvStep, PTL DEF Spec

\* The type of everything the API keeps of a chat, with a file name for exactly
\* the media messages that have a row.
THEOREM TypeCorrect == Spec => []TypeOK
<1>1. Inv => TypeOK
  BY DEF Inv
<1> QED
  BY <1>1, Invariant, PTL

\* A walk to the end has shown what was there when it began, but for what
\* WalkComplete says a walk by seconds must leave out - for any size of page, any
\* order of the texts, and messages stored at any time.
THEOREM WalkCompleteHolds == Spec => []WalkComplete
<1>1. Inv => WalkComplete
  BY DEF Inv, WalkInv
<1> QED
  BY <1>1, Invariant, PTL

-----------------------------------------------------------------------------
(***************************************************************************)
(* The files of the cache                                                  *)
(***************************************************************************)

\* What is not a step of handleMedia or a crash leaves the cache alone.
LEMMA CacheSteps ==
    ASSUME [Next]_vars
    PROVE  \/ \E r \in Requests : Looks(r) \/ Hits(r) \/ Misses(r) \/ Downloads(r)
           \/ \E r \in Requests : WriteBegins(r)
           \/ \E r \in Requests : WriteEnds(r)
           \/ \E r \in Requests : WriteFails(r)
           \/ RequestsLost
           \/ UNCHANGED <<file, fetch, torn>>
BY DEF Next, vars, Receives, handleSend, handleResync, HistoryStores, Crash, Walk,
       ServesMedia, HandleMedia, NamesIt, mediaVars

\* handleMedia, a failing disk and a crash: a file in part has a request that is
\* writing it, or was torn.
LEMMA PartStep == MediaTypeOK /\ PartIsExplained /\ [Next]_vars => PartIsExplained'
<1> SUFFICES ASSUME MediaTypeOK, PartIsExplained, [Next]_vars,
                    NEW p \in Paths, file'[p] = "part"
             PROVE  Writers(p)' # {} \/ p \in torn'
  BY DEF PartIsExplained
<1>1. ASSUME NEW r \in Requests, Looks(r) \/ Hits(r) \/ Misses(r) \/ Downloads(r)
      PROVE  Writers(p)' # {} \/ p \in torn'
  <2>1. UNCHANGED <<file, torn>>
    BY <1>1 DEF Looks, Hits, Misses, Downloads
  <2>2. \A q \in Requests \ {r} : fetch'[q] = fetch[q]
    BY <1>1 DEF Looks, Hits, Misses, Downloads, Goes, Answers, MediaTypeOK
  <2>3. fetch[r].at # "writing"
    BY <1>1 DEF Looks, Hits, Misses, Downloads, Goes, Answers, Idle
  <2> QED
    BY <2>1, <2>2, <2>3 DEF PartIsExplained, Writers
<1>2. ASSUME NEW r \in Requests, WriteBegins(r) PROVE Writers(p)' # {} \/ p \in torn'
  <2>1. CASE Goes(r, "downloaded", "writing") /\ file' = [file EXCEPT ![fetch[r].path] = "part"]
    <3>1. /\ fetch[r].path \in Paths /\ fetch'[r] = [at |-> "writing", path |-> fetch[r].path]
          /\ \A q \in Requests \ {r} : fetch'[q] = fetch[q]
      BY <2>1, GoesFacts
    <3>2. UNCHANGED torn
      BY <1>2 DEF WriteBegins
    <3>3. CASE p = fetch[r].path
      BY <3>1, <3>3 DEF Writers
    <3>4. CASE p # fetch[r].path
      <4>1. file[p] = "part" /\ fetch[r].at = "downloaded"
        BY <2>1, <3>4 DEF MediaTypeOK, Goes
      <4> QED
        BY <3>1, <3>2, <4>1 DEF PartIsExplained, Writers
    <3> QED
      BY <3>3, <3>4
  <2>2. CASE Answers(r, "downloaded") /\ UNCHANGED <<filename, file, torn>>
    <3>1. /\ fetch[r] = [at |-> "downloaded", path |-> fetch[r].path]
          /\ \A q \in Requests \ {r} : fetch'[q] = fetch[q]
      BY <2>2, AnswersFacts
    <3> QED
      BY <2>2, <3>1 DEF PartIsExplained, Writers
  <2> QED
    BY <1>2, <2>1, <2>2 DEF WriteBegins
<1>3. ASSUME NEW r \in Requests, WriteEnds(r) PROVE Writers(p)' # {} \/ p \in torn'
  <2>1. /\ fetch[r].path \in Paths /\ fetch[r] = [at |-> "writing", path |-> fetch[r].path]
        /\ fetch'[r] = Idle
        /\ \A q \in Requests \ {r} : fetch'[q] = fetch[q]
    BY <1>3, AnswersFacts DEF WriteEnds
  <2>2. CASE p = fetch[r].path
    <3>1. Writers(p) # {r} /\ UNCHANGED <<file, torn>>
      BY <1>3, <2>2 DEF WriteEnds, MediaTypeOK
    <3>2. r \in Writers(p)
      BY <2>1, <2>2 DEF Writers
    <3>3. PICK q \in Writers(p) : q # r
      BY <3>1, <3>2
    <3> QED
      BY <2>1, <3>3 DEF Writers
  <2>3. CASE p # fetch[r].path
    <3>1. file[p] = "part" /\ (p \in torn => p \in torn')
      BY <1>3, <2>1, <2>3 DEF WriteEnds, MediaTypeOK
    <3>2. \A q \in Writers(p) : q \in Writers(p)'
      BY <2>1, <2>3 DEF Writers
    <3> QED
      BY <3>1, <3>2 DEF PartIsExplained
  <2> QED
    BY <2>2, <2>3
<1>4. ASSUME NEW r \in Requests, WriteFails(r) PROVE Writers(p)' # {} \/ p \in torn'
  <2>1. /\ fetch[r].path \in Paths /\ fetch[r] = [at |-> "writing", path |-> fetch[r].path]
        /\ \A q \in Requests \ {r} : fetch'[q] = fetch[q]
    BY <1>4, AnswersFacts DEF WriteFails
  <2>2. torn' = torn \cup {fetch[r].path} /\ UNCHANGED file
    BY <1>4 DEF WriteFails
  <2>3. CASE p = fetch[r].path
    BY <2>2, <2>3
  <2>4. CASE p # fetch[r].path
    BY <2>1, <2>2, <2>4 DEF PartIsExplained, Writers
  <2> QED
    BY <2>3, <2>4
<1>5. CASE RequestsLost
  BY <1>5 DEF RequestsLost, PartIsExplained
<1>6. CASE UNCHANGED <<file, fetch, torn>>
  BY <1>6 DEF PartIsExplained, Writers
<1> QED
  BY CacheSteps, <1>1, <1>2, <1>3, <1>4, <1>5, <1>6

\* Part of a file is in the cache only while it is written or after its last write
\* broke off (PartIsExplained), however many requests write it side by side.
THEOREM PartIsExplainedHolds == Spec => []PartIsExplained
<1>1. Init => PartIsExplained
  BY DEF Init, MediaInit, PartIsExplained
<1>2. TypeOK /\ PartIsExplained /\ [Next]_vars => PartIsExplained'
  BY PartStep DEF TypeOK
<1> QED
  BY <1>1, <1>2, TypeCorrect, PTL DEF Spec

\* A whole file that no request found missing stays so: no step of a request, no
\* failing disk and no crash changes it (WholeForGood).
THEOREM WholeForGoodHolds == Spec => WholeForGood
<1>1. ASSUME MediaTypeOK, [Next]_vars, NEW p \in Paths, Settled(p)
      PROVE  Settled(p)'
  <2>0. file[p] = "whole" /\ file \in [Paths -> {"absent", "part", "whole"}]
    BY <1>1 DEF Settled, MediaTypeOK
  <2>1. ASSUME NEW r \in Requests, Looks(r) \/ Hits(r) \/ Misses(r) \/ Downloads(r)
        PROVE  Settled(p)'
    <3>1. UNCHANGED file
      BY <2>1 DEF Looks, Hits, Misses, Downloads
    <3>2. \A q \in Requests \ {r} : fetch'[q] = fetch[q]
      BY <1>1, <2>1 DEF Looks, Hits, Misses, Downloads, Goes, Answers, MediaTypeOK
    <3>3. fetch'[r].at \in {"missing", "downloaded", "writing"} => fetch'[r].path # p
      <4>1. CASE Looks(r)
        BY <1>1, <4>1 DEF Looks, MediaTypeOK
      <4>2. CASE Hits(r)
        BY <1>1, <4>2 DEF Hits, Answers, Idle, MediaTypeOK
      <4>3. CASE Misses(r)
        <5>1. fetch[r].path # p
          BY <2>0, <4>3 DEF Misses
        <5>2. fetch'[r].path = fetch[r].path
          BY <1>1, <4>3, PathKept DEF Misses
        <5> QED
          BY <5>1, <5>2
      <4>4. CASE Downloads(r)
        <5>1. fetch[r].path # p
          BY <1>1, <4>4 DEF Downloads, Goes, Answers, Settled
        <5>2. fetch'[r].path = fetch[r].path \/ fetch'[r].at = "idle"
          BY <1>1, <4>4, PathKept DEF Downloads
        <5> QED
          BY <5>1, <5>2
      <4> QED
        BY <2>1, <4>1, <4>2, <4>3, <4>4
    <3> QED
      BY <1>1, <3>1, <3>2, <3>3 DEF Settled
  <2>2. ASSUME NEW r \in Requests, WriteBegins(r) PROVE Settled(p)'
    <3>1. fetch[r].path # p
      BY <1>1, <2>2 DEF WriteBegins, Goes, Answers, Settled
    <3>2. file'[p] = "whole"
      BY <2>0, <2>2, <3>1 DEF WriteBegins
    <3>3. fetch'[r].at \in {"missing", "downloaded", "writing"} => fetch'[r].path # p
      <4>1. fetch'[r].path = fetch[r].path \/ fetch'[r].at = "idle"
        BY <1>1, <2>2, PathKept DEF WriteBegins
      <4> QED
        BY <3>1, <4>1
    <3>4. \A q \in Requests \ {r} : fetch'[q] = fetch[q]
      BY <1>1, <2>2 DEF WriteBegins, Goes, Answers, MediaTypeOK
    <3> QED
      BY <1>1, <3>2, <3>3, <3>4 DEF Settled
  <2>3. ASSUME NEW r \in Requests, WriteEnds(r) \/ WriteFails(r) PROVE Settled(p)'
    <3>1. fetch[r].path # p
      BY <1>1, <2>3 DEF WriteEnds, WriteFails, Answers, Settled
    <3>2. file'[p] = "whole"
      BY <2>0, <2>3, <3>1 DEF WriteEnds, WriteFails
    <3>3. fetch'[r].at = "idle" /\ \A q \in Requests \ {r} : fetch'[q] = fetch[q]
      BY <1>1, <2>3 DEF WriteEnds, WriteFails, Answers, MediaTypeOK, Idle
    <3> QED
      BY <1>1, <3>2, <3>3 DEF Settled
  <2>4. CASE RequestsLost
    BY <1>1, <2>4 DEF RequestsLost, Settled, Idle
  <2>5. CASE UNCHANGED <<file, fetch, torn>>
    BY <1>1, <2>5 DEF Settled
  <2> QED
    BY <1>1, CacheSteps, <2>1, <2>2, <2>3, <2>4, <2>5
<1>2. TypeOK /\ [Next]_vars => [\A p \in Paths : Settled(p) => Settled(p)']_mediaVars
  BY <1>1 DEF TypeOK
<1> QED
  BY <1>2, TypeCorrect, PTL DEF Spec, WholeForGood

-----------------------------------------------------------------------------
(***************************************************************************)
(* The name of the chat                                                    *)
(***************************************************************************)

\* A group has no contact: the second case of resolveChatName's UpsertContact.
NamesInv == isGroup => ~contact

\* What is not a step of resolveChatName or a crash leaves the names alone.
LEMMA NameSteps ==
    ASSUME [Next]_vars
    PROVE  \/ ContactArrives
           \/ \E h \in Handlers : resolveChatName(h)
           \/ \E h \in Handlers : WritesName(h)
           \/ \E h \in Handlers : HandlerEnds(h)
           \/ resolved' = [h \in Handlers |-> Unnamed] /\ UNCHANGED <<isGroup, contact, rowName>>
           \/ UNCHANGED nameVars
BY DEF Next, vars, Receives, handleSend, handleResync, HistoryStores, Crash, Walk,
       ServesMedia, NamesIt, NamesChat

\* Whoever writes a contact row, resolveChatName or SyncContacts, writes one of a person.
LEMMA NamesInvariant == Spec => []NamesInv
<1>1. Init => NamesInv
  BY DEF Init, NamesInit, NamesInv
<1>2. NamesInv /\ [Next]_vars => NamesInv'
  BY NameSteps DEF NamesInv, ContactArrives, resolveChatName, WritesName, HandlerEnds, nameVars
<1> QED
  BY <1>1, <1>2, PTL DEF Spec

\* Once a chat is listed under a real name and no handler goes about with a
\* stand-in found earlier, it stays so, whatever handlers follow (NameForGood).
THEOREM NameForGoodHolds == Spec => NameForGood
<1>1. ASSUME NamesTypeOK, NamesInv, [Next]_vars, NameSettled PROVE NameSettled'
  <2> USE <1>1 DEF NamesTypeOK, NamesInv, NameSettled, Shown
  <2>1. CASE ContactArrives
    BY <2>1 DEF ContactArrives
  <2>2. ASSUME NEW h \in Handlers, resolveChatName(h) PROVE NameSettled'
    <3>1. CASE contact
      BY <2>2, <3>1 DEF resolveChatName
    <3>2. CASE ~contact
      <4>1. rowName = Real /\ Real # Unnamed /\ Real # StandIn
        BY <3>2 DEF Real, Unnamed, StandIn
      <4>2. resolved' = [resolved EXCEPT ![h] = Real] /\ UNCHANGED rowName
        BY <2>2, <4>1 DEF resolveChatName, FindsName
      <4>3. \A g \in Handlers : resolved'[g] # StandIn
        BY <3>2, <4>1, <4>2
      <4> QED
        BY <4>1, <4>2, <4>3
    <3> QED
      BY <3>1, <3>2
  <2>3. ASSUME NEW h \in Handlers, WritesName(h) PROVE NameSettled'
    BY <2>3 DEF WritesName, Names, Real, StandIn, Unnamed
  <2>4. ASSUME NEW h \in Handlers, HandlerEnds(h) PROVE NameSettled'
    BY <2>4 DEF HandlerEnds, FindsName, Names, Real, StandIn, Unnamed
  <2>5. CASE resolved' = [h \in Handlers |-> Unnamed] /\ UNCHANGED <<isGroup, contact, rowName>>
    BY <2>5 DEF Real, StandIn, Unnamed
  <2>6. CASE UNCHANGED nameVars
    BY <2>6 DEF nameVars
  <2> QED
    BY NameSteps, <2>1, <2>2, <2>3, <2>4, <2>5, <2>6
<1>2. TypeOK /\ NamesInv /\ [Next]_vars => [NameSettled => NameSettled']_nameVars
  BY <1>1 DEF TypeOK
<1> QED
  BY <1>2, TypeCorrect, NamesInvariant, PTL DEF Spec, NameForGood

=============================================================================
