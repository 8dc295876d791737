---------------------------- MODULE MCBridgeApi ----------------------------
(***************************************************************************)
(* Five messages of three seconds, three of them of the last, and pages of *)
(* three.  The clock is set back between the second and the third second,  *)
(* whose text comes before that of the second.  One message has media, two *)
(* requests ask for it.                                                    *)
(***************************************************************************)
EXTENDS BridgeApi

CONSTANTS a, b, c, d, e, n1, n2, r1, r2, live, history

MCIds == {a, b, c, d, e}
MCTimeOf == [i \in MCIds |-> CASE i = a -> 1 [] i = b -> 2 [] OTHER -> 3]
MCTextOf == [t \in 1 .. 3 |-> CASE t = 1 -> 1 [] t = 2 -> 3 [] t = 3 -> 2]
MCMedia == {a}
MCFileNames == {n1, n2}
MCRequests == {r1, r2}
MCHandlers == {live, history}

\* Bounds of the search: the client walks a chat of one name of which no media
\* was asked for, and media are asked for in such a chat.  The three share only
\* the rows, which change beside each of them.
MediaUntouched ==
    /\ fetch = [r \in Requests |-> Idle]
    /\ \A p \in Paths : file[p] = "absent"
NameUntouched == isGroup /\ rowName = Unnamed /\ resolved = [h \in Handlers |-> Unnamed]
Bounds ==
    /\ walk = NoWalk \/ MediaUntouched
    /\ NameUntouched \/ (walk = NoWalk /\ MediaUntouched)

=============================================================================
