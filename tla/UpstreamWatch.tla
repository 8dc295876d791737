--------------------------- MODULE UpstreamWatch ---------------------------
(***************************************************************************)
(* The daily watch over whatsmeow's commits, scripts/upstream-watch.sh:    *)
(* the owner is told of those whose title has one of the keywords.  The    *)
(* commits are numbered as they land; the first page of them is looked at, *)
(* and an alert has room for some lines.  Whether an alert reached anybody  *)
(* the script does not ask.  The last commit looked at is in a state file, *)
(* which is emptied and written in place, and which every run sources.     *)
(***************************************************************************)
EXTENDS Naturals, FiniteSets

CONSTANTS
    Interesting,    \* commits with a keyword in their title
    PerPage,        \* per_page=30
    Lines           \* head -10

VARIABLES
    stateFile,  \* the commit in it, or NoSha
    torn,       \* it ends within an assignment: under set -e no run gets past it
    watch,      \* the script: how far it is, WHATSMEOW_LAST_SHA and LATEST_SHA
    told,       \* history variable: commits named in an alert that arrived
    excused     \* history variable: those before a first run, too many for a page
                \* or an alert, or in an alert that reached nobody

watchVars == <<stateFile, torn, watch, told, excused>>

NoSha == 0
Asleep == [at |-> "asleep", last |-> NoSha, head |-> NoSha]

WatchInit ==
    /\ stateFile = NoSha /\ torn = FALSE /\ watch = Asleep
    /\ told = {} /\ excused = {}

-----------------------------------------------------------------------------

New == (watch.last + 1) .. watch.head
OnPage == {c \in New : c + PerPage > watch.head}
Listed ==
    {c \in OnPage \cap Interesting :
        Cardinality((c .. watch.head) \cap Interesting) <= Lines}

\* A plausible bug: the state is written before the alert.
PollsAndWrites(latest) ==
    /\ watch = Asleep /\ ~torn
    /\ \E head \in {latest, stateFile} :
         /\ watch' = [at |-> "polled", last |-> stateFile, head |-> head]
         /\ stateFile' = head
    /\ UNCHANGED <<torn, told, excused>>

\* A page is fetched.  Without one the run goes on to write what it has read.
Polls(latest) ==
    /\ watch = Asleep /\ ~torn
    /\ \E head \in {latest, stateFile} :
         watch' = [at |-> "polled", last |-> stateFile, head |-> head]
    /\ UNCHANGED <<stateFile, torn, told, excused>>

\* The first run only notes where it starts.  Later ones alert of what is listed.
\* Without a topic, or where curl fails (|| true), the alert reaches nobody, and the
\* run goes on all the same.
Alerts ==
    /\ watch.at = "polled"
    /\ watch' = [watch EXCEPT !.at = "alerted"]
    /\ IF watch.last = NoSha
       THEN UNCHANGED told /\ excused' = excused \cup New
       ELSE \E heard \in {Listed, {}} :
              told' = told \cup heard /\ excused' = excused \cup (New \ heard)
    /\ UNCHANGED <<stateFile, torn>>

WritesState ==
    /\ watch.at = "alerted"
    /\ stateFile' = watch.head /\ watch' = Asleep
    /\ UNCHANGED <<torn, told, excused>>

\* The script is killed, or the machine stops: also in the middle of the write,
\* which leaves a file that names no commit, or one that cannot be sourced.
WatchCutOff ==
    /\ \/ UNCHANGED <<stateFile, torn>>
       \/ watch.at = "alerted" /\ stateFile' = NoSha /\ torn' \in BOOLEAN
    /\ watch' = Asleep
    /\ UNCHANGED <<told, excused>>

Watches(latest) == Polls(latest) \/ Alerts \/ WritesState

-----------------------------------------------------------------------------

\* Wherever a run is cut off, or finds no page, the state file does not move past
\* a commit with a keyword that no alert was sent for (it may be sent twice).  This
\* is not to say that the owner heard of it: the script takes for old also what was
\* there at a first run, what a page or an alert had no room for, and what was in an
\* alert that reached nobody.
NoneTakenForOld == Interesting \cap (1 .. stateFile) \subseteq told \cup excused

=============================================================================
