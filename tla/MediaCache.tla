----------------------------- MODULE MediaCache -----------------------------
(***************************************************************************)
(* GET /media/:messageId (handleMedia in bridge/api.go): the file is read  *)
(* from the cache directory, or downloaded, written there and answered.    *)
(* Requests run side by side and nothing locks a file; os.WriteFile        *)
(* empties it first and fills it in place.  A message's file name is       *)
(* chosen anew whenever the message is stored (extractMediaInfo puts the   *)
(* clock into it), and the path is made of both.                           *)
(***************************************************************************)
CONSTANTS
    Media,      \* the messages with media
    FileNames,  \* file names extractMediaInfo may choose
    NoFile,     \* the message has no row
    Requests    \* goroutines that serve GET /media

ASSUME NoFileAssumption == NoFile \notin FileNames

VARIABLES
    filename, \* the filename column of each message
    file,     \* the cache directory
    fetch,    \* handleMedia in progress
    torn      \* history variable: the files whose last write broke off

mediaVars == <<filename, file, fetch, torn>>
Paths == Media \X FileNames

Idle == [at |-> "idle"]
Fetches == {Idle} \cup [at : {"found", "missing", "downloaded", "writing"}, path : Paths]
Writers(p) == {r \in Requests : fetch[r] = [at |-> "writing", path |-> p]}

MediaTypeOK ==
    /\ filename \in [Media -> FileNames \cup {NoFile}]
    /\ file \in [Paths -> {"absent", "part", "whole"}]
    /\ fetch \in [Requests -> Fetches]
    /\ torn \subseteq Paths

MediaInit ==
    /\ file = [p \in Paths |-> "absent"]
    /\ fetch = [r \in Requests |-> Idle]
    /\ torn = {}

Goes(r, from, to) ==
    /\ fetch[r].at = from
    /\ fetch' = [fetch EXCEPT ![r].at = to]

Answers(r, from) ==
    /\ fetch[r].at = from
    /\ fetch' = [fetch EXCEPT ![r] = Idle]

-----------------------------------------------------------------------------

\* GetMediaInfo: the row's file name gives the path.
Looks(r) ==
    /\ fetch[r] = Idle
    /\ \E id \in {i \in Media : filename[i] # NoFile} :
         fetch' = [fetch EXCEPT ![r] = [at |-> "found", path |-> <<id, filename[id]>>]]
    /\ UNCHANGED <<filename, file, torn>>

\* What can be read is the answer.
Hits(r) ==
    /\ Answers(r, "found")
    /\ file[fetch[r].path] # "absent"
    /\ UNCHANGED <<filename, file, torn>>

\* A plausible bug: the cache is not asked.
MissesAlways(r) ==
    /\ Goes(r, "found", "missing")
    /\ UNCHANGED <<filename, file, torn>>

Misses(r) ==
    /\ Goes(r, "found", "missing")
    /\ file[fetch[r].path] = "absent"
    /\ UNCHANGED <<filename, file, torn>>

\* A plausible bug: what came before the error is kept.
DownloadsKeepsPart(r) ==
    \/ Goes(r, "missing", "downloaded") /\ UNCHANGED <<filename, file, torn>>
    \/ /\ Answers(r, "missing")
       /\ file' = [file EXCEPT ![fetch[r].path] = "part"]
       /\ UNCHANGED <<filename, torn>>

\* whatsmeow checks the hashes: all of it, or an error, as for a row without a
\* url or a key.
Downloads(r) ==
    /\ Goes(r, "missing", "downloaded") \/ Answers(r, "missing")
    /\ UNCHANGED <<filename, file, torn>>

\* os.WriteFile begins, or the directory or the file cannot be made: then the
\* data are answered all the same.
WriteBegins(r) ==
    \/ /\ Goes(r, "downloaded", "writing")
       /\ file' = [file EXCEPT ![fetch[r].path] = "part"]
       /\ UNCHANGED <<filename, torn>>
    \/ Answers(r, "downloaded") /\ UNCHANGED <<filename, file, torn>>

\* All bytes are written.  They are in place unless another writer emptied the
\* file in the middle.
WriteEnds(r) ==
    /\ Answers(r, "writing")
    /\ LET p == fetch[r].path IN
       /\ \/ file' = [file EXCEPT ![p] = "whole"] /\ torn' = torn \ {p}
          \/ Writers(p) # {r} /\ UNCHANGED <<file, torn>>
    /\ UNCHANGED filename

\* The disk is full: the error is logged and the file left as it is.
WriteFails(r) ==
    /\ Answers(r, "writing")
    /\ torn' = torn \cup {fetch[r].path}
    /\ UNCHANGED <<filename, file>>

HandleMedia ==
    \E r \in Requests :
        \/ Looks(r) \/ Hits(r) \/ Misses(r) \/ Downloads(r)
        \/ WriteBegins(r) \/ WriteEnds(r) \/ WriteFails(r)

\* The process ends in the middle of its requests.
RequestsLost ==
    /\ fetch' = [r \in Requests |-> Idle]
    /\ torn' = torn \cup {p \in Paths : Writers(p) # {}}
    /\ UNCHANGED <<filename, file>>

-----------------------------------------------------------------------------

\* A file in the cache that is not all of the media is being written, or its
\* last write broke off: nothing else leaves part of a file, however many
\* requests write it at once.
PartIsExplained ==
    \A p \in Paths : file[p] = "part" => Writers(p) # {} \/ p \in torn

\* A whole file that no request has found missing stays whole for good: later
\* requests, failing disks and crashes do not touch it.
Settled(p) ==
    /\ file[p] = "whole"
    /\ \A r \in Requests :
         fetch[r].at \in {"missing", "downloaded", "writing"} => fetch[r].path # p
WholeForGood == [][\A p \in Paths : Settled(p) => Settled(p)']_mediaVars

=============================================================================
