----------------------------- MODULE AutoUpdate -----------------------------
(***************************************************************************)
(* The daily update of whatsmeow, scripts/update-check.sh, beside the      *)
(* installer, which adds and removes instances meanwhile                   *)
(* (scripts/install.sh with an installation in place).                     *)
(*                                                                         *)
(* The script runs under set -e: a command that fails ends it where it     *)
(* stands, unless it is the condition of an if or followed by "|| true".   *)
(* It may also be killed, and the machine may stop, at any point.          *)
(***************************************************************************)
EXTENDS Naturals

CONSTANTS
    Instances,      \* names of instances
    MaxVersion,     \* whatsmeow's versions are 1 .. MaxVersion, published in order
    Compiles,       \* those that the bridge compiles with
    Starts,         \* those with which it starts and serves GET /status
    MaxIncidents    \* how often something may go wrong beyond a bad version

Versions == 1 .. MaxVersion
None == 0
Torn == MaxVersion + 1    \* a binary copied in part

ASSUME VersionsAssumption ==
    /\ MaxVersion \in Nat \ {0} /\ MaxIncidents \in Nat
    /\ Starts \subseteq Compiles /\ Compiles \subseteq Versions /\ 1 \in Starts

VARIABLES
    latest,      \* the newest version upstream
    goMod,       \* the version in go.mod
    backup,      \* that in go.mod.bak; in a run also CURRENT
    built,       \* the version of wactl-bridge-new
    canonical,   \* the version of bridge/wactl-bridge, from which instances are made
    registry,    \* instances.json
    copied,      \* instances being installed: the binary is copied, no more
    binary, up,  \* of an instance: the version of its binary; its service is started
    pc,          \* the next command of the script, "idle" when it does not run
    test,        \* TEST_RESULT: "none", "passed" or "failed"
    alive,       \* the process under test has not ended by itself
    squatter,    \* a process left from an earlier test still serves TEST_PORT
    todo,        \* the rest of INSTANCE_NAMES, the current one first out
    instance,    \* the instance in work
    incidents,
    mishaps      \* history variable: why the pieces need not agree

upstream == <<latest>>
workspace == <<goMod, backup, built, canonical>>
installed == <<registry, copied, binary, up>>
script == <<pc, test, alive, todo, instance>>
vars == <<upstream, workspace, installed, script, squatter, incidents, mishaps>>

CutShort == "a run ended after go get and neither installed nor rolled back"
CopyFailed == "a run ended between two instances"
JoinedLate == "an instance got the old binary and was registered too late for the run"
Squatted == "the self-test asked a process that an earlier run had left behind"
Mishaps == {CutShort, CopyFailed, JoinedLate, Squatted}

Incident == incidents < MaxIncidents /\ incidents' = incidents + 1
Note(reason) == mishaps' = mishaps \cup {reason}

Init ==
    /\ latest = 1 /\ goMod = 1 /\ backup = None /\ built = None /\ canonical = 1
    /\ registry \in (SUBSET Instances) \ {{}} /\ copied = {}
    /\ binary = [i \in Instances |-> IF i \in registry THEN 1 ELSE None]
    /\ up = [i \in Instances |-> i \in registry]
    /\ pc = "idle" /\ test = "none" /\ alive = FALSE /\ squatter = FALSE
    /\ todo = {} /\ instance \in Instances
    /\ incidents = 0 /\ mishaps = {}

-----------------------------------------------------------------------------
(***************************************************************************)
(* The script                                                              *)
(***************************************************************************)

At(label) == pc = label

\* A plausible bug: go.mod is taken to be in the repository and not copied.
BeginWithoutCopy ==
    /\ At("idle") /\ pc' = "fetch"
    /\ test' = "none"
    /\ UNCHANGED <<upstream, workspace, installed, alive, todo, instance,
                   squatter, incidents, mishaps>>

\* Up to the copies of go.mod and go.sum.
Begin ==
    /\ At("idle") /\ pc' = "fetch"
    /\ backup' = goMod /\ test' = "none"
    /\ UNCHANGED <<upstream, goMod, built, canonical, installed, alive, todo, instance,
                   squatter, incidents, mishaps>>

\* go get, go mod tidy, and the comparison.  go get may fail before it changes
\* go.mod, and go mod tidy after it.
Fetch ==
    /\ At("fetch")
    /\ \/ /\ goMod' = latest
          /\ IF backup = latest THEN backup' = None /\ pc' = "idle"
                                ELSE backup' = backup /\ pc' = "build"
          /\ UNCHANGED <<incidents, mishaps>>
       \/ /\ Incident /\ pc' = "idle"
          /\ UNCHANGED <<goMod, backup, mishaps>>
       \/ /\ Incident /\ pc' = "idle"
          /\ goMod' = latest
          /\ IF goMod # latest THEN Note(CutShort) ELSE UNCHANGED mishaps
          /\ UNCHANGED backup
    /\ UNCHANGED <<upstream, built, canonical, installed, test, alive, todo, instance, squatter>>

BuildSucceeds ==
    /\ At("build") /\ goMod \in Compiles
    /\ built' = goMod /\ pc' = "test"
    /\ UNCHANGED <<goMod, backup, incidents>>

\* A plausible bug: the build's error ends the script without the mv.
BuildFailsForward ==
    /\ At("build") /\ pc' = "idle"
    /\ \/ goMod \notin Compiles /\ UNCHANGED incidents
       \/ Incident
    /\ UNCHANGED <<goMod, backup, built>>

BuildFails ==
    /\ At("build") /\ pc' = "idle"
    /\ \/ goMod \notin Compiles /\ UNCHANGED incidents
       \/ Incident
    /\ goMod' = backup /\ backup' = None
    /\ UNCHANGED built

Build ==
    /\ BuildSucceeds \/ BuildFails
    /\ UNCHANGED <<upstream, canonical, installed, test, alive, todo, instance, squatter, mishaps>>

\* The binary is started on a port and a directory of its own, and GET /status
\* asked after five seconds.  A bad version dies or does not answer, and so may
\* a good one, when WhatsApp cannot be reached.  A process that finds the port
\* taken lives on, and the one that took it answers.
SelfTest ==
    /\ At("test") /\ pc' = "kill"
    /\ \E fate \in {"serves", "hangs", "dies"} :
          /\ IF built \in Starts /\ fate # "serves" THEN Incident ELSE UNCHANGED incidents
          /\ fate = "serves" => built \in Starts
          /\ alive' = (fate # "dies")
          /\ test' = IF fate = "serves" \/ squatter THEN "passed" ELSE "failed"
    /\ IF squatter THEN Note(Squatted) ELSE UNCHANGED mishaps
    /\ UNCHANGED <<upstream, workspace, installed, todo, instance, squatter>>

\* kill $TEST_PID fails when the process has ended, and that ends the script.
KillTest ==
    /\ At("kill") /\ alive' = FALSE
    /\ IF alive THEN pc' = "verdict" /\ UNCHANGED mishaps
                ELSE pc' = "idle" /\ Note(CutShort)
    /\ UNCHANGED <<upstream, workspace, installed, test, todo, instance, squatter, incidents>>

\* A plausible bug: that the test ended is taken for its success.
InstallUntested ==
    /\ At("verdict")
    /\ canonical' = built /\ built' = None /\ backup' = None
    /\ todo' = registry /\ pc' = "next"
    /\ mishaps' = mishaps \cap {Squatted}
    /\ UNCHANGED <<upstream, goMod, installed, test, alive, instance, squatter, incidents>>

\* The binary takes the place of the canonical one; INSTANCE_NAMES is read.
Install ==
    /\ At("verdict") /\ test = "passed"
    /\ canonical' = built /\ built' = None /\ backup' = None
    /\ todo' = registry /\ pc' = "next"
    /\ mishaps' = mishaps \cap {Squatted}
    /\ UNCHANGED <<upstream, goMod, installed, test, alive, instance, squatter, incidents>>

RollBack ==
    /\ At("verdict") /\ test = "failed"
    /\ built' = None /\ goMod' = backup /\ backup' = None /\ pc' = "idle"
    /\ UNCHANGED <<upstream, canonical, installed, test, alive, todo, instance, squatter,
                   incidents, mishaps>>

\* systemctl stop: its failure is passed over.
StopServices(i) ==
    /\ At("next") /\ i \in todo
    /\ todo' = todo \ {i} /\ instance' = i /\ pc' = "copy"
    /\ \/ up' = [up EXCEPT ![i] = FALSE] /\ UNCHANGED incidents
       \/ up[i] /\ Incident /\ UNCHANGED up
    /\ UNCHANGED <<upstream, workspace, registry, copied, binary, test, alive, squatter, mishaps>>

\* cp: the binary of a process that runs cannot be written; a full disk leaves
\* a part of it.  Either ends the script.
CopyBinary ==
    /\ At("copy")
    /\ \/ /\ ~up[instance]
          /\ binary' = [binary EXCEPT ![instance] = canonical] /\ pc' = "start"
          /\ UNCHANGED <<incidents, mishaps>>
       \/ /\ up[instance] /\ pc' = "idle" /\ Note(CopyFailed)
          /\ UNCHANGED <<binary, incidents>>
       \/ /\ ~up[instance] /\ Incident /\ pc' = "idle" /\ Note(CopyFailed)
          /\ binary' = [binary EXCEPT ![instance] = Torn]
    /\ UNCHANGED <<upstream, workspace, registry, copied, up, test, alive, todo, instance, squatter>>

\* A plausible bug: the bridge is left to the restart of the machine.
StartServicesForgotten ==
    /\ At("start") /\ pc' = "next"
    /\ UNCHANGED <<upstream, workspace, installed, test, alive, todo, instance, squatter,
                   incidents, mishaps>>

\* systemctl start: of an instance removed meanwhile there is no service.
StartServices ==
    /\ At("start") /\ pc' = "next"
    /\ up' = [up EXCEPT ![instance] = instance \in registry]
    /\ UNCHANGED <<upstream, workspace, registry, copied, binary, test, alive, todo, instance,
                   squatter, incidents, mishaps>>

End ==
    /\ At("next") /\ todo = {}
    /\ pc' = "idle"
    /\ UNCHANGED <<upstream, workspace, installed, test, alive, todo, instance, squatter,
                   incidents, mishaps>>

-----------------------------------------------------------------------------
(***************************************************************************)
(* What happens to the script                                              *)
(***************************************************************************)

\* The script ends where it is; a copy may be left in part.
CutOff ==
    /\ pc' = "idle" /\ todo' = {} /\ alive' = FALSE
    /\ \/ UNCHANGED binary
       \/ At("copy") /\ ~up[instance] /\ binary' = [binary EXCEPT ![instance] = Torn]
    /\ mishaps' = mishaps \cup
           (IF pc \in {"idle", "fetch"} THEN {}
            ELSE IF pc \in {"next", "copy", "start"} THEN {CopyFailed} ELSE {CutShort})
    /\ UNCHANGED <<upstream, workspace, registry, copied, test, instance>>

\* The process under test is not killed with the script.
Killed ==
    /\ ~At("idle") /\ Incident /\ CutOff
    /\ squatter' = (squatter \/ (At("kill") /\ alive /\ test = "passed"))
    /\ UNCHANGED up

\* The services are enabled and start again.
Reboot ==
    /\ Incident /\ CutOff
    /\ squatter' = FALSE
    /\ up' = [i \in Instances |-> i \in registry]

-----------------------------------------------------------------------------
(***************************************************************************)
(* Upstream and the installer                                              *)
(***************************************************************************)

Publish ==
    /\ latest < MaxVersion /\ latest' = latest + 1
    /\ UNCHANGED <<workspace, installed, script, squatter, incidents, mishaps>>

AddCopies(i) ==
    /\ i \notin registry \cup copied
    /\ copied' = copied \cup {i}
    /\ binary' = [binary EXCEPT ![i] = canonical]
    /\ UNCHANGED <<upstream, workspace, registry, up, script, squatter, incidents, mishaps>>

AddRegisters(i) ==
    /\ i \in copied
    /\ copied' = copied \ {i} /\ registry' = registry \cup {i}
    /\ up' = [up EXCEPT ![i] = TRUE]
    /\ IF binary[i] # canonical THEN Note(JoinedLate) ELSE UNCHANGED mishaps
    /\ UNCHANGED <<upstream, workspace, binary, script, squatter, incidents>>

\* The data and the binary of a removed instance stay.
Remove(i) ==
    /\ i \in registry
    /\ registry' = registry \ {i} /\ up' = [up EXCEPT ![i] = FALSE]
    /\ UNCHANGED <<upstream, workspace, copied, binary, script, squatter, incidents, mishaps>>

Script ==
    \/ Begin \/ Fetch \/ Build \/ SelfTest \/ KillTest \/ Install \/ RollBack
    \/ \E i \in Instances : StopServices(i)
    \/ CopyBinary \/ StartServices \/ End
Installer == \E i \in Instances : AddCopies(i) \/ AddRegisters(i) \/ Remove(i)
Next == Script \/ Killed \/ Reboot \/ Publish \/ Installer

\* cron starts the script every day, and its commands end.
Spec == Init /\ [][Next]_vars /\ WF_vars(Script)

-----------------------------------------------------------------------------
(***************************************************************************)
(* Properties                                                              *)
(***************************************************************************)

Labels == {"idle", "fetch", "build", "test", "kill", "verdict", "next", "copy", "start"}

\* Every variable keeps its type, and whatever go.mod.bak is needed for later
\* in a run is there.
TypeOK ==
    /\ latest \in Versions /\ goMod \in Versions /\ canonical \in Versions
    /\ backup \in Versions \cup {None} /\ built \in Versions \cup {None}
    /\ pc \in {"fetch", "build", "test", "kill", "verdict"} => backup \in Versions
    /\ pc \in {"test", "kill", "verdict"} => built \in Versions
    /\ registry \subseteq Instances /\ copied \subseteq Instances
    /\ binary \in [Instances -> Versions \cup {None, Torn}]
    /\ up \in [Instances -> BOOLEAN]
    /\ pc \in Labels /\ test \in {"none", "passed", "failed"} /\ alive \in BOOLEAN
    /\ squatter \in BOOLEAN
    /\ todo \subseteq Instances /\ instance \in Instances
    /\ incidents \in 0 .. MaxIncidents /\ mishaps \subseteq Mishaps

\* No instance gets a version that does not start, whatever ends which run, with
\* leftovers of earlier runs and instances installed meanwhile.  A test process
\* that outlived its run may break this: the next run's curl asks that one.
NoInstanceOnBadVersion ==
    Squatted \notin mishaps =>
        \A i \in Instances : binary[i] \in Versions => binary[i] \in Starts

\* Between two runs go.mod, the canonical binary and those of all instances are
\* of one version and the services started, so that "Already up to date" is
\* true: whatever did not compile, ran but did not answer its test, or could not
\* be fetched.  It speaks of runs that came to their end: a run that was killed is
\* exempt, and so is one whose new binary died in the test (kill's failure ends
\* it), one whose copy failed and one that missed an instance installed meanwhile.
UpToDateMeansInstalled ==
    At("idle") /\ mishaps \subseteq {Squatted} =>
        /\ goMod = canonical
        /\ \A i \in registry : binary[i] = canonical /\ up[i]

\* When upstream rests at a version that works and no run has been cut short for
\* good, every instance ends up running it.
GetsLatest ==
    \A v \in Starts :
        <>[](latest = v /\ mishaps = {}) => <>[](\A i \in registry : binary[i] = v /\ up[i])

\* MAINTENANCE.md:226: if the self-test fails, everything is rolled back.
RollsBack == At("idle") /\ test = "failed" => goMod = canonical

=============================================================================
