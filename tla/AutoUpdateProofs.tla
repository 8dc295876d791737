-------------------------- MODULE AutoUpdateProofs --------------------------
(***************************************************************************)
(* Proofs about the daily update, for every set of instances, every course *)
(* of good and bad versions and any number of incidents.                   *)
(***************************************************************************)
EXTENDS AutoUpdate, TLAPS

USE VersionsAssumption

\* The script and everything beside it, one disjunct per action of the code.
LEMMA NextCases ==
    ASSUME Next
    PROVE  \/ Begin \/ Fetch \/ Build \/ SelfTest \/ KillTest \/ Install \/ RollBack
           \/ \E i \in Instances : StopServices(i)
           \/ CopyBinary \/ StartServices \/ End
           \/ Killed \/ Reboot \/ Publish
           \/ \E i \in Instances : AddCopies(i)
           \/ \E i \in Instances : AddRegisters(i)
           \/ \E i \in Instances : Remove(i)
BY DEF Next, Script, Installer

-----------------------------------------------------------------------------
(***************************************************************************)
(* Types                                                                   *)
(***************************************************************************)

\* Every build has a version, and the places without a binary, or with half of
\* one, are none.
LEMMA VersionFacts ==
    /\ 1 \in Versions /\ Starts \subseteq Versions
    /\ None \notin Versions /\ Torn \notin Versions
BY DEF Versions, None, Torn

\* The mishaps that the history variable tells apart.
LEMMA MishapFacts ==
    CutShort \in Mishaps /\ CopyFailed \in Mishaps /\ JoinedLate \in Mishaps /\ Squatted \in Mishaps
BY DEF Mishaps

\* An incident is counted, and there are never more than the bound.
LEMMA IncidentCounts ==
    ASSUME incidents \in 0 .. MaxIncidents, Incident \/ UNCHANGED incidents
    PROVE  incidents' \in 0 .. MaxIncidents
BY DEF Incident

\* systemctl tells of every service whether it is up, whichever are started.
LEMMA ServicesType ==
    ASSUME NEW f, NEW S, f = [i \in Instances |-> i \in S]
    PROVE  f \in [Instances -> BOOLEAN]
<1>1. ASSUME NEW i \in Instances PROVE (i \in S) \in BOOLEAN
  <2>1. CASE i \in S
    BY <2>1
  <2>2. CASE i \notin S
    BY <2>2
  <2> QED
    BY <2>1, <2>2
<1> QED
  BY <1>1, Zenon

\* The machine as install.sh leaves it is well typed.
LEMMA TypeInit == Init => TypeOK
<1> SUFFICES ASSUME Init PROVE TypeOK
  OBVIOUS
<1>1. up \in [Instances -> BOOLEAN]
  BY ServicesType DEF Init
<1>2. binary \in [Instances -> Versions \cup {None, Torn}]
  BY VersionFacts DEF Init
<1>3. incidents \in 0 .. MaxIncidents
  BY DEF Init
<1> QED
  BY <1>1, <1>2, <1>3, VersionFacts DEF Init, TypeOK, Labels

\* Every command of the script and of the installer, done, failed or cut off,
\* leaves the machine well typed.
LEMMA TypeStep == TypeOK /\ [Next]_vars => TypeOK'
<1> SUFFICES ASSUME TypeOK, [Next]_vars PROVE TypeOK'
  OBVIOUS
<1> USE VersionFacts, MishapFacts, IncidentCounts
        DEF TypeOK, Labels, At, Note, upstream, workspace, installed, script
<1>1. CASE Begin
  BY <1>1 DEF Begin
<1>2. CASE Fetch
  BY <1>2 DEF Fetch
<1>3. CASE Build
  BY <1>3 DEF Build, BuildSucceeds, BuildFails
<1>4. CASE SelfTest
  BY <1>4 DEF SelfTest
<1>5. CASE KillTest
  BY <1>5 DEF KillTest
<1>6. CASE Install
  BY <1>6 DEF Install
<1>7. CASE RollBack
  BY <1>7 DEF RollBack
<1>8. CASE \E i \in Instances : StopServices(i)
  BY <1>8 DEF StopServices
<1>9. CASE CopyBinary
  BY <1>9 DEF CopyBinary
<1>10. CASE StartServices
  BY <1>10 DEF StartServices
<1>11. CASE End
  BY <1>11 DEF End
<1>12. CASE Killed
  BY <1>12 DEF Killed, CutOff
<1>13. CASE Reboot
  <2>1. up' \in [Instances -> BOOLEAN]
    BY <1>13, ServicesType DEF Reboot
  <2> QED
    BY <1>13, <2>1 DEF Reboot, CutOff
<1>14. CASE Publish
  <2>1. latest + 1 \in Versions
    BY <1>14 DEF Publish, Versions
  <2>2. latest' \in Versions
    BY <1>14, <2>1 DEF Publish
  <2>3. UNCHANGED <<workspace, installed, script, squatter, incidents, mishaps>>
    BY <1>14 DEF Publish
  <2> QED
    BY <2>2, <2>3 DEF workspace
<1>15. CASE \E i \in Instances : AddCopies(i)
  BY <1>15 DEF AddCopies
<1>16. CASE \E i \in Instances : AddRegisters(i)
  BY <1>16 DEF AddRegisters
<1>17. CASE \E i \in Instances : Remove(i)
  BY <1>17 DEF Remove
<1>18. CASE UNCHANGED vars
  BY <1>18 DEF vars
<1> QED
  BY NextCases, <1>1, <1>2, <1>3, <1>4, <1>5, <1>6, <1>7, <1>8, <1>9, <1>10, <1>11,
     <1>12, <1>13, <1>14, <1>15, <1>16, <1>17, <1>18

\* Whatever fails, is killed or is installed meanwhile, the state stays well
\* typed; in particular go.mod.bak is there whenever the script needs it.
THEOREM TypeCorrect == Spec => []TypeOK
BY TypeInit, TypeStep, PTL DEF Spec

-----------------------------------------------------------------------------
(***************************************************************************)
(* No instance on a version that does not start                            *)
(***************************************************************************)

\* The canonical binary starts, and so does one that has passed the test.
StartsInv ==
    Squatted \notin mishaps =>
        /\ canonical \in Starts
        /\ pc \in {"kill", "verdict"} /\ test = "passed" => built \in Starts
        /\ \A i \in Instances : binary[i] \in Versions => binary[i] \in Starts

\* The first installation has tested its binary.
LEMMA StartsInit == Init => StartsInv
BY VersionFacts DEF Init, StartsInv

\* A binary reaches an instance from the canonical one or the backup of it, and the
\* canonical one is replaced by what has passed the self-test.
LEMMA StartsStep == TypeOK /\ StartsInv /\ [Next]_vars => StartsInv'
<1> SUFFICES ASSUME TypeOK, StartsInv, [Next]_vars PROVE StartsInv'
  OBVIOUS
<1> USE VersionFacts
        DEF TypeOK, StartsInv, At, Note, upstream, workspace, installed, script
<1> USE DEF CutShort, CopyFailed, JoinedLate, Squatted
<1>1. CASE Begin
  BY <1>1 DEF Begin
<1>2. CASE Fetch
  BY <1>2 DEF Fetch
<1>3. CASE Build
  BY <1>3 DEF Build, BuildSucceeds, BuildFails
<1>4. CASE SelfTest
  BY <1>4 DEF SelfTest
<1>5. CASE KillTest
  BY <1>5 DEF KillTest
<1>6. CASE Install
  BY <1>6 DEF Install
<1>7. CASE RollBack
  BY <1>7 DEF RollBack
<1>8. CASE \E i \in Instances : StopServices(i)
  BY <1>8 DEF StopServices
<1>9. CASE CopyBinary
  BY <1>9 DEF CopyBinary
<1>10. CASE StartServices
  BY <1>10 DEF StartServices
<1>11. CASE End
  BY <1>11 DEF End
<1>12. CASE Killed
  BY <1>12 DEF Killed, CutOff
<1>13. CASE Reboot
  BY <1>13 DEF Reboot, CutOff
<1>14. CASE Publish
  BY <1>14 DEF Publish
<1>15. CASE \E i \in Instances : AddCopies(i)
  BY <1>15 DEF AddCopies
<1>16. CASE \E i \in Instances : AddRegisters(i)
  BY <1>16 DEF AddRegisters
<1>17. CASE \E i \in Instances : Remove(i)
  BY <1>17 DEF Remove
<1>18. CASE UNCHANGED vars
  BY <1>18 DEF vars
<1> QED
  BY NextCases, <1>1, <1>2, <1>3, <1>4, <1>5, <1>6, <1>7, <1>8, <1>9, <1>10, <1>11,
     <1>12, <1>13, <1>14, <1>15, <1>16, <1>17, <1>18

\* Whatever ends which run, and whatever is installed meanwhile, no instance gets
\* a version that does not start, as long as no test process outlived its run.
THEOREM BadVersionsKeptOut == Spec => []NoInstanceOnBadVersion
<1>1. StartsInv => NoInstanceOnBadVersion
  BY DEF StartsInv, NoInstanceOnBadVersion
<1> QED
  BY <1>1, TypeInit, TypeStep, StartsInit, StartsStep, PTL DEF Spec

-----------------------------------------------------------------------------
(***************************************************************************)
(* "Already up to date" is true                                            *)
(***************************************************************************)

Testing == {"test", "kill", "verdict"}
Installing == {"next", "copy", "start"}

\* The services of i are still to be stopped, or are in work.
Ahead(i) == i \in todo \/ (pc \in {"copy", "start"} /\ i = instance)

\* During a run go.mod.bak agrees with the canonical binary until that is
\* replaced by the tested build of go.mod; afterwards the two agree, and the
\* instances that do not are those ahead.
AgreeInv ==
    /\ pc \in Testing => built = goMod
    /\ mishaps \subseteq {Squatted} =>
        /\ pc \in {"idle", "fetch"} \cup Installing => goMod = canonical
        /\ pc \in {"fetch", "build"} \cup Testing => backup = canonical
        /\ pc = "start" => binary[instance] = canonical
        /\ \A i \in registry :
              \/ pc \in Installing /\ Ahead(i)
              \/ binary[i] = canonical /\ up[i]

\* A mishap that excuses a difference of versions is on record once it happens.
LEMMA Noted ==
    ASSUME NEW reason \in {CutShort, CopyFailed, JoinedLate}, Note(reason)
    PROVE  ~(mishaps' \subseteq {Squatted})
BY DEF Note, CutShort, CopyFailed, JoinedLate, Squatted

\* The first installation leaves go.mod and all binaries at one version.
LEMMA AgreeInit == Init => AgreeInv
BY DEF Init, AgreeInv, Installing, Testing

\* Each command moves go.mod, its backup and the binaries in the order that AgreeInv
\* allows, or leaves a mishap on record.
LEMMA AgreeStep == TypeOK /\ AgreeInv /\ [Next]_vars => AgreeInv'
<1> SUFFICES ASSUME TypeOK, AgreeInv, [Next]_vars PROVE AgreeInv'
  OBVIOUS
<1> USE DEF TypeOK, AgreeInv, Ahead, Testing, Installing, At,
            upstream, workspace, installed, script
<1> USE Noted DEF CutShort, CopyFailed, JoinedLate, Squatted
<1>1. CASE Begin
  BY <1>1 DEF Begin
<1>2. CASE Fetch
  BY <1>2 DEF Fetch
<1>3. CASE Build
  BY <1>3 DEF Build, BuildSucceeds, BuildFails
<1>4. CASE SelfTest
  <2>1. mishaps \subseteq mishaps'
    BY <1>4 DEF SelfTest, Note
  <2> QED
    BY <1>4, <2>1 DEF SelfTest
<1>5. CASE KillTest
  <2>1. CASE alive
    BY <1>5, <2>1 DEF KillTest
  <2>2. CASE ~alive
    <3>1. Note(CutShort)
      BY <1>5, <2>2 DEF KillTest
    <3>2. ~(mishaps' \subseteq {Squatted})
      BY <3>1
    <3> QED
      BY <1>5, <2>2, <3>2 DEF KillTest
  <2> QED
    BY <2>1, <2>2
<1>6. CASE Install
  BY <1>6 DEF Install
<1>7. CASE RollBack
  BY <1>7 DEF RollBack
<1>8. CASE \E i \in Instances : StopServices(i)
  BY <1>8 DEF StopServices
<1>9. CASE CopyBinary
  BY <1>9 DEF CopyBinary
<1>10. CASE StartServices
  BY <1>10 DEF StartServices
<1>11. CASE End
  BY <1>11 DEF End
<1>12. CASE Killed
  BY <1>12 DEF Killed, CutOff
<1>13. CASE Reboot
  BY <1>13 DEF Reboot, CutOff
<1>14. CASE Publish
  BY <1>14 DEF Publish
<1>15. CASE \E i \in Instances : AddCopies(i)
  BY <1>15 DEF AddCopies
<1>16. CASE \E i \in Instances : AddRegisters(i)
  <2>1. PICK i \in Instances : AddRegisters(i)
    BY <1>16
  <2>2. CASE binary[i] = canonical
    BY <2>1, <2>2 DEF AddRegisters
  <2>3. CASE binary[i] # canonical
    <3>1. Note(JoinedLate)
      BY <2>1, <2>3 DEF AddRegisters
    <3>2. ~(mishaps' \subseteq {Squatted})
      BY <3>1
    <3> QED
      BY <2>1, <3>2 DEF AddRegisters
  <2> QED
    BY <2>2, <2>3
<1>17. CASE \E i \in Instances : Remove(i)
  BY <1>17 DEF Remove
<1>18. CASE UNCHANGED vars
  BY <1>18 DEF vars
<1> QED
  BY NextCases, <1>1, <1>2, <1>3, <1>4, <1>5, <1>6, <1>7, <1>8, <1>9, <1>10, <1>11,
     <1>12, <1>13, <1>14, <1>15, <1>16, <1>17, <1>18

\* When no run was cut short, failed to copy or missed an instance, go.mod says
\* what all instances run, so that a run that finds nothing newer may end there.
THEOREM UpToDateIsTrue == Spec => []UpToDateMeansInstalled
<1>1. AgreeInv => UpToDateMeansInstalled
  BY DEF AgreeInv, UpToDateMeansInstalled, At, Installing
<1> QED
  BY <1>1, TypeInit, TypeStep, AgreeInit, AgreeStep, PTL DEF Spec

=============================================================================
