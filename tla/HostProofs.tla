----------------------------- MODULE HostProofs -----------------------------
(***************************************************************************)
(* Proofs about the machine that the instances share: what is proved of    *)
(* the daily update holds beside the watch and the registry, the watch's   *)
(* state does not move past a commit before its alert, and indices are     *)
(* unique and make unique ports - up to index 407.                         *)
(***************************************************************************)
EXTENDS Host, AutoUpdateProofs

\* The machine does to the updater and the installer only what AutoUpdate says.
LEMMA StepOfUpdate == [HostNext]_hostVars => [Next]_vars
BY DEF HostNext, hostVars, Updates, MachineStops, Maintains, WatchesUpstream, Installs,
   Registers, Removes, Next, Installer

\* The update beside the watch: its types, no version that does not start, and
\* "Already up to date" is true.
THEOREM UpdateIsSafe ==
    HostSpec => [](TypeOK /\ NoInstanceOnBadVersion /\ UpToDateMeansInstalled)
<1>1. StartsInv => NoInstanceOnBadVersion
  BY DEF StartsInv, NoInstanceOnBadVersion
<1>2. AgreeInv => UpToDateMeansInstalled
  BY DEF AgreeInv, UpToDateMeansInstalled, At, Installing
<1>3. HostInit => Init
  BY DEF HostInit
<1> QED
  BY <1>1, <1>2, <1>3, StepOfUpdate, TypeInit, TypeStep, StartsInit, StartsStep, AgreeInit,
     AgreeStep, PTL DEF HostSpec

-----------------------------------------------------------------------------
(***************************************************************************)
(* The watch over upstream                                                 *)
(***************************************************************************)

\* While a run is under way the state file holds what the run has read, and
\* after the alert everything up to the head is accounted for.
WatchInv ==
    /\ stateFile \in Nat /\ watch \in [at : {"asleep", "polled", "alerted"}, last : Nat, head : Nat]
    /\ watch.at # "asleep" => watch.last = stateFile
    /\ watch.at = "alerted" => Interesting \cap (1 .. watch.head) \subseteq told \cup excused
    /\ NoneTakenForOld

\* What is new was heard of or is excused, and the rest was old.
LEMMA AlertAccounts ==
    ASSUME WatchInv, Alerts
    PROVE  Interesting \cap (1 .. watch.head) \subseteq told' \cup excused'
<1>1. 1 .. watch.head \subseteq (1 .. stateFile) \cup New
  BY DEF WatchInv, Alerts, New
<1>2. New \subseteq told' \cup excused' /\ told \cup excused \subseteq told' \cup excused'
  BY DEF Alerts
<1> QED
  BY <1>1, <1>2 DEF WatchInv, NoneTakenForOld

\* Every step of the machine keeps WatchInv.
LEMMA WatchStep == TypeOK /\ WatchInv /\ [HostNext]_hostVars => WatchInv'
<1> SUFFICES ASSUME TypeOK, WatchInv, [HostNext]_hostVars PROVE WatchInv'
  OBVIOUS
<1> USE DEF WatchInv, NoneTakenForOld, Asleep, NoSha
<1>1. CASE Polls(latest)
  BY <1>1 DEF Polls, TypeOK, Versions
<1>2. CASE Alerts
  <2>1. watch' = [at |-> "alerted", last |-> watch.last, head |-> watch.head]
    BY <1>2 DEF Alerts
  <2>2. told \cup excused \subseteq told' \cup excused'
    BY <1>2 DEF Alerts
  <2> QED
    BY <1>2, <2>1, <2>2, AlertAccounts DEF Alerts
<1>3. CASE WritesState
  BY <1>3 DEF WritesState
<1>4. CASE WatchCutOff
  BY <1>4 DEF WatchCutOff
<1>5. CASE UNCHANGED watchVars
  BY <1>5 DEF watchVars
<1> QED
  BY <1>1, <1>2, <1>3, <1>4, <1>5 DEF HostNext, hostVars, Updates, MachineStops, Maintains,
     WatchesUpstream, Watches

\* The state file never moves past a commit with a keyword before its alert, but
\* for what the script lets go by: see NoneTakenForOld.
THEOREM NoneTakenForOldHolds == HostSpec => []NoneTakenForOld
<1>1. HostInit => WatchInv
  BY DEF HostInit, WatchInit, WatchInv, NoneTakenForOld, Asleep, NoSha
<1>2. WatchInv => NoneTakenForOld
  BY DEF WatchInv
<1> QED
  BY <1>1, <1>2, WatchStep, UpdateIsSafe, PTL DEF HostSpec

-----------------------------------------------------------------------------
(***************************************************************************)
(* The indices and the ports                                               *)
(***************************************************************************)

Holders == registry \cup copied

\* An index is taken from the time it is read: one that is read while nothing
\* else is being installed is greater than all of the others.
IndicesDistinct ==
    \A i, j \in Holders \ sideBySide : i # j => index[i] # index[j]

IndexInv ==
    /\ registry \cap copied = {}
    /\ index \in [Instances -> Nat]
    /\ \A i \in Holders : index[i] <= MaxIndex
    /\ IndicesDistinct

\* The first installation makes one instance, whose index is 0.
LEMMA IndexInit == HostInit => IndexInv
<1> SUFFICES ASSUME HostInit PROVE IndexInv
  OBVIOUS
<1>1. NoIndex \in Nat
  BY IndexAssumption DEF NoIndex
<1>2. copied = {} /\ \A i, j \in registry : i = j
  BY DEF HostInit, Init
<1>3. index = [i \in Instances |-> IF i \in registry THEN 0 ELSE NoIndex]
  BY DEF HostInit
<1>4. registry \subseteq Instances
  BY DEF HostInit, Init
<1>5. index \in [Instances -> Nat]
  BY <1>1, <1>3
<1>6. \A i \in Holders : index[i] = 0
  BY <1>2, <1>3, <1>4 DEF Holders
<1>7. IndicesDistinct
  BY <1>2 DEF IndicesDistinct, Holders
<1> QED
  BY <1>2, <1>5, <1>6, <1>7, IndexAssumption DEF IndexInv

\* The updater leaves the registry alone.
LEMMA RegistryStays ==
    ASSUME Updates \/ MachineStops \/ WatchesUpstream
    PROVE  UNCHANGED <<registry, copied, portVars>>
BY DEF Updates, MachineStops, WatchesUpstream, Script, Begin, Fetch, Build, SelfTest, KillTest,
   Install, RollBack, StopServices, CopyBinary, StartServices, End, Killed, Reboot, CutOff,
   Publish, vars, installed

\* Every step of the machine keeps IndexInv.
LEMMA IndexStep == TypeOK /\ IndexInv /\ [HostNext]_hostVars => IndexInv'
<1> SUFFICES ASSUME TypeOK, IndexInv, [HostNext]_hostVars PROVE IndexInv'
  OBVIOUS
<1> USE IndexAssumption DEF IndexInv, IndicesDistinct, Holders
<1>1. ASSUME NEW i \in Instances, Installs(i) PROVE IndexInv'
  <2>1. PICK n \in 0 .. MaxIndex : NextIndex(n) /\ index' = [index EXCEPT ![i] = n]
    BY <1>1 DEF Installs
  <2>2. /\ registry' = registry /\ copied' = copied \cup {i} /\ i \notin registry \cup copied
        /\ copied = {} \/ i \in sideBySide'
    BY <1>1 DEF Installs, AddCopies
  <2>3. registry \subseteq Instances /\ copied \subseteq Instances
    BY DEF TypeOK
  <2>4. \A j \in registry : index[j] # n
    BY <2>1, <2>3 DEF NextIndex
  <2>5. index' \in [Instances -> Nat]
    BY <2>1
  <2>6. \A j \in Holders' : index'[j] <= MaxIndex
    BY <2>1, <2>2, <2>3
  <2>7. sideBySide \subseteq sideBySide'
    BY <1>1 DEF Installs
  <2>8. IndicesDistinct'
    BY <2>1, <2>2, <2>3, <2>4, <2>7
  <2>9. registry' \cap copied' = {}
    BY <2>2, <1>1 DEF Installs, AddCopies
  <2> QED
    BY <2>5, <2>6, <2>8, <2>9
<1>2. ASSUME NEW i \in Instances, Registers(i) PROVE IndexInv'
  BY <1>2 DEF Registers, AddRegisters, portVars
<1>3. ASSUME NEW i \in Instances, Removes(i) PROVE IndexInv'
  <2>1. /\ registry' = registry \ {i} /\ copied' = copied /\ i \in registry
        /\ sideBySide' = sideBySide \ {i} /\ index' = [index EXCEPT ![i] = NoIndex]
    BY <1>3 DEF Removes, Remove
  <2>2. NoIndex \in Nat
    BY DEF NoIndex
  <2>3. index' \in [Instances -> Nat]
    BY <2>1, <2>2
  <2>4. \A j \in registry' \cup copied' : j \in Holders /\ j # i /\ index'[j] = index[j]
    BY <2>1 DEF TypeOK
  <2> QED
    BY <2>1, <2>3, <2>4
<1>4. CASE UNCHANGED <<registry, copied, portVars>>
  BY <1>4 DEF portVars
<1> QED
  BY <1>1, <1>2, <1>3, <1>4, RegistryStays DEF HostNext, hostVars, Maintains, vars, installed

\* No two instances have one index, unless one was installed beside another:
\* however many there are, and whichever were removed meanwhile.
THEOREM IndicesDistinctHolds == HostSpec => []IndicesDistinct
<1>1. HostInit => IndexInv
  BY IndexInit
<1>2. IndexInv => IndicesDistinct
  BY DEF IndexInv
<1> QED
  BY <1>1, <1>2, IndexStep, UpdateIsSafe, PTL DEF HostSpec

\* Of two indices up to 407 no port is made twice.
LEMMA PortsApart ==
    ASSUME NEW m \in 0 .. 407, NEW n \in 0 .. 407, m # n
    PROVE  Ports(m) \cap Ports(n) = {}
<1>1. 10 * m + 1 # 10 * n /\ 10 * m # 10 * n + 1
  OBVIOUS
<1> QED
  BY <1>1 DEF Ports

\* The bound is exact: the bridge of instance 408 would get
\* the port of instance 0's admin panel.
LEMMA PortsMeet == 8080 \in Ports(0) \cap Ports(408)
BY DEF Ports

\* Every instance has ports of its own, unless it was installed beside another,
\* as long as the indices have not come to 408.
THEOREM PortsDistinctHolds ==
    ASSUME MaxIndex <= 407
    PROVE  HostSpec => []PortsDistinct
<1>1. TypeOK /\ IndexInv => PortsDistinct
  <2> SUFFICES ASSUME TypeOK, IndexInv,
                      NEW i \in registry \ sideBySide, NEW j \in registry \ sideBySide, i # j
               PROVE  Ports(index[i]) \cap Ports(index[j]) = {}
    BY DEF PortsDistinct
  <2>1. index[i] \in 0 .. 407 /\ index[j] \in 0 .. 407 /\ index[i] # index[j]
    BY IndexAssumption DEF TypeOK, IndexInv, IndicesDistinct, Holders
  <2> QED
    BY <2>1, PortsApart
<1>2. HostInit => IndexInv
  BY IndexInit
<1> QED
  BY <1>1, <1>2, IndexStep, UpdateIsSafe, PTL DEF HostSpec

=============================================================================
