-------------------------------- MODULE Host --------------------------------
(***************************************************************************)
(* The machine that the instances of wactl share: the daily update beside  *)
(* the installer (AutoUpdate), the watch over upstream (UpstreamWatch),    *)
(* and the indices from which the installer makes the ports of instances.  *)
(***************************************************************************)
EXTENDS AutoUpdate, UpstreamWatch

CONSTANT MaxIndex    \* bound: how far the indices go

ASSUME IndexAssumption == MaxIndex \in Nat

VARIABLES
    index,         \* that of an instance in the registry or being installed
    sideBySide     \* history variable: instances whose index was read while
                   \* another installation was not yet in the registry

portVars == <<index, sideBySide>>
hostVars == <<vars, watchVars, portVars>>

NoIndex == MaxIndex + 1

\* install.sh for the first time makes one instance.
HostInit ==
    /\ Init /\ \A i, j \in registry : i = j
    /\ index = [i \in Instances |-> IF i \in registry THEN 0 ELSE NoIndex]
    /\ sideBySide = {}
    /\ WatchInit

-----------------------------------------------------------------------------

\* A plausible bug: the instances are counted.
NextIndexCounts(n) == n = Cardinality(registry)

\* jq's max + 1, which is 1 if there is none.
NextIndex(n) ==
    /\ \A j \in registry : index[j] < n
    /\ IF registry = {} THEN n = 1 ELSE \E j \in registry : n = index[j] + 1

Installs(i) ==
    /\ AddCopies(i)
    /\ \E n \in 0 .. MaxIndex : NextIndex(n) /\ index' = [index EXCEPT ![i] = n]
    /\ sideBySide' = IF copied = {} THEN sideBySide ELSE sideBySide \cup {i}

Registers(i) == AddRegisters(i) /\ UNCHANGED portVars

Removes(i) ==
    /\ Remove(i)
    /\ index' = [index EXCEPT ![i] = NoIndex]
    /\ sideBySide' = sideBySide \ {i}

Updates == (Script \/ Killed \/ Publish) /\ UNCHANGED <<watchVars, portVars>>
MachineStops == Reboot /\ WatchCutOff /\ UNCHANGED portVars
Maintains ==
    \E i \in Instances :
        (Installs(i) \/ Registers(i) \/ Removes(i)) /\ UNCHANGED watchVars
WatchesUpstream == (Watches(latest) \/ WatchCutOff) /\ UNCHANGED <<vars, portVars>>

HostNext == Updates \/ MachineStops \/ Maintains \/ WatchesUpstream

HostSpec == HostInit /\ [][HostNext]_hostVars /\ WF_vars(Script)

-----------------------------------------------------------------------------

Ports(n) == {8080 + n, 3000 + n, 4000 + 10 * n, 4001 + 10 * n}

\* README.md:77: every instance has ports of its own, whichever were removed and
\* installed again before - but for one that was installed beside another.
PortsDistinct ==
    \A i, j \in registry \ sideBySide :
        i # j => Ports(index[i]) \cap Ports(index[j]) = {}

=============================================================================
