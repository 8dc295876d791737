SPECIFICATION HostSpec
CONSTANTS
    alice = alice
    bob = bob
    Instances <- MCInstances
    MaxVersion = 5
    Compiles <- MCCompiles
    Starts <- MCStarts
    MaxIncidents = 3
    MaxIndex = 2
    Interesting <- MCInteresting
    PerPage = 3
    Lines = 2
CONSTRAINT Bounds
INVARIANTS
    TypeOK
    NoInstanceOnBadVersion
    UpToDateMeansInstalled
    PortsDistinct
    NoneTakenForOld
PROPERTY
    GetsLatest
