SPECIFICATION Spec
CONSTANTS
    MaxIncidents <- MCMaxIncidents
    MaxEvents <- MCMaxEvents
INVARIANTS
    TypeOK
    NeverClaimsDeadSession
    LiveSessionReported
PROPERTY
    UnlinkedGetsCode
CHECK_DEADLOCK FALSE
