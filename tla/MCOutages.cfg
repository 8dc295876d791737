SPECIFICATION Spec
CONSTANTS
    MaxIncidents = 1
    MaxEvents = 2
    Trip = 2
    MaxRestarts = 1
    NtfyFails = FALSE
    CallsFail = TRUE
    Debounced <- MCDebounced
INVARIANT
    TypeOK
PROPERTY
    OutageNoticed
CHECK_DEADLOCK FALSE
