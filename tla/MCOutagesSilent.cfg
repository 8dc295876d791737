SPECIFICATION Spec
CONSTANTS
    MaxIncidents = 1
    MaxEvents = 2
    Trip = 2
    MaxRestarts = 0
    NtfyFails = FALSE
    CallsFail = FALSE
    Debounced = {}
PROPERTY
    SilentOutageNoticed
CHECK_DEADLOCK FALSE
