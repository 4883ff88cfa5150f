SPECIFICATION Spec
CONSTANTS
    MaxDatagrams = 3
    MaxErrors = 2
    MaxBurst = 2
    SendMayFail = TRUE
CHECK_DEADLOCK FALSE
INVARIANT NeverDies
