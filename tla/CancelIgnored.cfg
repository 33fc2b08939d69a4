SPECIFICATION Spec
CONSTANTS
    Benches = {"fingers"}
    MaxEvents = 4
    MaxBreaks = 0
    Resident = FALSE
INVARIANT NoTouchLeftBehind
CHECK_DEADLOCK FALSE
