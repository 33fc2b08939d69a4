SPECIFICATION Spec
CONSTANTS
    Benches = {"notes"}
    MaxEvents = 0
    MaxBreaks = 0
    Resident = TRUE
INVARIANT UserMeant
CHECK_DEADLOCK FALSE
