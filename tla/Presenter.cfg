SPECIFICATION Spec
CONSTANTS
    Benches = {"finger", "fingers", "typing", "engine", "cut", "refocus", "text", "notes"}
    MaxEvents = 3
    MaxBreaks = 0
    Resident = FALSE
 
INVARIANT ClipboardsAgree
INVARIANT TextMeetsEditor
 
PROPERTY InputTracked
CHECK_DEADLOCK FALSE
