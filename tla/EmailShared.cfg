CONSTANTS
    Runs = {q1, q2}
    Folders = {inbox, archive}
    MaxInFlight = 2
    MaxDials = 2
SPECIFICATION EmailSpec
CHECK_DEADLOCK FALSE
INVARIANTS
    RightFolder
