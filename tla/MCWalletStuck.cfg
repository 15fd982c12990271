SPECIFICATION Spec
CONSTANTS
    P2ID = {p1, p2}
    Escrows = {}
    Loops = {l1, l2}
    None = None
    Tries = 1
    MaxProposals = 4
    MaxSyncErrors = 0
    MaxFailures = 0
PROPERTY AllNotesAbsorbed
CHECK_DEADLOCK FALSE
