SPECIFICATION BrowserSpec
CONSTANTS
    P2ID = {}
    Escrows = {}
    Loops = {}
    None = None
    Tries = 1
    MaxProposals = 1
    MaxSyncErrors = 0
    MaxFailures = 0
    Tabs = {t1, t2}
    MaxIds = 4
    MaxInitFailures = 0
INVARIANT FundsReachable
CHECK_DEADLOCK FALSE
