SPECIFICATION BrowserSpec
CONSTANTS
    P2ID = {p1, p2}
    Escrows = {e1}
    Loops = {l1, l2}
    None = None
    Tries = 1
    MaxProposals = 3
    MaxSyncErrors = 1
    MaxFailures = 1
    Tabs = {t1}
    MaxIds = 8
    MaxInitFailures = 5
INVARIANTS BrowserTypeOK EscrowLeftAlone LockedOnce FundsReachable
PROPERTIES NotesAbsorbed WalletOpens
CHECK_DEADLOCK FALSE
