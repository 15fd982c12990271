SPECIFICATION Spec
CONSTANTS
    None = None
    MaxIds = 7
    MaxDeaths = 0
    Notes = {n1}
    Buyers = {rita}
    Budgets = {1}
    Modulus = 3
    MaxProposals = 6
    MaxWedges = 1
    MaxFailures = 1
INVARIANT HoldIsSettleable
CHECK_DEADLOCK FALSE
