SPECIFICATION Spec
CONSTANTS
    None = None
    MaxIds = 6
    MaxDeaths = 0
    Notes = {n1}
    Buyers = {rita}
    Budgets = {1}
    Modulus = 3
    MaxProposals = 2
    MaxWedges = 1
    MaxFailures = 2
PROPERTY StillSettles
CHECK_DEADLOCK FALSE
