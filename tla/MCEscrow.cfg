SPECIFICATION Spec
CONSTANTS
    None = None
    MaxIds = 7
    MaxDeaths = 1
    Notes = {n1}
    Buyers = {rita}
    Budgets = {2}
    Modulus = 4
    MaxProposals = 3
    MaxWedges = 1
    MaxFailures = 2
INVARIANTS TypeOK BudgetIsSplit FilesAreOnChain MultisigsStay
PROPERTIES ImplementsLedger FundedIsSettled
CHECK_DEADLOCK FALSE
