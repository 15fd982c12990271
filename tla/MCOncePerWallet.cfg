SPECIFICATION Spec
CONSTANTS
    Plain = Plain  None = None
    Buyers = {rita}
    Slots = {r1, r2}
    Rungs = 2
    MaxRedeems = 2
    MaxCrashes = 0
INVARIANT OncePerWallet
CHECK_DEADLOCK FALSE
