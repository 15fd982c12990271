SPECIFICATION Spec
CONSTANTS
    s1 = s1  s2 = s2  b1 = b1  r1 = r1  r2 = r2
    basic = basic  genius = genius  None = None
    Sids = {s1}
    Buyers = {b1}
    Requests = {r1, r2}
    Tiers = {basic, genius}
    GatedTiers = {genius}
    Hold <- MCHold
    MinHold <- MCMinHold
    ChargesOf <- MCChargesOf
    MaxCharge = 3
    Balances = {2, 4}
    AnonCap = 2
    MaxAttempts = 2
    RefundCap = 2
    MaxVerifies = 2
    MaxCrashes = 1
SYMMETRY SameRequests
INVARIANT TypeOK
INVARIANTS HoldCoversCharges ChargeIsDurableFirst EscrowBacked EvictionStrandsNothing PaysForRepliesSent BillingInv
PROPERTY NoReplyAfterSettling
PROPERTY ImplementsLedger
CHECK_DEADLOCK FALSE
