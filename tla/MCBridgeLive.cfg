SPECIFICATION FairSpec
CONSTANTS
    s1 = s1  s2 = s2  b1 = b1  r1 = r1  r2 = r2
    basic = basic  genius = genius  None = None
    Sids = {s1, s2}
    Buyers = {b1}
    Requests = {r1}
    Tiers = {basic}
    GatedTiers = {}
    Hold <- MCBasicHold
    MinHold <- MCBasicMinHold
    ChargesOf <- MCOneCharge
    MaxCharge = 2
    Balances = {2}
    AnonCap = 2
    MaxAttempts = 2
    RefundCap = 2
    MaxVerifies = 1
    MaxCrashes = 0
PROPERTY ArmedHoldReleased
PROPERTY PipelineFreed
CHECK_DEADLOCK FALSE
