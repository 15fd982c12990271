SPECIFICATION Spec
CONSTANTS
    Plain = Plain  None = None
    Buyers = {rita, bob}
    Slots = {r1, r2, r3}
    Rungs = 3
    MaxRedeems = 3
    MaxCrashes = 1
INVARIANT TypeOK
INVARIANT ClaimedWasMinted
INVARIANT LadderIsPrefix
INVARIANT OnceUnlessRisky
INVARIANT CreditsInv
PROPERTY RedeemAnswered
CHECK_DEADLOCK FALSE
