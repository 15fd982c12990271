SPECIFICATION ChatSpec
CONSTANTS
    a1 = a1  a2 = a2
    basic = basic  genius = genius  nemotron = nemotron  oss = oss  llama = llama
    None = None
    Chats = {a1, a2}
    Tiers = {basic, genius}
    Models <- TierModels
    Price <- TierPrice
    Denom = 12
    Served = {nemotron, oss, llama}
    Tokens = {5}
    MaxCalls = 3
    MaxCrashes = 1
    chat = chat  redeem = redeem  other = other
    Keys = {chat, redeem, other}
    Limit <- KeyLimit
    Window = 3
    MaxKeys = 2
    Evicted = 1
    MaxTime = 6
    MaxGranted = 3
    Prompts <- SomePrompts
    Replies <- SomeReplies
    Budget = 4
    MaxSent = 10
    Overhead = 2
    Shortest = 1
    MaxTurns = 6
INVARIANT BytesFit
CHECK_DEADLOCK FALSE
