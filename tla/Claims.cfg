SPECIFICATION Spec
CONSTANTS
    Wallets = {w1, w2}
    NoWallet = NoWallet
    MaxEpoch = 1
    MaxFetches = 2
    MaxCalls = 2
CHECK_DEADLOCK FALSE
INVARIANTS DriftIsCaught ClaimedMeansPaid OneClaimAtATime
PROPERTIES NoReattach CardSettles MixUpEnds
