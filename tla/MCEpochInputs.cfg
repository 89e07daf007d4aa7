SPECIFICATION Spec
CONSTANTS
    w1 = w1
    w2 = w2
    w3 = w3
    a1 = a1
    a2 = a2
    a3 = a3
    a4 = a4
    Wallets = {w1, w2, w3}
    Accounts = {a1, a2, a3, a4}
    OwnerOf <- MCOwnerOf
    MaxHeld = 1
    MaxVault = 2
    Prices = {1}
    SolPrices = {2}
    Caps = {0, 7}
    Rate = 1
    MinYieldfy = 1
    MinVaultUsd = 1
    MaxMoves = 2
    None = None
CHECK_DEADLOCK FALSE
INVARIANTS EpochInvariant MoreEarnsMore
