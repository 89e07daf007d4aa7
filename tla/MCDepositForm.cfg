SPECIFICATION FormSpec
CONSTANTS
    Clusters = {mainnet, devnet}
    None = None
    Profiles = {balanced, opportunistic}
    Typed = {5, 10}
    Pasted <- MCPasted
    Cap = 2
    Infinite = 100
    Decimals = 1
    Funds <- MCFunds
    mainnet = mainnet
    devnet = devnet
    MaxDeposits = 1
INVARIANTS FormInvariant SentIsReviewed DepositIsSeen
PROPERTY MaxIsAll
