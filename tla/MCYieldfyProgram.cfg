SPECIFICATION Spec
CONSTANTS
    U64Max = 2
    ScanLimit = 16
    MaxSlot = 2
    U1 = U1
    U2 = U2
    Users <- MCUsers
    Authorities = {deployer, squads}
    Attestors = {k1, k2}
    Venues = {0, 1}
    Vault = Vault
    NoConfig = NoConfig
    InitialWxrp <- MCInitialWxrp
INVARIANTS Consistent Covered ExitAlwaysOpen
PROPERTIES OnlyAdminRevives ImplementsWrapper
