SPECIFICATION Spec
CONSTANTS
    Keys = {k1, k2, k3, k4}
    Deployer = Deployer
    ConfigPda = ConfigPda
    Squads = Squads
    Absent = Absent
    Torn = Torn
    MaxFaults = 2
INVARIANTS KeysAreKept CompleteMeansBound
PROPERTY Completes
