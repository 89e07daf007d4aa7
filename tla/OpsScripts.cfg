SPECIFICATION OpsSpec
CONSTANTS
    Users = {d, u}
    Signer = d
    MaxMoves = 2
    MaxVault = 3
    MaxFailures = 1
INVARIANTS Verdicts DrillRestores
PROPERTY AlarmRings
