SPECIFICATION PollerSpec
CONSTANTS
    Polls = {p1, p2}
    MaxSupply = 2
    MaxChanges = 3
    MaxErrors = 1
    MaxRestarts = 1
    Idle = Idle
    Waiting = Waiting
    None = None
INVARIANTS CountersBalance MovesAreReal
PROPERTY EventuallyCurrent
