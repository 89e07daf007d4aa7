SPECIFICATION Spec
CONSTANTS
    r1 = r1
    c1 = c1
    p1 = p1
    p2 = p2
    Runners = {r1}
    CronRunners = {c1}
    Publishers = {p1, p2}
    Latest = Latest
    Absent = Absent
    Torn = Torn
    Interval = 2
    MaxEpoch = 2
    MaxIndex = 3
    MaxTime = 5
    Settings <- MCSettings
INVARIANTS LatestIsNewest RecordedIsProposed ProposedOnce StoreInvariant
PROPERTY Answered
