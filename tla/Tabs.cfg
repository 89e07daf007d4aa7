SPECIFICATION TabsSpec
CONSTANTS
    TabIds = {t1, t2}
    Unset = Unset
    MAX = 2
    MaxNotes = 3
    MaxTimers = 1
INVARIANT TabsInvariant
PROPERTY BadgeClears
CHECK_DEADLOCK FALSE
