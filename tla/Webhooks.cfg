SPECIFICATION Spec
CONSTANTS
    Events = {e1}
    Subs = {s1, s2}
    Matching = {s1}
    MaxAttempts = 3
INVARIANT SubscribersAreTargets
PROPERTY DispatchSettles
