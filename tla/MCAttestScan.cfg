SPECIFICATION VerifySpec
CONSTANTS
    U64Max = 3
    ScanLimit = 2
    K1 = K1
    K2 = K2
    Calls <- MCCalls
INVARIANT AcceptsExactly
\* a call that has returned takes no further step
CHECK_DEADLOCK FALSE
