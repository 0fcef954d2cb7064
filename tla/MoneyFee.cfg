SPECIFICATION Spec
CONSTANTS
    Mils <- ExploredMils
    MinMinor = 10000
    MaxMinor = 10000000
    CLIENT_SERVICE_FEE_PERCENT = 10
    EDITOR_COMMISSION_PERCENT = 10
CHECK_DEADLOCK FALSE
INVARIANTS
    FeeIsCharged
