SPECIFICATION FairSpec
CONSTANTS
    c1 = c1
    c2 = c2
    c3 = c3
    Slots <- ThreeSlots
    MaxRevisions = 2
CHECK_DEADLOCK FALSE
INVARIANTS
    OrdersAreAgreed
    FlagsMatchHistory
    AcceptedByBoth
PROPERTIES
    AgreementIsFinal
