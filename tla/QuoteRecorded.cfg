SPECIFICATION FairSpec
CONSTANTS
    c1 = c1
    c2 = c2
    o1 = o1
    o2 = o2
    NoOrder = NoOrder
    Slots <- TwoSlots
    Orders <- OneOrder
    MaxQuotes = 2
    Rows = 2
    Crashes = FALSE
CHECK_DEADLOCK FALSE
INVARIANTS
    PaidQuoteIsBacked
    BooksAreBacked
    BooksAreWhole
PROPERTIES
    ReceivedIsRecorded
