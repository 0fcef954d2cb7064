SPECIFICATION Spec
CONSTANTS
    c1 = c1
    c2 = c2
    t1 = t1
    t2 = t2
    t3 = t3
    v1 = v1
    Slots <- TwoSlots
    Texts <- ThreeTexts
    Onces <- OneVideo
    PageSize = 1
    RateLimit = 1
    MaxClock = 2
    MaxLinks = 2
    MaxRetried = 2
SYMMETRY Symmetric
INVARIANTS
    TypeOK
    EachSendOnce
    StreamedOnce
    PagesSkipNothing
    BlocksAreApplied
