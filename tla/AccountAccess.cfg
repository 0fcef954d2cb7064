SPECIFICATION Spec
CONSTANTS
    c1 = c1
    c2 = c2
    Slots <- TwoSlots
    Workloads <- AllWorkloads
    MaxSessions = 3
    MaxCodes = 2
    MaxPasswords = 2
    MaxMoves = 2
    OtpMax = 2
    LoginMax = 2
SYMMETRY Symmetric
CHECK_DEADLOCK FALSE
INVARIANTS
    TypeOK
    FamilyIsOneLine
    GuessesAreBounded
    CodeAcceptedOnce
PROPERTIES
    OldTokensStayOut
