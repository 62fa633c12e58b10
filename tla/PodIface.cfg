CONSTANTS
    None = None
    Results <- MCResults
    MaxFailures = 1
    AddrMax = 7
SPECIFICATION Spec
INVARIANTS
    TypeOK
    SuccessAddrs
    SuccessRoutes
    NoSpuriousFailure
CHECK_DEADLOCK FALSE
