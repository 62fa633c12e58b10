CONSTANTS
    a = a
    b = b
    None = None
    Names = {a, b}
    Ranges <- MCRanges
    LocalRanges <- MCLocalRanges
    Reqs <- MCReqsAll
    MaxFailures = 1
SPECIFICATION Spec

    
PROPERTY
    RequestsAnswered
    ImplementsAdmission
CHECK_DEADLOCK FALSE
