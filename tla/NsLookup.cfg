CONSTANTS
    NLookups = 3
    Names = {n1, n2}
    Links = {k1}
    None = None
    IdLimit = 2
    MaxTicks = 2
SPECIFICATION Spec
INVARIANTS TypeOK AnswerIsOwn SingleFlight
PROPERTY LookupEnds
CHECK_DEADLOCK FALSE
