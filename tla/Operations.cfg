SPECIFICATION FairSpec
CONSTANTS
    Requests = {r1, r2}
    OpIds = {o1, o2}
    NoRequest = NoRequest
    EmptyId = EmptyId
    NoneId = NoneId
    ErrorCodes <- MCErrorCodes
    PageCodes <- MCPageCodes
ACTION_CONSTRAINT
    MCInOrder
INVARIANTS
    TypeOK
    ReferenceDenotesOwnOperation
    WaitVerdictIsTrue
    RejectionStartsNothing
    AtMostOneOperation
PROPERTIES
    EveryRequestIsAnswered
    ImplementsPromise
