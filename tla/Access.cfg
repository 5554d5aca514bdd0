SPECIFICATION FairSpec
CONSTANTS
    Requests = {r1, r2}
    Users = {u1}
    PoolSize = 1
    NoAsk = NoAsk
    OpIds = {o1}
    EmptyId = EmptyId
    NoneId = NoneId
    ErrorCodes <- MCErrorCodes
    PageCodes <- MCPageCodes
ACTION_CONSTRAINT
    MCInOrder
INVARIANTS
    TypeOK
    OnlyAuthorisedRequestsAct
    LogInAgainIsJustified
    ConnectionsAreReturned
    AnswersToWritesAreTrue
PROPERTY
    EveryRequestIsAnswered
