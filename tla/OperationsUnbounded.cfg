SPECIFICATION Spec
CONSTANTS
    Requests = {r1, r2}
    OpIds = {o1, o2}
    NoRequest = NoRequest
    EmptyId = EmptyId
    NoneId = NoneId
    ErrorCodes <- MCErrorCodes
    PageCodes <- MCPageCodes
PROPERTY
    WaitWithoutTimeoutIsUnbounded
