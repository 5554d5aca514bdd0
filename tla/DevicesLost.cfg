SPECIFICATION Spec
CONSTANTS
    Requests = {r1, r2}
    Pools = {p1, p2}
    Volumes = {v1}
    Networks = {n1}
    NoDevice = NoDevice
    NoJob = NoJob
    Unseen = Unseen
    Clients = "sequential"
    OpIds = {o1}
    EmptyId = EmptyId
    NoneId = NoneId
    ErrorCodes <- MCErrorCodes
    PageCodes <- MCPageCodes
PROPERTY
    ExistingDevicesArePreserved
