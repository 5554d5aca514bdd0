SPECIFICATION Spec
CONSTANTS
    Requests = {r1, r2, r3}
    Workers = {w1, w2}
    Headers = {h1}
    NoId = NoId
    NoAsk = NoAsk
    NoWorker = NoWorker
    MaxRestarts = 1
SYMMETRY MCSymmetry
INVARIANTS
    TypeOK
    AnswersTellTheirId
    LinesCarryTheirId
    IdsLeadToOneRequest
