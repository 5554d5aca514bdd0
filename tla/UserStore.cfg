SPECIFICATION FairSpec
CONSTANTS
    Workers = {w1, w2}
    Migrations = {m1}
    Requests = {r1, r2}
    Usernames = {admin, alice}
    SeedAdmin = admin
    NoName = NoName
    NoWorker = NoWorker
    Databases = {"sqlite", "transactional"}
    MaxCrashes = 2
INVARIANTS
    TypeOK
    UsernamesAreUnique
    ServesOnlyWithAdmin
    RegisterAnswersAreTrue
PROPERTIES
    EveryWorkerServes
    RegisterIsAnswered
