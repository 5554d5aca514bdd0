SPECIFICATION Spec
CONSTANTS
    Workers = {w1, w2, w3}
    Migrations = {}
    Requests = {r1}
    Usernames = {admin, alice}
    SeedAdmin = admin
    NoName = NoName
    NoWorker = NoWorker
    Databases = {"sqlite"}
    MaxCrashes = 1
INVARIANT
    DeclaredUnique
SYMMETRY
    MCSymmetry
