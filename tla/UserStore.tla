------------------------------ MODULE UserStore ------------------------------
(***************************************************************************)
(* The database of local users: created and seeded by every worker process *)
(* when it starts, written by the register route afterwards.               *)
(*                                                                         *)
(*    app/main.py                  lifespan                                *)
(*    app/db/session.py            init_db                                 *)
(*    app/db/seed.py               seed_admin                              *)
(*    app/db/crud.py               get_user_by_username, create_user       *)
(*    app/api/v1/routes/auth.py    register                                *)
(*    alembic/versions/0001        upgrade                                 *)
(*                                                                         *)
(* The worker processes (Dockerfile: four) share the database and nothing  *)
(* else.  A statement of the database is one step; between two statements  *)
(* every other process may run, and any process may be killed.             *)
(***************************************************************************)
EXTENDS Naturals

CONSTANTS
    Workers,           \* worker processes of uvicorn
    Migrations,        \* processes of `alembic upgrade head`
    Requests,          \* calls of the register route
    Usernames,         \* names that are registered
    SeedAdmin,         \* SEED_ADMIN_USERNAME
    NoName,            \* a request that has not arrived
    NoWorker,          \* the worker of a request that has not arrived
    Databases,         \* the databases that DATABASE_URL may name: "sqlite",
                       \* whose driver commits each DDL statement by itself,
                       \* or "transactional", where create_all commits at once
    MaxCrashes         \* bound: how many processes are killed

ASSUME UserStoreAssumption ==
    /\ Migrations \cap Workers = {}
    /\ NoWorker \notin Workers
    /\ Workers \cap Requests = {}
    /\ NoName \notin Usernames
    /\ SeedAdmin \in Usernames
    /\ Databases \subseteq {"sqlite", "transactional"}
    /\ MaxCrashes \in Nat

VARIABLES
    database,  \* the database of this deployment
    table,     \* the table users exists
    index,     \* the unique index ix_users_username exists
    users,     \* the rows of the table, with who inserted them
    pc,        \* pc[p]: the statement that process p executes next
    register,  \* register[r]: where request r's coroutine is
    worker,    \* worker[r]: the worker that handles r
    name,      \* name[r]: the username to be registered
    answer,    \* answer[r]: the HTTP status given to r's client
    crashes

schemaVars  == <<database, table, index>>
requestVars == <<register, worker, name, answer>>
vars == <<database, table, index, users, pc, register, worker, name, answer, crashes>>

Processes == Workers \cup Migrations
Roles     == {"viewer", "operator", "admin"}

TypeOK ==
    /\ database \in Databases
    /\ table \in BOOLEAN
    /\ index \in BOOLEAN
    /\ users \subseteq [username : Usernames, role : Roles, by : Workers \cup Requests]
    /\ pc \in [Processes -> {"down", "checking", "creating", "indexing", "selecting",
                             "inserting", "serving", "migrated", "failed"}]
    /\ register \in [Requests -> {"idle", "authenticating", "inserting", "refreshing",
                                  "answered", "killed"}]
    /\ worker   \in [Requests -> Workers \cup {NoWorker}]
    /\ name     \in [Requests -> Usernames \cup {NoName}]
    /\ answer   \in [Requests -> {0, 201, 409, 500}]
    /\ crashes  \in 0..MaxCrashes

Init ==
    /\ database \in Databases
    /\ table    = FALSE
    /\ index    = FALSE
    /\ users    = {}
    /\ pc       = [p \in Processes |-> "down"]
    /\ register = [r \in Requests |-> "idle"]
    /\ worker   = [r \in Requests |-> NoWorker]
    /\ name     = [r \in Requests |-> NoName]
    /\ answer   = [r \in Requests |-> 0]
    /\ crashes  = 0

Named(n) == {u \in users : u.username = n}

(* What SELECT ... WHERE username = n and scalar_one_or_none make of it. *)
IsAbsent(n)    == Named(n) = {}
IsAmbiguous(n) == \E u, v \in Named(n) : u # v     \* MultipleResultsFound
IsPresent(n)   == ~ IsAbsent(n) /\ ~ IsAmbiguous(n)

(* An INSERT is refused only by the unique index. *)
Conflicts(n) == index /\ ~ IsAbsent(n)

HasDuplicates == \E n \in Usernames : IsAmbiguous(n)

-----------------------------------------------------------------------------
(* init_db: Base.metadata.create_all *)

GoTo(p, label) == pc' = [pc EXCEPT ![p] = label]

(* uvicorn starts its workers, and starts again those that died. *)
Start(w) ==
    /\ pc[w] \in {"down", "failed"}
    /\ GoTo(w, "checking")
    /\ UNCHANGED <<schemaVars, users, requestVars, crashes>>

(* create_all looks for the table; the index goes with the table. *)
CheckTable(w) ==
    /\ pc[w] = "checking"
    /\ GoTo(w, IF table THEN "selecting" ELSE "creating")
    /\ UNCHANGED <<schemaVars, users, requestVars, crashes>>

(* A bug: the column is declared without its unique index. *)
CreateTableAlone(p) ==
    /\ pc[p] = "creating"
    /\ ~ table
    /\ table' = TRUE
    /\ GoTo(p, IF p \in Migrations THEN "migrated" ELSE "selecting")
    /\ UNCHANGED <<database, index, users, requestVars, crashes>>

CreateTable(p) ==
    /\ pc[p] = "creating"
    /\ ~ table
    /\ table' = TRUE
    /\ IF database = "transactional"
       THEN index' = TRUE /\ GoTo(p, IF p \in Migrations THEN "migrated" ELSE "selecting")
       ELSE UNCHANGED index /\ GoTo(p, "indexing")
    /\ UNCHANGED <<database, users, requestVars, crashes>>

(* "table users already exists" *)
TableExists(p) ==
    /\ pc[p] = "creating"
    /\ table
    /\ GoTo(p, "failed")
    /\ UNCHANGED <<schemaVars, users, requestVars, crashes>>

CreateIndex(p) ==
    /\ pc[p] = "indexing"
    /\ IF HasDuplicates
       THEN UNCHANGED index /\ GoTo(p, "failed")
       ELSE index' = TRUE /\ GoTo(p, IF p \in Migrations THEN "migrated" ELSE "selecting")
    /\ UNCHANGED <<database, table, users, requestVars, crashes>>

(* alembic upgrade head, on a database it has not stamped, does not look   *)
(* for the table first.                                                    *)
Migrate(m) ==
    /\ pc[m] \in {"down", "failed"}
    /\ GoTo(m, "creating")
    /\ UNCHANGED <<schemaVars, users, requestVars, crashes>>

-----------------------------------------------------------------------------
(* seed_admin *)

(* A bug: the admin is inserted without looking for one first. *)
SeedFindsNobody(w) ==
    /\ pc[w] = "selecting"
    /\ GoTo(w, "inserting")
    /\ UNCHANGED <<schemaVars, users, requestVars, crashes>>

SeedFinds(w) ==
    /\ pc[w] = "selecting"
    /\ CASE IsAbsent(SeedAdmin)  -> GoTo(w, "inserting")
         [] IsPresent(SeedAdmin) -> GoTo(w, "serving")
         [] OTHER                -> GoTo(w, "failed")
    /\ UNCHANGED <<schemaVars, users, requestVars, crashes>>

(* A bug: the role of the seeded user is mistaken for its name. *)
SeedInsertsNameAsRole(w) ==
    /\ pc[w] = "inserting"
    /\ IF Conflicts(SeedAdmin)
       THEN UNCHANGED users /\ GoTo(w, "failed")
       ELSE /\ users' = users \cup {[username |-> SeedAdmin, role |-> SeedAdmin, by |-> w]}
            /\ GoTo(w, "serving")
    /\ UNCHANGED <<schemaVars, requestVars, crashes>>

(* A bug: the row is added to the session and never committed. *)
SeedInsertsUncommitted(w) ==
    /\ pc[w] = "inserting"
    /\ GoTo(w, "serving")
    /\ UNCHANGED <<schemaVars, users, requestVars, crashes>>

(* The ValueError of create_user leaves seed_admin and the lifespan. *)
SeedInserts(w) ==
    /\ pc[w] = "inserting"
    /\ IF Conflicts(SeedAdmin)
       THEN UNCHANGED users /\ GoTo(w, "failed")
       ELSE /\ users' = users \cup {[username |-> SeedAdmin, role |-> "admin", by |-> w]}
            /\ GoTo(w, "serving")
    /\ UNCHANGED <<schemaVars, requestVars, crashes>>

-----------------------------------------------------------------------------
(* register *)

(* The seeded admin asks some worker to create a user. *)
Register(r, w, n) ==
    /\ register[r] = "idle"
    /\ pc[w] = "serving"
    /\ register' = [register EXCEPT ![r] = "authenticating"]
    /\ worker'   = [worker EXCEPT ![r] = w]
    /\ name'     = [name EXCEPT ![r] = n]
    /\ UNCHANGED <<schemaVars, users, pc, answer, crashes>>

AnswerRegister(r, http) ==
    /\ register' = [register EXCEPT ![r] = "answered"]
    /\ answer'   = [answer EXCEPT ![r] = http]

(* get_current_user and RequireAdmin; a second row of that name is not     *)
(* expected and ends in the handler for unhandled errors.                  *)
Authenticate(r) ==
    /\ register[r] = "authenticating"
    /\ IF IsPresent(SeedAdmin)
       THEN register' = [register EXCEPT ![r] = "inserting"] /\ UNCHANGED answer
       ELSE AnswerRegister(r, 500)
    /\ UNCHANGED <<schemaVars, users, pc, worker, name, crashes>>

(* A bug: an IntegrityError is rolled back and the user there is returned. *)
InsertReturnsExisting(r) ==
    /\ register[r] = "inserting"
    /\ register' = [register EXCEPT ![r] = "refreshing"]
    /\ users' = IF Conflicts(name[r]) THEN users
                ELSE users \cup {[username |-> name[r], role |-> "viewer", by |-> r]}
    /\ UNCHANGED <<schemaVars, pc, worker, name, answer, crashes>>

(* A bug: an IntegrityError is rolled back and the INSERT tried again. *)
InsertRetries(r) ==
    /\ register[r] = "inserting"
    /\ ~ Conflicts(name[r])
    /\ register' = [register EXCEPT ![r] = "refreshing"]
    /\ users' = users \cup {[username |-> name[r], role |-> "viewer", by |-> r]}
    /\ UNCHANGED <<schemaVars, pc, worker, name, answer, crashes>>

(* create_user: INSERT and commit, or rollback and 409. *)
InsertUser(r) ==
    /\ register[r] = "inserting"
    /\ IF Conflicts(name[r])
       THEN AnswerRegister(r, 409) /\ UNCHANGED users
       ELSE /\ register' = [register EXCEPT ![r] = "refreshing"]
            /\ \E role \in Roles :
                  users' = users \cup {[username |-> name[r], role |-> role, by |-> r]}
            /\ UNCHANGED answer
    /\ UNCHANGED <<schemaVars, pc, worker, name, crashes>>

RefreshUser(r) ==
    /\ register[r] = "refreshing"
    /\ AnswerRegister(r, 201)
    /\ UNCHANGED <<schemaVars, users, pc, worker, name, crashes>>

-----------------------------------------------------------------------------
(* A process is killed between two statements.  What it committed stays,   *)
(* its requests are never answered.                                        *)
Crash(p) ==
    /\ crashes < MaxCrashes
    /\ pc[p] \notin {"down", "failed", "migrated"}
    /\ crashes'  = crashes + 1
    /\ GoTo(p, "down")
    /\ register' = [r \in Requests |->
                      IF worker[r] = p /\ register[r] # "answered" THEN "killed"
                      ELSE register[r]]
    /\ UNCHANGED <<schemaVars, users, worker, name, answer>>

(* The statements of a worker's lifespan. *)
Lifespan(w) ==
    \/ Start(w)
    \/ CheckTable(w)
    \/ CreateTable(w)
    \/ TableExists(w)
    \/ CreateIndex(w)
    \/ SeedFinds(w)
    \/ SeedInserts(w)

Migration(m) ==
    \/ Migrate(m)
    \/ CreateTable(m)
    \/ TableExists(m)
    \/ CreateIndex(m)

Handler(r) == Authenticate(r) \/ InsertUser(r) \/ RefreshUser(r)

AllDone ==
    /\ \A w \in Workers : pc[w] = "serving"
    /\ \A m \in Migrations : pc[m] \in {"down", "migrated", "failed"}
    /\ \A r \in Requests : register[r] \in {"answered", "killed"}
    /\ UNCHANGED vars

Next ==
    \/ \E w \in Workers : Lifespan(w)
    \/ \E m \in Migrations : Migration(m)
    \/ \E r \in Requests : Handler(r)
    \/ \E r \in Requests, w \in Workers, n \in Usernames : Register(r, w, n)
    \/ \E p \in Processes : Crash(p)
    \/ AllDone

Spec == Init /\ [][Next]_vars

(* uvicorn's supervisor keeps its workers alive, a process executes its    *)
(* next statement, and the event loop runs the handlers.                   *)
FairSpec ==
    /\ Spec
    /\ \A w \in Workers : WF_vars(Lifespan(w))
    /\ \A r \in Requests : WF_vars(Handler(r))

-----------------------------------------------------------------------------
(* Properties *)

(* No two rows have the same username, whichever processes start, race,    *)
(* are killed and start again: always with transactional DDL, and on       *)
(* SQLite once the index exists, also if it came after the first rows.     *)
UsernamesAreUnique == index \/ database = "transactional" => ~ HasDuplicates

(* lifespan: a worker serves requests only when the seeded admin exists,   *)
(* whoever inserted it.                                                    *)
ServesOnlyWithAdmin ==
    \A w \in Workers : pc[w] = "serving" => ~ IsAbsent(SeedAdmin)

(* register: a 201 is given to the one request whose row has that name,    *)
(* and a 409 only if another process or request had inserted the name;     *)
(* neither changes when workers crash later.                               *)
RegisterAnswersAreTrue ==
    \A r \in Requests :
        /\ answer[r] = 201 => \E u \in Named(name[r]) : u.by = r
        /\ answer[r] = 409 => /\ ~ IsAbsent(name[r])
                              /\ \A u \in users : u.by # r

(* Each worker serves in the end, however many start at once, lose the     *)
(* race for the table, the index or the admin, or are killed, on SQLite    *)
(* too: only two rows with the admin's name, which a registration without  *)
(* the index or two seeding workers can leave, keep a worker out.          *)
EveryWorkerServes ==
    [](~ IsAmbiguous(SeedAdmin)) => \A w \in Workers : <>[](pc[w] = "serving")

(* A register request is answered unless its worker is killed. *)
RegisterIsAnswered ==
    \A r \in Requests :
        register[r] = "authenticating" ~> register[r] \in {"answered", "killed"}

-----------------------------------------------------------------------------
(* What the code declares of the table and does not ensure *)

(* models.py:29: the column username is declared unique. *)
DeclaredUnique == ~ HasDuplicates
=============================================================================
