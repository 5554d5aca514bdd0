--------------------------- MODULE UserStore_proofs ---------------------------
(***************************************************************************)
(* Proofs about UserStore, for every set of workers, migrations, register  *)
(* calls and names, any number of kills, and both kinds of database.       *)
(***************************************************************************)
EXTENDS UserStore, TLAPS

(* The index is made with the table or, on SQLite, after it; whoever gets  *)
(* past create_all finds the table there, and it stays.                    *)
SchemaAgrees ==
    /\ database = "transactional" => index = table
    /\ \A p \in Processes :
          /\ pc[p] = "indexing" => database # "transactional"
          /\ pc[p] \in {"indexing", "selecting", "inserting", "serving"} => table
    /\ \A r \in Requests : register[r] \in {"authenticating", "inserting"} => table

(* A request inserts its row when it goes on to refresh it, and is         *)
(* answered last.                                                          *)
RowsAgree ==
    \A r \in Requests :
        /\ register[r] \in {"idle", "authenticating", "inserting"} =>
              \A u \in users : u.by # r
        /\ register[r] \in {"authenticating", "inserting"} => name[r] \in Usernames
        /\ register[r] = "refreshing" => \E u \in Named(name[r]) : u.by = r
        /\ register[r] # "answered" => answer[r] = 0

Invariant ==
    /\ TypeOK
    /\ SchemaAgrees
    /\ RowsAgree
    /\ UsernamesAreUnique
    /\ ServesOnlyWithAdmin
    /\ RegisterAnswersAreTrue

Labels == {"down", "checking", "creating", "indexing", "selecting", "inserting",
           "serving", "migrated", "failed"}

-----------------------------------------------------------------------------
(* Rows *)

LEMMA RowsDecide ==
    ASSUME UNCHANGED users
    PROVE  /\ \A n : Named(n)' = Named(n)
           /\ \A n : IsAbsent(n)' <=> IsAbsent(n)
           /\ HasDuplicates' <=> HasDuplicates
BY DEF Named, IsAbsent, IsAmbiguous, HasDuplicates

(* Rows are never deleted. *)
LEMMA RowsStay ==
    ASSUME users \subseteq users'
    PROVE  /\ \A n : Named(n) \subseteq Named(n)'
           /\ \A n : ~ IsAbsent(n) => ~ IsAbsent(n)'
BY DEF Named, IsAbsent

LEMMA InsertedIsNamed ==
    ASSUME NEW u, users' = users \cup {u}
    PROVE  u \in Named(u.username)' /\ ~ IsAbsent(u.username)'
BY DEF Named, IsAbsent

(* An INSERT of a name that is absent keeps the names unique. *)
LEMMA InsertKeepsUnique ==
    ASSUME ~ HasDuplicates, NEW u, IsAbsent(u.username), users' = users \cup {u}
    PROVE  ~ HasDuplicates'
<1> SUFFICES ASSUME NEW n \in Usernames, NEW v \in Named(n)', NEW w \in Named(n)', v # w
             PROVE  FALSE
  BY DEF HasDuplicates, IsAmbiguous
<1>1. v \in users \cup {u} /\ w \in users \cup {u} /\ v.username = n /\ w.username = n
  BY DEF Named
<1>2. CASE v = u \/ w = u
  BY <1>1, <1>2 DEF IsAbsent, Named
<1>3. CASE v # u /\ w # u
  BY <1>1, <1>3 DEF HasDuplicates, IsAmbiguous, Named
<1> QED
  BY <1>2, <1>3

-----------------------------------------------------------------------------
(* The invariant is inductive: the statements of the processes. *)

LEMMA InitInvariant == Init => Invariant
<1> SUFFICES ASSUME Init
             PROVE  Invariant
  OBVIOUS
<1>1. TypeOK
  <2>1. database \in Databases /\ table \in BOOLEAN /\ index \in BOOLEAN
    BY Zenon DEF Init
  <2>2. users = {} /\ crashes \in 0..MaxCrashes
    BY UserStoreAssumption DEF UserStoreAssumption, Init
  <2> QED
    BY <2>1, <2>2 DEF Init, TypeOK
<1>2. SchemaAgrees /\ ServesOnlyWithAdmin
  BY DEF Init, SchemaAgrees, ServesOnlyWithAdmin, Processes
<1>3. RowsAgree /\ RegisterAnswersAreTrue
  BY DEF Init, RowsAgree, RegisterAnswersAreTrue
<1>4. UsernamesAreUnique
  BY DEF Init, UsernamesAreUnique, HasDuplicates, IsAmbiguous, Named
<1> QED
  BY <1>1, <1>2, <1>3, <1>4 DEF Invariant

(* What touches neither rows nor requests leaves what is known of them. *)
LEMMA RequestsUnchanged ==
    ASSUME Invariant, UNCHANGED <<users, requestVars>>
    PROVE  RowsAgree' /\ RegisterAnswersAreTrue'
<1> USE DEF requestVars
<1>1. RowsAgree'
  BY RowsDecide DEF Invariant, RowsAgree
<1>2. RegisterAnswersAreTrue'
  BY RowsDecide DEF Invariant, RegisterAnswersAreTrue
<1> QED
  BY <1>1, <1>2

(* A statement that inserts nothing: what the process may go on to. *)
LEMMA ProcessStep ==
    ASSUME Invariant, NEW p \in Processes, NEW label \in Labels, GoTo(p, label),
           UNCHANGED <<database, users, requestVars, crashes>>,
           table' \in BOOLEAN, index' \in BOOLEAN, table => table',
           database = "transactional" => index' = table' /\ label # "indexing",
           label \in {"indexing", "selecting", "inserting", "serving"} => table',
           index' => index \/ ~ HasDuplicates,
           label = "serving" => ~ IsAbsent(SeedAdmin)
    PROVE  Invariant'
<1>1. TypeOK /\ SchemaAgrees
  BY DEF Invariant
<1>2. /\ pc'[p] = label /\ pc' \in [Processes -> Labels]
      /\ \A q \in Processes \ {p} : pc'[q] = pc[q]
  BY <1>1 DEF GoTo, TypeOK, Labels
<1>3. TypeOK'
  BY <1>1, <1>2 DEF TypeOK, Labels, requestVars
<1>4. SchemaAgrees'
  BY <1>1, <1>2 DEF SchemaAgrees, requestVars
<1>5. UsernamesAreUnique'
  BY RowsDecide DEF Invariant, UsernamesAreUnique
<1>6. ServesOnlyWithAdmin'
  BY <1>2, RowsDecide DEF Invariant, ServesOnlyWithAdmin, Processes
<1> QED
  BY <1>3, <1>4, <1>5, <1>6, RequestsUnchanged DEF Invariant

LEMMA StartInvariant ==
    ASSUME Invariant, NEW p \in Processes, NEW label \in {"checking", "creating", "failed"},
           GoTo(p, label), UNCHANGED <<schemaVars, users, requestVars, crashes>>
    PROVE  Invariant'
<1>1. table' \in BOOLEAN /\ index' \in BOOLEAN /\ table' = table /\ index' = index
  BY DEF Invariant, TypeOK, schemaVars
<1>2. database' = database /\ (database = "transactional" => index' = table')
  BY DEF Invariant, SchemaAgrees, schemaVars
<1> QED
  BY <1>1, <1>2, ProcessStep DEF Labels

LEMMA CheckTableInvariant ==
    ASSUME Invariant, NEW w \in Workers, CheckTable(w)
    PROVE  Invariant'
<1>1. w \in Processes
  BY DEF Processes
<1>2. CASE table
  <2> DEFINE label == "selecting"
  <2>1. /\ GoTo(w, label) /\ label \in Labels /\ label # "indexing" /\ label # "serving"
        /\ UNCHANGED <<schemaVars, users, requestVars, crashes>>
    BY <1>2 DEF CheckTable, Labels
  <2>2. /\ table' \in BOOLEAN /\ index' \in BOOLEAN /\ table' /\ index' = index
        /\ database' = database /\ (database = "transactional" => index' = table')
    BY <1>2, <2>1 DEF Invariant, TypeOK, SchemaAgrees, schemaVars
  <2> HIDE DEF label
  <2> QED
    BY <1>1, <2>1, <2>2, ProcessStep
<1>3. CASE ~ table
  BY <1>1, <1>3, StartInvariant DEF CheckTable
<1> QED
  BY <1>2, <1>3

LEMMA CreateTableInvariant ==
    ASSUME Invariant, NEW p \in Processes, CreateTable(p)
    PROVE  Invariant'
<1>1. PICK label \in {"migrated", "selecting", "indexing"} :
          /\ GoTo(p, label)
          /\ IF database = "transactional" THEN index' = TRUE /\ label # "indexing"
                                           ELSE index' = index
  BY DEF CreateTable
<1>2. /\ ~ table /\ table' = TRUE
      /\ UNCHANGED <<database, users, requestVars, crashes>>
  BY DEF CreateTable
<1>3. /\ index' \in BOOLEAN
      /\ index' => index \/ ~ HasDuplicates
  BY <1>1 DEF Invariant, TypeOK, UsernamesAreUnique
<1> QED
  BY <1>1, <1>2, <1>3, ProcessStep DEF Labels

LEMMA CreateIndexInvariant ==
    ASSUME Invariant, NEW p \in Processes, CreateIndex(p)
    PROVE  Invariant'
<1>1. /\ pc[p] = "indexing"
      /\ UNCHANGED <<database, table, users, requestVars, crashes>>
  BY DEF CreateIndex
<1>2. table = TRUE /\ table' = TRUE /\ database # "transactional"
  BY <1>1 DEF Invariant, TypeOK, SchemaAgrees
<1>3. CASE HasDuplicates
  <2>1. GoTo(p, "failed") /\ index' = index
    BY <1>3 DEF CreateIndex
  <2>2. UNCHANGED <<schemaVars, users, requestVars, crashes>>
    BY <1>1, <2>1 DEF schemaVars
  <2> QED
    BY <2>1, <2>2, StartInvariant
<1>4. CASE ~ HasDuplicates
  <2>1. PICK label \in {"migrated", "selecting"} : GoTo(p, label)
    BY <1>4 DEF CreateIndex
  <2>2. index' = TRUE
    BY <1>4 DEF CreateIndex
  <2> QED
    BY <1>1, <1>2, <1>4, <2>1, <2>2, ProcessStep DEF Labels
<1> QED
  BY <1>3, <1>4

LEMMA SeedFindsInvariant ==
    ASSUME Invariant, NEW w \in Workers, SeedFinds(w)
    PROVE  Invariant'
<1>1. /\ pc[w] = "selecting" /\ w \in Processes
      /\ UNCHANGED <<schemaVars, users, requestVars, crashes>>
  BY DEF SeedFinds, Processes
<1>2. /\ table /\ table' \in BOOLEAN /\ index' \in BOOLEAN
      /\ UNCHANGED <<database, table, index>>
      /\ database = "transactional" => index' = table'
  BY <1>1 DEF Invariant, TypeOK, SchemaAgrees, schemaVars
<1>3. PICK label \in {"inserting", "serving", "failed"} :
          /\ GoTo(w, label)
          /\ label = "serving" => ~ IsAbsent(SeedAdmin)
  <2>1. CASE IsAbsent(SeedAdmin)
    <3>1. GoTo(w, "inserting")
      BY <2>1, Zenon DEF SeedFinds, IsPresent
    <3> QED
      BY <3>1
  <2>2. CASE IsPresent(SeedAdmin)
    <3>1. GoTo(w, "serving") /\ ~ IsAbsent(SeedAdmin)
      BY <2>2, Zenon DEF SeedFinds, IsPresent
    <3> QED
      BY <3>1
  <2>3. CASE ~ IsAbsent(SeedAdmin) /\ ~ IsPresent(SeedAdmin)
    <3>1. GoTo(w, "failed")
      BY <2>3, Zenon DEF SeedFinds
    <3> QED
      BY <3>1
  <2> QED
    BY <2>1, <2>2, <2>3
<1> QED
  BY <1>1, <1>2, <1>3, ProcessStep DEF Labels

(* seed_admin: its row is by a worker and so by no request. *)
LEMMA SeedInsertsInvariant ==
    ASSUME Invariant, NEW w \in Workers, SeedInserts(w)
    PROVE  Invariant'
<1> DEFINE row == [username |-> SeedAdmin, role |-> "admin", by |-> w]
<1>1. /\ pc[w] = "inserting" /\ w \in Processes
      /\ UNCHANGED <<schemaVars, requestVars, crashes>>
  BY DEF SeedInserts, Processes
<1>2. CASE Conflicts(SeedAdmin)
  BY <1>1, <1>2, StartInvariant DEF SeedInserts
<1>3. CASE ~ Conflicts(SeedAdmin)
  <2>1. users' = users \cup {row} /\ GoTo(w, "serving")
    BY <1>3 DEF SeedInserts
  <2>2. /\ row.username = SeedAdmin /\ row.by = w /\ row.by \notin Requests
        /\ row \in [username : Usernames, role : Roles, by : Workers \cup Requests]
    BY UserStoreAssumption DEF UserStoreAssumption, Roles
  <2> HIDE DEF row
  <2>3. TypeOK /\ SchemaAgrees /\ RowsAgree /\ RegisterAnswersAreTrue
    BY DEF Invariant
  <2>4. /\ pc'[w] = "serving" /\ pc' \in [Processes -> Labels]
        /\ \A q \in Processes \ {w} : pc'[q] = pc[q]
    BY <1>1, <2>1, <2>3 DEF GoTo, TypeOK, Labels
  <2>5. ~ IsAbsent(SeedAdmin)'
    BY <2>1, <2>2, InsertedIsNamed
  <2>6. TypeOK'
    BY <1>1, <2>1, <2>2, <2>3, <2>4 DEF TypeOK, Labels, schemaVars, requestVars
  <2>7. SchemaAgrees'
    BY <1>1, <2>3, <2>4 DEF SchemaAgrees, schemaVars, requestVars
  <2>8. RowsAgree'
    BY <1>1, <2>1, <2>2, <2>3, RowsStay DEF RowsAgree, requestVars
  <2>9. RegisterAnswersAreTrue'
    BY <1>1, <2>1, <2>2, <2>3, RowsStay DEF RegisterAnswersAreTrue, requestVars
  <2>10. ServesOnlyWithAdmin'
    BY <2>5 DEF ServesOnlyWithAdmin
  <2>11. UsernamesAreUnique'
    <3>1. CASE index \/ database = "transactional"
      <4>1. index /\ ~ HasDuplicates
        BY <1>1, <2>3, <3>1 DEF Invariant, SchemaAgrees, UsernamesAreUnique
      <4>2. IsAbsent(row.username)
        BY <1>3, <2>2, <4>1 DEF Conflicts
      <4> QED
        BY <2>1, <4>1, <4>2, InsertKeepsUnique DEF UsernamesAreUnique
    <3>2. CASE ~ (index \/ database = "transactional")
      BY <1>1, <3>2 DEF UsernamesAreUnique, schemaVars
    <3> QED
      BY <3>1, <3>2
  <2> QED
    BY <2>6, <2>7, <2>8, <2>9, <2>10, <2>11 DEF Invariant
<1> QED
  BY <1>2, <1>3

-----------------------------------------------------------------------------
(* The invariant is inductive: the register route and kills. *)

(* A step of a handler that leaves rows and processes alone. *)
LEMMA RowsUnchanged ==
    ASSUME Invariant, UNCHANGED <<schemaVars, users, pc>>
    PROVE  UsernamesAreUnique' /\ ServesOnlyWithAdmin'
<1>1. UsernamesAreUnique'
  BY RowsDecide DEF Invariant, UsernamesAreUnique, schemaVars
<1>2. ServesOnlyWithAdmin'
  BY RowsDecide DEF Invariant, ServesOnlyWithAdmin
<1> QED
  BY <1>1, <1>2

LEMMA RegisterInvariant ==
    ASSUME Invariant, NEW r \in Requests, NEW w \in Workers, NEW n \in Usernames,
           Register(r, w, n)
    PROVE  Invariant'
<1>1. TypeOK /\ SchemaAgrees /\ RowsAgree /\ RegisterAnswersAreTrue
  BY DEF Invariant
<1>2. /\ register[r] = "idle" /\ pc[w] = "serving" /\ w \in Processes
      /\ UNCHANGED <<schemaVars, users, pc, answer, crashes>>
  BY DEF Register, Processes
<1>3. /\ register'[r] = "authenticating" /\ answer[r] = 0 /\ name'[r] = n
      /\ \A s \in Requests \ {r} : register'[s] = register[s] /\ name'[s] = name[s]
  BY <1>1, <1>2 DEF Register, TypeOK, RowsAgree
<1>4. TypeOK'
  BY <1>1 DEF Register, TypeOK, schemaVars
<1>5. SchemaAgrees'
  BY <1>1, <1>2, <1>3 DEF SchemaAgrees, schemaVars
<1>6. RowsAgree'
  BY <1>1, <1>2, <1>3, RowsDecide DEF RowsAgree
<1>7. RegisterAnswersAreTrue'
  BY <1>1, <1>2, <1>3, RowsDecide DEF RegisterAnswersAreTrue
<1> QED
  BY <1>2, <1>4, <1>5, <1>6, <1>7, RowsUnchanged DEF Invariant

(* An answer without an INSERT: what it tells must be true already.        *)
LEMMA AnswerInvariant ==
    ASSUME Invariant, NEW r \in Requests, NEW http \in {201, 409, 500},
           AnswerRegister(r, http),
           UNCHANGED <<schemaVars, users, pc, worker, name, crashes>>,
           http = 201 => \E u \in Named(name[r]) : u.by = r,
           http = 409 => ~ IsAbsent(name[r]) /\ \A u \in users : u.by # r
    PROVE  Invariant'
<1>1. TypeOK /\ SchemaAgrees /\ RowsAgree /\ RegisterAnswersAreTrue
  BY DEF Invariant
<1>2. /\ register'[r] = "answered" /\ answer'[r] = http
      /\ \A s \in Requests \ {r} :
            register'[s] = register[s] /\ answer'[s] = answer[s]
  BY <1>1 DEF AnswerRegister, TypeOK
<1>3. TypeOK'
  BY <1>1 DEF AnswerRegister, TypeOK, schemaVars
<1>4. SchemaAgrees'
  BY <1>1, <1>2 DEF SchemaAgrees, schemaVars
<1>5. RowsAgree'
  BY <1>1, <1>2, RowsDecide DEF RowsAgree
<1>6. RegisterAnswersAreTrue'
  BY <1>1, <1>2, RowsDecide DEF RegisterAnswersAreTrue
<1> QED
  BY <1>3, <1>4, <1>5, <1>6, RowsUnchanged DEF Invariant

LEMMA AuthenticateInvariant ==
    ASSUME Invariant, NEW r \in Requests, Authenticate(r)
    PROVE  Invariant'
<1>1. CASE IsPresent(SeedAdmin)
  <2>1. /\ register[r] = "authenticating"
        /\ register' = [register EXCEPT ![r] = "inserting"]
        /\ UNCHANGED <<schemaVars, users, pc, worker, name, answer, crashes>>
    BY <1>1 DEF Authenticate
  <2>2. TypeOK /\ SchemaAgrees /\ RowsAgree /\ RegisterAnswersAreTrue
    BY DEF Invariant
  <2>3. /\ register'[r] = "inserting"
        /\ \A s \in Requests \ {r} : register'[s] = register[s]
    BY <2>1, <2>2 DEF TypeOK
  <2>4. TypeOK'
    BY <2>1, <2>2 DEF TypeOK, schemaVars
  <2>5. SchemaAgrees'
    BY <2>1, <2>2, <2>3 DEF SchemaAgrees, schemaVars
  <2>6. RowsAgree'
    BY <2>1, <2>2, <2>3, RowsDecide DEF RowsAgree
  <2>7. RegisterAnswersAreTrue'
    BY <2>1, <2>2, RowsDecide DEF RegisterAnswersAreTrue
  <2> QED
    BY <2>1, <2>4, <2>5, <2>6, <2>7, RowsUnchanged DEF Invariant
<1>2. CASE ~ IsPresent(SeedAdmin)
  <2> DEFINE http == 500
  <2>1. /\ AnswerRegister(r, http) /\ http \in {201, 409, 500}
        /\ http # 201 /\ http # 409
        /\ UNCHANGED <<schemaVars, users, pc, worker, name, crashes>>
    BY <1>2 DEF Authenticate
  <2> HIDE DEF http
  <2> QED
    BY <2>1, AnswerInvariant
<1> QED
  BY <1>1, <1>2

LEMMA RefreshInvariant ==
    ASSUME Invariant, NEW r \in Requests, RefreshUser(r)
    PROVE  Invariant'
<1> DEFINE http == 201
<1>1. /\ AnswerRegister(r, http) /\ http \in {201, 409, 500} /\ http # 409
      /\ UNCHANGED <<schemaVars, users, pc, worker, name, crashes>>
  BY DEF RefreshUser
<1>2. \E u \in Named(name[r]) : u.by = r
  BY DEF RefreshUser, Invariant, RowsAgree
<1> HIDE DEF http
<1> QED
  BY <1>1, <1>2, AnswerInvariant

(* create_user: with the index, only an absent name is inserted; without   *)
(* it, nothing is promised.                                                *)
LEMMA InsertInvariant ==
    ASSUME Invariant, NEW r \in Requests, InsertUser(r)
    PROVE  Invariant'
<1>1. TypeOK /\ SchemaAgrees /\ RowsAgree /\ RegisterAnswersAreTrue
  BY DEF Invariant
<1>2. /\ register[r] = "inserting"
      /\ UNCHANGED <<schemaVars, pc, worker, name, crashes>>
  BY DEF InsertUser
<1>3. \A u \in users : u.by # r
  BY <1>1, <1>2 DEF RowsAgree
<1>4. CASE Conflicts(name[r])
  <2> DEFINE http == 409
  <2>1. /\ AnswerRegister(r, http) /\ http \in {201, 409, 500} /\ http # 201
        /\ users' = users
    BY <1>4 DEF InsertUser
  <2>2. ~ IsAbsent(name[r])
    BY <1>4 DEF Conflicts
  <2> HIDE DEF http
  <2> QED
    BY <1>2, <1>3, <2>1, <2>2, AnswerInvariant
<1>5. CASE ~ Conflicts(name[r])
  <2>1. PICK role \in Roles :
            users' = users \cup {[username |-> name[r], role |-> role, by |-> r]}
    BY <1>5 DEF InsertUser
  <2> DEFINE row == [username |-> name[r], role |-> role, by |-> r]
  <2>2. /\ register' = [register EXCEPT ![r] = "refreshing"] /\ answer' = answer
        /\ users' = users \cup {row} /\ row.username = name[r] /\ row.by = r
    BY <1>5, <2>1 DEF InsertUser
  <2>3. row \in [username : Usernames, role : Roles, by : Workers \cup Requests]
    BY <1>1, <1>2 DEF RowsAgree
  <2> HIDE DEF row
  <2>4. /\ register'[r] = "refreshing"
        /\ \A s \in Requests \ {r} : register'[s] = register[s]
    BY <1>1, <2>2 DEF TypeOK
  <2>5. TypeOK'
    BY <1>1, <1>2, <2>2, <2>3 DEF TypeOK, schemaVars
  <2>6. SchemaAgrees'
    BY <1>1, <1>2, <2>4 DEF SchemaAgrees, schemaVars
  <2>7. row \in Named(name[r])'
    BY <1>2, <2>2 DEF Named
  <2>8. RowsAgree'
    BY <1>1, <1>2, <2>2, <2>4, <2>7, RowsStay DEF RowsAgree
  <2>9. RegisterAnswersAreTrue'
    BY <1>1, <1>2, <2>2, <2>4, RowsStay DEF RowsAgree, RegisterAnswersAreTrue
  <2>10. ServesOnlyWithAdmin'
    BY <1>2, <2>2, RowsStay DEF Invariant, ServesOnlyWithAdmin
  <2>11. UsernamesAreUnique'
    <3>1. CASE index \/ database = "transactional"
      <4>1. index /\ ~ HasDuplicates
        BY <1>1, <1>2, <3>1 DEF Invariant, SchemaAgrees, UsernamesAreUnique
      <4>2. IsAbsent(row.username)
        BY <1>5, <2>2, <4>1 DEF Conflicts
      <4> QED
        BY <2>2, <4>1, <4>2, InsertKeepsUnique DEF UsernamesAreUnique
    <3>2. CASE ~ (index \/ database = "transactional")
      BY <1>2, <3>2 DEF UsernamesAreUnique, schemaVars
    <3> QED
      BY <3>1, <3>2
  <2> QED
    BY <2>5, <2>6, <2>8, <2>9, <2>10, <2>11 DEF Invariant
<1> QED
  BY <1>4, <1>5

(* A kill makes the process start again and its requests unanswered; rows  *)
(* and schema are what was committed.                                      *)
LEMMA CrashInvariant ==
    ASSUME Invariant, NEW p \in Processes, Crash(p)
    PROVE  Invariant'
<1>1. TypeOK /\ SchemaAgrees /\ RowsAgree /\ RegisterAnswersAreTrue
  BY DEF Invariant
<1>2. /\ crashes < MaxCrashes /\ crashes' = crashes + 1
      /\ UNCHANGED <<schemaVars, users, worker, name, answer>>
  BY DEF Crash
<1>3. /\ pc'[p] = "down" /\ pc' \in [Processes -> Labels]
      /\ \A q \in Processes \ {p} : pc'[q] = pc[q]
  BY <1>1 DEF Crash, GoTo, TypeOK, Labels
<1>4. /\ register' \in [Requests -> {"idle", "authenticating", "inserting", "refreshing",
                                     "answered", "killed"}]
      /\ \A r \in Requests :
            register'[r] = register[r] \/ (register'[r] = "killed" /\ register[r] # "answered")
  BY <1>1 DEF Crash, TypeOK
<1>5. TypeOK'
  <2>1. crashes' \in 0..MaxCrashes
    BY <1>1, <1>2, UserStoreAssumption DEF UserStoreAssumption, TypeOK
  <2> QED
    BY <1>1, <1>2, <1>3, <1>4, <2>1 DEF TypeOK, Labels, schemaVars
<1>6. SchemaAgrees'
  BY <1>1, <1>2, <1>3, <1>4 DEF SchemaAgrees, schemaVars
<1>7. RowsAgree'
  BY <1>1, <1>2, <1>4, RowsDecide DEF RowsAgree
<1>8. RegisterAnswersAreTrue'
  BY <1>1, <1>2, RowsDecide DEF RegisterAnswersAreTrue
<1>9. UsernamesAreUnique'
  BY <1>2, RowsDecide DEF Invariant, UsernamesAreUnique, schemaVars
<1>10. ServesOnlyWithAdmin'
  BY <1>2, <1>3, RowsDecide DEF Invariant, ServesOnlyWithAdmin, Processes
<1> QED
  BY <1>5, <1>6, <1>7, <1>8, <1>9, <1>10 DEF Invariant

LEMMA StutterInvariant ==
    ASSUME Invariant, UNCHANGED vars
    PROVE  Invariant'
<1>1. UNCHANGED <<schemaVars, users, pc, requestVars, crashes>>
  BY DEF vars, schemaVars, requestVars
<1>2. TypeOK' /\ SchemaAgrees'
  BY <1>1 DEF Invariant, TypeOK, SchemaAgrees, schemaVars, requestVars
<1> QED
  BY <1>1, <1>2, RequestsUnchanged, RowsUnchanged DEF Invariant

LEMMA NextInvariant ==
    ASSUME Invariant, [Next]_vars
    PROVE  Invariant'
<1>1. ASSUME NEW w \in Workers, Lifespan(w)
      PROVE  Invariant'
  <2>1. w \in Processes
    BY DEF Processes
  <2>2. CASE Start(w) \/ TableExists(w)
    BY <2>1, <2>2, StartInvariant DEF Start, TableExists
  <2> QED
    BY <1>1, <2>1, <2>2, CheckTableInvariant, CreateTableInvariant,
       CreateIndexInvariant, SeedFindsInvariant, SeedInsertsInvariant DEF Lifespan
<1>2. ASSUME NEW m \in Migrations, Migration(m)
      PROVE  Invariant'
  <2>1. m \in Processes
    BY DEF Processes
  <2>2. CASE Migrate(m) \/ TableExists(m)
    BY <2>1, <2>2, StartInvariant DEF Migrate, TableExists
  <2> QED
    BY <1>2, <2>1, <2>2, CreateTableInvariant, CreateIndexInvariant DEF Migration
<1>3. ASSUME NEW r \in Requests, Handler(r)
      PROVE  Invariant'
  BY <1>3, AuthenticateInvariant, InsertInvariant, RefreshInvariant DEF Handler
<1> QED
  BY <1>1, <1>2, <1>3, RegisterInvariant, CrashInvariant, StutterInvariant
     DEF Next, AllDone

(* Whatever processes start, race, are killed and start again, the         *)
(* invariant holds of what is committed.                                   *)
THEOREM Safety == Spec => []Invariant
<1>1. Init => Invariant
  BY InitInvariant
<1>2. Invariant /\ [Next]_vars => Invariant'
  BY NextInvariant
<1> QED
  BY <1>1, <1>2, PTL DEF Spec

(* The variables keep their types.                                         *)
THEOREM TypeCorrect == Spec => []TypeOK
<1>1. Invariant => TypeOK
  BY DEF Invariant
<1> QED
  BY <1>1, Safety, PTL

(* No two rows have the same username: always with transactional DDL, and  *)
(* on SQLite once the index exists.                                        *)
THEOREM NamesAreUnique == Spec => []UsernamesAreUnique
<1>1. Invariant => UsernamesAreUnique
  BY DEF Invariant
<1> QED
  BY <1>1, Safety, PTL

(* A worker serves requests only when the seeded admin exists.             *)
THEOREM AdminIsSeeded == Spec => []ServesOnlyWithAdmin
<1>1. Invariant => ServesOnlyWithAdmin
  BY DEF Invariant
<1> QED
  BY <1>1, Safety, PTL

(* A 201 is given to the request whose row has the name, a 409 only for a  *)
(* name that another had inserted.                                         *)
THEOREM RegisterIsTruthful == Spec => []RegisterAnswersAreTrue
<1>1. Invariant => RegisterAnswersAreTrue
  BY DEF Invariant
<1> QED
  BY <1>1, Safety, PTL

-----------------------------------------------------------------------------
(* What two rows of one name do to the workers. *)

(* No process removes a row. *)
LEMMA RowsAreKept == [Next]_vars => users \subseteq users'
BY DEF Next, vars, schemaVars, requestVars, Lifespan, Start, CheckTable, CreateTable,
   TableExists, CreateIndex, SeedFinds, SeedInserts, Migration, Migrate, Handler,
   Authenticate, AnswerRegister, InsertUser, RefreshUser, Register, Crash, AllDone

LEMMA DoublesAreKept ==
    ASSUME users \subseteq users', NEW n, IsAmbiguous(n)
    PROVE  IsAmbiguous(n)'
BY DEF IsAmbiguous, Named

(* Once two rows have one name they keep it, through every start, kill and *)
(* restart, and the unique index is never made: CREATE INDEX fails for     *)
(* whoever executes it, and no process ever removes a row.                 *)
THEOREM DoublesStay == Spec => [][HasDuplicates => HasDuplicates' /\ ~ index']_vars
<1>1. Invariant /\ Invariant' /\ [Next]_vars
         => [HasDuplicates => HasDuplicates' /\ ~ index']_vars
  <2> SUFFICES ASSUME Invariant', [Next]_vars, HasDuplicates
               PROVE  HasDuplicates' /\ ~ index'
    OBVIOUS
  <2>1. HasDuplicates'
    BY RowsAreKept, DoublesAreKept DEF HasDuplicates
  <2> QED
    BY <2>1 DEF Invariant, UsernamesAreUnique
<1> QED
  BY <1>1, Safety, PTL DEF Spec

(* A worker that has not yet looked for the admin, while the admin's name  *)
(* has two rows.                                                           *)
LockedOut(w) == IsAmbiguous(SeedAdmin) /\ pc[w] \notin {"inserting", "serving"}

LEMMA LockedOutStep ==
    ASSUME NEW w \in Workers, LockedOut(w), TypeOK, UserStoreAssumption, [Next]_vars
    PROVE  LockedOut(w)'
<1>1. IsAmbiguous(SeedAdmin)'
  BY RowsAreKept, DoublesAreKept DEF LockedOut
<1>2. ~ IsAbsent(SeedAdmin) /\ ~ IsPresent(SeedAdmin)
  BY DEF LockedOut, IsPresent, IsAbsent, IsAmbiguous
<1>3. w \in Processes /\ pc[w] \notin {"inserting", "serving"}
  BY DEF Processes, LockedOut
<1>4. ASSUME NEW p \in Processes, NEW label, GoTo(p, label),
             p = w => label \notin {"inserting", "serving"}
      PROVE  pc'[w] \notin {"inserting", "serving"}
  BY <1>3, <1>4 DEF GoTo, TypeOK
<1>5. ASSUME pc' = pc
      PROVE  pc'[w] \notin {"inserting", "serving"}
  BY <1>3, <1>5
<1>6. ASSUME NEW v \in Workers, Lifespan(v)
      PROVE  pc'[w] \notin {"inserting", "serving"}
  <2>1. v \in Processes /\ v \notin Migrations
    BY UserStoreAssumption DEF Processes, UserStoreAssumption
  <2>2. CASE Start(v) \/ CheckTable(v) \/ TableExists(v)
    BY <1>4, <2>1, <2>2 DEF Start, CheckTable, TableExists
  <2>3. CASE CreateTable(v)
    BY <1>4, <2>1, <2>3 DEF CreateTable
  <2>4. CASE CreateIndex(v)
    BY <1>4, <2>1, <2>4 DEF CreateIndex
  <2>5. CASE SeedFinds(v)
    <3>1. GoTo(v, "failed")
      BY <1>2, <2>5, Zenon DEF SeedFinds
    <3> QED
      BY <1>4, <2>1, <3>1
  <2>6. CASE SeedInserts(v)
    <3>1. v # w
      BY <1>3, <2>6 DEF SeedInserts
    <3> QED
      BY <1>4, <2>1, <2>6, <3>1 DEF SeedInserts
  <2> QED
    BY <1>6, <2>2, <2>3, <2>4, <2>5, <2>6 DEF Lifespan
<1>7. ASSUME NEW m \in Migrations, Migration(m)
      PROVE  pc'[w] \notin {"inserting", "serving"}
  <2>1. m \in Processes /\ m # w
    BY UserStoreAssumption DEF Processes, UserStoreAssumption
  <2> QED
    BY <1>4, <1>7, <2>1 DEF Migration, Migrate, CreateTable, TableExists, CreateIndex
<1>8. ASSUME NEW r \in Requests, Handler(r)
      PROVE  pc' = pc
  BY <1>8 DEF Handler, Authenticate, InsertUser, RefreshUser
<1>9. ASSUME NEW p \in Processes, Crash(p)
      PROVE  pc'[w] \notin {"inserting", "serving"}
  BY <1>4, <1>9 DEF Crash
<1>10. pc'[w] \notin {"inserting", "serving"}
  BY <1>5, <1>6, <1>7, <1>8, <1>9 DEF Next, Register, AllDone, vars
<1> QED
  BY <1>1, <1>10 DEF LockedOut

(* Two rows with the admin's name keep every worker that has not passed    *)
(* its SELECT out of service for ever, however often it is started again:  *)
(* scalar_one_or_none raises MultipleResultsFound in each lifespan.        *)
THEOREM DoubledAdminLocksOut ==
    ASSUME NEW w \in Workers
    PROVE  Spec => [](LockedOut(w) => []LockedOut(w))
<1>1. LockedOut(w) /\ TypeOK /\ [Next]_vars => LockedOut(w)'
  BY UserStoreAssumption, LockedOutStep
<1> QED
  BY <1>1, TypeCorrect, PTL DEF Spec
=============================================================================
