-------------------------------- MODULE Access --------------------------------
(***************************************************************************)
(* A request's way through the gateway: its dependencies (get_db,          *)
(* get_current_user and require_role of api/deps.py), at most one call to  *)
(* LXD, and the answer.  It covers every route that makes one call or      *)
(* none.  What happens to the operations that a call starts, and the       *)
(* second call of ?wait=true, is the subject of module Operations, the two *)
(* calls of an attach or a detach that of Devices, the rows that a         *)
(* registration adds that of UserStore, and a WebSocket session, once      *)
(* authorised, that of WsRelay.                                            *)
(*                                                                         *)
(* Coroutines share the database's connection pool.  get_db's session      *)
(* takes a connection with its first SELECT and keeps it until the handler *)
(* is over, the call to LXD included.  User rows change meanwhile.         *)
(***************************************************************************)
EXTENDS LxdReply, FiniteSets

CONSTANTS
    Requests,    \* the requests
    Users,       \* the users who send them
    PoolSize,    \* connections of the database's pool
    NoAsk        \* a request that has not arrived

ASSUME AccessAssumption ==
    /\ PoolSize \in Nat \ {0}
    /\ IsFiniteSet(Requests)
    /\ OpIds # {}

VARIABLES
    rows,        \* rows[u]: u's row; a user without one is not active
    ask,         \* ask[r]: the route, the user and the credential of r
    pc,          \* where r's coroutine is
    held,        \* the requests that hold a connection of the pool
    call,        \* call[r]: what LXD has still to do for r
    reply,       \* reply[r]: the reply that has reached the gateway
    answer,      \* answer[r]: the HTTP status given to the client
    carried,     \* the requests that have changed something at LXD
    allowed,     \* requests for which the rows allowed their route
    denied,      \* requests for which they did not, at some moment
    foreign      \* requests whose reply was a proxy's page or had no body

history == <<allowed, denied, foreign>>
vars == <<rows, ask, pc, held, call, reply, answer, carried, history>>

-----------------------------------------------------------------------------
(* The routes: who may use one ("nobody": no user is looked up), the       *)
(* credential it takes, its call to LXD, and the form of its answer        *)
(* ("reference": any 202, also the message of cancel_operation).           *)

Route(need, cred, lxdCall, form) ==
    [need |-> need, cred |-> cred, call |-> lxdCall, form |-> form]

Read(form)        == Route("viewer", "access", "read", form)
Write(need, form) == Route(need, "access", "write", form)

AuthRoutes ==
    {Route("admin", "access", "none", "registered"), \* register
     Route("user", "password", "none", "json"),     \* login
     Route("user", "refresh", "none", "json"),      \* refresh
     Route("user", "access", "none", "json"),       \* me
     Route("admin", "access", "none", "json")}      \* list_users

PoolRoutes     == {Read("json"), Write("admin", "reference")}
VolumeRoutes   == {Read("json"), Write("admin", "reference")}
NetworkRoutes  == {Read("json"), Write("admin", "reference")}
ProjectRoutes  == {Read("json"), Write("admin", "reference")}
ImageRoutes    == {Read("json"), Write("admin", "reference"),
                   Write("admin", "created")}       \* create_alias
InstanceRoutes == {Read("json"), Read("dict"),      \* get_instance_state
                   Write("admin", "reference"),
                   Write("operator", "reference")}  \* state and exec
LogRoutes      == {Read("json"), Read("stream")}
SnapshotRoutes == {Read("json"), Write("operator", "reference")}
BackupRoutes   == {Read("json"), Write("operator", "reference"),
                   Route("operator", "access", "read", "stream")}   \* export
OperationRoutes == {Read("json"), Write("operator", "reference")}   \* cancel
SystemRoutes   == {Route("nobody", "none", "read", "health"), Read("json")}
SessionRoutes  == {Route("operator", "access", "none", "session"),
                   Route("viewer", "access", "none", "session")}

Routes == UNION {AuthRoutes, PoolRoutes, VolumeRoutes, NetworkRoutes,
                 ProjectRoutes, ImageRoutes, InstanceRoutes, LogRoutes,
                 SnapshotRoutes, BackupRoutes, OperationRoutes, SystemRoutes,
                 SessionRoutes}

Roles == {"viewer", "operator", "admin"}
Rows  == [role : Roles, active : BOOLEAN]

(* A credential is good if it is the user's password or a token that       *)
(* decodes and is of the route's type.                                     *)
Asks == [route : Routes, user : Users, good : BOOLEAN]

(* "user": any active user, whatever the role. *)
level == [user |-> 0, viewer |-> 1, operator |-> 2, admin |-> 3]

(* user.is_active, and the role of the row is at least the route's.        *)
Permits(rs, a) ==
    /\ rs[a.user].active
    /\ level[rs[a.user].role] >= level[a.route.need]

NeedsUser(a) == a.route.need # "nobody"
NoReply      == Reply("none", 0, EmptyId, NoStatus)

(* Types, and that an answered request has an HTTP status. *)
TypeOK ==
    /\ rows \in [Users -> Rows]
    /\ ask \in [Requests -> Asks \cup {NoAsk}]
    /\ pc \in [Requests -> {"idle", "arrived", "selecting", "calling",
                            "relaying", "answered"}]
    /\ held \subseteq Requests
    /\ call \in [Requests -> {"none", "read", "write"}]
    /\ reply \in [Requests -> Replies \cup {NoReply}]
    /\ answer \in [Requests -> {0} \cup 101..599]
    /\ carried \subseteq Requests
    /\ allowed \subseteq Requests
    /\ denied \subseteq Requests
    /\ foreign \subseteq Requests
    /\ \A r \in Requests : pc[r] = "answered" <=> answer[r] # 0

Init ==
    /\ rows \in [Users -> Rows]
    /\ ask = [r \in Requests |-> NoAsk]
    /\ pc  = [r \in Requests |-> "idle"]
    /\ held = {}
    /\ call   = [r \in Requests |-> "none"]
    /\ reply  = [r \in Requests |-> NoReply]
    /\ answer = [r \in Requests |-> 0]
    /\ carried = {}
    /\ allowed = {} /\ denied = {} /\ foreign = {}

InProgress(r) == pc[r] \in {"arrived", "selecting", "calling", "relaying"}

-----------------------------------------------------------------------------
(* Clients, and whoever maintains the users *)

Witness(r, rs, a) ==
    /\ allowed' = IF NeedsUser(a) /\ Permits(rs, a) THEN allowed \cup {r} ELSE allowed
    /\ denied'  = IF NeedsUser(a) /\ ~ Permits(rs, a) THEN denied \cup {r} ELSE denied

Arrive(r, a) ==
    /\ pc[r] = "idle"
    /\ ask' = [ask EXCEPT ![r] = a]
    /\ Witness(r, rows, a)
    /\ IF NeedsUser(a)
       THEN pc' = [pc EXCEPT ![r] = "arrived"] /\ UNCHANGED call
       ELSE /\ pc'   = [pc EXCEPT ![r] = "calling"]
            /\ call' = [call EXCEPT ![r] = a.route.call]
    /\ UNCHANGED <<rows, held, reply, answer, carried, foreign>>

(* No route changes or deactivates a user: rows are edited in the database.*)
EditRow(u, row) ==
    /\ row # rows[u]
    /\ rows' = [rows EXCEPT ![u] = row]
    /\ LET of(permitted) ==
               {r \in Requests : /\ InProgress(r) /\ NeedsUser(ask[r])
                                 /\ Permits(rows', ask[r]) = permitted}
       IN  /\ allowed' = allowed \cup of(TRUE)
           /\ denied'  = denied \cup of(FALSE)
    /\ UNCHANGED <<ask, pc, held, call, reply, answer, carried, foreign>>

-----------------------------------------------------------------------------
(* The gateway *)

(* A bug: the session is not closed when the handler ends. *)
AnswerKeepsSession(r, http) ==
    /\ pc'     = [pc EXCEPT ![r] = "answered"]
    /\ answer' = [answer EXCEPT ![r] = http]
    /\ reply'  = [reply EXCEPT ![r] = NoReply]
    /\ UNCHANGED <<rows, ask, held, carried, history>>

(* The handler is over: get_db's session returns its connection. *)
Answer(r, http) ==
    /\ pc'     = [pc EXCEPT ![r] = "answered"]
    /\ answer' = [answer EXCEPT ![r] = http]
    /\ held'   = held \ {r}
    /\ reply'  = [reply EXCEPT ![r] = NoReply]
    /\ UNCHANGED <<rows, ask, carried, history>>

(* A socket that is closed before it is accepted, with 4401 or 4403, is     *)
(* answered with 403 by the server.                                        *)
refusal(a, code) == IF a.route.form = "session" THEN 403 ELSE code

(* No token, one that does not decode, or one of the other type: 401       *)
(* before the database is asked.                                           *)
RefusesToken(r) ==
    /\ pc[r] = "arrived"
    /\ ask[r].route.cred \in {"access", "refresh"}
    /\ ~ ask[r].good
    /\ Answer(r, refusal(ask[r], 401))
    /\ UNCHANGED call

Takes(r) ==
    /\ pc[r] = "arrived"
    /\ ask[r].good \/ ask[r].route.cred = "password"

(* db.execute checks a connection out of the pool. *)
CheckOut(r) ==
    /\ Takes(r)
    /\ Cardinality(held) < PoolSize
    /\ held' = held \cup {r}
    /\ pc'   = [pc EXCEPT ![r] = "selecting"]
    /\ UNCHANGED <<rows, ask, call, reply, answer, carried, history>>

(* A bug: only logins give up waiting for a connection. *)
PoolSparesTokens(r) ==
    /\ Takes(r)
    /\ ask[r].route.cred = "password"
    /\ Cardinality(held) = PoolSize
    /\ Answer(r, 500)
    /\ UNCHANGED call

(* The pool's timeout raises an error that only the last handler catches.  *)
PoolTimesOut(r) ==
    /\ Takes(r)
    /\ Cardinality(held) = PoolSize
    /\ Answer(r, 500)
    /\ UNCHANGED call

(* The user is gone or inactive, or the password is not hers: 401.         *)
RefusesUser(r) ==
    /\ pc[r] = "selecting"
    /\ ~ rows[ask[r].user].active \/ ~ ask[r].good
    /\ Answer(r, refusal(ask[r], 401))
    /\ UNCHANGED call

RefusesRole(r) ==
    /\ pc[r] = "selecting"
    /\ rows[ask[r].user].active /\ ask[r].good
    /\ ~ Permits(rows, ask[r])
    /\ Answer(r, refusal(ask[r], 403))
    /\ UNCHANGED call

(* Without a call: 201 for a new user, 409 for a name that is taken.       *)
localAnswers(form) == IF form = "registered" THEN {201, 409} ELSE {200}

Proceeds(r) ==
    LET route == ask[r].route
    IN  \/ /\ route.form = "session"
           /\ pc' = [pc EXCEPT ![r] = "relaying"]
           /\ UNCHANGED <<rows, ask, held, call, reply, answer, carried, history>>
        \/ /\ route.form # "session" /\ route.call = "none"
           /\ \E http \in localAnswers(route.form) : Answer(r, http)
           /\ UNCHANGED call
        \/ /\ route.form # "session" /\ route.call # "none"
           /\ pc'   = [pc EXCEPT ![r] = "calling"]
           /\ call' = [call EXCEPT ![r] = route.call]
           /\ UNCHANGED <<rows, ask, held, reply, answer, carried, history>>

(* A bug: the comparison of roles is the wrong way round. *)
AdmitsLowerRoles(r) ==
    /\ pc[r] = "selecting"
    /\ ask[r].good
    /\ rows[ask[r].user].active
    /\ level[rows[ask[r].user].role] <= level[ask[r].route.need]
    /\ Proceeds(r)

(* The role in the row decides; the one in the token's claims is not read. *)
Admits(r) ==
    /\ pc[r] = "selecting"
    /\ ask[r].good
    /\ Permits(rows, ask[r])
    /\ Proceeds(r)

(* The status of an answer to a call that has returned. *)
success(form, out) ==
    CASE form = "reference" -> 202
      [] form = "created"   -> 201
      [] form = "dict"      -> IF out.dict THEN 200 ELSE 500
      [] OTHER              -> 200

(* health_deep answers 200 whatever happened; a stream is the raw body of  *)
(* any reply (raw_response=True); the others translate errors.             *)
answerTo(form, out) ==
    IF \/ form = "health"
       \/ form = "stream" /\ out.exc # "LXDConnectionError"
       \/ out.exc = "none"
    THEN success(form, out)
    ELSE lxd_err_to_http(out)

(* LXD may still carry out a write that the handler has given up; a read   *)
(* that nobody awaits changes nothing and is forgotten.                    *)
Resume(r, out) ==
    /\ Answer(r, answerTo(ask[r].route.form, out))
    /\ call' = IF call[r] = "read" THEN [call EXCEPT ![r] = "none"] ELSE call

Deliver(r) == reply[r] # NoReply /\ Resume(r, request(reply[r]))

Timeout(r) ==
    /\ pc[r] = "calling"
    /\ reply[r] = NoReply
    /\ Resume(r, request(Plain("timeout")))

ConnectionFails(r) == pc[r] = "calling" /\ Resume(r, request(Plain("transport")))

(* Either side closes, see WsRelay.  The status is that of the upgrade.    *)
SessionEnds(r) == pc[r] = "relaying" /\ Answer(r, 101) /\ UNCHANGED call

-----------------------------------------------------------------------------
(* LXD (external) *)

Respond(r, rp) ==
    /\ call'  = [call EXCEPT ![r] = "none"]
    /\ reply' = IF pc[r] = "calling" THEN [reply EXCEPT ![r] = rp] ELSE reply
    /\ foreign' = IF pc[r] = "calling" /\ rp.kind \in {"empty", "malformed"}
                  THEN foreign \cup {r} ELSE foreign
    /\ UNCHANGED <<rows, ask, pc, held, answer, allowed, denied>>

LxdReads(r) ==
    /\ call[r] = "read"
    /\ \E kind \in {"object", "null", "empty"} : Respond(r, Plain(kind))
    /\ UNCHANGED carried

(* It does so also when nobody waits for the reply any more. *)
LxdCarriesOut(r) ==
    /\ call[r] = "write"
    /\ carried' = carried \cup {r}
    /\ \/ \E o \in OpIds : Respond(r, Reply("operation", 0, o, "Running"))
       \/ \E kind \in {"null", "empty"} : Respond(r, Plain(kind))
       \/ \E code \in PageCodes \ (400..499) : Respond(r, PageReply(code))

(* LXD, or a proxy before it, refuses the call: a proxy with a page or     *)
(* without a body.                                                         *)
LxdRejects(r) ==
    /\ call[r] # "none"
    /\ \/ \E code \in ErrorCodes : Respond(r, ErrorReply(code))
       \/ \E code \in PageCodes : Respond(r, PageReply(code))
       \/ Respond(r, Plain("empty"))
    /\ UNCHANGED carried

-----------------------------------------------------------------------------
Gateway(r) ==
    \/ RefusesToken(r) \/ CheckOut(r) \/ PoolTimesOut(r)
    \/ RefusesUser(r) \/ RefusesRole(r) \/ Admits(r)
    \/ Deliver(r) \/ Timeout(r) \/ ConnectionFails(r)

Lxd(r) == LxdReads(r) \/ LxdCarriesOut(r) \/ LxdRejects(r)

Next ==
    \/ \E r \in Requests :
          (\E a \in Asks : Arrive(r, a)) \/ Gateway(r) \/ SessionEnds(r) \/ Lxd(r)
    \/ \E u \in Users, row \in Rows : EditRow(u, row)

Spec == Init /\ [][Next]_vars

(* The event loop runs each coroutine; the pool's timeout and LXD_TIMEOUT  *)
(* end every wait of it.  Nothing is assumed of LXD, and a session may     *)
(* last for ever.                                                          *)
FairSpec == Spec /\ \A r \in Requests : WF_vars(Gateway(r))

-----------------------------------------------------------------------------
(* Properties *)

Authorised(r) == NeedsUser(ask[r]) => r \in allowed /\ ask[r].good

(* What a request has done or may still do, and what it was given, it had  *)
(* the right to at some moment of its life: however rows changed and       *)
(* tokens aged, and also if LXD acts after the answer.                     *)
OnlyAuthorisedRequestsAct ==
    \A r \in Requests :
        \/ r \in carried \/ call[r] # "none" \/ pc[r] \in {"calling", "relaying"}
        \/ answer[r] \in 101..399
        => Authorised(r)

(* 401 tells a client to log in again.  It is only told so if its          *)
(* credential is bad or the user was not active at some moment: LXD's own  *)
(* 401, a refusal of the gateway's certificate, is not passed on.  (The     *)
(* 401 page of a proxy before LXD would be, as any status of a page is.)   *)
LogInAgainIsJustified ==
    \A r \in Requests :
        answer[r] = 401 => NeedsUser(ask[r]) /\ (r \in denied \/ ~ ask[r].good)

(* The connections taken are those of the requests that still run, so that *)
(* no way to end a request leaks one, and there are never too many.        *)
ConnectionsAreReturned ==
    /\ \A r \in held : pc[r] \in {"selecting", "calling", "relaying"}
    /\ \A r \in Requests :
          pc[r] \in {"selecting", "calling", "relaying"} /\ NeedsUser(ask[r])
          => r \in held
    /\ Cardinality(held) <= PoolSize

(* A 4xx to a write means that LXD has not carried it out and never will;  *)
(* 201 and 202 mean that it has, if LXD's own reply reached the gateway: a *)
(* page's status is passed on and a bodiless error taken for success, so   *)
(* after those 201 and 202 mean nothing.  A timeout, after which either is *)
(* possible, is neither.                                                   *)
AnswersToWritesAreTrue ==
    \A r \in Requests :
        pc[r] = "answered" /\ ask[r].route.call = "write" =>
            /\ answer[r] \in 400..499 => r \notin carried /\ call[r] = "none"
            /\ answer[r] \in {201, 202} /\ r \notin foreign => r \in carried

(* Every HTTP request is answered, also while WebSocket sessions hold all  *)
(* connections and LXD is silent.                                          *)
EveryRequestIsAnswered ==
    \A r \in Requests :
        InProgress(r) /\ ask[r].route.form # "session" ~> pc[r] = "answered"
=============================================================================
