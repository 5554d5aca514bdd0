------------------------------ MODULE Middleware ------------------------------
(***************************************************************************)
(* What surrounds every route handler: the request id (RequestIdMiddleware *)
(* of app/main.py and the contextvar request_id_ctx of utils/logging.py)   *)
(* and the handler for unhandled errors.  The limiter of the routes under  *)
(* /auth (core/limiter.py) is slowapi's: here it refuses whom it likes.    *)
(*                                                                         *)
(* Starlette's stack, from the outside: the handler for unhandled errors,  *)
(* RequestIdMiddleware, CORS, the handlers of HTTPException and of         *)
(* RateLimitExceeded, the routes.  The first two run in the task that the  *)
(* server makes for the request; call_next runs the rest in a task of its  *)
(* own, which starts with a copy of the context.  The tasks of a worker    *)
(* interleave; workers share nothing here.                                 *)
(***************************************************************************)
EXTENDS Naturals

CONSTANTS
    Requests,    \* the requests; also the ids that uuid4() makes for them
    Workers,     \* worker processes
    Headers,     \* ids that clients make up for X-Request-ID
    NoId,        \* the default "" of request_id_ctx, or no header
    NoAsk,       \* a request that has not arrived
    NoWorker,    \* its worker
    MaxRestarts  \* bound: how many workers are killed

ASSUME MiddlewareAssumption ==
    /\ NoId \notin Requests \cup Headers
    /\ NoWorker \notin Workers
    /\ MaxRestarts \in Nat

VARIABLES
    ask,         \* ask[r]: the kind of route and the header
    worker,      \* worker[r]: the worker that got r
    pc,          \* where r is
    rid,         \* rid[r]: the local variable of dispatch
    outer,       \* outer[r]: request_id_ctx in the server's task for r
    inner,       \* inner[r]: request_id_ctx in the task that runs the route
    answer,      \* answer[r]: status, X-Request-ID, and "request_id" in the body
    log,         \* the lines of the log
    restarts

vars == <<ask, worker, pc, rid, outer, inner, answer, log, restarts>>

(* "plain": any JSON route; "health": health_deep, which tells its         *)
(* request_id in the body; "limited": login, refresh, register; "socket":  *)
(* a WebSocket, which the middleware lets pass.                            *)
Forms    == {"plain", "health", "limited", "socket"}
Ids      == Requests \cup Headers
Asks     == [form : Forms, header : Ids \cup {NoId}]
NoAnswer == [status |-> 0, header |-> NoId, body |-> "none"]

(* Types, and that exactly the answered requests have a status. *)
TypeOK ==
    /\ ask    \in [Requests -> Asks \cup {NoAsk}]
    /\ worker \in [Requests -> Workers \cup {NoWorker}]
    /\ pc     \in [Requests -> {"idle", "handling", "failing", "answered", "over",
                                "killed"}]
    /\ rid    \in [Requests -> Ids \cup {NoId}]
    /\ outer  \in [Requests -> Ids \cup {NoId}]
    /\ inner  \in [Requests -> Ids \cup {NoId}]
    /\ answer \in [Requests -> [status : {0, 200, 404, 429, 500},
                                header : Ids \cup {NoId},
                                body   : Ids \cup {NoId, "none"}]]
    /\ log \subseteq [by : Requests, where : {"handler", "outermost"},
                      id : Ids \cup {NoId}]
    /\ restarts \in 0..MaxRestarts
    /\ \A r \in Requests : pc[r] = "answered" <=> answer[r].status # 0

Init ==
    /\ ask    = [r \in Requests |-> NoAsk]
    /\ worker = [r \in Requests |-> NoWorker]
    /\ pc     = [r \in Requests |-> "idle"]
    /\ rid    = [r \in Requests |-> NoId]
    /\ outer  = [r \in Requests |-> NoId]
    /\ inner  = [r \in Requests |-> NoId]
    /\ answer = [r \in Requests |-> NoAnswer]
    /\ log    = {}
    /\ restarts = 0

Running(r) == pc[r] \in {"handling", "failing"}

-----------------------------------------------------------------------------
(* RequestIdMiddleware *)

(* A client may send an id that it made up or that an answer told it. *)
KnownIds == Headers \cup {answer[r].header : r \in Requests}

(* A bug: the id is made once per process, like a default argument. *)
made_once(r, a, w) ==
    LET made == {rid[s] : s \in {q \in Requests : /\ worker[q] = w
                                                 /\ ask[q].form # "socket"
                                                 /\ ask[q].header = NoId}}
    IN  IF a.header # NoId THEN a.header
        ELSE IF made # {} THEN CHOOSE id \in made : TRUE ELSE r

(* request.headers.get("X-Request-ID") or uuid.uuid4().hex *)
request_id(r, a, w) == IF a.header # NoId THEN a.header ELSE r

(* A bug: the id is kept in a variable of the process. *)
SetForProcess(r, w, id) ==
    /\ outer' = [s \in Requests |-> IF s = r \/ worker[s] = w THEN id ELSE outer[s]]
    /\ inner' = [s \in Requests |-> IF s = r \/ worker[s] = w THEN id ELSE inner[s]]

(* request_id_ctx.set(rid), and the copy that call_next's task starts with. *)
SetContext(r, w, id) ==
    /\ outer' = [outer EXCEPT ![r] = id]
    /\ inner' = [inner EXCEPT ![r] = id]

(* dispatch, until call_next has started the inner task.  BaseHTTPMiddleware *)
(* does not dispatch WebSockets.                                           *)
Arrive(r, a, w) ==
    /\ pc[r] = "idle"
    /\ ask'    = [ask EXCEPT ![r] = a]
    /\ worker' = [worker EXCEPT ![r] = w]
    /\ pc'     = [pc EXCEPT ![r] = "handling"]
    /\ IF a.form = "socket"
       THEN UNCHANGED <<rid, outer, inner>>
       ELSE /\ rid' = [rid EXCEPT ![r] = request_id(r, a, w)]
            /\ SetContext(r, w, request_id(r, a, w))
    /\ UNCHANGED <<answer, log, restarts>>

(* A bug: the header is read back from the context after its reset. *)
RespondFromContext(r, status, body) ==
    /\ pc'     = [pc EXCEPT ![r] = "answered"]
    /\ outer'  = [outer EXCEPT ![r] = NoId]
    /\ answer' = [answer EXCEPT ![r] =
                     [status |-> status, header |-> outer'[r], body |-> body]]
    /\ UNCHANGED <<ask, worker, rid, inner, log, restarts>>

(* call_next returns a response: it gets the header, and the finally       *)
(* clause resets the context of the outer task.                            *)
Respond(r, status, body) ==
    /\ pc'     = [pc EXCEPT ![r] = "answered"]
    /\ outer'  = [outer EXCEPT ![r] = NoId]
    /\ answer' = [answer EXCEPT ![r] =
                     [status |-> status, header |-> rid[r], body |-> body]]
    /\ UNCHANGED <<ask, worker, rid, inner, log, restarts>>

-----------------------------------------------------------------------------
(* Handlers *)

Line(r, where, id) == [by |-> r, where |-> where, id |-> id]

(* JsonFormatter.format: a line written by the route, the LXD client, ...  *)
Log(r) ==
    /\ pc[r] = "handling"
    /\ log' = log \cup {Line(r, "handler", inner[r])}
    /\ UNCHANGED <<ask, worker, pc, rid, outer, inner, answer, restarts>>

(* The route returns, or raises an HTTPException, whose body is "detail".  *)
HandlerReturns(r) ==
    /\ pc[r] = "handling"
    /\ CASE ask[r].form = "socket" -> FALSE
         [] ask[r].form = "health" -> Respond(r, 200, inner[r])
         [] OTHER -> \E status \in {200, 404} : Respond(r, status, "none")

(* RateLimitExceeded, answered inside of the middleware. *)
Refuse(r) ==
    /\ pc[r] = "handling"
    /\ ask[r].form = "limited"
    /\ Respond(r, 429, "none")

SocketCloses(r) ==
    /\ pc[r] = "handling"
    /\ ask[r].form = "socket"
    /\ pc' = [pc EXCEPT ![r] = "over"]
    /\ UNCHANGED <<ask, worker, rid, outer, inner, answer, log, restarts>>

(* Anything else that the route raises leaves call_next and dispatch,      *)
(* whose finally clause resets the context.                                *)
HandlerRaises(r) ==
    /\ pc[r] = "handling"
    /\ ask[r].form # "socket"
    /\ outer' = [outer EXCEPT ![r] = NoId]
    /\ pc'    = [pc EXCEPT ![r] = "failing"]
    /\ UNCHANGED <<ask, worker, rid, inner, answer, log, restarts>>

(* A bug: the error is logged, and nothing is answered. *)
UnhandledUnanswered(r) ==
    /\ pc[r] = "failing"
    /\ log' = log \cup {Line(r, "outermost", outer[r])}
    /\ pc'  = [pc EXCEPT ![r] = "answered"]
    /\ UNCHANGED <<ask, worker, rid, outer, inner, answer, restarts>>

(* unhandled_exception_handler runs in the outer task, after the reset. *)
UnhandledError(r) ==
    /\ pc[r] = "failing"
    /\ log'    = log \cup {Line(r, "outermost", outer[r])}
    /\ answer' = [answer EXCEPT ![r] =
                     [status |-> 500, header |-> NoId, body |-> outer[r]]]
    /\ pc'     = [pc EXCEPT ![r] = "answered"]
    /\ UNCHANGED <<ask, worker, rid, outer, inner, restarts>>

(* A worker is killed and started again: its requests are gone. *)
Restart(w) ==
    /\ restarts < MaxRestarts
    /\ restarts' = restarts + 1
    /\ pc'   = [r \in Requests |->
                  IF worker[r] = w /\ Running(r) THEN "killed" ELSE pc[r]]
    /\ UNCHANGED <<ask, worker, rid, outer, inner, answer, log>>

-----------------------------------------------------------------------------
Request(r) ==
    \/ \E f \in Forms, h \in KnownIds \cup {NoId}, w \in Workers :
          Arrive(r, [form |-> f, header |-> h], w)
    \/ Log(r)
    \/ HandlerReturns(r) \/ Refuse(r) \/ SocketCloses(r)
    \/ HandlerRaises(r) \/ UnhandledError(r)

AllDone ==
    /\ \A r \in Requests : pc[r] \in {"answered", "over", "killed"}
    /\ UNCHANGED vars

Next ==
    \/ \E r \in Requests : Request(r)
    \/ \E w \in Workers : Restart(w)
    \/ AllDone

Spec == Init /\ [][Next]_vars

-----------------------------------------------------------------------------
(* Properties *)

(* An answer tells the client the id of its own request: in X-Request-ID,  *)
(* and in the body where there is one.  The answer to an unhandled error   *)
(* never tells any, because the context has been reset when its handler    *)
(* runs, though main.py promises "request_id" in the error shape; neither  *)
(* does it tell another request's, which runs meanwhile.                   *)
AnswersTellTheirId ==
    \A r \in Requests : pc[r] = "answered" =>
        IF answer[r].status = 500
        THEN answer[r].header = NoId /\ answer[r].body = NoId
        ELSE answer[r].header = rid[r] /\ answer[r].body \in {rid[r], "none"}

(* utils/logging.py: any line emitted during a request carries its id.     *)
(* Lines of WebSockets and the line about an unhandled error carry none,   *)
(* and no line ever carries the id of a request that runs meanwhile.       *)
LinesCarryTheirId ==
    \A line \in log :
        IF line.where = "outermost" \/ ask[line.by].form = "socket"
        THEN line.id = NoId
        ELSE line.id = rid[line.by]

(* Who looks for the id of an answer in the logs of all workers finds the  *)
(* lines of that request only, unless a client has sent the id itself.     *)
IdsLeadToOneRequest ==
    \A r \in Requests, line \in log :
        /\ answer[r].header # NoId /\ line.id = answer[r].header
        /\ \A s \in Requests : pc[s] = "idle" \/ ask[s].header # line.id
        => line.by = r
=============================================================================
