----------------------------- MODULE Operations -----------------------------
(***************************************************************************)
(* The life of an asynchronous action: concurrent API requests, each run   *)
(* by a coroutine of the gateway that makes one or two calls to LXD, and   *)
(* the background operations LXD runs on their behalf.                     *)
(*                                                                         *)
(* A coroutine is suspended exactly at its `await lxd....` points, so pc   *)
(* says which call it awaits; the other coroutines of the process, and the *)
(* LXD daemon, run in between.  The code is                                *)
(*    app/api/v1/routes/instances.py   create/replace/patch/delete, exec,  *)
(*                                     set_instance_state                  *)
(*    app/api/v1/routes/snapshots.py   create/restore/delete/rename        *)
(*    app/api/v1/routes/backups.py     create/delete                       *)
(*    app/api/v1/routes/operations.py  get, cancel, wait                   *)
(*    app/services/lxd_operations.py, app/services/lxd_client.py           *)
(* LXD itself is external: it is modelled from how this code uses it.      *)
(***************************************************************************)
EXTENDS LxdReply

CONSTANTS
    Requests,    \* the API requests, each handled once by one coroutine
    NoRequest    \* the owner of an operation LXD has not started

ASSUME RequestsAssumption == NoRequest \notin Requests

VARIABLES
    endpoint,    \* endpoint[r]: the route that request r is for
    pc,          \* pc[r]: where r's coroutine is suspended
    opId,        \* opId[r]: the operation id in the URL r last asked LXD for
    call,        \* call[r]: what LXD has still to do for r
    reply,       \* reply[r]: the reply that has reached the gateway
    answer,      \* answer[r]: what r's client was told, and on what basis
    status,      \* status[o]: LXD's status of operation o
    owner,       \* owner[o]: the request on whose behalf o was started
    listed       \* the operations LXD still knows

gatewayVars == <<endpoint, pc, opId, answer>>
lxdVars     == <<status, owner, listed>>
vars        == <<endpoint, pc, opId, call, reply, answer, status, owner, listed>>

(* "start" stands for every route that posts an action and answers with    *)
(* the reference; "startWait" for such a route given ?wait=true, which     *)
(* turns every failure of the wait into a 500: the snapshot and backup     *)
(* routes by `except Exception`, set_instance_state by catching            *)
(* LXDOperationError and leaving every other LXDError to                   *)
(* unhandled_exception_handler; "wait" and "waitBounded" for               *)
(* wait_operation without and with ?timeout=.                              *)
WaitingStarts   == {"startWait"}
Starts          == {"start"} \cup WaitingStarts
WaitRoutes      == {"wait", "waitBounded"}
OperationRoutes == {"get", "cancel"} \cup WaitRoutes
Endpoints       == Starts \cup OperationRoutes

PendingCalls == {"start", "get", "cancel", "wait", "waiting"}

NoReply  == Reply("none", 0, EmptyId, NoStatus)
NoAnswer == [http |-> 0, body |-> "none", id |-> EmptyId, status |-> NoStatus,
             basis |-> NoStatus, exc |-> "none", late |-> FALSE]

(* The client sees http, body, id and status.  The rest is history, which   *)
(* no action reads: the exception behind an error, and the status of the   *)
(* operation object that the handler had in hand when it answered.         *)
Answers == [http   : 200..599,
            body   : {"reference", "success", "operation", "message", "error"},
            id     : Ids,
            status : OperationStatus \cup {NoStatus},
            basis  : OperationStatus \cup {NoStatus},
            exc    : {"none"} \cup Exceptions,
            late   : BOOLEAN]

TypeOK ==
    /\ endpoint \in [Requests -> Endpoints \cup {"none"}]
    /\ pc       \in [Requests -> {"idle", "calling", "waiting", "answered"}]
    /\ opId     \in [Requests -> Ids]
    /\ call     \in [Requests -> PendingCalls \cup {"none"}]
    /\ reply    \in [Requests -> Replies \cup {NoReply}]
    /\ answer   \in [Requests -> Answers \cup {NoAnswer}]
    /\ status   \in [OpIds -> OperationStatus \cup {"Unused"}]
    /\ owner    \in [OpIds -> Requests \cup {NoRequest}]
    /\ listed   \in SUBSET OpIds

Init ==
    /\ endpoint = [r \in Requests |-> "none"]
    /\ pc       = [r \in Requests |-> "idle"]
    /\ opId     = [r \in Requests |-> EmptyId]
    /\ call     = [r \in Requests |-> "none"]
    /\ reply    = [r \in Requests |-> NoReply]
    /\ answer   = [r \in Requests |-> NoAnswer]
    /\ status   = [o \in OpIds |-> "Unused"]
    /\ owner    = [o \in OpIds |-> NoRequest]
    /\ listed   = {}

Awaiting(r) == pc[r] \in {"calling", "waiting"}

-----------------------------------------------------------------------------
(* The gateway: a request arrives and its handler makes its first call. *)

(* A mutating route posts its body; no operation id is in the URL. *)
SubmitStart(r, e) ==
    /\ pc[r] = "idle"
    /\ e \in Starts
    /\ endpoint' = [endpoint EXCEPT ![r] = e]
    /\ pc'       = [pc EXCEPT ![r] = "calling"]
    /\ call'     = [call EXCEPT ![r] = "start"]
    /\ UNCHANGED <<opId, reply, answer, lxdVars>>

(* A route under /operations/{operation_id}; a client may name any id,     *)
(* also one LXD never gave out or has forgotten.                           *)
SubmitOperation(r, e, o) ==
    /\ pc[r] = "idle"
    /\ e \in OperationRoutes
    /\ endpoint' = [endpoint EXCEPT ![r] = e]
    /\ pc'       = [pc EXCEPT ![r] = "calling"]
    /\ opId'     = [opId EXCEPT ![r] = o]
    /\ call'     = [call EXCEPT ![r] = IF e \in WaitRoutes THEN "wait" ELSE e]
    /\ UNCHANGED <<reply, answer, lxdVars>>

-----------------------------------------------------------------------------
(* The gateway: a handler resumes with the outcome of the call it awaits. *)

Answer(r, http, body, id, st, out) ==
    /\ pc'     = [pc EXCEPT ![r] = "answered"]
    /\ answer' = [answer EXCEPT ![r] =
                    [http |-> http, body |-> body, id |-> id, status |-> st,
                     basis |-> out.status, exc |-> out.exc, late |-> out.late]]
    /\ reply'  = [reply EXCEPT ![r] = NoReply]
    /\ UNCHANGED <<endpoint, opId, call>>

(* `except LXDError as exc: raise _lxd_err_to_http(exc)` *)
AnswerError(r, http, out) == Answer(r, http, "error", EmptyId, NoStatus, out)

(* A bug: a start whose connection failed is sent again. *)
RetryStart(r, out) ==
    /\ out.exc # "none"
    /\ IF out.exc = "LXDConnectionError"
       THEN /\ call'  = [call EXCEPT ![r] = "start"]
            /\ reply' = [reply EXCEPT ![r] = NoReply]
            /\ UNCHANGED gatewayVars
       ELSE AnswerError(r, lxd_err_to_http(out), out)

StartFails(r, out) ==
    /\ out.exc # "none"
    /\ AnswerError(r, lxd_err_to_http(out), out)

(* `return ref.model_dump()`: 202 with the reference, whatever its id is. *)
StartReturnsReference(r, out) ==
    /\ out.exc = "none"
    /\ \/ endpoint[r] = "start"
       \/ to_async_ref(out) = EmptyId
    /\ Answer(r, 202, "reference", to_async_ref(out), NoStatus, out)

(* `if wait and ref.operation_id:` the handler makes its second call. *)
StartGoesOnToWait(r, out) ==
    /\ out.exc = "none"
    /\ endpoint[r] \in WaitingStarts
    /\ to_async_ref(out) # EmptyId
    /\ pc'    = [pc EXCEPT ![r] = "waiting"]
    /\ opId'  = [opId EXCEPT ![r] = to_async_ref(out)]
    /\ call'  = [call EXCEPT ![r] = "wait"]
    /\ reply' = [reply EXCEPT ![r] = NoReply]
    /\ UNCHANGED <<endpoint, answer>>

StartResumes(r, out) ==
    /\ pc[r] = "calling"
    /\ endpoint[r] \in Starts
    /\ \/ StartFails(r, out)
       \/ StartReturnsReference(r, out)
       \/ StartGoesOnToWait(r, out)

(* A bug: the errors of the second call are translated like the first's. *)
WaitFailsTranslated(r, out) ==
    /\ out.exc # "none"
    /\ AnswerError(r, lxd_err_to_http(out), out)

(* A failure of the wait is a 500, whatever it was. *)
StartWaitFails(r, out) ==
    /\ out.exc # "none"
    /\ AnswerError(r, 500, out)

(* {"status": "Success"}, also when the reply was no operation object and  *)
(* wait_for_operation had no status to look at.                            *)
StartWaitSucceeds(r, out) ==
    /\ out.exc = "none"
    /\ Answer(r, 202, "success", opId[r], "Success", out)

StartWaitResumes(r, out) ==
    /\ pc[r] = "waiting"
    /\ \/ StartWaitFails(r, wait_for_operation(out))
       \/ StartWaitSucceeds(r, wait_for_operation(out))

(* get_operation: the operation object, as LXD gave it. *)
GetResumes(r, out) ==
    /\ endpoint[r] = "get"
    /\ IF out.exc = "none"
       THEN Answer(r, 200, "operation", opId[r], out.status, out)
       ELSE AnswerError(r, lxd_err_to_http(out), out)

(* cancel_operation: a message, whatever LXD's reply carries. *)
CancelResumes(r, out) ==
    /\ endpoint[r] = "cancel"
    /\ IF out.exc = "none"
       THEN Answer(r, 202, "message", opId[r], NoStatus, out)
       ELSE AnswerError(r, lxd_err_to_http(out), out)

(* wait_operation: LXDOperationError is a 500, other errors are translated. *)
WaitOperationResumes(r, out) ==
    LET ended == wait_for_operation(out)
    IN  /\ endpoint[r] \in WaitRoutes
        /\ IF ended.exc = "none"
           THEN Answer(r, 200, "operation", opId[r], ended.status, ended)
           ELSE AnswerError(r, lxd_err_to_http(ended), ended)

Resume(r, out) ==
    /\ \/ StartResumes(r, out)
       \/ StartWaitResumes(r, out)
       \/ GetResumes(r, out) /\ pc[r] = "calling"
       \/ CancelResumes(r, out) /\ pc[r] = "calling"
       \/ WaitOperationResumes(r, out) /\ pc[r] = "calling"
    /\ UNCHANGED lxdVars

(* A bug: the client object, shared by all coroutines, keeps the last      *)
(* reply in an attribute that the resumed coroutine reads.                 *)
DeliverLast(r) ==
    \E s \in Requests :
        /\ reply[r] # NoReply
        /\ reply[s] # NoReply
        /\ Resume(r, request(reply[s]))

(* The reply reached the gateway. *)
Deliver(r) ==
    /\ reply[r] # NoReply
    /\ Resume(r, request(reply[r]))

(* A bug: a long-poll is sent with timeout=None. *)
TimeoutSparesWaits(r) ==
    /\ Awaiting(r)
    /\ reply[r] = NoReply
    /\ call[r] \notin {"wait", "waiting"}
    /\ Resume(r, request(Plain("timeout")))

(* No byte of a reply came for LXD_TIMEOUT seconds: request() is given no  *)
(* other timeout by any caller.  What LXD has still to do stays to be done. *)
Timeout(r) ==
    /\ Awaiting(r)
    /\ reply[r] = NoReply
    /\ Resume(r, request(Plain("timeout")))

(* httpx raises: the connection was refused or broke, before or after LXD  *)
(* read the request.                                                       *)
ConnectionFails(r) ==
    /\ Awaiting(r)
    /\ Resume(r, request(Plain("transport")))

-----------------------------------------------------------------------------
(* LXD (external).  A call that LXD reads after its coroutine gave up is   *)
(* carried out all the same; only its reply is lost.                       *)

Respond(r, rp) ==
    /\ call'  = [call EXCEPT ![r] = "none"]
    /\ reply' = IF Awaiting(r) THEN [reply EXCEPT ![r] = rp] ELSE reply

(* LXD accepts an action and starts an operation under a fresh id.  The    *)
(* gateway gets the operation, or the URL alone, or a proxy's page, or a   *)
(* proxy's reply without a body (a bare 502 or 504).                       *)
LxdStarts(r, o) ==
    /\ call[r] = "start"
    /\ status[o] = "Unused"
    /\ status' = [status EXCEPT ![o] = "Running"]
    /\ owner'  = [owner EXCEPT ![o] = r]
    /\ listed' = listed \cup {o}
    /\ \/ Respond(r, Reply("operation", 0, o, "Running"))
       \/ Respond(r, Plain("bare"))
       \/ Respond(r, Plain("empty"))
       \/ \E code \in PageCodes \ (400..499) : Respond(r, PageReply(code))
    /\ UNCHANGED gatewayVars

(* LXD carries the action out at once and answers with a sync reply. *)
LxdRepliesSync(r) ==
    /\ call[r] = "start"
    /\ \E kind \in {"object", "null", "empty"} : Respond(r, Plain(kind))
    /\ UNCHANGED <<gatewayVars, lxdVars>>

(* LXD, or a proxy before it, refuses the action; a proxy may do so        *)
(* without a body.                                                         *)
LxdRejects(r) ==
    /\ call[r] = "start"
    /\ \/ \E code \in ErrorCodes : Respond(r, ErrorReply(code))
       \/ \E code \in PageCodes : Respond(r, PageReply(code))
       \/ Respond(r, Plain("empty"))
    /\ UNCHANGED <<gatewayVars, lxdVars>>

(* Any route under /operations/{id}, for an operation LXD does not list. *)
LxdKnowsNoOperation(r) ==
    /\ call[r] \in {"get", "cancel", "wait"}
    /\ opId[r] \notin listed
    /\ Respond(r, ErrorReply(404))
    /\ UNCHANGED <<gatewayVars, lxdVars>>

LxdShows(r) ==
    /\ call[r] = "get"
    /\ opId[r] \in listed
    /\ Respond(r, Reply("object", 0, opId[r], status[opId[r]]))
    /\ UNCHANGED <<gatewayVars, lxdVars>>

(* LXD cancels a running operation that can be cancelled. *)
LxdCancels(r) ==
    /\ call[r] = "cancel"
    /\ opId[r] \in listed
    /\ status[opId[r]] = "Running"
    /\ status' = [status EXCEPT ![opId[r]] = "Cancelled"]
    /\ \E kind \in {"object", "null", "empty"} : Respond(r, Plain(kind))
    /\ UNCHANGED <<gatewayVars, owner, listed>>

(* LXD refuses to cancel: the operation ended, or cannot be cancelled. *)
LxdRefusesToCancel(r) ==
    /\ call[r] = "cancel"
    /\ opId[r] \in listed
    /\ Respond(r, ErrorReply(400))
    /\ UNCHANGED <<gatewayVars, lxdVars>>

(* LXD blocks the long-poll of an operation it lists. *)
LxdBlocks(r) ==
    /\ call[r] = "wait"
    /\ opId[r] \in listed
    /\ call' = [call EXCEPT ![r] = "waiting"]
    /\ UNCHANGED <<gatewayVars, reply, lxdVars>>

(* The awaited operation ended; LXD answers even if it unlisted it since. *)
LxdReleases(r) ==
    /\ call[r] = "waiting"
    /\ status[opId[r]] \in Terminal
    /\ Respond(r, Reply("object", 0, opId[r], status[opId[r]]))
    /\ UNCHANGED <<gatewayVars, lxdVars>>

(* The ?timeout= of the long-poll, which only wait_operation sends, ran    *)
(* out at LXD.                                                             *)
LxdStopsWaiting(r) ==
    /\ call[r] = "waiting"
    /\ endpoint[r] = "waitBounded"
    /\ Respond(r, Reply("object", 0, opId[r], status[opId[r]]))
    /\ UNCHANGED <<gatewayVars, lxdVars>>

(* A call about an operation, a long-poll at any moment of it included, is *)
(* answered without the operation: an error of LXD or of a proxy, a        *)
(* proxy's page, a reply without metadata, or one without a body.          *)
LxdAnswersBadly(r) ==
    /\ call[r] \in {"get", "cancel", "wait", "waiting"}
    /\ \/ \E code \in ErrorCodes : Respond(r, ErrorReply(code))
       \/ \E code \in PageCodes : Respond(r, PageReply(code))
       \/ \E kind \in {"null", "empty"} : Respond(r, Plain(kind))
    /\ UNCHANGED <<gatewayVars, lxdVars>>

(* An operation ends by itself, or is cancelled by another client of LXD. *)
LxdEnds(o) ==
    /\ status[o] = "Running"
    /\ \E s \in Terminal : status' = [status EXCEPT ![o] = s]
    /\ UNCHANGED <<gatewayVars, call, reply, owner, listed>>

(* LXD unlists an operation some seconds after it ended. *)
LxdForgets(o) ==
    /\ o \in listed
    /\ status[o] \in Terminal
    /\ listed' = listed \ {o}
    /\ UNCHANGED <<gatewayVars, call, reply, status, owner>>

-----------------------------------------------------------------------------
Gateway(r) ==
    \/ \E e \in Starts : SubmitStart(r, e)
    \/ \E e \in OperationRoutes, o \in OpIds : SubmitOperation(r, e, o)
    \/ Deliver(r)
    \/ Timeout(r)
    \/ ConnectionFails(r)

Lxd(r) ==
    \/ \E o \in OpIds : LxdStarts(r, o)
    \/ LxdRepliesSync(r)
    \/ LxdRejects(r)
    \/ LxdKnowsNoOperation(r)
    \/ LxdShows(r)
    \/ LxdCancels(r)
    \/ LxdRefusesToCancel(r)
    \/ LxdBlocks(r)
    \/ LxdReleases(r)
    \/ LxdStopsWaiting(r)
    \/ LxdAnswersBadly(r)

(* Every request is answered and LXD is idle: with the finite set of       *)
(* requests that a run is given, this is the only way to stop.             *)
AllDone ==
    /\ \A r \in Requests : pc[r] = "answered" /\ call[r] = "none"
    /\ listed = {}
    /\ UNCHANGED vars

Next ==
    \/ \E r \in Requests : Gateway(r) \/ Lxd(r)
    \/ \E o \in OpIds : LxdEnds(o) \/ LxdForgets(o)
    \/ AllDone

Spec == Init /\ [][Next]_vars

(* The event loop runs a coroutine whose await is over, and httpx ends     *)
(* every await after LXD_TIMEOUT seconds without a byte.  Nothing is       *)
(* assumed of clients, of LXD, or of the network.                          *)
FairSpec == Spec /\ \A r \in Requests : WF_vars(Deliver(r) \/ Timeout(r))

-----------------------------------------------------------------------------
(* Properties *)

Answered(r)  == pc[r] = "answered"
IsStart(r)   == endpoint[r] \in Starts
Owned(r)     == {o \in OpIds : owner[o] = r}

(* The operation_id of the reference (schemas/lxd.py AsyncOperationRef)    *)
(* that a client is given is that of the operation started by that very    *)
(* request, if it is the id of an operation at all: concurrent requests    *)
(* that share the LXD client never get each other's references.            *)
ReferenceDenotesOwnOperation ==
    \A r \in Requests :
        Answered(r) /\ answer[r].body = "reference" /\ answer[r].id \in OpIds
        => owner[answer[r].id] = r

(* Verdicts given after a wait are true: {"status": "Success"} of a route  *)
(* with ?wait=true, and a final status or an LXDOperationError of          *)
(* wait_operation, is the status the named operation really ended in,      *)
(* whoever cancelled it and whenever LXD forgot it.  It speaks of the      *)
(* verdicts that rest on an operation object: for any other reply the code *)
(* answers "Success" too (SuccessMeansDone), or 200 with no status.        *)
WaitVerdictIsTrue ==
    \A r \in Requests : Answered(r) =>
        /\ answer[r].body = "success" /\ answer[r].basis # NoStatus =>
               /\ answer[r].id \in Owned(r)
               /\ status[answer[r].id] = "Success"
        /\ /\ endpoint[r] = "wait"
           /\ answer[r].body = "operation"
           /\ answer[r].status # NoStatus
           => status[answer[r].id] = "Success"
        /\ answer[r].exc = "LXDOperationError" =>
               status[opId[r]] \in {"Failure", "Cancelled"}

(* A 4xx answer to an action means that LXD started nothing for it, and    *)
(* has nothing left to start: only then may a client safely try again.     *)
RejectionStartsNothing ==
    \A r \in Requests :
        IsStart(r) /\ Answered(r) /\ answer[r].http \in 400..499
        => Owned(r) = {} /\ call[r] # "start"

(* The gateway never repeats an action by itself: whatever is lost or      *)
(* late, one API request starts at most one operation.                     *)
AtMostOneOperation ==
    \A o1, o2 \in OpIds :
        owner[o1] = owner[o2] /\ owner[o1] # NoRequest => o1 = o2

(* Every request is answered, also when LXD never replies, an operation    *)
(* never ends, or the caller asked to wait for it.                         *)
EveryRequestIsAnswered ==
    \A r \in Requests : Awaiting(r) ~> Answered(r)

-----------------------------------------------------------------------------
(* The inductive invariant behind the properties above. *)

(* What LXD has still to do agrees with where the coroutine is.  A call    *)
(* that starts an action is pending only as long as nothing was started.   *)
CallsAgree ==
    \A r \in Requests :
        /\ pc[r] = "idle"    => endpoint[r] = "none" /\ call[r] = "none"
        /\ pc[r] # "idle"    => endpoint[r] \in Endpoints
        /\ pc[r] = "waiting" => endpoint[r] \in WaitingStarts
        /\ pc[r] = "waiting" => call[r] # "start"
        /\ call[r] = "start" => IsStart(r) /\ Owned(r) = {}
        /\ call[r] \in {"get", "cancel"} => endpoint[r] = call[r]
        /\ IsStart(r) /\ pc[r] = "calling" => call[r] \in {"start", "none"}
        /\ endpoint[r] \in OperationRoutes => opId[r] \in OpIds
        /\ call[r] = "waiting" =>
               opId[r] \in OpIds /\ status[opId[r]] # "Unused"
        /\ reply[r] # NoReply => Awaiting(r) /\ call[r] = "none"
        /\ ~ Answered(r)      => answer[r] = NoAnswer
        /\ Answered(r)        => answer[r].http # 0

(* An operation is known from when it starts, to have one owner. *)
OwnersAgree ==
    /\ \A o \in OpIds : status[o] = "Unused" <=> owner[o] = NoRequest
    /\ \A o \in OpIds : owner[o] # NoRequest => IsStart(owner[o])
    /\ \A o \in listed : status[o] # "Unused"
    /\ \A r \in Requests :
          pc[r] = "waiting" /\ opId[r] \in OpIds => owner[opId[r]] = r

(* A reply on its way tells the truth: to a start, about what was started; *)
(* to a long-poll, the final status if it shows the operation at all,      *)
(* unless LXD was told to stop waiting.                                    *)
RepliesAgree ==
    \A r \in Requests : reply[r] # NoReply =>
        /\ IsStart(r) /\ pc[r] = "calling" =>
              /\ reply[r].kind = "operation" => reply[r].id \in Owned(r)
              /\ reply[r].kind # "operation" => reply[r].id = EmptyId
              /\ reply[r].kind \in {"error", "malformed"} =>
                    Owned(r) = {} \/ reply[r].code \notin 400..499
        /\ pc[r] = "waiting" \/ endpoint[r] \in WaitRoutes =>
              /\ reply[r].kind \notin {"operation", "bare"}
              /\ reply[r].kind = "object" =>
                    /\ opId[r] \in OpIds
                    /\ reply[r].status = status[opId[r]] \/ reply[r].status = "Running"
                    /\ endpoint[r] # "waitBounded" => reply[r].status \in Terminal

(* The verdicts WaitVerdictIsTrue speaks of name an operation. *)
VerdictsNameOperations ==
    \A r \in Requests : Answered(r) =>
        /\ endpoint[r] = "wait" /\ answer[r].body = "operation" =>
               answer[r].id \in OpIds
        /\ answer[r].body = "success" /\ answer[r].basis # NoStatus =>
               answer[r].id \in OpIds
        /\ answer[r].exc = "LXDOperationError" => opId[r] \in OpIds

(* Calls, owners and replies agree with the coroutines and with LXD, and   *)
(* with them every answer given so far is true: what keeps an answer true  *)
(* after it was given is that a started operation keeps its owner and an   *)
(* ended one its status.                                                   *)
SafetyInvariant ==
    /\ TypeOK
    /\ CallsAgree
    /\ OwnersAgree
    /\ RepliesAgree
    /\ VerdictsNameOperations
    /\ ReferenceDenotesOwnOperation
    /\ WaitVerdictIsTrue
    /\ RejectionStartsNothing
    /\ AtMostOneOperation

-----------------------------------------------------------------------------
(* What documents of the repository say and the code does not do *)

(* snapshots.py:85 "Block until the snapshot completes.", and              *)
(* lxd_operations.py:74-79: a route with ?wait=true that answers           *)
(* {"status": "Success"} has waited until its operation ended well.  The   *)
(* code answers so for any reply to the wait that is not an operation.     *)
SuccessMeansDone ==
    \A r \in Requests :
        Answered(r) /\ answer[r].body = "success"
        => answer[r].id \in Owned(r) /\ status[answer[r].id] = "Success"

(* lxd_operations.py:81 and operations.py:132: timeout=0 is an unbounded   *)
(* wait; while LXD holds the long-poll, it does not end with a timeout.    *)
WaitWithoutTimeoutIsUnbounded ==
    [][\A r \in Requests :
          endpoint[r] = "wait" /\ call[r] = "waiting" /\ Awaiting(r)
          => ~answer'[r].late]_vars

-----------------------------------------------------------------------------
(* Refinement: each action's client sees the promise of OperationPromise.  *)

(* A "Success" that rests on no operation object says nothing of the job,  *)
(* although its client cannot tell it from one that does.                  *)
jobOf(r) ==
    IF Owned(r) = {} THEN "none" ELSE status[CHOOSE o \in OpIds : owner[o] = r]

verdictOf(r) ==
    IF ~ IsStart(r) \/ ~ Answered(r)               THEN "none"
    ELSE IF answer[r].body = "success"
         THEN IF answer[r].basis # NoStatus        THEN "succeeded" ELSE "unknown"
    ELSE IF answer[r].body = "reference"
         THEN IF answer[r].id \in OpIds            THEN "tracked" ELSE "untracked"
    ELSE IF answer[r].exc = "LXDOperationError"    THEN "failed"
    ELSE IF answer[r].http \in 400..499            THEN "rejected"
    ELSE "unknown"

Promise == INSTANCE OperationPromise
    WITH job     <- [r \in Requests |-> jobOf(r)],
         verdict <- [r \in Requests |-> verdictOf(r)]

(* What the answers of the gateway say of the work at LXD is true when     *)
(* they are given and remains true: Operations implements OperationPromise.*)
ImplementsPromise == Promise!Spec
=============================================================================
