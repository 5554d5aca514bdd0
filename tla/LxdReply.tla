------------------------------ MODULE LxdReply ------------------------------
(***************************************************************************)
(* What one call to the LXD REST API gives back to a route handler:        *)
(* LXDClient.request (app/services/lxd_client.py), the exception hierarchy *)
(* (app/services/exceptions.py), to_async_ref and the terminal-state test  *)
(* of wait_for_operation (app/services/lxd_operations.py) and the          *)
(* _lxd_err_to_http helper that every route module repeats.                *)
(*                                                                         *)
(* The bytes of a reply are abstracted to its KIND: what the branches of   *)
(* the client tell apart.                                                  *)
(*   "operation"  type async, its metadata is the operation object         *)
(*   "bare"       type async, no metadata (only the operation URL)         *)
(*   "object"     type sync, metadata is an object                         *)
(*   "null"       type sync, metadata is null                              *)
(*   "empty"      no body at all, whatever the HTTP status                 *)
(*   "error"      type error                                               *)
(*   "malformed"  not JSON, or not an LXD envelope (a proxy's page)        *)
(*   "transport"  no reply: the connection failed                          *)
(*   "timeout"    no reply within the client's timeout                     *)
(***************************************************************************)
EXTENDS Integers

CONSTANTS
    OpIds,       \* the ids LXD gives to its background operations
    EmptyId,     \* the id "" of metadata.get("id", "")
    NoneId,      \* the id "None" of str(None)
    ErrorCodes,  \* the status codes of LXD's error envelopes
    PageCodes    \* the HTTP codes under which a malformed body may arrive

ASSUME LxdReplyAssumption ==
    /\ EmptyId \notin OpIds
    /\ NoneId \notin OpIds
    /\ EmptyId # NoneId
    /\ ErrorCodes \subseteq 400..599
    /\ {400, 404} \subseteq ErrorCodes
    /\ PageCodes \subseteq 200..599

Ids == OpIds \cup {EmptyId, NoneId}

(* OperationStatus, without "Pending", which no code path tells from       *)
(* "Running"; "" is the absent status of metadata.get("status", "").       *)
Terminal == {"Success", "Failure", "Cancelled"}
OperationStatus == {"Running"} \cup Terminal
NoStatus == ""

ReplyKinds == {"operation", "bare", "object", "null", "empty", "error",
               "malformed", "transport", "timeout"}

Replies == [kind   : ReplyKinds,
            code   : {0} \cup ErrorCodes \cup PageCodes,
            id     : OpIds \cup {EmptyId},
            status : OperationStatus \cup {NoStatus}]

Reply(kind, code, id, status) ==
    [kind |-> kind, code |-> code, id |-> id, status |-> status]

Plain(kind)       == Reply(kind, 0, EmptyId, NoStatus)
ErrorReply(code)  == Reply("error", code, EmptyId, NoStatus)
PageReply(code)   == Reply("malformed", code, EmptyId, NoStatus)

-----------------------------------------------------------------------------
(* The exceptions of app/services/exceptions.py; "none" is a normal return. *)
RequestErrors == {"LXDBadRequest", "LXDAuthError", "LXDNotFoundError",
                  "LXDConflictError", "LXDRequestError"}
Exceptions == RequestErrors \cup {"LXDConnectionError", "LXDError",
                                  "LXDOperationError"}

lxd_error_for_status(code) ==
    CASE code = 400          -> "LXDBadRequest"
      [] code \in {401, 403} -> "LXDAuthError"
      [] code = 404          -> "LXDNotFoundError"
      [] code = 409          -> "LXDConflictError"
      [] OTHER               -> "LXDRequestError"

(* An outcome is what a call to the client leaves in the handler: the      *)
(* exception raised with its status_code, or the value returned, of which  *)
(* handlers only look at whether it is a dict, its id and its status.      *)
Outcomes == [exc    : {"none"} \cup Exceptions,
             code   : {0} \cup ErrorCodes \cup PageCodes,
             late   : BOOLEAN,    \* the message names a timeout
             dict   : BOOLEAN,
             id     : OpIds \cup {EmptyId},
             status : OperationStatus \cup {NoStatus}]

Raised(exc, code, late) ==
    [exc |-> exc, code |-> code, late |-> late,
     dict |-> FALSE, id |-> EmptyId, status |-> NoStatus]

Returned(dict, id, status) ==
    [exc |-> "none", code |-> 0, late |-> FALSE,
     dict |-> dict, id |-> id, status |-> status]

(* LXDClient.request: from the reply on the wire to the outcome. *)
request(rp) ==
    CASE rp.kind \in {"transport", "timeout"} ->
            Raised("LXDConnectionError", 0, rp.kind = "timeout")
      [] rp.kind = "malformed" -> Raised("LXDError", rp.code, FALSE)
      [] rp.kind = "error" ->
            Raised(lxd_error_for_status(rp.code), rp.code, FALSE)
      [] rp.kind \in {"empty", "null"} -> Returned(FALSE, EmptyId, NoStatus)
      [] rp.kind = "bare"  -> Returned(TRUE, EmptyId, NoStatus)
      [] OTHER             -> Returned(TRUE, rp.id, rp.status)

(* to_async_ref: the operation_id of the reference given to the client. *)
to_async_ref(out) == IF out.dict THEN out.id ELSE NoneId

(* A bug: only "Failure" is taken for a failed operation. *)
terminal_check_misses_cancelled(out) ==
    IF out.dict /\ out.status = "Failure"
    THEN Raised("LXDOperationError", 0, FALSE)
    ELSE out

(* wait_for_operation, after its GET returned: a non-success terminal      *)
(* state is raised.                                                        *)
wait_for_operation(out) ==
    IF out.dict /\ out.status \in {"Failure", "Cancelled"}
    THEN Raised("LXDOperationError", 0, FALSE)
    ELSE out

(* A bug: a lost connection is reported as 408 Request Timeout. *)
lost_connection_is_408 ==
    [LXDBadRequest      |-> 400,
     LXDAuthError       |-> 403,
     LXDNotFoundError   |-> 404,
     LXDConflictError   |-> 409,
     LXDConnectionError |-> 408]

(* A bug: LXD's refusal of the gateway is passed on as a 401. *)
auth_error_is_401 ==
    [LXDBadRequest      |-> 400,
     LXDAuthError       |-> 401,
     LXDNotFoundError   |-> 404,
     LXDConflictError   |-> 409,
     LXDConnectionError |-> 503]

code_map == [LXDBadRequest      |-> 400,
             LXDAuthError       |-> 403,
             LXDNotFoundError   |-> 404,
             LXDConflictError   |-> 409,
             LXDConnectionError |-> 503]

(* A bug: the `or 500` of the status mapping is missing. *)
no_default_500(out) ==
    IF out.exc \in DOMAIN code_map THEN code_map[out.exc] ELSE out.code

(* A bug: the status code of the exception, which lost connections lack. *)
status_code_only(out) == out.code

(* _lxd_err_to_http: the status code of the HTTPException. *)
lxd_err_to_http(out) ==
    IF out.exc \in DOMAIN code_map THEN code_map[out.exc]
    ELSE IF out.code # 0 THEN out.code ELSE 500
=============================================================================
