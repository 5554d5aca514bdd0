---------------------------- MODULE LxdReply_proofs ----------------------------
(***************************************************************************)
(* Lemmas about LxdReply: what a call to LXD may leave in a handler, and   *)
(* which replies an error answer stands for.                               *)
(***************************************************************************)
EXTENDS LxdReply, TLAPS

(* The replies that LXD gives are replies. *)
LEMMA RepliesAreReplies ==
    /\ \A kind \in {"bare", "object", "null", "empty"} : Plain(kind) \in Replies
    /\ \A code \in ErrorCodes : ErrorReply(code) \in Replies
    /\ \A code \in PageCodes : PageReply(code) \in Replies
    /\ \A o \in OpIds, s \in OperationStatus :
          /\ Reply("operation", 0, o, s) \in Replies
          /\ Reply("object", 0, o, s) \in Replies
BY DEF Plain, ErrorReply, PageReply, Reply, Replies, ReplyKinds

(* Every reply becomes a well-formed outcome in the handler. *)
LEMMA RequestReturnsOutcome ==
    ASSUME NEW rp \in Replies
    PROVE  request(rp) \in Outcomes
BY DEF Replies, ReplyKinds, request, Outcomes, Raised, Returned, Exceptions,
       RequestErrors, lxd_error_for_status

(* A lost reply is one, too. *)
LEMMA LostReplyIsOutcome ==
    ASSUME NEW kind \in {"transport", "timeout"}
    PROVE  /\ request(Plain(kind)) \in Outcomes
           /\ request(Plain(kind)).exc = "LXDConnectionError"
           /\ ~ request(Plain(kind)).dict
BY DEF Plain, Reply, request, Outcomes, Raised, Exceptions

LEMMA WaitReturnsOutcome ==
    ASSUME NEW out \in Outcomes
    PROVE  wait_for_operation(out) \in Outcomes
BY DEF wait_for_operation, Outcomes, Raised, Exceptions

LEMMA ReferenceIsId ==
    ASSUME NEW out \in Outcomes
    PROVE  to_async_ref(out) \in Ids
BY DEF to_async_ref, Outcomes, Ids

LEMMA ErrorStatusIsHttp ==
    ASSUME NEW out \in Outcomes
    PROVE  lxd_err_to_http(out) \in 200..599
<1>1. \A e \in DOMAIN code_map : code_map[e] \in 200..599
  BY DEF code_map
<1>2. \A c \in ({0} \cup ErrorCodes \cup PageCodes) \ {0} : c \in 200..599
  BY LxdReplyAssumption DEF LxdReplyAssumption
<1>3. out.code \in {0} \cup ErrorCodes \cup PageCodes
  BY DEF Outcomes
<1>4. out.code # 0 => out.code \in 200..599
  BY <1>2, <1>3, Zenon
<1> QED
  BY <1>1, <1>4 DEF lxd_err_to_http

(* A call raises if there was no reply, an error or no envelope.           *)
LEMMA RaisedForKind ==
    ASSUME NEW rp \in Replies
    PROVE  /\ request(rp).exc # "none" <=>
                 rp.kind \in {"transport", "timeout", "malformed", "error"}
           /\ request(rp).exc = "none" =>
                 (request(rp).dict <=> rp.kind \in {"operation", "bare", "object"})
BY DEF Replies, ReplyKinds, request, Raised, Returned, lxd_error_for_status

(* A lost reply raises the error of a lost connection. *)
LEMMA LostReplyRaises ==
    ASSUME NEW rp, rp.kind \in {"transport", "timeout"}
    PROVE  request(rp).exc = "LXDConnectionError"
<1> DEFINE out == Raised("LXDConnectionError", 0, rp.kind = "timeout")
<1>1. request(rp) = out
  BY DEF request
<1>2. out.exc = "LXDConnectionError"
  BY DEF Raised
<1> QED
  BY <1>1, <1>2

(* A lost connection is answered with 503.                                 *)
LEMMA LostConnectionIs503 ==
    ASSUME NEW out, out.exc = "LXDConnectionError"
    PROVE  lxd_err_to_http(out) = 503
<1>1. /\ "LXDConnectionError" \in DOMAIN code_map
      /\ code_map["LXDConnectionError"] = 503
  BY DEF code_map
<1> QED
  BY <1>1 DEF lxd_err_to_http

(* A client is told 4xx only if LXD sent an error, or a page with that     *)
(* very status: never because a call was lost.                             *)
THEOREM ClientErrorIsAReply ==
    ASSUME NEW rp \in Replies, request(rp).exc # "none",
           lxd_err_to_http(request(rp)) \in 400..499
    PROVE  rp.kind = "error" \/ (rp.kind = "malformed" /\ rp.code \in 400..499)
<1>1. CASE rp.kind \in {"transport", "timeout"}
  <2>1. lxd_err_to_http(request(rp)) = 503
    BY <1>1, LostReplyRaises, LostConnectionIs503
  <2> QED
    BY <2>1
<1>2. CASE rp.kind = "malformed"
  BY <1>2 DEF request, Raised, lxd_err_to_http, code_map
<1> QED
  BY <1>1, <1>2, RaisedForKind

(* An error of LXD is answered with an error of its class: a 4xx says that *)
(* LXD sent one, a 5xx that LXD failed.                                    *)
THEOREM ErrorsKeepTheirClass ==
    ASSUME NEW rp \in Replies, rp.kind = "error", rp.code \in ErrorCodes
    PROVE  /\ lxd_err_to_http(request(rp)) \in 400..599
           /\ lxd_err_to_http(request(rp)) \in 400..499 <=> rp.code \in 400..499
<1> DEFINE code == rp.code
<1>1. code \in 400..599
  <2>1. \A c \in ErrorCodes : c \in 400..599
    BY LxdReplyAssumption DEF LxdReplyAssumption
  <2> QED
    BY <2>1, Zenon
<1>2. request(rp) = Raised(lxd_error_for_status(code), code, FALSE)
  BY DEF request
<1> HIDE DEF code
<1>3. lxd_error_for_status(code) \in RequestErrors
  BY DEF lxd_error_for_status, RequestErrors
<1>4. CASE lxd_error_for_status(code) = "LXDRequestError"
  <2>1. code \notin {401, 403} /\ lxd_err_to_http(request(rp)) = code
    BY <1>1, <1>2, <1>4 DEF Raised, lxd_error_for_status, lxd_err_to_http, code_map
  <2> QED
    BY <1>1, <2>1 DEF code
<1>5. CASE lxd_error_for_status(code) # "LXDRequestError"
  <2>1. code \in {400, 401, 403, 404, 409}
    BY <1>5 DEF lxd_error_for_status
  <2>2. lxd_err_to_http(request(rp)) \in {400, 403, 404, 409}
    BY <1>2, <1>3, <1>5 DEF Raised, RequestErrors, lxd_err_to_http, code_map
  <2> QED
    BY <2>1, <2>2 DEF code
<1> QED
  BY <1>4, <1>5
=============================================================================
