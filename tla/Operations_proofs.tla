-------------------------- MODULE Operations_proofs --------------------------
(***************************************************************************)
(* Proofs about Operations, for every set of requests and operation ids.   *)
(***************************************************************************)
EXTENDS Operations, LxdReply_proofs

-----------------------------------------------------------------------------
(* Type correctness. *)

LEMMA NoReplyIsNoReply == NoReply \notin Replies
BY DEF NoReply, Reply, Replies, ReplyKinds

LEMMA InitTypeOK == Init => TypeOK
BY DEF Init, TypeOK, Ids

LEMMA AnswerTypeOK ==
    ASSUME TypeOK, NEW r \in Requests, NEW http \in 200..599,
           NEW body \in {"reference", "success", "operation", "message", "error"},
           NEW id \in Ids, NEW st \in OperationStatus \cup {NoStatus},
           NEW out \in Outcomes, Answer(r, http, body, id, st, out),
           UNCHANGED lxdVars
    PROVE  TypeOK'
<1> DEFINE a == [http |-> http, body |-> body, id |-> id, status |-> st,
                 basis |-> out.status, exc |-> out.exc, late |-> out.late]
<1>1. a \in Answers
  BY DEF Answers, Outcomes
<1> HIDE DEF a
<1>2. answer' = [answer EXCEPT ![r] = a]
  BY DEF Answer, a
<1> QED
  BY <1>1, <1>2 DEF TypeOK, Answer, lxdVars

LEMMA AnswerErrorTypeOK ==
    ASSUME TypeOK, NEW r \in Requests, NEW http \in 200..599, NEW out \in Outcomes,
           AnswerError(r, http, out), UNCHANGED lxdVars
    PROVE  TypeOK'
<1> DEFINE body == "error"
           id   == EmptyId
           st   == NoStatus
<1>1. /\ Answer(r, http, body, id, st, out)
      /\ body \in {"reference", "success", "operation", "message", "error"}
      /\ id \in Ids /\ st \in OperationStatus \cup {NoStatus}
  BY DEF Ids, AnswerError
<1> HIDE DEF body, id, st
<1> QED
  BY <1>1, AnswerTypeOK

(* Every handler leaves a well-typed state, whatever outcome resumes it.   *)
LEMMA ResumeTypeOK ==
    ASSUME TypeOK, NEW r \in Requests, NEW out \in Outcomes, Resume(r, out)
    PROVE  TypeOK'
<1> DEFINE ended == wait_for_operation(out)
<1>1. /\ ended \in Outcomes
      /\ lxd_err_to_http(out) \in 200..599
      /\ lxd_err_to_http(ended) \in 200..599
      /\ to_async_ref(out) \in Ids
  BY WaitReturnsOutcome, ErrorStatusIsHttp, ReferenceIsId
<1>2. /\ out.status \in OperationStatus \cup {NoStatus}
      /\ ended.status \in OperationStatus \cup {NoStatus}
      /\ opId[r] \in Ids
      /\ EmptyId \in Ids
      /\ "Success" \in OperationStatus
      /\ 202 \in 200..599 /\ 200 \in 200..599 /\ 500 \in 200..599
  BY <1>1 DEF Outcomes, TypeOK, Ids, OperationStatus, Terminal
<1>3. UNCHANGED lxdVars
  BY DEF Resume
<1> HIDE DEF ended
<1>4. CASE StartResumes(r, out)
  <2>1. CASE StartFails(r, out)
    BY <2>1, <1>1, <1>3, AnswerErrorTypeOK DEF StartFails
  <2>2. CASE StartReturnsReference(r, out)
    <3> DEFINE http == 202
               body == "reference"
               id   == to_async_ref(out)
               st   == NoStatus
    <3>1. /\ Answer(r, http, body, id, st, out)
          /\ http \in 200..599
          /\ body \in {"reference", "success", "operation", "message", "error"}
          /\ id \in Ids /\ st \in OperationStatus \cup {NoStatus}
      BY <2>2, <1>1 DEF StartReturnsReference
    <3> HIDE DEF http, body, id, st
    <3> QED
      BY <3>1, <1>3, AnswerTypeOK
  <2>3. CASE StartGoesOnToWait(r, out)
    BY <2>3, <1>1, <1>3
    DEF StartGoesOnToWait, TypeOK, lxdVars, PendingCalls
  <2> QED
    BY <1>4, <2>1, <2>2, <2>3 DEF StartResumes
<1>5. CASE StartWaitResumes(r, out)
  <2>1. CASE StartWaitFails(r, ended)
    <3> DEFINE http == 500
    <3>1. AnswerError(r, http, ended) /\ http \in 200..599
      BY <2>1 DEF StartWaitFails
    <3> HIDE DEF http
    <3> QED
      BY <3>1, <1>1, <1>3, AnswerErrorTypeOK
  <2>2. CASE StartWaitSucceeds(r, ended)
    <3> DEFINE http == 202
               body == "success"
               id   == opId[r]
               st   == "Success"
    <3>1. /\ Answer(r, http, body, id, st, ended)
          /\ http \in 200..599
          /\ body \in {"reference", "success", "operation", "message", "error"}
          /\ id \in Ids /\ st \in OperationStatus \cup {NoStatus}
          /\ ended \in Outcomes
      BY <2>2, <1>1, <1>2 DEF StartWaitSucceeds
    <3> HIDE DEF http, body, id, st
    <3> QED
      BY <3>1, <1>3, AnswerTypeOK
  <2> QED
    BY <1>5, <2>1, <2>2 DEF StartWaitResumes, ended
<1>6. CASE GetResumes(r, out)
  <2>1. CASE out.exc = "none"
    <3> DEFINE http == 200
               body == "operation"
               id   == opId[r]
               st   == out.status
    <3>1. /\ Answer(r, http, body, id, st, out)
          /\ http \in 200..599
          /\ body \in {"reference", "success", "operation", "message", "error"}
          /\ id \in Ids /\ st \in OperationStatus \cup {NoStatus}
      BY <1>6, <2>1, <1>2 DEF GetResumes
    <3> HIDE DEF http, body, id, st
    <3> QED
      BY <3>1, <1>3, AnswerTypeOK
  <2>2. CASE out.exc # "none"
    BY <1>6, <2>2, <1>1, <1>3, AnswerErrorTypeOK DEF GetResumes
  <2> QED
    BY <2>1, <2>2
<1>7. CASE CancelResumes(r, out)
  <2>1. CASE out.exc = "none"
    <3> DEFINE http == 202
               body == "message"
               id   == opId[r]
               st   == NoStatus
    <3>1. /\ Answer(r, http, body, id, st, out)
          /\ http \in 200..599
          /\ body \in {"reference", "success", "operation", "message", "error"}
          /\ id \in Ids /\ st \in OperationStatus \cup {NoStatus}
      BY <1>7, <2>1, <1>2 DEF CancelResumes
    <3> HIDE DEF http, body, id, st
    <3> QED
      BY <3>1, <1>3, AnswerTypeOK
  <2>2. CASE out.exc # "none"
    BY <1>7, <2>2, <1>1, <1>3, AnswerErrorTypeOK DEF CancelResumes
  <2> QED
    BY <2>1, <2>2
<1>8. CASE WaitOperationResumes(r, out)
  <2>1. CASE ended.exc = "none"
    <3> DEFINE http == 200
               body == "operation"
               id   == opId[r]
               st   == ended.status
    <3>1. /\ Answer(r, http, body, id, st, ended)
          /\ http \in 200..599
          /\ body \in {"reference", "success", "operation", "message", "error"}
          /\ id \in Ids /\ st \in OperationStatus \cup {NoStatus}
          /\ ended \in Outcomes
      BY <1>8, <2>1, <1>1, <1>2 DEF WaitOperationResumes, ended
    <3> HIDE DEF http, body, id, st
    <3> QED
      BY <3>1, <1>3, AnswerTypeOK
  <2>2. CASE ended.exc # "none"
    BY <1>8, <2>2, <1>1, <1>3, AnswerErrorTypeOK DEF WaitOperationResumes, ended
  <2> QED
    BY <2>1, <2>2
<1> QED
  BY <1>4, <1>5, <1>6, <1>7, <1>8 DEF Resume

-----------------------------------------------------------------------------
(* The safety invariant is inductive: the gateway's steps. *)

LEMMA InitSafety == Init => SafetyInvariant
<1> SUFFICES ASSUME Init PROVE SafetyInvariant
  OBVIOUS
<1>1. TypeOK
  BY InitTypeOK
<1>2. \A r \in Requests : Owned(r) = {}
  BY RequestsAssumption DEF Init, Owned, RequestsAssumption
<1>3. CallsAgree
  BY <1>2 DEF Init, CallsAgree, IsStart, Starts, WaitingStarts, OperationRoutes,
              WaitRoutes, Awaiting, Answered
<1>4. OwnersAgree /\ RepliesAgree /\ AtMostOneOperation
  BY DEF Init, OwnersAgree, RepliesAgree, AtMostOneOperation
<1>5. /\ ReferenceDenotesOwnOperation /\ WaitVerdictIsTrue
      /\ RejectionStartsNothing /\ VerdictsNameOperations
  BY DEF Init, Answered, ReferenceDenotesOwnOperation, WaitVerdictIsTrue,
         RejectionStartsNothing, VerdictsNameOperations
<1> QED
  BY <1>1, <1>3, <1>4, <1>5 DEF SafetyInvariant

(* What must be true of an answer when it is given. *)
AnswerIsTrue(r, http, body, id, st, out) ==
    /\ body = "reference" /\ id \in OpIds => owner[id] = r
    /\ body = "success" /\ out.status # NoStatus =>
           id \in Owned(r) /\ status[id] = "Success"
    /\ endpoint[r] = "wait" /\ body = "operation" =>
           id \in OpIds /\ (st # NoStatus => status[id] = "Success")
    /\ out.exc = "LXDOperationError" =>
           opId[r] \in OpIds /\ status[opId[r]] \in {"Failure", "Cancelled"}
    /\ IsStart(r) /\ http \in 400..499 => Owned(r) = {} /\ call[r] # "start"

(* A true answer keeps the invariant. *)
LEMMA AnswerSafety ==
    ASSUME SafetyInvariant, NEW r \in Requests, Awaiting(r),
           NEW http \in 200..599,
           NEW body \in {"reference", "success", "operation", "message", "error"},
           NEW id \in Ids, NEW st \in OperationStatus \cup {NoStatus},
           NEW out \in Outcomes, Answer(r, http, body, id, st, out),
           UNCHANGED lxdVars, AnswerIsTrue(r, http, body, id, st, out)
    PROVE  SafetyInvariant'
<1> DEFINE a == [http |-> http, body |-> body, id |-> id, status |-> st,
                 basis |-> out.status, exc |-> out.exc, late |-> out.late]
<1> USE DEF SafetyInvariant, lxdVars
<1>1. TypeOK'
  BY AnswerTypeOK
<1>2. /\ a.http = http /\ a.body = body /\ a.id = id /\ a.status = st
      /\ a.basis = out.status /\ a.exc = out.exc
      /\ http # 0
  OBVIOUS
<1> HIDE DEF a
<1>3. /\ answer' = [answer EXCEPT ![r] = a]
      /\ pc' = [pc EXCEPT ![r] = "answered"]
      /\ reply' = [reply EXCEPT ![r] = NoReply]
      /\ UNCHANGED <<endpoint, opId, call, status, owner, listed>>
  BY DEF Answer, a
<1>4. /\ \A s \in Requests : s # r => /\ pc'[s] = pc[s]
                                      /\ answer'[s] = answer[s]
                                      /\ reply'[s] = reply[s]
      /\ pc'[r] = "answered" /\ answer'[r] = a /\ reply'[r] = NoReply
  BY <1>3 DEF TypeOK
<1>5. \A s \in Requests : Owned(s)' = Owned(s) /\ IsStart(s)' = IsStart(s)
  BY <1>3 DEF Owned, IsStart
<1>6. CallsAgree'
  BY <1>2, <1>3, <1>4, <1>5 DEF CallsAgree, Awaiting, Answered
<1>7. OwnersAgree'
  BY <1>3, <1>4, <1>5 DEF OwnersAgree, IsStart
<1>8. RepliesAgree'
  BY <1>3, <1>4, <1>5 DEF RepliesAgree
<1>9. ReferenceDenotesOwnOperation'
  BY <1>2, <1>3, <1>4 DEF ReferenceDenotesOwnOperation, Answered, AnswerIsTrue
<1>10. WaitVerdictIsTrue' /\ VerdictsNameOperations'
  <2>1. /\ a.body = "success" /\ a.basis # NoStatus =>
              a.id \in OpIds /\ a.id \in Owned(r) /\ status[a.id] = "Success"
        /\ endpoint[r] = "wait" /\ a.body = "operation" =>
              a.id \in OpIds /\ (a.status # NoStatus => status[a.id] = "Success")
        /\ a.exc = "LXDOperationError" =>
              opId[r] \in OpIds /\ status[opId[r]] \in {"Failure", "Cancelled"}
    BY <1>2 DEF AnswerIsTrue, Owned
  <2>2. WaitVerdictIsTrue'
    BY <2>1, <1>3, <1>4, <1>5 DEF WaitVerdictIsTrue, Answered
  <2>3. VerdictsNameOperations'
    BY <2>1, <1>3, <1>4 DEF VerdictsNameOperations, Answered
  <2> QED
    BY <2>2, <2>3
<1>11. RejectionStartsNothing'
  BY <1>2, <1>3, <1>4, <1>5 DEF RejectionStartsNothing, Answered, AnswerIsTrue
<1>12. AtMostOneOperation'
  BY <1>3 DEF AtMostOneOperation
<1> QED
  BY <1>1, <1>6, <1>7, <1>8, <1>9, <1>10, <1>11, <1>12

(* The same for an error, and for the other answers. *)
LEMMA AnswerErrorSafety ==
    ASSUME SafetyInvariant, NEW r \in Requests, Awaiting(r),
           NEW http \in 200..599, NEW out \in Outcomes,
           AnswerError(r, http, out), UNCHANGED lxdVars,
           AnswerIsTrue(r, http, "error", EmptyId, NoStatus, out)
    PROVE  SafetyInvariant'
<1> DEFINE body == "error"
<1> DEFINE id == EmptyId
<1> DEFINE st == NoStatus
<1>1. /\ body \in {"reference", "success", "operation", "message", "error"}
      /\ id \in Ids
      /\ st \in OperationStatus \cup {NoStatus}
      /\ Answer(r, http, body, id, st, out)
      /\ AnswerIsTrue(r, http, body, id, st, out)
  BY DEF Ids, AnswerError
<1> HIDE DEF body, id, st
<1> QED
  BY <1>1, AnswerSafety

(* What must be true of an outcome when a coroutine resumes with it. *)
OutcomeIsTrue(r, out) ==
    /\ out.exc # "LXDOperationError"
    /\ out.exc # "none" => ~ out.dict
    /\ IsStart(r) /\ pc[r] = "calling" =>
          /\ out.exc = "none" => call[r] = "none"
          /\ out.exc = "none" /\ to_async_ref(out) \in OpIds =>
                owner[to_async_ref(out)] = r
          /\ out.exc # "none" /\ lxd_err_to_http(out) \in 400..499 =>
                Owned(r) = {} /\ call[r] # "start"
    /\ (pc[r] = "waiting" \/ endpoint[r] \in WaitRoutes) /\ out.exc = "none" =>
             /\ ~ out.dict => out.status = NoStatus
             /\ out.dict =>
                   /\ opId[r] \in OpIds
                   /\ out.status = status[opId[r]] \/ out.status = "Running"
                   /\ endpoint[r] # "waitBounded" => out.status \in Terminal

(* Each class of the hierarchy stands for the status codes it is made from. *)
LEMMA StatusOfError ==
    ASSUME NEW code
    PROVE  /\ lxd_error_for_status(code) = "LXDBadRequest" => code = 400
           /\ lxd_error_for_status(code) = "LXDAuthError" => code \in {401, 403}
           /\ lxd_error_for_status(code) = "LXDNotFoundError" => code = 404
           /\ lxd_error_for_status(code) = "LXDConflictError" => code = 409
<1>1. CASE code = 400
  BY <1>1 DEF lxd_error_for_status
<1>2. CASE code \in {401, 403}
  BY <1>2 DEF lxd_error_for_status
<1>3. CASE code \in {404, 409}
  BY <1>3 DEF lxd_error_for_status
<1>4. CASE code \notin {400, 401, 403, 404, 409}
  BY <1>4 DEF lxd_error_for_status
<1> QED
  BY <1>1, <1>2, <1>3, <1>4

(* The mapping to HTTP keeps the class of a client error. *)
LEMMA ClientErrorComesFromCode ==
    ASSUME NEW out \in Outcomes, out.exc \in {"LXDError"} \cup RequestErrors,
           out.exc \in RequestErrors => out.exc = lxd_error_for_status(out.code),
           lxd_err_to_http(out) \in 400..499
    PROVE  out.code \in 400..499
<1>1. CASE out.exc = "LXDBadRequest"
  BY <1>1, StatusOfError DEF RequestErrors
<1>2. CASE out.exc = "LXDAuthError"
  BY <1>2, StatusOfError DEF RequestErrors
<1>3. CASE out.exc = "LXDNotFoundError"
  BY <1>3, StatusOfError DEF RequestErrors
<1>4. CASE out.exc = "LXDConflictError"
  BY <1>4, StatusOfError DEF RequestErrors
<1>5. CASE out.exc \in {"LXDError", "LXDRequestError"}
  BY <1>5 DEF lxd_err_to_http, code_map
<1> QED
  BY <1>1, <1>2, <1>3, <1>4, <1>5 DEF RequestErrors

LEMMA LostReplyIsTrue ==
    ASSUME NEW r \in Requests, NEW kind \in {"transport", "timeout"}
    PROVE  OutcomeIsTrue(r, request(Plain(kind)))
<1>1. lxd_err_to_http(request(Plain(kind))) = 503
  BY LostReplyIsOutcome DEF lxd_err_to_http, code_map
<1>2. /\ request(Plain(kind)).exc = "LXDConnectionError"
      /\ ~ request(Plain(kind)).dict
  BY LostReplyIsOutcome
<1> QED
  BY <1>1, <1>2 DEF OutcomeIsTrue

LEMMA DeliveredReplyIsTrue ==
    ASSUME SafetyInvariant, NEW r \in Requests, reply[r] # NoReply
    PROVE  OutcomeIsTrue(r, request(reply[r]))
<1> DEFINE rp  == reply[r]
           out == request(rp)
<1> SUFFICES OutcomeIsTrue(r, out)
  OBVIOUS
<1>1. /\ rp \in Replies
      /\ Awaiting(r) /\ call[r] = "none"
  BY DEF SafetyInvariant, TypeOK, CallsAgree
<1>2. /\ IsStart(r) /\ pc[r] = "calling" =>
            /\ rp.kind = "operation" => owner[rp.id] = r
            /\ rp.kind # "operation" => rp.id = EmptyId
            /\ rp.kind \in {"error", "malformed"} =>
                  Owned(r) = {} \/ rp.code \notin 400..499
      /\ pc[r] = "waiting" \/ endpoint[r] \in WaitRoutes =>
            /\ rp.kind \notin {"operation", "bare"}
            /\ rp.kind = "object" =>
                  /\ opId[r] \in OpIds
                  /\ rp.status = status[opId[r]] \/ rp.status = "Running"
                  /\ endpoint[r] # "waitBounded" => rp.status \in Terminal
  BY DEF SafetyInvariant, RepliesAgree, Owned
<1>3. out \in Outcomes
  BY <1>1, RequestReturnsOutcome
<1> HIDE DEF rp, out
<1>4. CASE rp.kind = "error"
  <2>1. /\ out.exc = lxd_error_for_status(rp.code)
        /\ out.code = rp.code
        /\ out.dict = FALSE
    BY <1>4, Zenon DEF request, Raised, out
  <2>2. out.exc \in RequestErrors
    BY <2>1, Zenon DEF lxd_error_for_status, RequestErrors
  <2>3. lxd_err_to_http(out) \in 400..499 => rp.code \in 400..499
    BY <1>3, <2>1, <2>2, ClientErrorComesFromCode
  <2> QED
    BY <1>1, <1>2, <1>4, <2>1, <2>2, <2>3 DEF OutcomeIsTrue, RequestErrors
<1>5. CASE rp.kind = "malformed"
  <2>1. out.exc = "LXDError" /\ out.code = rp.code /\ out.dict = FALSE
    BY <1>5 DEF request, Raised, out
  <2>3. lxd_err_to_http(out) \in 400..499 => rp.code \in 400..499
    BY <1>3, <2>1, ClientErrorComesFromCode DEF RequestErrors
  <2> QED
    BY <1>1, <1>2, <1>5, <2>1, <2>3 DEF OutcomeIsTrue
<1>6. CASE rp.kind \in {"transport", "timeout"}
  <2>1. out.exc = "LXDConnectionError" /\ out.dict = FALSE
    BY <1>6 DEF request, Raised, out
  <2>2. lxd_err_to_http(out) = 503
    BY <2>1 DEF lxd_err_to_http, code_map
  <2> QED
    BY <1>1, <1>2, <1>6, <2>1, <2>2 DEF OutcomeIsTrue
<1>7. CASE rp.kind \in {"null", "empty"}
  <2>1. out.exc = "none" /\ out.dict = FALSE /\ out.status = NoStatus
    BY <1>7 DEF request, Returned, out
  <2>2. to_async_ref(out) \notin OpIds
    BY <2>1, LxdReplyAssumption DEF to_async_ref, LxdReplyAssumption
  <2> QED
    BY <1>1, <1>2, <1>7, <2>1, <2>2 DEF OutcomeIsTrue
<1>8. CASE rp.kind = "bare"
  <2>1. out.exc = "none" /\ out.dict = TRUE /\ out.id = EmptyId
    BY <1>8 DEF request, Returned, out
  <2>2. to_async_ref(out) \notin OpIds
    BY <2>1, LxdReplyAssumption DEF to_async_ref, LxdReplyAssumption
  <2> QED
    BY <1>1, <1>2, <1>8, <2>1, <2>2 DEF OutcomeIsTrue
<1>9. CASE rp.kind \in {"operation", "object"}
  <2>1. /\ out.exc = "none" /\ out.dict = TRUE
        /\ out.id = rp.id /\ out.status = rp.status
    BY <1>9 DEF request, Returned, out
  <2>2. to_async_ref(out) = rp.id
    BY <2>1 DEF to_async_ref
  <2> QED
    BY <1>1, <1>2, <1>9, <2>1, <2>2, LxdReplyAssumption
    DEF OutcomeIsTrue, LxdReplyAssumption
<1> QED
  BY <1>1, <1>4, <1>5, <1>6, <1>7, <1>8, <1>9 DEF Replies, ReplyKinds, rp

(* The second call of a start: the operation it waits for is its own. *)
LEMMA GoOnToWaitSafety ==
    ASSUME SafetyInvariant, NEW r \in Requests, NEW out \in Outcomes,
           OutcomeIsTrue(r, out), pc[r] = "calling", endpoint[r] \in Starts,
           StartGoesOnToWait(r, out), UNCHANGED lxdVars
    PROVE  SafetyInvariant'
<1> DEFINE ref == to_async_ref(out)
<1> USE DEF SafetyInvariant, lxdVars
<1>1. /\ ref \in Ids
      /\ ref \in OpIds => owner[ref] = r
      /\ IsStart(r) /\ endpoint[r] \in WaitingStarts
  BY ReferenceIsId DEF OutcomeIsTrue, IsStart, StartGoesOnToWait
<1> HIDE DEF ref
<1>2. /\ pc' = [pc EXCEPT ![r] = "waiting"]
      /\ opId' = [opId EXCEPT ![r] = ref]
      /\ call' = [call EXCEPT ![r] = "wait"]
      /\ reply' = [reply EXCEPT ![r] = NoReply]
      /\ UNCHANGED <<endpoint, answer, status, owner, listed>>
  BY DEF StartGoesOnToWait, ref
<1>3. TypeOK'
  BY <1>1, <1>2 DEF TypeOK, PendingCalls
<1>4. /\ \A s \in Requests : s # r => /\ pc'[s] = pc[s]
                                      /\ opId'[s] = opId[s]
                                      /\ call'[s] = call[s]
                                      /\ reply'[s] = reply[s]
      /\ pc'[r] = "waiting" /\ opId'[r] = ref
      /\ call'[r] = "wait" /\ reply'[r] = NoReply
  BY <1>2 DEF TypeOK
<1>5. \A s \in Requests : Owned(s)' = Owned(s) /\ IsStart(s)' = IsStart(s)
  BY <1>2 DEF Owned, IsStart
<1>6. CallsAgree'
  BY <1>1, <1>2, <1>4, <1>5
  DEF CallsAgree, Awaiting, Answered, WaitingStarts, OperationRoutes, WaitRoutes
<1>7. OwnersAgree'
  BY <1>1, <1>2, <1>4, <1>5 DEF OwnersAgree, IsStart
<1>8. RepliesAgree'
  BY <1>2, <1>4, <1>5 DEF RepliesAgree
<1>9. /\ ReferenceDenotesOwnOperation' /\ WaitVerdictIsTrue'
      /\ VerdictsNameOperations' /\ RejectionStartsNothing'
  BY <1>2, <1>4, <1>5
  DEF ReferenceDenotesOwnOperation, WaitVerdictIsTrue, VerdictsNameOperations,
      RejectionStartsNothing, Answered
<1>10. AtMostOneOperation'
  BY <1>2 DEF AtMostOneOperation
<1> QED
  BY <1>3, <1>6, <1>7, <1>8, <1>9, <1>10

(* A coroutine that resumes with a true outcome keeps the invariant. *)
LEMMA ResumeSafety ==
    ASSUME SafetyInvariant, NEW r \in Requests, NEW out \in Outcomes,
           Awaiting(r), OutcomeIsTrue(r, out), Resume(r, out)
    PROVE  SafetyInvariant'
<1> DEFINE ended == wait_for_operation(out)
<1>1. /\ ended \in Outcomes
      /\ lxd_err_to_http(out) \in 200..599
      /\ lxd_err_to_http(ended) \in 200..599
      /\ to_async_ref(out) \in Ids
  BY WaitReturnsOutcome, ErrorStatusIsHttp, ReferenceIsId
<1>2. /\ out.status \in OperationStatus \cup {NoStatus}
      /\ ended.status \in OperationStatus \cup {NoStatus}
      /\ opId[r] \in Ids
      /\ EmptyId \in Ids
      /\ "Success" \in OperationStatus
      /\ 202 \in 200..599 /\ 200 \in 200..599 /\ 500 \in 200..599
      /\ 202 \notin 400..499 /\ 200 \notin 400..499 /\ 500 \notin 400..499
  BY <1>1 DEF Outcomes, SafetyInvariant, TypeOK, Ids, OperationStatus, Terminal
<1>3. UNCHANGED lxdVars
  BY DEF Resume
<1>4. pc[r] = "waiting" \/ endpoint[r] \in WaitRoutes =>
        /\ ended.exc = "none" /\ ended.status # NoStatus =>
              /\ opId[r] \in OpIds
              /\ endpoint[r] # "waitBounded" => status[opId[r]] = "Success"
        /\ ended.exc = "LXDOperationError" =>
              /\ opId[r] \in OpIds
              /\ status[opId[r]] \in {"Failure", "Cancelled"}
  <2>1. CASE out.dict /\ out.status \in {"Failure", "Cancelled"}
    BY <2>1 DEF OutcomeIsTrue, wait_for_operation, Raised
  <2>2. CASE ~(out.dict /\ out.status \in {"Failure", "Cancelled"})
    <3>1. ended = out
      BY <2>2 DEF wait_for_operation
    <3> QED
      BY <2>2, <3>1 DEF OutcomeIsTrue, Terminal
  <2> QED
    BY <2>1, <2>2
<1> HIDE DEF ended
<1>5. CASE StartResumes(r, out)
  <2>1. pc[r] = "calling" /\ IsStart(r) /\ endpoint[r] \notin WaitRoutes
    BY <1>5 DEF StartResumes, IsStart, Starts, WaitingStarts, WaitRoutes
  <2>2. CASE StartFails(r, out)
    <3>1. AnswerIsTrue(r, lxd_err_to_http(out), "error", EmptyId, NoStatus, out)
      BY <2>1, <2>2 DEF AnswerIsTrue, OutcomeIsTrue, StartFails
    <3> QED
      BY <3>1, <2>2, <1>1, <1>3, AnswerErrorSafety DEF StartFails
  <2>3. CASE StartReturnsReference(r, out)
    <3>1. AnswerIsTrue(r, 202, "reference", to_async_ref(out), NoStatus, out)
      BY <2>1, <2>3, <1>2 DEF AnswerIsTrue, OutcomeIsTrue, StartReturnsReference
    <3> DEFINE http == 202
           body == "reference"
           id   == to_async_ref(out)
           st   == NoStatus
    <3>2. /\ Answer(r, http, body, id, st, out)
          /\ AnswerIsTrue(r, http, body, id, st, out)
          /\ http \in 200..599
          /\ body \in {"reference", "success", "operation", "message", "error"}
          /\ id \in Ids /\ st \in OperationStatus \cup {NoStatus}
      BY <3>1, <2>3, <1>1 DEF StartReturnsReference
    <3> HIDE DEF http, body, id, st
    <3> QED
      BY <3>2, <1>3, AnswerSafety
  <2>4. CASE StartGoesOnToWait(r, out)
    BY <2>4, <1>3, <1>5, GoOnToWaitSafety DEF StartResumes
  <2> QED
    BY <1>5, <2>2, <2>3, <2>4 DEF StartResumes
<1>6. CASE StartWaitResumes(r, out)
  <2>1. /\ pc[r] = "waiting" /\ endpoint[r] \in WaitingStarts
        /\ opId[r] \in OpIds => owner[opId[r]] = r
    BY <1>6 DEF StartWaitResumes, SafetyInvariant, CallsAgree, OwnersAgree
  <2>2. endpoint[r] # "wait" /\ endpoint[r] # "waitBounded"
    BY <2>1 DEF WaitingStarts
  <2>3. CASE StartWaitFails(r, ended)
    <3>1. AnswerIsTrue(r, 500, "error", EmptyId, NoStatus, ended)
      BY <2>1, <2>2, <2>3, <1>2, <1>4 DEF AnswerIsTrue, StartWaitFails
    <3> QED
      BY <3>1, <2>3, <1>1, <1>2, <1>3, AnswerErrorSafety DEF StartWaitFails
  <2>4. CASE StartWaitSucceeds(r, ended)
    <3>1. AnswerIsTrue(r, 202, "success", opId[r], "Success", ended)
      BY <2>1, <2>2, <2>4, <1>2, <1>4
      DEF AnswerIsTrue, StartWaitSucceeds, Owned
    <3> DEFINE http == 202
           body == "success"
           id   == opId[r]
           st   == "Success"
    <3>2. /\ Answer(r, http, body, id, st, ended)
          /\ AnswerIsTrue(r, http, body, id, st, ended)
          /\ http \in 200..599
          /\ body \in {"reference", "success", "operation", "message", "error"}
          /\ id \in Ids /\ st \in OperationStatus \cup {NoStatus}
          /\ ended \in Outcomes
      BY <3>1, <2>4, <1>1, <1>2 DEF StartWaitSucceeds
    <3> HIDE DEF http, body, id, st
    <3> QED
      BY <3>2, <1>3, AnswerSafety
  <2> QED
    BY <1>6, <2>3, <2>4 DEF StartWaitResumes, ended
<1>7. CASE GetResumes(r, out)
  <2>1. endpoint[r] # "wait" /\ ~IsStart(r)
    BY <1>7 DEF GetResumes, IsStart, Starts, WaitingStarts
  <2>2. /\ AnswerIsTrue(r, 200, "operation", opId[r], out.status, out)
        /\ AnswerIsTrue(r, lxd_err_to_http(out), "error", EmptyId, NoStatus, out)
    BY <2>1 DEF AnswerIsTrue, OutcomeIsTrue
  <2>3. CASE out.exc = "none"
    <3> DEFINE http == 200
           body == "operation"
           id   == opId[r]
           st   == out.status
    <3>1. /\ Answer(r, http, body, id, st, out)
          /\ AnswerIsTrue(r, http, body, id, st, out)
          /\ http \in 200..599
          /\ body \in {"reference", "success", "operation", "message", "error"}
          /\ id \in Ids /\ st \in OperationStatus \cup {NoStatus}
      BY <1>7, <2>2, <2>3, <1>1, <1>2 DEF GetResumes
    <3> HIDE DEF http, body, id, st
    <3> QED
      BY <3>1, <1>3, AnswerSafety
  <2>4. CASE out.exc # "none"
    BY <1>7, <2>2, <2>4, <1>1, <1>3, AnswerErrorSafety DEF GetResumes
  <2> QED
    BY <2>3, <2>4
<1>8. CASE CancelResumes(r, out)
  <2>1. endpoint[r] # "wait" /\ ~IsStart(r)
    BY <1>8 DEF CancelResumes, IsStart, Starts, WaitingStarts
  <2>2. /\ AnswerIsTrue(r, 202, "message", opId[r], NoStatus, out)
        /\ AnswerIsTrue(r, lxd_err_to_http(out), "error", EmptyId, NoStatus, out)
    BY <2>1 DEF AnswerIsTrue, OutcomeIsTrue
  <2>3. CASE out.exc = "none"
    <3> DEFINE http == 202
           body == "message"
           id   == opId[r]
           st   == NoStatus
    <3>1. /\ Answer(r, http, body, id, st, out)
          /\ AnswerIsTrue(r, http, body, id, st, out)
          /\ http \in 200..599
          /\ body \in {"reference", "success", "operation", "message", "error"}
          /\ id \in Ids /\ st \in OperationStatus \cup {NoStatus}
      BY <1>8, <2>2, <2>3, <1>1, <1>2 DEF CancelResumes
    <3> HIDE DEF http, body, id, st
    <3> QED
      BY <3>1, <1>3, AnswerSafety
  <2>4. CASE out.exc # "none"
    BY <1>8, <2>2, <2>4, <1>1, <1>3, AnswerErrorSafety DEF CancelResumes
  <2> QED
    BY <2>3, <2>4
<1>9. CASE WaitOperationResumes(r, out)
  <2>1. endpoint[r] \in WaitRoutes /\ ~IsStart(r)
    BY <1>9 DEF WaitOperationResumes, IsStart, Starts, WaitingStarts, WaitRoutes
  <2>2. ended.exc = "none" =>
          AnswerIsTrue(r, 200, "operation", opId[r], ended.status, ended)
    <3>1. opId[r] \in OpIds
      BY <2>1 DEF SafetyInvariant, CallsAgree, OperationRoutes
    <3> QED
      BY <2>1, <3>1, <1>4 DEF AnswerIsTrue
  <2>3. AnswerIsTrue(r, lxd_err_to_http(ended), "error", EmptyId, NoStatus, ended)
    BY <2>1, <1>4 DEF AnswerIsTrue
  <2>4. CASE ended.exc = "none"
    <3> DEFINE http == 200
           body == "operation"
           id   == opId[r]
           st   == ended.status
    <3>1. /\ Answer(r, http, body, id, st, ended)
          /\ AnswerIsTrue(r, http, body, id, st, ended)
          /\ http \in 200..599
          /\ body \in {"reference", "success", "operation", "message", "error"}
          /\ id \in Ids /\ st \in OperationStatus \cup {NoStatus}
          /\ ended \in Outcomes
      BY <1>9, <2>2, <2>4, <1>1, <1>2 DEF WaitOperationResumes, ended
    <3> HIDE DEF http, body, id, st
    <3> QED
      BY <3>1, <1>3, AnswerSafety
  <2>5. CASE ended.exc # "none"
    BY <1>9, <2>3, <2>5, <1>1, <1>3, AnswerErrorSafety
    DEF WaitOperationResumes, ended
  <2> QED
    BY <2>4, <2>5
<1> QED
  BY <1>5, <1>6, <1>7, <1>8, <1>9 DEF Resume

(* Nothing was done yet for a request that is still to be submitted. *)
LEMMA IdleIsFresh ==
    ASSUME SafetyInvariant, NEW r \in Requests, pc[r] = "idle"
    PROVE  /\ pc[r] = "idle" /\ endpoint[r] = "none" /\ call[r] = "none"
           /\ reply[r] = NoReply /\ answer[r] = NoAnswer
           /\ Owned(r) = {}
<1>1. /\ endpoint[r] = "none" /\ call[r] = "none"
      /\ reply[r] = NoReply /\ answer[r] = NoAnswer
  BY DEF SafetyInvariant, CallsAgree, Awaiting, Answered
<1>2. ~ IsStart(r) /\ r # NoRequest
  BY <1>1, RequestsAssumption
  DEF IsStart, Starts, WaitingStarts, RequestsAssumption
<1>3. Owned(r) = {}
  BY <1>2 DEF SafetyInvariant, OwnersAgree, Owned
<1> QED
  BY <1>1, <1>3

LEMMA SubmitStartSafety ==
    ASSUME SafetyInvariant, NEW r \in Requests, NEW e \in Starts, SubmitStart(r, e)
    PROVE  SafetyInvariant'
<1> USE DEF SafetyInvariant, lxdVars
<1>1. /\ pc[r] = "idle" /\ endpoint[r] = "none" /\ call[r] = "none"
      /\ reply[r] = NoReply /\ answer[r] = NoAnswer
      /\ Owned(r) = {}
  BY IdleIsFresh DEF SubmitStart
<1>2. /\ endpoint' = [endpoint EXCEPT ![r] = e]
      /\ pc' = [pc EXCEPT ![r] = "calling"]
      /\ call' = [call EXCEPT ![r] = "start"]
      /\ UNCHANGED <<opId, reply, answer, status, owner, listed>>
  BY DEF SubmitStart
<1>3. TypeOK'
  BY <1>2 DEF TypeOK, Endpoints, PendingCalls
<1>4. /\ \A s \in Requests : s # r => /\ endpoint'[s] = endpoint[s]
                                      /\ pc'[s] = pc[s]
                                      /\ call'[s] = call[s]
                                      /\ IsStart(s)' = IsStart(s)
      /\ endpoint'[r] = e /\ pc'[r] = "calling" /\ call'[r] = "start"
      /\ IsStart(r)'
  BY <1>2 DEF TypeOK, IsStart
<1>5. \A s \in Requests : Owned(s)' = Owned(s)
  BY <1>2 DEF Owned
<1>6. e \in Endpoints /\ e \notin OperationRoutes /\ e \notin WaitRoutes
  BY DEF Starts, Endpoints, WaitingStarts, OperationRoutes, WaitRoutes
<1>7. CallsAgree'
  BY <1>1, <1>2, <1>4, <1>5, <1>6 DEF CallsAgree, Awaiting, Answered
<1>8. OwnersAgree'
  BY <1>1, <1>2, <1>4 DEF OwnersAgree, TypeOK
<1>9. RepliesAgree'
  BY <1>1, <1>2, <1>4, <1>5 DEF RepliesAgree
<1>10. /\ ReferenceDenotesOwnOperation' /\ WaitVerdictIsTrue'
       /\ VerdictsNameOperations' /\ RejectionStartsNothing'
  BY <1>1, <1>2, <1>4, <1>5
  DEF ReferenceDenotesOwnOperation, WaitVerdictIsTrue, VerdictsNameOperations,
      RejectionStartsNothing, Answered
<1>11. AtMostOneOperation'
  BY <1>2 DEF AtMostOneOperation
<1> QED
  BY <1>3, <1>7, <1>8, <1>9, <1>10, <1>11

LEMMA SubmitOperationSafety ==
    ASSUME SafetyInvariant, NEW r \in Requests, NEW e \in OperationRoutes,
           NEW o \in OpIds, SubmitOperation(r, e, o)
    PROVE  SafetyInvariant'
<1> DEFINE c == IF e \in WaitRoutes THEN "wait" ELSE e
<1> USE DEF SafetyInvariant, lxdVars
<1>1. /\ pc[r] = "idle" /\ endpoint[r] = "none" /\ call[r] = "none"
      /\ reply[r] = NoReply /\ answer[r] = NoAnswer
      /\ Owned(r) = {}
  BY IdleIsFresh DEF SubmitOperation
<1>2. c \in {"get", "cancel", "wait"} /\ (c \in {"get", "cancel"} => e = c)
  BY DEF OperationRoutes, WaitRoutes
<1>3. /\ endpoint' = [endpoint EXCEPT ![r] = e]
      /\ pc' = [pc EXCEPT ![r] = "calling"]
      /\ opId' = [opId EXCEPT ![r] = o]
      /\ call' = [call EXCEPT ![r] = c]
      /\ UNCHANGED <<reply, answer, status, owner, listed>>
  BY DEF SubmitOperation
<1> HIDE DEF c
<1>4. TypeOK'
  BY <1>2, <1>3 DEF TypeOK, Endpoints, PendingCalls, Ids
<1>5. /\ \A s \in Requests : s # r => /\ endpoint'[s] = endpoint[s]
                                      /\ pc'[s] = pc[s]
                                      /\ opId'[s] = opId[s]
                                      /\ call'[s] = call[s]
                                      /\ IsStart(s)' = IsStart(s)
      /\ endpoint'[r] = e /\ pc'[r] = "calling" /\ opId'[r] = o /\ call'[r] = c
  BY <1>3 DEF TypeOK, IsStart
<1>6. \A s \in Requests : Owned(s)' = Owned(s)
  BY <1>3 DEF Owned
<1>7. e \in Endpoints /\ e \notin Starts /\ ~ IsStart(r)'
  BY <1>5 DEF Starts, Endpoints, WaitingStarts, OperationRoutes, WaitRoutes, IsStart
<1>8. CallsAgree'
  BY <1>1, <1>2, <1>3, <1>5, <1>6, <1>7 DEF CallsAgree, Awaiting, Answered
<1>9. OwnersAgree'
  BY <1>1, <1>3, <1>5 DEF OwnersAgree, TypeOK, Owned
<1>10. RepliesAgree'
  BY <1>1, <1>3, <1>5, <1>6 DEF RepliesAgree
<1>11. /\ ReferenceDenotesOwnOperation' /\ WaitVerdictIsTrue'
       /\ VerdictsNameOperations' /\ RejectionStartsNothing'
  BY <1>1, <1>3, <1>5, <1>6
  DEF ReferenceDenotesOwnOperation, WaitVerdictIsTrue, VerdictsNameOperations,
      RejectionStartsNothing, Answered
<1>12. AtMostOneOperation'
  BY <1>3 DEF AtMostOneOperation
<1> QED
  BY <1>4, <1>8, <1>9, <1>10, <1>11, <1>12

-----------------------------------------------------------------------------
(* The safety invariant is inductive: LXD's steps. *)

(* What must be true of a reply when it is sent. *)
ReplyIsTrue(r, rp) ==
    /\ IsStart(r) /\ pc[r] = "calling" =>
          /\ rp.kind = "operation" => rp.id \in Owned(r)
          /\ rp.kind # "operation" => rp.id = EmptyId
          /\ rp.kind \in {"error", "malformed"} =>
                Owned(r) = {} \/ rp.code \notin 400..499
    /\ pc[r] = "waiting" \/ endpoint[r] \in WaitRoutes =>
          /\ rp.kind \notin {"operation", "bare"}
          /\ rp.kind = "object" =>
                /\ opId[r] \in OpIds
                /\ rp.status = status[opId[r]] \/ rp.status = "Running"
                /\ endpoint[r] # "waitBounded" => rp.status \in Terminal

(* A true reply to a call that started nothing keeps the invariant. *)
LEMMA RespondSafety ==
    ASSUME SafetyInvariant, NEW r \in Requests, call[r] # "none",
           NEW rp \in Replies, ReplyIsTrue(r, rp), Respond(r, rp),
           UNCHANGED <<gatewayVars, lxdVars>>
    PROVE  SafetyInvariant'
<1> USE DEF SafetyInvariant, lxdVars, gatewayVars
<1>1. /\ call' = [call EXCEPT ![r] = "none"]
      /\ Awaiting(r) => reply' = [reply EXCEPT ![r] = rp]
      /\ ~ Awaiting(r) => reply' = reply
      /\ UNCHANGED <<endpoint, pc, opId, answer, status, owner, listed>>
  BY DEF Respond
<1>2. TypeOK'
  BY <1>1 DEF TypeOK
<1>3. /\ \A s \in Requests : s # r => call'[s] = call[s] /\ reply'[s] = reply[s]
      /\ call'[r] = "none"
      /\ Awaiting(r) => reply'[r] = rp
      /\ ~ Awaiting(r) => reply'[r] = reply[r]
  BY <1>1 DEF TypeOK
<1>4. \A s \in Requests : Owned(s)' = Owned(s) /\ IsStart(s)' = IsStart(s)
  BY <1>1 DEF Owned, IsStart
<1>5. CallsAgree'
  BY <1>1, <1>3, <1>4 DEF CallsAgree, Awaiting, Answered
<1>6. OwnersAgree'
  BY <1>1, <1>4 DEF OwnersAgree, IsStart
<1>7. RepliesAgree'
  BY <1>1, <1>3, <1>4 DEF RepliesAgree, ReplyIsTrue
<1>8. /\ ReferenceDenotesOwnOperation' /\ WaitVerdictIsTrue'
      /\ VerdictsNameOperations' /\ RejectionStartsNothing'
  BY <1>1, <1>3, <1>4
  DEF ReferenceDenotesOwnOperation, WaitVerdictIsTrue, VerdictsNameOperations,
      RejectionStartsNothing, Answered
<1>9. AtMostOneOperation'
  BY <1>1 DEF AtMostOneOperation
<1> QED
  BY <1>2, <1>5, <1>6, <1>7, <1>8, <1>9

(* The start of an operation, which gets a fresh id. *)
LEMMA LxdStartsSafety ==
    ASSUME SafetyInvariant, NEW r \in Requests, NEW o \in OpIds, LxdStarts(r, o)
    PROVE  SafetyInvariant'
<1> USE DEF SafetyInvariant, lxdVars, gatewayVars
<1>1. PICK rp \in Replies :
        /\ Respond(r, rp)
        /\ \/ rp.kind = "operation" /\ rp.id = o
           \/ rp.kind \in {"bare", "empty"} /\ rp.id = EmptyId
           \/ rp.kind = "malformed" /\ rp.id = EmptyId /\ rp.code \notin 400..499
  <2>1. CASE Respond(r, Reply("operation", 0, o, "Running"))
    <3>1. Reply("operation", 0, o, "Running") \in Replies
      BY RepliesAreReplies DEF OperationStatus
    <3> QED
      BY <2>1, <3>1 DEF Reply
  <2>2. CASE Respond(r, Plain("bare")) \/ Respond(r, Plain("empty"))
    <3>1. /\ Plain("bare").kind = "bare" /\ Plain("bare").id = EmptyId
          /\ Plain("empty").kind = "empty" /\ Plain("empty").id = EmptyId
      BY DEF Reply, Plain
    <3>2. Plain("bare") \in Replies /\ Plain("empty") \in Replies
      BY RepliesAreReplies
    <3> QED
      BY <2>2, <3>1, <3>2
  <2>3. ASSUME NEW code \in PageCodes \ (400..499), Respond(r, PageReply(code))
        PROVE  \E rp \in Replies :
                  /\ Respond(r, rp)
                  /\ \/ rp.kind = "operation" /\ rp.id = o
                     \/ rp.kind \in {"bare", "empty"} /\ rp.id = EmptyId
                     \/ /\ rp.kind = "malformed" /\ rp.id = EmptyId
                        /\ rp.code \notin 400..499
    BY <2>3, RepliesAreReplies DEF Reply, PageReply
  <2> QED
    BY <2>1, <2>2, <2>3 DEF LxdStarts
<1>2. /\ call' = [call EXCEPT ![r] = "none"]
      /\ Awaiting(r) => reply' = [reply EXCEPT ![r] = rp]
      /\ ~ Awaiting(r) => reply' = reply
      /\ status' = [status EXCEPT ![o] = "Running"]
      /\ owner' = [owner EXCEPT ![o] = r]
      /\ listed' = listed \cup {o}
      /\ UNCHANGED <<endpoint, pc, opId, answer>>
      /\ call[r] = "start" /\ status[o] = "Unused"
  BY <1>1 DEF LxdStarts, Respond
<1>3. TypeOK'
  BY <1>2 DEF TypeOK, OperationStatus
<1>4. /\ \A s \in Requests : s # r => call'[s] = call[s] /\ reply'[s] = reply[s]
      /\ call'[r] = "none"
      /\ Awaiting(r) => reply'[r] = rp
      /\ ~ Awaiting(r) => reply'[r] = reply[r]
      /\ \A p \in OpIds : p # o => status'[p] = status[p] /\ owner'[p] = owner[p]
      /\ status'[o] = "Running" /\ owner'[o] = r
      /\ owner[o] = NoRequest
  BY <1>2 DEF TypeOK, OwnersAgree
<1>5. /\ IsStart(r) /\ Owned(r) = {} /\ pc[r] # "waiting"
      /\ endpoint[r] \notin WaitRoutes
      /\ r # NoRequest
  BY <1>2, RequestsAssumption
  DEF CallsAgree, IsStart, Starts, WaitingStarts, WaitRoutes, RequestsAssumption
<1>6. /\ \A s \in Requests : s # r => Owned(s)' = Owned(s)
      /\ Owned(r)' = {o}
      /\ \A s \in Requests : IsStart(s)' = IsStart(s)
  <2>1. ASSUME NEW s \in Requests, s # r
        PROVE  Owned(s)' = Owned(s)
    <3>1. s # NoRequest
      BY RequestsAssumption DEF RequestsAssumption
    <3>2. \A p \in OpIds : owner'[p] = s <=> owner[p] = s
      BY <2>1, <3>1, <1>4
    <3> QED
      BY <3>2 DEF Owned
  <2>2. Owned(r)' = {o}
    <3>1. \A p \in OpIds : owner'[p] = r <=> p = o
      BY <1>4, <1>5 DEF Owned
    <3> QED
      BY <3>1 DEF Owned
  <2> QED
    BY <2>1, <2>2, <1>2 DEF IsStart
<1>7. CallsAgree'
  BY <1>2, <1>4, <1>5, <1>6 DEF CallsAgree, Awaiting, Answered
<1>8. OwnersAgree'
  <2>1. \A p \in OpIds : status'[p] = "Unused" <=> owner'[p] = NoRequest
    BY <1>4, <1>5 DEF OwnersAgree
  <2>2. \A p \in OpIds : owner'[p] # NoRequest => endpoint'[owner'[p]] \in Starts
    BY <1>2, <1>4, <1>5 DEF OwnersAgree, IsStart
  <2>3. \A p \in listed' : status'[p] # "Unused"
    BY <1>2, <1>4 DEF OwnersAgree, TypeOK
  <2>4. ASSUME NEW s \in Requests, pc'[s] = "waiting", opId'[s] \in OpIds
        PROVE  owner'[opId'[s]] = s
    <3>1. s # r /\ s # NoRequest /\ owner[opId[s]] = s
      BY <2>4, <1>2, <1>5, RequestsAssumption DEF OwnersAgree, RequestsAssumption
    <3> QED
      BY <2>4, <3>1, <1>2, <1>4
  <2> QED
    BY <2>1, <2>2, <2>3, <2>4 DEF OwnersAgree, IsStart
<1>9. RepliesAgree'
  <2>1. ASSUME NEW s \in Requests, s # r, reply'[s] # NoReply, opId[s] \in OpIds
        PROVE  reply[s].status = status[opId[s]] \/ reply[s].status = "Running" =>
                  reply[s].status = status'[opId[s]] \/ reply[s].status = "Running"
    <3>1. reply[s] \in Replies
      BY <2>1, <1>4 DEF TypeOK
    <3>2. reply[s].status # "Unused"
      BY <3>1 DEF Replies, OperationStatus, Terminal, NoStatus
    <3> QED
      BY <2>1, <3>2, <1>2, <1>4
  <2>2. ASSUME NEW s \in Requests, s # r, reply'[s] # NoReply
        PROVE  /\ reply[s] # NoReply /\ reply'[s] = reply[s]
               /\ pc'[s] = pc[s] /\ endpoint'[s] = endpoint[s]
               /\ opId'[s] = opId[s]
               /\ Owned(s)' = Owned(s) /\ IsStart(s)' = IsStart(s)
    BY <2>2, <1>2, <1>4, <1>6
  <2>3. \A s \in Requests : s # r /\ reply'[s] # NoReply =>
        /\ IsStart(s)' /\ pc'[s] = "calling" =>
              /\ reply'[s].kind = "operation" => reply'[s].id \in Owned(s)'
              /\ reply'[s].kind # "operation" => reply'[s].id = EmptyId
              /\ reply'[s].kind \in {"error", "malformed"} =>
                    Owned(s)' = {} \/ reply'[s].code \notin 400..499
        /\ pc'[s] = "waiting" \/ endpoint'[s] \in WaitRoutes =>
              /\ reply'[s].kind \notin {"operation", "bare"}
              /\ reply'[s].kind = "object" =>
                    /\ opId'[s] \in OpIds
                    /\ \/ reply'[s].status = status'[opId'[s]]
                       \/ reply'[s].status = "Running"
                    /\ endpoint'[s] # "waitBounded" => reply'[s].status \in Terminal
    BY <2>1, <2>2 DEF RepliesAgree
  <2>4. reply'[r] # NoReply => reply'[r] = rp
    BY <1>2, <1>4 DEF CallsAgree
  <2> QED
    BY <2>3, <2>4, <1>1, <1>2, <1>5, <1>6 DEF RepliesAgree
<1>10. /\ ReferenceDenotesOwnOperation' /\ VerdictsNameOperations'
       /\ RejectionStartsNothing'
  <2>1. ReferenceDenotesOwnOperation'
    <3>1. \A p \in OpIds : owner[p] \in Requests => owner'[p] = owner[p]
      BY <1>4, RequestsAssumption DEF RequestsAssumption
    <3> QED
      BY <3>1, <1>2 DEF ReferenceDenotesOwnOperation, Answered
  <2>2. VerdictsNameOperations'
    BY <1>2 DEF VerdictsNameOperations, Answered
  <2>3. RejectionStartsNothing'
    BY <1>2, <1>4, <1>6 DEF RejectionStartsNothing, Answered
  <2> QED
    BY <2>1, <2>2, <2>3
<1>11. WaitVerdictIsTrue'
  <2>1. \A p \in OpIds : status[p] # "Unused" => status'[p] = status[p]
    BY <1>2, <1>4
  <2>2. \A s \in Requests : Owned(s) \subseteq Owned(s)' /\ Owned(s) \subseteq OpIds
    BY <1>5, <1>6 DEF Owned
  <2> QED
    BY <2>1, <2>2, <1>2
    DEF WaitVerdictIsTrue, VerdictsNameOperations, Answered
<1>12. AtMostOneOperation'
  BY <1>2, <1>4, <1>5 DEF AtMostOneOperation, Owned
<1> QED
  BY <1>3, <1>7, <1>8, <1>9, <1>10, <1>11, <1>12

LEMMA LxdRespondsSafety ==
    ASSUME SafetyInvariant, NEW r \in Requests,
           \/ LxdRepliesSync(r) \/ LxdRejects(r) \/ LxdKnowsNoOperation(r)
           \/ LxdShows(r) \/ LxdRefusesToCancel(r) \/ LxdReleases(r)
           \/ LxdStopsWaiting(r) \/ LxdAnswersBadly(r)
    PROVE  SafetyInvariant'
<1> USE DEF SafetyInvariant
<1>1. SUFFICES \E rp \in Replies : /\ call[r] # "none" /\ ReplyIsTrue(r, rp)
                                   /\ Respond(r, rp)
                                   /\ UNCHANGED <<gatewayVars, lxdVars>>
  BY RespondSafety
<1>2. /\ call[r] = "start" => IsStart(r) /\ pc[r] # "waiting"
                              /\ endpoint[r] \notin WaitRoutes /\ Owned(r) = {}
      /\ call[r] # "start" /\ call[r] # "none" =>
            ~ (IsStart(r) /\ pc[r] = "calling")
  BY DEF CallsAgree, IsStart, Starts, WaitingStarts, WaitRoutes
<1>3. CASE LxdRepliesSync(r)
  <2>1. PICK kind \in {"object", "null", "empty"} : Respond(r, Plain(kind))
    BY <1>3 DEF LxdRepliesSync
  <2>2. Plain(kind) \in Replies /\ Plain(kind).id = EmptyId
        /\ Plain(kind).kind = kind
    BY RepliesAreReplies DEF Plain, Reply
  <2> QED
    BY <1>2, <1>3, <2>1, <2>2 DEF LxdRepliesSync, ReplyIsTrue
<1>4. CASE LxdRejects(r)
  <2>1. PICK rp \in Replies : Respond(r, rp) /\ rp.id = EmptyId
                              /\ rp.kind \in {"error", "malformed", "empty"}
    <3>1. \A code \in ErrorCodes : ErrorReply(code).kind = "error"
                                   /\ ErrorReply(code).id = EmptyId
      BY DEF ErrorReply, Reply
    <3>2. \A code \in PageCodes : PageReply(code).kind = "malformed"
                                  /\ PageReply(code).id = EmptyId
      BY DEF PageReply, Reply
    <3>3. Plain("empty").kind = "empty" /\ Plain("empty").id = EmptyId
      BY DEF Plain, Reply
    <3> QED
      BY <1>4, <3>1, <3>2, <3>3, RepliesAreReplies DEF LxdRejects
  <2> QED
    BY <1>2, <1>4, <2>1 DEF LxdRejects, ReplyIsTrue
<1>5. CASE LxdKnowsNoOperation(r) \/ LxdRefusesToCancel(r)
  <2>1. PICK rp \in Replies : Respond(r, rp) /\ rp.kind = "error"
    <3>1. /\ ErrorReply(404) \in Replies /\ ErrorReply(400) \in Replies
          /\ ErrorReply(404).kind = "error" /\ ErrorReply(400).kind = "error"
      BY RepliesAreReplies, LxdReplyAssumption
      DEF ErrorReply, Reply, LxdReplyAssumption
    <3> QED
      BY <1>5, <3>1 DEF LxdKnowsNoOperation, LxdRefusesToCancel
  <2> QED
    BY <1>2, <1>5, <2>1
    DEF LxdKnowsNoOperation, LxdRefusesToCancel, ReplyIsTrue
<1>6. CASE LxdShows(r) \/ LxdReleases(r) \/ LxdStopsWaiting(r)
  <2> DEFINE rp == Reply("object", 0, opId[r], status[opId[r]])
  <2>1. opId[r] \in OpIds /\ status[opId[r]] \in OperationStatus
    BY <1>6 DEF LxdShows, LxdReleases, LxdStopsWaiting, CallsAgree, OwnersAgree,
                TypeOK
  <2>2. /\ rp \in Replies /\ rp.kind = "object" /\ rp.status = status[opId[r]]
        /\ Respond(r, rp)
        /\ call[r] \in {"get", "waiting"}
        /\ UNCHANGED <<gatewayVars, lxdVars>>
    BY <1>6, <2>1, RepliesAreReplies
    DEF Reply, LxdShows, LxdReleases, LxdStopsWaiting
  <2>3. \/ call[r] = "get"
        \/ call[r] = "waiting" /\ status[opId[r]] \in Terminal
        \/ endpoint[r] = "waitBounded"
    BY <1>6 DEF LxdShows, LxdReleases, LxdStopsWaiting
  <2>4. call[r] = "get" => pc[r] # "waiting" /\ endpoint[r] \notin WaitRoutes
    BY DEF CallsAgree, WaitRoutes, WaitingStarts
  <2>5. endpoint[r] = "waitBounded" => pc[r] # "waiting"
    BY DEF CallsAgree, WaitingStarts
  <2> HIDE DEF rp
  <2> QED
    BY <1>2, <2>1, <2>2, <2>3, <2>4, <2>5 DEF ReplyIsTrue
<1>7. CASE LxdAnswersBadly(r)
  <2>1. PICK rp \in Replies : Respond(r, rp)
                              /\ rp.kind \in {"error", "malformed", "null", "empty"}
    <3>1. \A code \in ErrorCodes : ErrorReply(code).kind = "error"
      BY DEF ErrorReply, Reply
    <3>2. \A code \in PageCodes : PageReply(code).kind = "malformed"
      BY DEF PageReply, Reply
    <3>3. Plain("null").kind = "null" /\ Plain("empty").kind = "empty"
      BY DEF Plain, Reply
    <3> QED
      BY <1>7, <3>1, <3>2, <3>3, RepliesAreReplies DEF LxdAnswersBadly
  <2>2. call[r] # "start" /\ call[r] # "none" /\ UNCHANGED <<gatewayVars, lxdVars>>
    BY <1>7 DEF LxdAnswersBadly
  <2> QED
    BY <1>2, <2>1, <2>2 DEF ReplyIsTrue
<1> QED
  BY <1>3, <1>4, <1>5, <1>6, <1>7

(* An operation ends, by itself or cancelled: what was final stays final. *)
LEMMA StatusEndsSafety ==
    ASSUME SafetyInvariant, NEW o \in OpIds, NEW st \in Terminal,
           status[o] = "Running", status' = [status EXCEPT ![o] = st],
           UNCHANGED <<gatewayVars, call, reply, owner, listed>>
    PROVE  SafetyInvariant'
<1> USE DEF SafetyInvariant, gatewayVars
<1>1. TypeOK'
  BY DEF TypeOK, OperationStatus
<1>2. /\ \A p \in OpIds : p # o => status'[p] = status[p]
      /\ status'[o] = st /\ st # "Unused" /\ st # "Running"
  BY DEF TypeOK, Terminal
<1>3. \A s \in Requests : Owned(s)' = Owned(s) /\ IsStart(s)' = IsStart(s)
  BY DEF Owned, IsStart
<1>4. CallsAgree'
  BY <1>2, <1>3 DEF CallsAgree, Awaiting, Answered
<1>5. OwnersAgree'
  BY <1>2, <1>3 DEF OwnersAgree, IsStart, TypeOK
<1>6. RepliesAgree'
  BY <1>2, <1>3 DEF RepliesAgree
<1>7. /\ ReferenceDenotesOwnOperation' /\ VerdictsNameOperations'
      /\ RejectionStartsNothing' /\ AtMostOneOperation'
  BY <1>3 DEF ReferenceDenotesOwnOperation, VerdictsNameOperations,
              RejectionStartsNothing, AtMostOneOperation, Answered
<1>8. WaitVerdictIsTrue'
  <2>1. \A s \in Requests : Owned(s) \subseteq OpIds
    BY DEF Owned
  <2>2. \A p \in OpIds : status[p] # "Running" => status'[p] = status[p]
    BY <1>2
  <2> QED
    BY <2>1, <2>2, <1>3 DEF WaitVerdictIsTrue, VerdictsNameOperations, Answered
<1> QED
  BY <1>1, <1>4, <1>5, <1>6, <1>7, <1>8

(* A cancellation ends an operation and is confirmed in one step. *)
LEMMA LxdCancelsSafety ==
    ASSUME SafetyInvariant, NEW r \in Requests, LxdCancels(r)
    PROVE  SafetyInvariant'
<1> DEFINE o  == opId[r]
<1> USE DEF SafetyInvariant, lxdVars, gatewayVars
<1>0. PICK kind \in {"object", "null", "empty"} : Respond(r, Plain(kind))
  BY DEF LxdCancels
<1> DEFINE rp == Plain(kind)
<1>1. rp \in Replies /\ o \in OpIds
  BY RepliesAreReplies DEF LxdCancels, TypeOK
<1>2. /\ call[r] = "cancel" /\ endpoint[r] = "cancel"
      /\ ~ IsStart(r) /\ endpoint[r] \notin WaitRoutes
      /\ pc[r] # "waiting"
  BY DEF LxdCancels, CallsAgree, IsStart, Starts, WaitingStarts, WaitRoutes
<1> HIDE DEF rp
<1>3. /\ call' = [call EXCEPT ![r] = "none"]
      /\ Awaiting(r) => reply' = [reply EXCEPT ![r] = rp]
      /\ ~ Awaiting(r) => reply' = reply
      /\ status[o] = "Running" /\ status' = [status EXCEPT ![o] = "Cancelled"]
      /\ UNCHANGED <<endpoint, pc, opId, answer, owner, listed>>
  BY <1>0 DEF LxdCancels, Respond, rp
<1>4. TypeOK'
  BY <1>1, <1>3 DEF TypeOK, OperationStatus, Terminal
<1>5. /\ \A s \in Requests : s # r => call'[s] = call[s] /\ reply'[s] = reply[s]
      /\ call'[r] = "none"
      /\ Awaiting(r) => reply'[r] = rp
      /\ ~ Awaiting(r) => reply'[r] = reply[r]
      /\ \A p \in OpIds : p # o => status'[p] = status[p]
      /\ status'[o] = "Cancelled"
  BY <1>1, <1>3 DEF TypeOK
<1>6. \A s \in Requests : Owned(s)' = Owned(s) /\ IsStart(s)' = IsStart(s)
  BY <1>3 DEF Owned, IsStart
<1> HIDE DEF o
<1>7. CallsAgree'
  BY <1>3, <1>5, <1>6 DEF CallsAgree, Awaiting, Answered
<1>8. OwnersAgree'
  BY <1>1, <1>3, <1>5, <1>6 DEF OwnersAgree, IsStart, TypeOK
<1>9. RepliesAgree'
  BY <1>2, <1>3, <1>5, <1>6 DEF RepliesAgree, Terminal
<1>10. /\ ReferenceDenotesOwnOperation' /\ VerdictsNameOperations'
       /\ RejectionStartsNothing' /\ AtMostOneOperation'
  BY <1>3, <1>5, <1>6
  DEF ReferenceDenotesOwnOperation, VerdictsNameOperations,
      RejectionStartsNothing, AtMostOneOperation, Answered
<1>11. WaitVerdictIsTrue'
  <2>1. \A s \in Requests : Owned(s) \subseteq OpIds
    BY DEF Owned
  <2>2. \A p \in OpIds : status[p] # "Running" => status'[p] = status[p]
    BY <1>3, <1>5
  <2> QED
    BY <2>1, <2>2, <1>3, <1>6
    DEF WaitVerdictIsTrue, VerdictsNameOperations, Answered
<1> QED
  BY <1>4, <1>7, <1>8, <1>9, <1>10, <1>11

(* Two steps that only change what LXD does next, or what it lists. *)
LEMMA LxdBlocksSafety ==
    ASSUME SafetyInvariant, NEW r \in Requests, LxdBlocks(r)
    PROVE  SafetyInvariant'
<1> USE DEF SafetyInvariant, lxdVars, gatewayVars, LxdBlocks
<1>1. /\ call[r] = "wait" /\ opId[r] \in listed
      /\ call' = [call EXCEPT ![r] = "waiting"]
      /\ UNCHANGED <<endpoint, pc, opId, answer, reply, status, owner, listed>>
  OBVIOUS
<1>2. TypeOK'
  BY <1>1 DEF TypeOK, PendingCalls
<1>3. /\ \A s \in Requests : s # r => call'[s] = call[s]
      /\ call'[r] = "waiting"
      /\ opId[r] \in OpIds /\ status[opId[r]] # "Unused"
  BY <1>1 DEF TypeOK, OwnersAgree
<1>4. \A s \in Requests : Owned(s)' = Owned(s) /\ IsStart(s)' = IsStart(s)
  BY <1>1 DEF Owned, IsStart
<1>5. CallsAgree'
  BY <1>1, <1>3, <1>4 DEF CallsAgree, Awaiting, Answered
<1>6. OwnersAgree' /\ RepliesAgree'
  BY <1>1, <1>4 DEF OwnersAgree, RepliesAgree, IsStart
<1>7. /\ ReferenceDenotesOwnOperation' /\ VerdictsNameOperations'
      /\ WaitVerdictIsTrue' /\ RejectionStartsNothing' /\ AtMostOneOperation'
  BY <1>1, <1>3, <1>4
  DEF ReferenceDenotesOwnOperation, VerdictsNameOperations, WaitVerdictIsTrue,
      RejectionStartsNothing, AtMostOneOperation, Answered
<1> QED
  BY <1>2, <1>5, <1>6, <1>7

LEMMA LxdForgetsSafety ==
    ASSUME SafetyInvariant, NEW o \in OpIds, LxdForgets(o)
    PROVE  SafetyInvariant'
<1> USE DEF SafetyInvariant, gatewayVars, LxdForgets
<1>1. listed' \subseteq listed
  OBVIOUS
<1>2. \A s \in Requests : Owned(s)' = Owned(s) /\ IsStart(s)' = IsStart(s)
  BY DEF Owned, IsStart
<1>3. TypeOK' /\ OwnersAgree'
  BY <1>1, <1>2 DEF TypeOK, OwnersAgree, IsStart
<1>4. CallsAgree' /\ RepliesAgree'
  BY <1>2 DEF CallsAgree, RepliesAgree, Awaiting, Answered
<1>5. /\ ReferenceDenotesOwnOperation' /\ VerdictsNameOperations'
      /\ WaitVerdictIsTrue' /\ RejectionStartsNothing' /\ AtMostOneOperation'
  BY <1>2
  DEF ReferenceDenotesOwnOperation, VerdictsNameOperations, WaitVerdictIsTrue,
      RejectionStartsNothing, AtMostOneOperation, Answered
<1> QED
  BY <1>3, <1>4, <1>5

LEMMA StutterSafety ==
    ASSUME SafetyInvariant, UNCHANGED vars
    PROVE  SafetyInvariant'
<1> USE DEF vars, Owned, IsStart, Awaiting, Answered
<1> QED
  BY DEF SafetyInvariant, TypeOK, CallsAgree, OwnersAgree, RepliesAgree,
         VerdictsNameOperations, ReferenceDenotesOwnOperation,
         WaitVerdictIsTrue, RejectionStartsNothing, AtMostOneOperation

-----------------------------------------------------------------------------
(* The theorems. *)

(* A resumption with a reply, or without one, keeps the invariant. *)
LEMMA DeliverSafety ==
    ASSUME SafetyInvariant, NEW r \in Requests, Deliver(r)
    PROVE  SafetyInvariant'
<1>1. /\ reply[r] # NoReply
      /\ reply[r] \in Replies
      /\ Awaiting(r)
      /\ Resume(r, request(reply[r]))
  BY DEF SafetyInvariant, TypeOK, CallsAgree, Deliver
<1>2. /\ request(reply[r]) \in Outcomes
      /\ OutcomeIsTrue(r, request(reply[r]))
  BY <1>1, RequestReturnsOutcome, DeliveredReplyIsTrue
<1> QED
  BY <1>1, <1>2, ResumeSafety

LEMMA LostReplySafety ==
    ASSUME SafetyInvariant, NEW r \in Requests,
           Timeout(r) \/ ConnectionFails(r)
    PROVE  SafetyInvariant'
<1>1. PICK kind \in {"transport", "timeout"} : Resume(r, request(Plain(kind)))
  BY DEF Timeout, ConnectionFails
<1>2. /\ request(Plain(kind)) \in Outcomes
      /\ OutcomeIsTrue(r, request(Plain(kind)))
  BY LostReplyIsOutcome, LostReplyIsTrue
<1>3. Awaiting(r)
  BY DEF Timeout, ConnectionFails
<1> QED
  BY <1>1, <1>2, <1>3, ResumeSafety

(* Every step of the gateway and of LXD keeps the safety invariant. *)
LEMMA NextSafety == SafetyInvariant /\ [Next]_vars => SafetyInvariant'
<1> SUFFICES ASSUME SafetyInvariant, [Next]_vars
             PROVE  SafetyInvariant'
  OBVIOUS
<1>1. ASSUME NEW r \in Requests, Gateway(r)
      PROVE  SafetyInvariant'
  <2>1. ASSUME NEW e \in Starts, SubmitStart(r, e)
        PROVE  SafetyInvariant'
    BY <2>1, SubmitStartSafety
  <2>2. ASSUME NEW e \in OperationRoutes, NEW o \in OpIds, SubmitOperation(r, e, o)
        PROVE  SafetyInvariant'
    BY <2>2, SubmitOperationSafety
  <2>3. CASE Deliver(r)
    BY <2>3, DeliverSafety
  <2>4. CASE Timeout(r) \/ ConnectionFails(r)
    BY <2>4, LostReplySafety
  <2> QED
    BY <1>1, <2>1, <2>2, <2>3, <2>4 DEF Gateway
<1>2. ASSUME NEW r \in Requests, Lxd(r)
      PROVE  SafetyInvariant'
  BY <1>2, LxdStartsSafety, LxdRespondsSafety, LxdCancelsSafety, LxdBlocksSafety
  DEF Lxd
<1>3. ASSUME NEW o \in OpIds, LxdEnds(o)
      PROVE  SafetyInvariant'
  BY <1>3, StatusEndsSafety DEF LxdEnds
<1>4. ASSUME NEW o \in OpIds, LxdForgets(o)
      PROVE  SafetyInvariant'
  BY <1>4, LxdForgetsSafety
<1>5. CASE AllDone \/ UNCHANGED vars
  BY <1>5, StutterSafety DEF AllDone
<1> QED
  BY <1>1, <1>2, <1>3, <1>4, <1>5 DEF Next

(* The invariant holds in every reachable state: the calls pending at LXD, *)
(* the owners of operations, the replies on their way and the answers      *)
(* given always agree, for any number of requests and operations.          *)
THEOREM Safety == Spec => []SafetyInvariant
<1> QED
  BY InitSafety, NextSafety, PTL DEF Spec

(* Every variable keeps its type. *)
THEOREM TypeCorrect == Spec => []TypeOK
<1>1. SafetyInvariant => TypeOK
  BY DEF SafetyInvariant
<1> QED
  BY <1>1, Safety, PTL

(* No client gets the reference of another client's operation, however the *)
(* coroutines that share the LXD client interleave.                        *)
THEOREM ReferencesAreOwn == Spec => []ReferenceDenotesOwnOperation
<1>1. SafetyInvariant => ReferenceDenotesOwnOperation
  BY DEF SafetyInvariant
<1> QED
  BY <1>1, Safety, PTL

(* A verdict given after wait_for_operation is true, and stays true.       *)
THEOREM VerdictsAreTrue == Spec => []WaitVerdictIsTrue
<1>1. SafetyInvariant => WaitVerdictIsTrue
  BY DEF SafetyInvariant
<1> QED
  BY <1>1, Safety, PTL

(* A 4xx answer to an action is given only if LXD has not started it and   *)
(* never will, although timed-out calls may be carried out late.           *)
THEOREM RejectionsAreClean == Spec => []RejectionStartsNothing
<1>1. SafetyInvariant => RejectionStartsNothing
  BY DEF SafetyInvariant
<1> QED
  BY <1>1, Safety, PTL

(* One request never starts two operations. *)
THEOREM StartsOnce == Spec => []AtMostOneOperation
<1>1. SafetyInvariant => AtMostOneOperation
  BY DEF SafetyInvariant
<1> QED
  BY <1>1, Safety, PTL

-----------------------------------------------------------------------------
(* What the answers to actions say of the work done for them. *)

(* A reference is given to who asked for an action, and not before LXD has *)
(* replied.  An LXDOperationError is that of the own operation.            *)
StartsAgree ==
    \A r \in Requests :
        /\ Answered(r) /\ answer[r].body = "reference" =>
              IsStart(r) /\ call[r] # "start"
        /\ Answered(r) /\ IsStart(r) /\ answer[r].exc = "LXDOperationError" =>
              opId[r] \in Owned(r)

(* What a coroutine that resumes changes: its own place and answer, never  *)
(* what LXD has started.                                                   *)
LEMMA WhatResumeTells ==
    ASSUME TypeOK, NEW r \in Requests, NEW out, Awaiting(r), Resume(r, out)
    PROVE  /\ UNCHANGED <<endpoint, status, owner>>
           /\ reply'[r] = NoReply /\ pc'[r] \in {"waiting", "answered"}
           /\ \A s \in Requests \ {r} :
                 /\ pc'[s] = pc[s] /\ call'[s] = call[s] /\ opId'[s] = opId[s]
                 /\ reply'[s] = reply[s] /\ answer'[s] = answer[s]
           /\ pc'[r] = "answered" =>
                 /\ UNCHANGED <<call, opId>>
                 /\ answer'[r].body = "reference" =>
                       pc[r] = "calling" /\ IsStart(r) /\ out.exc = "none"
                 /\ IsStart(r) /\ answer'[r].exc = "LXDOperationError" =>
                       pc[r] = "waiting" \/ out.exc = "LXDOperationError"
<1>1. ASSUME NEW http, NEW body, NEW id, NEW st, NEW o, Answer(r, http, body, id, st, o)
      PROVE  /\ UNCHANGED <<endpoint, call, opId>>
             /\ pc'[r] = "answered" /\ reply'[r] = NoReply
             /\ answer'[r].body = body /\ answer'[r].exc = o.exc
             /\ \A s \in Requests \ {r} :
                   /\ pc'[s] = pc[s] /\ call'[s] = call[s] /\ opId'[s] = opId[s]
                   /\ reply'[s] = reply[s] /\ answer'[s] = answer[s]
  BY <1>1 DEF Answer, TypeOK
<1>2. UNCHANGED <<status, owner>>
  BY DEF Resume, lxdVars
<1>3. CASE StartResumes(r, out)
  <2>0. pc[r] = "calling" /\ IsStart(r)
    BY <1>3 DEF StartResumes, IsStart
  <2>1. CASE StartFails(r, out)
    BY <2>1, <1>1, <1>2 DEF StartFails, AnswerError
  <2>2. CASE StartReturnsReference(r, out)
    BY <2>0, <2>2, <1>1, <1>2 DEF StartReturnsReference
  <2>3. CASE StartGoesOnToWait(r, out)
    BY <2>3, <1>2 DEF StartGoesOnToWait, TypeOK
  <2> QED
    BY <1>3, <2>1, <2>2, <2>3 DEF StartResumes
<1>4. CASE StartWaitResumes(r, out)
  <2>0. pc[r] = "waiting"
    BY <1>4 DEF StartWaitResumes
  <2> DEFINE ended == wait_for_operation(out)
  <2> HIDE DEF ended
  <2>1. CASE StartWaitFails(r, ended)
    BY <2>0, <2>1, <1>1, <1>2 DEF StartWaitFails, AnswerError
  <2>2. CASE StartWaitSucceeds(r, ended)
    BY <2>0, <2>2, <1>1, <1>2 DEF StartWaitSucceeds
  <2> QED
    BY <1>4, <2>1, <2>2 DEF StartWaitResumes, ended
<1>5. CASE GetResumes(r, out) \/ CancelResumes(r, out) \/ WaitOperationResumes(r, out)
  <2>0. ~ IsStart(r)
    BY <1>5 DEF GetResumes, CancelResumes, WaitOperationResumes, IsStart, Starts,
                WaitingStarts, WaitRoutes
  <2>1. CASE GetResumes(r, out)
    BY <2>0, <2>1, <1>1, <1>2 DEF GetResumes, AnswerError
  <2>2. CASE CancelResumes(r, out)
    BY <2>0, <2>2, <1>1, <1>2 DEF CancelResumes, AnswerError
  <2>3. CASE WaitOperationResumes(r, out)
    BY <2>0, <2>3, <1>1, <1>2 DEF WaitOperationResumes, AnswerError
  <2> QED
    BY <1>5, <2>1, <2>2, <2>3
<1> QED
  BY <1>3, <1>4, <1>5 DEF Resume

LEMMA InitStartsAgree == Init => StartsAgree
BY DEF Init, StartsAgree, Answered

LEMMA ResumeStartsAgree ==
    ASSUME SafetyInvariant, SafetyInvariant', StartsAgree, NEW r \in Requests, NEW out,
           Awaiting(r), OutcomeIsTrue(r, out), Resume(r, out)
    PROVE  StartsAgree'
<1>1. TypeOK
  BY DEF SafetyInvariant
<1>2. /\ UNCHANGED <<endpoint, status, owner>>
      /\ reply'[r] = NoReply /\ pc'[r] \in {"waiting", "answered"}
      /\ \A s \in Requests \ {r} :
            /\ pc'[s] = pc[s] /\ call'[s] = call[s] /\ opId'[s] = opId[s]
            /\ reply'[s] = reply[s] /\ answer'[s] = answer[s]
      /\ pc'[r] = "answered" =>
            /\ UNCHANGED <<call, opId>>
            /\ answer'[r].body = "reference" =>
                  pc[r] = "calling" /\ IsStart(r) /\ out.exc = "none"
            /\ IsStart(r) /\ answer'[r].exc = "LXDOperationError" =>
                  pc[r] = "waiting" \/ out.exc = "LXDOperationError"
  BY <1>1, WhatResumeTells
<1>3. \A s \in Requests : Owned(s)' = Owned(s) /\ IsStart(s)' = IsStart(s)
  BY <1>2 DEF Owned, IsStart
<1>4. ASSUME pc'[r] = "answered", answer'[r].body = "reference"
      PROVE  IsStart(r) /\ call'[r] # "start"
  BY <1>2, <1>4 DEF OutcomeIsTrue
<1>5. ASSUME pc'[r] = "answered", IsStart(r), answer'[r].exc = "LXDOperationError"
      PROVE  opId'[r] \in Owned(r)
  <2>1. pc[r] = "waiting" /\ opId' = opId
    BY <1>2, <1>5 DEF OutcomeIsTrue
  <2>2. opId'[r] \in OpIds
    BY <1>5 DEF SafetyInvariant, VerdictsNameOperations, Answered
  <2>3. owner[opId[r]] = r
    BY <2>1, <2>2 DEF SafetyInvariant, OwnersAgree
  <2> QED
    BY <2>1, <2>2, <2>3 DEF Owned
<1> QED
  BY <1>2, <1>3, <1>4, <1>5 DEF StartsAgree, Answered

(* LXD changes no answer, and repeats no start that it has carried out. *)
LEMMA LxdStartsAgree ==
    ASSUME SafetyInvariant, StartsAgree, NEW r \in Requests, Lxd(r)
    PROVE  StartsAgree'
<1>1. UNCHANGED <<endpoint, pc, opId, answer>>
  BY DEF Lxd, LxdStarts, LxdRepliesSync, LxdRejects, LxdKnowsNoOperation, LxdShows,
         LxdCancels, LxdRefusesToCancel, LxdBlocks, LxdReleases, LxdStopsWaiting,
         LxdAnswersBadly, gatewayVars
<1>2. /\ call'[r] \in {"none", "waiting"}
      /\ \A s \in Requests \ {r} : call'[s] = call[s]
  BY DEF Lxd, LxdStarts, LxdRepliesSync, LxdRejects, LxdKnowsNoOperation, LxdShows,
         LxdCancels, LxdRefusesToCancel, LxdBlocks, LxdReleases, LxdStopsWaiting,
         LxdAnswersBadly, Respond, SafetyInvariant, TypeOK
<1>3. ASSUME NEW s \in Requests PROVE Owned(s) \subseteq Owned(s)'
  <2>1. CASE \E o \in OpIds : LxdStarts(r, o)
    <3>1. PICK o \in OpIds : status[o] = "Unused" /\ owner' = [owner EXCEPT ![o] = r]
      BY <2>1 DEF LxdStarts
    <3>2. owner[o] # s
      BY <3>1, RequestsAssumption DEF SafetyInvariant, OwnersAgree, RequestsAssumption
    <3> QED
      BY <3>1, <3>2 DEF Owned, SafetyInvariant, TypeOK
  <2>2. CASE UNCHANGED owner
    BY <2>2 DEF Owned
  <2> QED
    BY <2>1, <2>2 DEF Lxd, LxdRepliesSync, LxdRejects, LxdKnowsNoOperation, LxdShows,
         LxdCancels, LxdRefusesToCancel, LxdBlocks, LxdReleases, LxdStopsWaiting,
         LxdAnswersBadly, lxdVars
<1> QED
  BY <1>1, <1>2, <1>3 DEF StartsAgree, IsStart, Answered

LEMMA SubmitStartsAgree ==
    ASSUME SafetyInvariant, StartsAgree, NEW r \in Requests,
           \/ \E e \in Starts : SubmitStart(r, e)
           \/ \E e \in OperationRoutes, o \in OpIds : SubmitOperation(r, e, o)
    PROVE  StartsAgree'
<1>1. /\ pc[r] = "idle" /\ pc'[r] = "calling" /\ UNCHANGED <<reply, answer, owner>>
      /\ \A s \in Requests \ {r} :
            /\ pc'[s] = pc[s] /\ endpoint'[s] = endpoint[s] /\ call'[s] = call[s]
            /\ opId'[s] = opId[s]
  BY DEF SubmitStart, SubmitOperation, SafetyInvariant, TypeOK, lxdVars
<1>2. reply[r] = NoReply
  BY <1>1, IdleIsFresh
<1>3. \A s \in Requests : Owned(s)' = Owned(s)
  BY <1>1 DEF Owned
<1> QED
  BY <1>1, <1>2, <1>3 DEF StartsAgree, Answered, IsStart

LEMMA NextStartsAgree ==
    ASSUME SafetyInvariant, SafetyInvariant', StartsAgree, [Next]_vars
    PROVE  StartsAgree'
<1>1. ASSUME NEW r \in Requests, Deliver(r) PROVE StartsAgree'
  <2> DEFINE out == request(reply[r])
  <2>1. reply[r] # NoReply /\ Resume(r, out) /\ OutcomeIsTrue(r, out)
    BY <1>1, DeliveredReplyIsTrue DEF Deliver
  <2>2. Awaiting(r)
    BY <2>1 DEF SafetyInvariant, CallsAgree
  <2> HIDE DEF out
  <2> QED
    BY <2>1, <2>2, ResumeStartsAgree
<1>2. ASSUME NEW r \in Requests, Timeout(r) \/ ConnectionFails(r) PROVE StartsAgree'
  <2>1. PICK kind \in {"transport", "timeout"} : Resume(r, request(Plain(kind)))
    BY <1>2 DEF Timeout, ConnectionFails
  <2> DEFINE out == request(Plain(kind))
  <2>2. /\ Resume(r, out) /\ OutcomeIsTrue(r, out) /\ Awaiting(r)
    BY <1>2, <2>1, LostReplyIsTrue DEF Timeout, ConnectionFails
  <2> HIDE DEF out
  <2> QED
    BY <2>2, ResumeStartsAgree
<1>3. ASSUME NEW r \in Requests, Gateway(r) PROVE StartsAgree'
  BY <1>1, <1>2, <1>3, SubmitStartsAgree DEF Gateway
<1>4. ASSUME NEW r \in Requests, Lxd(r) PROVE StartsAgree'
  BY <1>4, LxdStartsAgree
<1>5. CASE UNCHANGED <<endpoint, pc, opId, call, reply, answer, owner>>
  BY <1>5 DEF StartsAgree, Answered, IsStart, Owned
<1> QED
  BY <1>3, <1>4, <1>5 DEF Next, LxdEnds, LxdForgets, AllDone, vars, gatewayVars

-----------------------------------------------------------------------------
(* Operations implements OperationPromise: a start at LXD begins the job of *)
(* its request, the end of the operation ends it, an answer to an action    *)
(* tells a verdict, and every other step stutters.                          *)

jobs     == [r \in Requests |-> jobOf(r)]
verdicts == [r \in Requests |-> verdictOf(r)]

(* The job of a request is its one operation. *)
JobsAgree ==
    \A r \in Requests :
        /\ Owned(r) = {} => jobOf(r) = "none"
        /\ \A o \in OpIds : owner[o] = r => jobOf(r) = status[o]

VerdictsAreJustified ==
    \A r \in Requests :
        verdictOf(r) # "none" => Promise!Justified(verdictOf(r), jobOf(r))

LEMMA JobIsOperation == SafetyInvariant => JobsAgree
<1> SUFFICES ASSUME SafetyInvariant, NEW r \in Requests
             PROVE  /\ Owned(r) = {} => jobOf(r) = "none"
                    /\ \A o \in OpIds : owner[o] = r => jobOf(r) = status[o]
  BY DEF JobsAgree
<1>1. ASSUME NEW o \in OpIds, owner[o] = r
      PROVE  jobOf(r) = status[o]
  <2> DEFINE q == CHOOSE q \in OpIds : owner[q] = r
  <2>1. q \in OpIds /\ owner[q] = r
    BY <1>1
  <2>2. q = o
    BY <1>1, <2>1, RequestsAssumption
    DEF SafetyInvariant, AtMostOneOperation, RequestsAssumption
  <2>3. Owned(r) # {}
    BY <1>1 DEF Owned
  <2> QED
    BY <2>2, <2>3 DEF jobOf
<1> QED
  BY <1>1 DEF jobOf

(* What a client was told, from the verdict it stands for. *)
LEMMA WhatVerdictsTell ==
    ASSUME NEW r
    PROVE  /\ verdictOf(r) \in Promise!Verdicts
           /\ verdictOf(r) = "none" <=> ~ IsStart(r) \/ ~ Answered(r)
           /\ verdictOf(r) = "succeeded" =>
                 answer[r].body = "success" /\ answer[r].basis # NoStatus
           /\ verdictOf(r) = "tracked" =>
                 answer[r].body = "reference" /\ answer[r].id \in OpIds
           /\ verdictOf(r) = "untracked" => answer[r].body = "reference"
           /\ verdictOf(r) = "failed" => answer[r].exc = "LXDOperationError"
           /\ verdictOf(r) = "rejected" => answer[r].http \in 400..499
<1>1. CASE ~ IsStart(r) \/ ~ Answered(r)
  <2>1. verdictOf(r) = "none"
    BY <1>1 DEF verdictOf
  <2> QED
    BY <1>1, <2>1 DEF Promise!Verdicts
<1>2. CASE IsStart(r) /\ Answered(r) /\ answer[r].body = "success"
  <2>1. verdictOf(r) = IF answer[r].basis # NoStatus THEN "succeeded" ELSE "unknown"
    BY <1>2 DEF verdictOf
  <2> QED
    BY <1>2, <2>1 DEF Promise!Verdicts
<1>3. CASE IsStart(r) /\ Answered(r) /\ answer[r].body = "reference"
  <2>1. verdictOf(r) = IF answer[r].id \in OpIds THEN "tracked" ELSE "untracked"
    BY <1>3 DEF verdictOf
  <2> QED
    BY <1>3, <2>1 DEF Promise!Verdicts
<1>4. CASE /\ IsStart(r) /\ Answered(r)
           /\ answer[r].body \notin {"success", "reference"}
           /\ answer[r].exc = "LXDOperationError"
  <2>1. verdictOf(r) = "failed"
    BY <1>4 DEF verdictOf
  <2> QED
    BY <1>4, <2>1 DEF Promise!Verdicts
<1>5. CASE /\ IsStart(r) /\ Answered(r)
           /\ answer[r].body \notin {"success", "reference"}
           /\ answer[r].exc # "LXDOperationError"
  <2>1. verdictOf(r) = IF answer[r].http \in 400..499 THEN "rejected" ELSE "unknown"
    BY <1>5 DEF verdictOf
  <2> QED
    BY <1>5, <2>1 DEF Promise!Verdicts
<1> QED
  BY <1>1, <1>2, <1>3, <1>4, <1>5

LEMMA VerdictIsJustified ==
    SafetyInvariant /\ StartsAgree => VerdictsAreJustified
<1> SUFFICES ASSUME SafetyInvariant, StartsAgree, NEW r \in Requests,
                    verdictOf(r) # "none"
             PROVE  Promise!Justified(verdictOf(r), jobOf(r))
  BY DEF VerdictsAreJustified
<1>1. JobsAgree
  BY JobIsOperation
<1>2. IsStart(r) /\ Answered(r)
  BY WhatVerdictsTell
<1>3. CASE verdictOf(r) = "succeeded"
  <2>1. answer[r].id \in Owned(r) /\ status[answer[r].id] = "Success"
    BY <1>2, <1>3, WhatVerdictsTell DEF SafetyInvariant, WaitVerdictIsTrue
  <2>2. jobOf(r) = "Success"
    BY <1>1, <2>1 DEF JobsAgree, Owned
  <2> QED
    BY <1>3, <2>2 DEF Promise!Justified
<1>4. CASE verdictOf(r) = "tracked"
  <2>1. answer[r].id \in OpIds /\ owner[answer[r].id] = r
    BY <1>2, <1>4, WhatVerdictsTell
    DEF SafetyInvariant, ReferenceDenotesOwnOperation
  <2>2. status[answer[r].id] # "Unused"
    BY <2>1, RequestsAssumption
    DEF SafetyInvariant, OwnersAgree, RequestsAssumption
  <2>3. jobOf(r) # "none"
    BY <1>1, <2>1, <2>2 DEF JobsAgree, SafetyInvariant, TypeOK, OperationStatus, Terminal
  <2> QED
    BY <1>4, <2>3 DEF Promise!Justified
<1>5. CASE verdictOf(r) = "failed"
  <2>1. opId[r] \in Owned(r) /\ status[opId[r]] \in {"Failure", "Cancelled"}
    BY <1>2, <1>5, WhatVerdictsTell DEF SafetyInvariant, WaitVerdictIsTrue, StartsAgree
  <2>2. jobOf(r) \in {"Failure", "Cancelled"}
    BY <1>1, <2>1 DEF JobsAgree, Owned
  <2> QED
    BY <1>5, <2>2 DEF Promise!Justified
<1>6. CASE verdictOf(r) = "rejected"
  <2>1. Owned(r) = {}
    BY <1>2, <1>6, WhatVerdictsTell DEF SafetyInvariant, RejectionStartsNothing
  <2> QED
    BY <1>1, <1>6, <2>1 DEF JobsAgree, Promise!Justified
<1>7. CASE verdictOf(r) \in {"untracked", "unknown"}
  BY <1>7 DEF Promise!Justified
<1> QED
  BY <1>3, <1>4, <1>5, <1>6, <1>7, WhatVerdictsTell DEF Promise!Verdicts

(* A request's job changes only with its operation, its verdict only with  *)
(* its answer.                                                             *)
LEMMA JobIsKept ==
    ASSUME JobsAgree, JobsAgree', NEW r \in Requests,
           \A o \in OpIds : /\ owner'[o] = r <=> owner[o] = r
                            /\ owner[o] = r => status'[o] = status[o]
    PROVE  jobOf(r)' = jobOf(r)
<1>1. Owned(r)' = Owned(r)
  BY DEF Owned
<1>2. CASE Owned(r) = {}
  BY <1>1, <1>2 DEF JobsAgree
<1>3. CASE Owned(r) # {}
  <2>1. PICK o \in OpIds : owner[o] = r
    BY <1>3 DEF Owned
  <2>2. owner'[o] = r /\ status'[o] = status[o]
    BY <2>1
  <2> QED
    BY <2>1, <2>2 DEF JobsAgree
<1> QED
  BY <1>2, <1>3

LEMMA VerdictIsKept ==
    ASSUME NEW r, endpoint'[r] = endpoint[r], pc'[r] = pc[r], answer'[r] = answer[r]
    PROVE  verdictOf(r)' = verdictOf(r)
BY DEF verdictOf, IsStart, Answered

(* A coroutine may tell its client what it was given to tell. *)
LEMMA AnswerTells ==
    ASSUME VerdictsAreJustified', NEW r \in Requests, ~ Answered(r),
           UNCHANGED <<endpoint, jobs>>,
           \A s \in Requests \ {r} : pc'[s] = pc[s] /\ answer'[s] = answer[s]
    PROVE  Promise!Tell(r) \/ UNCHANGED <<jobs, verdicts>>
<1> DEFINE v == verdictOf(r)'
<1>1. verdictOf(r) = "none"
  BY WhatVerdictsTell
<1>2. \A s \in Requests \ {r} : verdictOf(s)' = verdictOf(s)
  BY VerdictIsKept
<1>3. verdicts' = [verdicts EXCEPT ![r] = v]
  BY <1>2 DEF verdicts
<1>4. CASE v = "none"
  BY <1>1, <1>2, <1>4 DEF verdicts
<1>5. CASE v # "none"
  <2>1. Promise!Justified(v, jobOf(r)')
    BY <1>5 DEF VerdictsAreJustified
  <2>2. v \in Promise!Verdicts \ {"none"}
    BY <1>5, <2>1 DEF Promise!Justified, Promise!Verdicts
  <2>3. jobOf(r)' = jobOf(r)
    <3>1. jobs'[r] = jobs[r]
      OBVIOUS
    <3> QED
      BY <3>1 DEF jobs
  <2>4. verdicts[r] = "none" /\ jobs[r] = jobOf(r)
    BY <1>1 DEF verdicts, jobs
  <2> HIDE DEF v
  <2>5. /\ verdicts[r] = "none"
        /\ \E w \in Promise!Verdicts \ {"none"} :
              Promise!Justified(w, jobs[r]) /\ verdicts' = [verdicts EXCEPT ![r] = w]
    BY <1>3, <2>2, <2>1, <2>3, <2>4
  <2> QED
    BY <2>5 DEF Promise!Tell, jobs, verdicts
<1> QED
  BY <1>4, <1>5

LEMMA GatewayImplements ==
    ASSUME SafetyInvariant, VerdictsAreJustified', NEW r \in Requests, Gateway(r)
    PROVE  Promise!Tell(r) \/ UNCHANGED <<jobs, verdicts>>
<1>1. ASSUME NEW out, Awaiting(r), Resume(r, out)
      PROVE  /\ ~ Answered(r) /\ UNCHANGED <<endpoint, status, owner>>
             /\ \A s \in Requests \ {r} : pc'[s] = pc[s] /\ answer'[s] = answer[s]
  BY <1>1, WhatResumeTells DEF SafetyInvariant, Awaiting, Answered
<1>2. CASE \/ \E e \in Starts : SubmitStart(r, e)
           \/ \E e \in OperationRoutes, o \in OpIds : SubmitOperation(r, e, o)
  <2>1. /\ pc[r] = "idle" /\ pc'[r] = "calling" /\ UNCHANGED <<answer, status, owner>>
        /\ \A s \in Requests \ {r} : pc'[s] = pc[s] /\ endpoint'[s] = endpoint[s]
    BY <1>2 DEF SubmitStart, SubmitOperation, SafetyInvariant, TypeOK, lxdVars
  <2>2. verdictOf(r) = "none" /\ verdictOf(r)' = "none"
    BY <2>1 DEF verdictOf, Answered
  <2>3. \A s \in Requests : verdictOf(s)' = verdictOf(s)
    BY <2>1, <2>2, VerdictIsKept
  <2> QED
    BY <2>1, <2>3 DEF jobs, verdicts, jobOf, Owned
<1>3. CASE Deliver(r) \/ Timeout(r) \/ ConnectionFails(r)
  <2>1. PICK out : Awaiting(r) /\ Resume(r, out)
    BY <1>3 DEF Deliver, Timeout, ConnectionFails, SafetyInvariant, CallsAgree
  <2>2. /\ ~ Answered(r) /\ UNCHANGED <<endpoint, status, owner>>
        /\ \A s \in Requests \ {r} : pc'[s] = pc[s] /\ answer'[s] = answer[s]
    BY <1>1, <2>1
  <2>3. UNCHANGED jobs
    BY <2>2 DEF jobs, jobOf, Owned
  <2> QED
    BY <2>2, <2>3, AnswerTells
<1> QED
  BY <1>2, <1>3 DEF Gateway

LEMMA LxdStartImplements ==
    ASSUME SafetyInvariant, StartsAgree, JobsAgree, JobsAgree',
           NEW r \in Requests, NEW o \in OpIds, LxdStarts(r, o)
    PROVE  Promise!Begin(r)
<1>1. /\ call[r] = "start" /\ IsStart(r) /\ Owned(r) = {} /\ status[o] = "Unused"
      /\ owner[o] = NoRequest
      /\ UNCHANGED <<endpoint, pc, answer>>
  BY DEF LxdStarts, gatewayVars, SafetyInvariant, CallsAgree, OwnersAgree
<1>2. /\ owner'[o] = r /\ status'[o] = "Running"
      /\ \A q \in OpIds \ {o} : owner'[q] = owner[q] /\ status'[q] = status[q]
  BY DEF LxdStarts, SafetyInvariant, TypeOK
<1>3. jobOf(r) = "none" /\ jobOf(r)' = "Running"
  BY <1>1, <1>2 DEF JobsAgree
<1>4. \A s \in Requests \ {r} : jobOf(s)' = jobOf(s)
  BY <1>1, <1>2, JobIsKept, RequestsAssumption DEF RequestsAssumption
<1>5. \A s \in Requests : verdictOf(s)' = verdictOf(s)
  BY <1>1, VerdictIsKept
<1>6. verdictOf(r) \in {"none", "unknown"}
  <2>1. SUFFICES ASSUME verdictOf(r) # "none" PROVE verdictOf(r) = "unknown"
    OBVIOUS
  <2>2. Answered(r)
    BY <2>1, WhatVerdictsTell
  <2>3. verdictOf(r) \notin {"tracked", "untracked"}
    BY <1>1, <2>2, WhatVerdictsTell DEF StartsAgree
  <2>4. verdictOf(r) # "rejected"
    BY <1>1, <2>2, WhatVerdictsTell DEF SafetyInvariant, RejectionStartsNothing
  <2>5. verdictOf(r) # "succeeded"
    BY <1>1, <2>2, WhatVerdictsTell DEF SafetyInvariant, WaitVerdictIsTrue
  <2>6. verdictOf(r) # "failed"
    BY <1>1, <2>2, WhatVerdictsTell DEF StartsAgree
  <2> QED
    BY <2>1, <2>3, <2>4, <2>5, <2>6, WhatVerdictsTell DEF Promise!Verdicts
<1>7. jobs[r] = "none" /\ verdicts[r] \in {"none", "unknown"}
  BY <1>3, <1>6 DEF jobs, verdicts
<1>8. jobs' = [jobs EXCEPT ![r] = "Running"] /\ UNCHANGED verdicts
  BY <1>3, <1>4, <1>5 DEF jobs, verdicts
<1> QED
  BY <1>7, <1>8 DEF Promise!Begin, jobs, verdicts

(* The end of an operation is the end of its owner's job. *)
LEMMA OperationEndImplements ==
    ASSUME SafetyInvariant, JobsAgree, JobsAgree', NEW o \in OpIds, NEW s \in Terminal,
           status[o] = "Running", status' = [status EXCEPT ![o] = s],
           UNCHANGED <<endpoint, pc, answer, owner>>
    PROVE  \E r \in Requests : Promise!End(r)
<1>1. PICK r \in Requests : owner[o] = r
  BY DEF SafetyInvariant, TypeOK, OwnersAgree
<1>2. /\ status'[o] = s
      /\ \A q \in OpIds \ {o} : status'[q] = status[q]
  BY DEF SafetyInvariant, TypeOK
<1>3. jobOf(r) = "Running" /\ jobOf(r)' = s
  BY <1>1, <1>2 DEF JobsAgree
<1>4. \A q \in Requests \ {r} : jobOf(q)' = jobOf(q)
  BY <1>1, <1>2, JobIsKept
<1>5. \A q \in Requests : verdictOf(q)' = verdictOf(q)
  BY VerdictIsKept
<1>6. jobs[r] = "Running" /\ s \in Promise!Ended
  BY <1>3 DEF jobs, Terminal, Promise!Ended
<1>7. jobs' = [jobs EXCEPT ![r] = s] /\ UNCHANGED verdicts
  BY <1>3, <1>4, <1>5 DEF jobs, verdicts
<1> QED
  BY <1>6, <1>7 DEF Promise!End, jobs, verdicts

LEMMA LxdImplements ==
    ASSUME SafetyInvariant, StartsAgree, JobsAgree, JobsAgree', NEW r \in Requests, Lxd(r)
    PROVE  \/ \E s \in Requests : Promise!Begin(s) \/ Promise!End(s)
           \/ UNCHANGED <<jobs, verdicts>>
<1>1. CASE \E o \in OpIds : LxdStarts(r, o)
  BY <1>1, LxdStartImplements
<1>2. CASE LxdCancels(r)
  <2> DEFINE o == opId[r]
             s == "Cancelled"
  <2>1. /\ o \in OpIds /\ s \in Terminal /\ status[o] = "Running"
        /\ status' = [status EXCEPT ![o] = s]
        /\ UNCHANGED <<endpoint, pc, answer, owner>>
    BY <1>2 DEF LxdCancels, SafetyInvariant, TypeOK, gatewayVars, Terminal
  <2> HIDE DEF o, s
  <2> QED
    BY <2>1, OperationEndImplements
<1>3. CASE \/ LxdRepliesSync(r) \/ LxdRejects(r) \/ LxdKnowsNoOperation(r) \/ LxdShows(r)
          \/ LxdRefusesToCancel(r) \/ LxdBlocks(r) \/ LxdReleases(r) \/ LxdStopsWaiting(r)
          \/ LxdAnswersBadly(r)
  <2>1. UNCHANGED <<endpoint, pc, answer, status, owner>>
    BY <1>3 DEF LxdRepliesSync, LxdRejects, LxdKnowsNoOperation, LxdShows,
                LxdRefusesToCancel, LxdBlocks, LxdReleases, LxdStopsWaiting,
                LxdAnswersBadly, gatewayVars, lxdVars
  <2> QED
    BY <2>1 DEF jobs, verdicts, jobOf, verdictOf, Owned, IsStart, Answered
<1> QED
  BY <1>1, <1>2, <1>3 DEF Lxd

LEMMA NextImplements ==
    ASSUME SafetyInvariant, StartsAgree, JobsAgree, JobsAgree', VerdictsAreJustified',
           [Next]_vars
    PROVE  [Promise!Next]_<<jobs, verdicts>>
<1>1. ASSUME NEW r \in Requests, Gateway(r) \/ Lxd(r)
      PROVE  [Promise!Next]_<<jobs, verdicts>>
  BY <1>1, GatewayImplements, LxdImplements DEF Promise!Next
<1>2. ASSUME NEW o \in OpIds, LxdEnds(o)
      PROVE  [Promise!Next]_<<jobs, verdicts>>
  BY <1>2, OperationEndImplements DEF LxdEnds, gatewayVars, Promise!Next
<1>3. CASE UNCHANGED <<endpoint, pc, answer, status, owner>>
  BY <1>3 DEF jobs, verdicts, jobOf, verdictOf, Owned, IsStart, Answered
<1> QED
  BY <1>1, <1>2, <1>3 DEF Next, LxdForgets, AllDone, vars, gatewayVars

LEMMA InitImplements == Init => Promise!Init
<1> SUFFICES ASSUME Init PROVE Promise!Init
  OBVIOUS
<1>1. \A r \in Requests : jobOf(r) = "none"
  BY RequestsAssumption DEF Init, jobOf, Owned, RequestsAssumption
<1>2. \A r \in Requests : verdictOf(r) = "none"
  BY DEF Init, verdictOf, Answered
<1> QED
  BY <1>1, <1>2 DEF Promise!Init

(* What the gateway's answer to an action says of the work at LXD is true  *)
(* when it is given and stays true: however requests interleave, whatever  *)
(* replies are lost or late, Operations implements OperationPromise.       *)
THEOREM PromiseImplemented == Spec => ImplementsPromise
<1>1. Init => StartsAgree
  BY InitStartsAgree
<1>2. SafetyInvariant /\ SafetyInvariant' /\ StartsAgree /\ [Next]_vars => StartsAgree'
  BY NextStartsAgree
<1>3. /\ SafetyInvariant => JobsAgree
      /\ SafetyInvariant /\ StartsAgree => VerdictsAreJustified
  BY JobIsOperation, VerdictIsJustified
<1>4. SafetyInvariant /\ StartsAgree /\ JobsAgree /\ JobsAgree' /\ VerdictsAreJustified'
      /\ [Next]_vars => [Promise!Next]_<<jobs, verdicts>>
  BY NextImplements
<1> QED
  BY <1>1, <1>2, <1>3, <1>4, InitImplements, Safety, PTL
  DEF Spec, ImplementsPromise, Promise!Spec, jobs, verdicts

-----------------------------------------------------------------------------
(* What a client may rely on, from the abstract specification alone. *)

VerdictsHold ==
    \A r \in Requests :
        verdicts[r] # "none" => Promise!Justified(verdicts[r], jobs[r])

(* What a client was told is never taken back, and what it was told to be  *)
(* over or not to happen does not go on.                                   *)
ToldIsKept ==
    \A r \in Requests : verdicts[r] # "none" =>
        /\ verdicts'[r] = verdicts[r]
        /\ verdicts[r] \in {"rejected", "succeeded", "failed"} => jobs'[r] = jobs[r]

LEMMA PromiseStep ==
    ASSUME VerdictsHold, [Promise!Next]_<<jobs, verdicts>>
    PROVE  VerdictsHold' /\ ToldIsKept
<1>1. CASE UNCHANGED <<jobs, verdicts>>
  BY <1>1 DEF VerdictsHold, ToldIsKept, Promise!Justified
<1>2. ASSUME NEW r \in Requests, Promise!Begin(r)
      PROVE  VerdictsHold' /\ ToldIsKept
  <2>1. /\ jobs[r] = "none" /\ verdicts[r] \in {"none", "unknown"}
        /\ UNCHANGED verdicts
        /\ \A s \in Requests \ {r} : jobs'[s] = jobs[s]
    BY <1>2 DEF Promise!Begin, jobs, verdicts
  <2> QED
    BY <2>1 DEF VerdictsHold, ToldIsKept, Promise!Justified
<1>3. ASSUME NEW r \in Requests, Promise!End(r)
      PROVE  VerdictsHold' /\ ToldIsKept
  <2>1. /\ jobs[r] = "Running" /\ UNCHANGED verdicts
        /\ jobs'[r] \in {"Success", "Failure", "Cancelled"}
        /\ \A s \in Requests \ {r} : jobs'[s] = jobs[s]
    BY <1>3 DEF Promise!End, Promise!Ended, jobs, verdicts
  <2>2. verdicts[r] \in {"none", "untracked", "unknown", "tracked"}
    BY <2>1 DEF VerdictsHold, Promise!Justified
  <2> QED
    BY <2>1, <2>2 DEF VerdictsHold, ToldIsKept, Promise!Justified
<1>4. ASSUME NEW r \in Requests, Promise!Tell(r)
      PROVE  VerdictsHold' /\ ToldIsKept
  <2>1. /\ verdicts[r] = "none" /\ UNCHANGED jobs
        /\ Promise!Justified(verdicts'[r], jobs[r])
        /\ \A s \in Requests \ {r} : verdicts'[s] = verdicts[s]
    BY <1>4 DEF Promise!Tell, jobs, verdicts
  <2> QED
    BY <2>1 DEF VerdictsHold, ToldIsKept, Promise!Justified
<1> QED
  BY <1>1, <1>2, <1>3, <1>4 DEF Promise!Next

(* A client that was told that nothing will happen, that its work is done  *)
(* (by a gateway that had seen the operation end) or that it ended badly   *)
(* may forget the request: at LXD nothing more comes of it.  This follows  *)
(* from the refinement alone.                                              *)
THEOREM WhatIsToldIsKept == Spec => []VerdictsHold /\ [][ToldIsKept]_<<jobs, verdicts>>
<1>1. Promise!Init => VerdictsHold
  BY DEF Promise!Init, VerdictsHold, jobs, verdicts
<1>2. VerdictsHold /\ [Promise!Next]_<<jobs, verdicts>> =>
          VerdictsHold' /\ [ToldIsKept]_<<jobs, verdicts>>
  BY PromiseStep
<1> QED
  BY <1>1, <1>2, PromiseImplemented, PTL
  DEF ImplementsPromise, Promise!Spec, jobs, verdicts
=============================================================================
