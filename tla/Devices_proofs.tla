---------------------------- MODULE Devices_proofs ----------------------------
(***************************************************************************)
(* Proofs about Devices, for every set of requests, pools, volumes,        *)
(* networks, codes and operation ids, and for clients of every pace.       *)
(***************************************************************************)
EXTENDS Devices, LxdReply_proofs

(* A request that has not arrived has left no trace; the others want one   *)
(* of the jobs.                                                            *)
TracesAgree(r) ==
    /\ pc[r] = "idle" =>
          /\ job[r] = NoJob /\ call[r] = "none" /\ update[r] = "none"
          /\ seen[r] = Unseen /\ reply[r] = NoReply
    /\ pc[r] # "idle" => job[r] \in Jobs

(* LXD has at most one call of a request, and its operation comes last.    *)
CallsAgree(r) ==
    /\ pc[r] = "reading" \/ call[r] = "get" =>
          pc[r] # "patching" /\ call[r] # "patch" /\ update[r] = "none"
    /\ call[r] = "get" => seen[r] = Unseen
    /\ call[r] = "patch" => update[r] = "none"

(* A reply is for a handler that awaits it, and it is the reply to what    *)
(* the handler asked for: the devices that LXD has shown or, for either    *)
(* call, an error that leaves no update behind.                            *)
RepliesAgree(r) ==
    reply[r] # NoReply =>
        /\ Awaiting(r) /\ call[r] = "none"
        /\ pc[r] = "reading" =>
              \/ reply[r].kind \in {"error", "malformed"}
              \/ reply[r].kind = "object" /\ seen[r] \in Instances
              \/ reply[r].kind = "null" /\ seen[r] = Empty
        /\ \/ reply[r].kind = "error"
           \/ reply[r].kind = "malformed" /\ reply[r].code \in 400..499
           => update[r] = "none"

(* Once a PATCH is under way its body is the edit of what was shown.       *)
BodiesAgree(r) ==
    pc[r] = "patching" \/ call[r] = "patch" \/ update[r] # "none" =>
        seen[r] \in Instances /\ body[r] = edited(job[r], seen[r])

RefusalsAgree(r) ==
    answer[r] \in 400..499 => update[r] = "none" /\ call[r] # "patch"

(* What holds of each request, whatever the others do. *)
RequestAgrees(r) ==
    /\ TracesAgree(r)
    /\ CallsAgree(r)
    /\ RepliesAgree(r)
    /\ BodiesAgree(r)
    /\ RefusalsAgree(r)

Invariant == TypeOK /\ \A r \in Requests : RequestAgrees(r)

-----------------------------------------------------------------------------
(* Data *)

LEMMA NoReplyIsNoReply == NoReply \notin Replies
BY DEF NoReply, Reply, Replies, ReplyKinds

LEMMA JobsNameDevices ==
    ASSUME NEW j \in Jobs
    PROVE  j.key \in Keys /\ j.dev \in Specs
BY DEF Jobs, Keys, Specs

LEMMA EmptyIsInstance == Empty \in Instances
BY DEF Empty, Instances

LEMMA EditedIsInstance ==
    ASSUME NEW j \in Jobs, NEW d \in Instances
    PROVE  edited(j, d) \in Instances
BY JobsNameDevices DEF edited, Instances

-----------------------------------------------------------------------------
(* The invariant is inductive *)

LEMMA InitInvariant == Init => Invariant
BY NoReplyIsNoReply, EmptyIsInstance
   DEF Init, Invariant, TypeOK, RequestAgrees, TracesAgree, CallsAgree,
       RepliesAgree, BodiesAgree, RefusalsAgree

(* What is known of one request does not change with the others. *)
LEMMA StepOfOne ==
    ASSUME Invariant, NEW r \in Requests, TypeOK', RequestAgrees(r)',
           \A s \in Requests \ {r} :
               UNCHANGED <<job[s], pc[s], seen[s], body[s], call[s], reply[s],
                           answer[s], update[s]>>
    PROVE  Invariant'
<1>1. ASSUME NEW s \in Requests \ {r}
      PROVE  RequestAgrees(s)'
  <2>1. RequestAgrees(s)
    BY <1>1 DEF Invariant
  <2>2. TracesAgree(s)' /\ CallsAgree(s)' /\ RefusalsAgree(s)'
    BY <1>1, <2>1 DEF RequestAgrees, TracesAgree, CallsAgree, RefusalsAgree
  <2>3. RepliesAgree(s)'
    BY <1>1, <2>1 DEF RequestAgrees, RepliesAgree, Awaiting
  <2>4. BodiesAgree(s)'
    BY <1>1, <2>1 DEF RequestAgrees, BodiesAgree
  <2> QED
    BY <2>2, <2>3, <2>4 DEF RequestAgrees
<1> QED
  BY <1>1 DEF Invariant

LEMMA SubmitInvariant ==
    ASSUME Invariant, NEW r \in Requests, NEW j \in Jobs, Submit(r, j)
    PROVE  Invariant'
<1>1. TypeOK /\ RequestAgrees(r)
  BY DEF Invariant
<1>2. TypeOK'
  BY <1>1 DEF TypeOK, Submit
<1>3. /\ pc[r] = "idle" /\ pc'[r] = "reading" /\ job'[r] = j /\ call'[r] = "get"
      /\ UNCHANGED <<seen, reply, answer, update>>
  BY <1>1 DEF TypeOK, Submit
<1>4. answer[r] = 0
  BY <1>1, <1>3 DEF TypeOK
<1>5. RequestAgrees(r)'
  BY <1>1, <1>3, <1>4 DEF RequestAgrees, TracesAgree, CallsAgree, RepliesAgree,
     BodiesAgree, RefusalsAgree
<1>6. \A s \in Requests \ {r} :
          UNCHANGED <<job[s], pc[s], seen[s], body[s], call[s], reply[s],
                      answer[s], update[s]>>
  BY <1>1 DEF TypeOK, Submit
<1> QED
  BY <1>2, <1>5, <1>6, StepOfOne

(* An answer that is no 4xx may be given at any time, a 4xx only while LXD *)
(* has started no update.                                                  *)
LEMMA AnswerInvariant ==
    ASSUME Invariant, NEW r \in Requests, NEW http \in 200..599, Awaiting(r),
           Answer(r, http), UNCHANGED <<instance, update>>,
           http \in 400..499 => update[r] = "none" /\ call[r] # "patch"
    PROVE  Invariant'
<1>1. TypeOK /\ RequestAgrees(r)
  BY DEF Invariant
<1>2. TypeOK'
  BY <1>1 DEF TypeOK, Answer
<1>3. /\ pc[r] \in {"reading", "patching"} /\ pc'[r] = "answered"
      /\ answer'[r] = http /\ reply'[r] = NoReply
      /\ UNCHANGED <<job, seen, body, call, update>>
  BY <1>1 DEF TypeOK, Answer, Awaiting
<1>4. RequestAgrees(r)'
  BY <1>1, <1>3 DEF RequestAgrees, TracesAgree, CallsAgree, RepliesAgree,
     BodiesAgree, RefusalsAgree
<1>5. \A s \in Requests \ {r} :
          UNCHANGED <<job[s], pc[s], seen[s], body[s], call[s], reply[s],
                      answer[s], update[s]>>
  BY <1>1 DEF TypeOK, Answer
<1> QED
  BY <1>2, <1>4, <1>5, StepOfOne

(* The PATCH carries the edit of what LXD has shown. *)
LEMMA ReadInvariant ==
    ASSUME Invariant, NEW r \in Requests, reply[r] # NoReply,
           ReadReturns(r, request(reply[r])), UNCHANGED <<instance, update>>
    PROVE  Invariant'
<1> DEFINE rp == reply[r]
           d  == IF request(rp).dict THEN seen[r] ELSE Empty
<1>1. TypeOK /\ RequestAgrees(r)
  BY DEF Invariant
<1>2. rp \in Replies /\ pc[r] = "reading" /\ request(rp).exc = "none"
  BY <1>1 DEF TypeOK, ReadReturns
<1>3. call[r] = "none" /\ job[r] \in Jobs /\ update[r] = "none"
  BY <1>1, <1>2 DEF RequestAgrees, TracesAgree, CallsAgree, RepliesAgree
<1>4. d = seen[r] /\ seen[r] \in Instances
  <2>1. /\ rp.kind \notin {"error", "malformed"}
        /\ request(rp).dict <=> rp.kind \in {"operation", "bare", "object"}
    BY <1>2, RaisedForKind
  <2>2. \/ rp.kind = "object" /\ seen[r] \in Instances
        \/ rp.kind = "null" /\ seen[r] = Empty
    BY <1>1, <1>2, <2>1 DEF RequestAgrees, RepliesAgree
  <2> QED
    BY <2>1, <2>2, EmptyIsInstance
<1>5. edited(job[r], d) \in Instances
  BY <1>3, <1>4, EditedIsInstance
<1>6. /\ body'  = [body EXCEPT ![r] = edited(job[r], d)]
      /\ pc'    = [pc EXCEPT ![r] = "patching"]
      /\ call'  = [call EXCEPT ![r] = "patch"]
      /\ reply' = [reply EXCEPT ![r] = NoReply]
      /\ UNCHANGED <<instance, update, job, seen, answer>>
  BY DEF ReadReturns
<1> HIDE DEF d, rp
<1>7. TypeOK'
  BY <1>1, <1>2, <1>5, <1>6 DEF TypeOK
<1>8. /\ body'[r] = edited(job[r], d) /\ pc'[r] = "patching"
      /\ call'[r] = "patch" /\ reply'[r] = NoReply
  BY <1>1, <1>6 DEF TypeOK
<1>9. answer[r] = 0
  BY <1>1, <1>2 DEF TypeOK
<1>10. edited(job[r], seen[r])' = edited(job[r], seen[r])
  BY <1>6 DEF edited
<1>11. BodiesAgree(r)'
  BY <1>4, <1>6, <1>8, <1>10 DEF BodiesAgree
<1>12. TracesAgree(r)' /\ CallsAgree(r)' /\ RepliesAgree(r)' /\ RefusalsAgree(r)'
  BY <1>3, <1>6, <1>8, <1>9 DEF TracesAgree, CallsAgree, RepliesAgree, RefusalsAgree
<1>13. RequestAgrees(r)'
  BY <1>11, <1>12 DEF RequestAgrees
<1>14. \A s \in Requests \ {r} :
          UNCHANGED <<job[s], pc[s], seen[s], body[s], call[s], reply[s],
                      answer[s], update[s]>>
  BY <1>1, <1>6 DEF TypeOK
<1> QED
  BY <1>7, <1>13, <1>14, StepOfOne

(* A handler resumes with a reply: a 4xx was one of LXD. *)
LEMMA DeliverInvariant ==
    ASSUME Invariant, NEW r \in Requests, Deliver(r)
    PROVE  Invariant'
<1> DEFINE rp  == reply[r]
           out == request(rp)
<1>1. TypeOK /\ RequestAgrees(r)
  BY DEF Invariant
<1>2. rp \in Replies /\ reply[r] # NoReply
  BY <1>1 DEF TypeOK, Deliver
<1>3. /\ Fails(r, out) \/ ReadReturns(r, out) \/ PatchReturns(r, out)
      /\ UNCHANGED <<instance, update>>
  BY DEF Deliver, Resume
<1>4. Awaiting(r) /\ call[r] = "none"
  BY <1>1, <1>2 DEF RequestAgrees, RepliesAgree
<1>5. CASE Fails(r, out)
  <2> DEFINE http == lxd_err_to_http(out)
  <2>1. out.exc # "none" /\ Answer(r, http)
    BY <1>5 DEF Fails
  <2>2. http \in 200..599
    BY <1>2, RequestReturnsOutcome, ErrorStatusIsHttp
  <2>3. http \in 400..499 => update[r] = "none" /\ call[r] # "patch"
    BY <1>1, <1>2, <1>4, <2>1, ClientErrorIsAReply DEF RequestAgrees, RepliesAgree
  <2> HIDE DEF http
  <2> QED
    BY <1>3, <1>4, <2>1, <2>2, <2>3, AnswerInvariant
<1>6. CASE ReadReturns(r, out)
  BY <1>2, <1>3, <1>6, ReadInvariant
<1>7. CASE PatchReturns(r, out)
  <2>1. Answer(r, 202)
    BY <1>7 DEF PatchReturns
  <2> QED
    BY <1>3, <1>4, <2>1, AnswerInvariant
<1> QED
  BY <1>3, <1>5, <1>6, <1>7

(* A lost reply is answered with 503: LXD may still act. *)
LEMMA LostInvariant ==
    ASSUME Invariant, NEW r \in Requests, NEW kind \in {"transport", "timeout"},
           Awaiting(r), Resume(r, request(Plain(kind)))
    PROVE  Invariant'
<1> DEFINE out == request(Plain(kind))
<1>1. out.exc = "LXDConnectionError"
  BY LostReplyIsOutcome
<1>2. lxd_err_to_http(out) = 503
  BY <1>1, LostConnectionIs503
<1>3. Fails(r, out) /\ UNCHANGED <<instance, update>>
  BY <1>1 DEF Resume, ReadReturns, PatchReturns
<1>4. Answer(r, 503)
  BY <1>2, <1>3 DEF Fails
<1> QED
  BY <1>3, <1>4, AnswerInvariant

LEMMA GatewayInvariant ==
    ASSUME Invariant, NEW r \in Requests, Gateway(r)
    PROVE  Invariant'
<1>1. CASE \E j \in Jobs : Submit(r, j)
  BY <1>1, SubmitInvariant
<1>2. CASE Deliver(r)
  BY <1>2, DeliverInvariant
<1>3. CASE Timeout(r)
  BY <1>3, LostInvariant DEF Timeout
<1>4. CASE ConnectionFails(r)
  BY <1>4, LostInvariant DEF ConnectionFails
<1> QED
  BY <1>1, <1>2, <1>3, <1>4 DEF Gateway

(* LXD answers a call: what its reply must be for what it has done. *)
LEMMA RespondTypes ==
    ASSUME TypeOK, NEW r \in Requests, NEW rp \in Replies, Respond(r, rp)
    PROVE  /\ call'  \in [Requests -> {"none", "get", "patch"}]
           /\ reply' \in [Requests -> Replies \cup {NoReply}]
           /\ call'[r] = "none"
           /\ reply'[r] = IF Awaiting(r) THEN rp ELSE reply[r]
           /\ \A s \in Requests \ {r} : UNCHANGED <<call[s], reply[s]>>
BY DEF TypeOK, Respond

LEMMA ShowInvariant ==
    ASSUME Invariant, NEW r \in Requests, LxdShowsInstance(r)
    PROVE  Invariant'
<1>1. TypeOK /\ RequestAgrees(r)
  BY DEF Invariant
<1>2. PICK kind \in {"object", "null"} :
          /\ Respond(r, Plain(kind))
          /\ kind = "null" => instance = Empty
  BY DEF LxdShowsInstance
<1>3. Plain(kind) \in Replies /\ Plain(kind).kind = kind
  BY RepliesAreReplies DEF Plain, Reply
<1>4. /\ call[r] = "get" /\ seen' = [seen EXCEPT ![r] = instance]
      /\ UNCHANGED <<instance, job, pc, body, answer, update>>
  BY DEF LxdShowsInstance
<1>5. /\ call'  \in [Requests -> {"none", "get", "patch"}]
      /\ reply' \in [Requests -> Replies \cup {NoReply}]
      /\ call'[r] = "none"
      /\ reply'[r] = IF Awaiting(r) THEN Plain(kind) ELSE reply[r]
      /\ \A s \in Requests \ {r} : UNCHANGED <<call[s], reply[s]>>
  BY <1>1, <1>2, <1>3, RespondTypes
<1>6. seen'[r] = instance /\ instance \in Instances
  BY <1>1, <1>4 DEF TypeOK
<1>7. /\ pc[r] # "idle" /\ pc[r] # "patching" /\ update[r] = "none"
      /\ reply[r] = NoReply
  BY <1>1, <1>4 DEF RequestAgrees, TracesAgree, CallsAgree, RepliesAgree
<1>8. TypeOK'
  BY <1>1, <1>4, <1>5, <1>6 DEF TypeOK
<1>9. RepliesAgree(r)'
  BY <1>2, <1>3, <1>4, <1>5, <1>6, <1>7 DEF RepliesAgree, Awaiting
<1>10. TracesAgree(r)' /\ CallsAgree(r)' /\ BodiesAgree(r)' /\ RefusalsAgree(r)'
  BY <1>1, <1>4, <1>5, <1>7
     DEF RequestAgrees, TracesAgree, CallsAgree, BodiesAgree, RefusalsAgree
<1>11. RequestAgrees(r)'
  BY <1>9, <1>10 DEF RequestAgrees
<1>12. \A s \in Requests \ {r} :
          UNCHANGED <<job[s], pc[s], seen[s], body[s], call[s], reply[s],
                      answer[s], update[s]>>
  BY <1>1, <1>4, <1>5 DEF TypeOK
<1> QED
  BY <1>8, <1>11, <1>12, StepOfOne

LEMMA RejectInvariant ==
    ASSUME Invariant, NEW r \in Requests, LxdRejects(r)
    PROVE  Invariant'
<1>1. TypeOK /\ RequestAgrees(r)
  BY DEF Invariant
<1>2. PICK rp \in Replies : Respond(r, rp) /\ rp.kind \in {"error", "malformed"}
  <2>1. \/ \E code \in ErrorCodes : Respond(r, ErrorReply(code))
        \/ \E code \in PageCodes : Respond(r, PageReply(code))
    BY DEF LxdRejects
  <2>2. /\ \A code \in ErrorCodes :
              ErrorReply(code) \in Replies /\ ErrorReply(code).kind = "error"
        /\ \A code \in PageCodes :
              PageReply(code) \in Replies /\ PageReply(code).kind = "malformed"
    BY RepliesAreReplies DEF ErrorReply, PageReply, Reply
  <2> QED
    BY <2>1, <2>2
<1>3. /\ call[r] \in {"get", "patch"}
      /\ UNCHANGED <<instance, job, pc, seen, body, answer, update>>
  BY DEF LxdRejects
<1>4. /\ call'  \in [Requests -> {"none", "get", "patch"}]
      /\ reply' \in [Requests -> Replies \cup {NoReply}]
      /\ call'[r] = "none"
      /\ reply'[r] = IF Awaiting(r) THEN rp ELSE reply[r]
      /\ \A s \in Requests \ {r} : UNCHANGED <<call[s], reply[s]>>
  BY <1>1, <1>2, RespondTypes
<1>5. pc[r] # "idle" /\ update[r] = "none" /\ reply[r] = NoReply
  BY <1>1, <1>3 DEF RequestAgrees, TracesAgree, CallsAgree, RepliesAgree
<1>6. TypeOK'
  BY <1>1, <1>3, <1>4 DEF TypeOK
<1>7. RepliesAgree(r)'
  BY <1>2, <1>3, <1>4, <1>5 DEF RepliesAgree, Awaiting
<1>8. BodiesAgree(r)'
  BY <1>1, <1>3, <1>4 DEF RequestAgrees, BodiesAgree, edited
<1>9. TracesAgree(r)' /\ CallsAgree(r)' /\ RefusalsAgree(r)'
  BY <1>1, <1>3, <1>4, <1>5
     DEF RequestAgrees, TracesAgree, CallsAgree, RefusalsAgree
<1>10. RequestAgrees(r)'
  BY <1>7, <1>8, <1>9 DEF RequestAgrees
<1>11. \A s \in Requests \ {r} :
          UNCHANGED <<job[s], pc[s], seen[s], body[s], call[s], reply[s],
                      answer[s], update[s]>>
  BY <1>1, <1>3, <1>4 DEF TypeOK
<1> QED
  BY <1>6, <1>10, <1>11, StepOfOne

(* LXD starts an update only for a PATCH that has not been refused. *)
LEMMA AcceptInvariant ==
    ASSUME Invariant, NEW r \in Requests, LxdAcceptsPatch(r)
    PROVE  Invariant'
<1>1. TypeOK /\ RequestAgrees(r)
  BY DEF Invariant
<1>2. PICK rp \in Replies :
          /\ Respond(r, rp)
          /\ \/ rp.kind = "operation"
             \/ rp.kind = "malformed" /\ rp.code \notin 400..499
  <2>1. \/ \E o \in OpIds : Respond(r, Reply("operation", 0, o, "Running"))
        \/ \E code \in PageCodes \ (400..499) : Respond(r, PageReply(code))
    BY DEF LxdAcceptsPatch
  <2>2. \A o \in OpIds : /\ Reply("operation", 0, o, "Running") \in Replies
                         /\ Reply("operation", 0, o, "Running").kind = "operation"
    BY RepliesAreReplies DEF Reply, OperationStatus
  <2>3. \A code \in PageCodes :
            /\ PageReply(code) \in Replies
            /\ PageReply(code).kind = "malformed" /\ PageReply(code).code = code
    BY RepliesAreReplies DEF PageReply, Reply
  <2>4. CASE \E o \in OpIds : Respond(r, Reply("operation", 0, o, "Running"))
    BY <2>2, <2>4
  <2>5. CASE \E code \in PageCodes \ (400..499) : Respond(r, PageReply(code))
    BY <2>3, <2>5
  <2> QED
    BY <2>1, <2>4, <2>5
<1>3. /\ call[r] = "patch" /\ update' = [update EXCEPT ![r] = "running"]
      /\ UNCHANGED <<instance, job, pc, seen, body, answer>>
  BY DEF LxdAcceptsPatch
<1>4. /\ call'  \in [Requests -> {"none", "get", "patch"}]
      /\ reply' \in [Requests -> Replies \cup {NoReply}]
      /\ call'[r] = "none"
      /\ reply'[r] = IF Awaiting(r) THEN rp ELSE reply[r]
      /\ \A s \in Requests \ {r} : UNCHANGED <<call[s], reply[s]>>
  BY <1>1, <1>2, RespondTypes
<1>5. /\ pc[r] \notin {"idle", "reading"} /\ reply[r] = NoReply
      /\ update'[r] = "running" /\ answer[r] \notin 400..499
  BY <1>1, <1>3 DEF TypeOK, RequestAgrees, TracesAgree, CallsAgree, RepliesAgree,
     RefusalsAgree
<1>6. TypeOK'
  BY <1>1, <1>3, <1>4 DEF TypeOK
<1>7. RepliesAgree(r)'
  BY <1>2, <1>3, <1>4, <1>5 DEF RepliesAgree, Awaiting
<1>8. BodiesAgree(r)'
  BY <1>1, <1>3 DEF RequestAgrees, BodiesAgree, edited
<1>9. TracesAgree(r)' /\ CallsAgree(r)' /\ RefusalsAgree(r)'
  BY <1>1, <1>3, <1>4, <1>5
     DEF RequestAgrees, TracesAgree, CallsAgree, RefusalsAgree
<1>10. RequestAgrees(r)'
  BY <1>7, <1>8, <1>9 DEF RequestAgrees
<1>11. \A s \in Requests \ {r} :
          UNCHANGED <<job[s], pc[s], seen[s], body[s], call[s], reply[s],
                      answer[s], update[s]>>
  BY <1>1, <1>3, <1>4 DEF TypeOK
<1> QED
  BY <1>6, <1>10, <1>11, StepOfOne

LEMMA UpdateInvariant ==
    ASSUME Invariant, NEW r \in Requests, LxdAppliesPatch(r) \/ LxdFailsPatch(r)
    PROVE  Invariant'
<1>1. TypeOK /\ RequestAgrees(r)
  BY DEF Invariant
<1>2. PICK end \in {"applied", "failed"} : update' = [update EXCEPT ![r] = end]
  BY DEF LxdAppliesPatch, LxdFailsPatch
<1>3. /\ update[r] = "running" /\ instance' \in {instance, body[r]}
      /\ UNCHANGED <<job, pc, seen, body, call, reply, answer>>
  BY DEF LxdAppliesPatch, LxdFailsPatch
<1>4. TypeOK'
  BY <1>1, <1>2, <1>3 DEF TypeOK
<1>5. update'[r] = end
  BY <1>1, <1>2 DEF TypeOK
<1>6. RepliesAgree(r)' /\ BodiesAgree(r)'
  BY <1>1, <1>3, <1>5 DEF RequestAgrees, RepliesAgree, BodiesAgree, Awaiting, edited
<1>7. TracesAgree(r)' /\ CallsAgree(r)' /\ RefusalsAgree(r)'
  BY <1>1, <1>3, <1>5
     DEF RequestAgrees, TracesAgree, CallsAgree, RefusalsAgree
<1>8. RequestAgrees(r)'
  BY <1>6, <1>7 DEF RequestAgrees
<1>9. \A s \in Requests \ {r} :
          UNCHANGED <<job[s], pc[s], seen[s], body[s], call[s], reply[s],
                      answer[s], update[s]>>
  BY <1>1, <1>2, <1>3 DEF TypeOK
<1> QED
  BY <1>4, <1>8, <1>9, StepOfOne

LEMMA StutterInvariant ==
    ASSUME Invariant, UNCHANGED vars
    PROVE  Invariant'
BY DEF Invariant, vars, TypeOK, RequestAgrees, TracesAgree, CallsAgree, RepliesAgree,
       BodiesAgree, RefusalsAgree, Awaiting, edited

LEMMA NextInvariant ==
    ASSUME Invariant, [Next]_vars
    PROVE  Invariant'
<1>1. ASSUME NEW r \in Requests, Gateway(r)
      PROVE  Invariant'
  BY <1>1, GatewayInvariant
<1>2. ASSUME NEW r \in Requests, Lxd(r)
      PROVE  Invariant'
  BY <1>2, ShowInvariant, RejectInvariant, AcceptInvariant, UpdateInvariant DEF Lxd
<1> QED
  BY <1>1, <1>2, StutterInvariant DEF Next, AllDone

(* However many requests of whatever clients edit the instance, and        *)
(* whatever replies are lost, the invariant holds.                         *)
THEOREM Safety == Spec => []Invariant
<1>1. Init => Invariant
  BY InitInvariant
<1>2. Invariant /\ [Next]_vars => Invariant'
  BY NextInvariant
<1> QED
  BY <1>1, <1>2, PTL DEF Spec

(* The variables keep their types, and just the answered requests have an  *)
(* HTTP status.                                                            *)
THEOREM TypeCorrect == Spec => []TypeOK
<1>1. Invariant => TypeOK
  BY DEF Invariant
<1> QED
  BY <1>1, Safety, PTL

(* A 4xx answer to attach or detach means that the devices have not been   *)
(* and will not be changed for it.                                         *)
THEOREM RefusalsAreTrue == Spec => []RejectedEditHasNoEffect
<1>1. Invariant => RejectedEditHasNoEffect
  BY DEF Invariant, RequestAgrees, RefusalsAgree, RejectedEditHasNoEffect
<1> QED
  BY <1>1, Safety, PTL

-----------------------------------------------------------------------------
(* Edits *)

(* An update takes effect only by LxdAppliesPatch. *)
LEMMA OnlyLxdApplies ==
    ASSUME Invariant, [Next]_vars, NEW r \in Requests, update'[r] # update[r]
    PROVE  \/ LxdAppliesPatch(r) \/ update'[r] # "applied"
<1>1. TypeOK
  BY DEF Invariant
<1>2. ASSUME NEW s \in Requests, Gateway(s)
      PROVE  FALSE
  BY <1>2 DEF Gateway, Submit, Deliver, Timeout, ConnectionFails, Resume
<1>3. ASSUME NEW s \in Requests, Lxd(s)
      PROVE  LxdAppliesPatch(r) \/ update'[r] # "applied"
  <2>1. CASE LxdShowsInstance(s) \/ LxdRejects(s)
    BY <2>1 DEF LxdShowsInstance, LxdRejects
  <2>2. CASE LxdAcceptsPatch(s)
    BY <1>1, <2>2 DEF TypeOK, LxdAcceptsPatch
  <2>3. CASE LxdAppliesPatch(s)
    <3>1. s = r
      BY <1>1, <2>3 DEF TypeOK, LxdAppliesPatch
    <3> QED
      BY <2>3, <3>1
  <2>4. CASE LxdFailsPatch(s)
    BY <1>1, <2>4 DEF TypeOK, LxdFailsPatch
  <2> QED
    BY <1>3, <2>1, <2>2, <2>3, <2>4 DEF Lxd
<1> QED
  BY <1>2, <1>3 DEF Next, AllDone, vars

(* An update that takes effect is the edit of what was shown. *)
LEMMA AppliesEdit ==
    ASSUME Invariant, NEW r \in Requests, LxdAppliesPatch(r)
    PROVE  seen[r] \in Instances /\ instance' = edited(job[r], seen[r])
BY DEF Invariant, RequestAgrees, BodiesAgree, LxdAppliesPatch

(* However requests interleave, an edit whose GET saw the devices that its *)
(* PATCH replaces does what it was asked for, and nothing else.            *)
THEOREM UnracedEditsAreExact == Spec => UnracedEditIsExact
<1>1. ASSUME Invariant, [Next]_vars, NEW r \in Requests, Applies(r),
             seen[r] = instance
      PROVE  instance' = edited(job[r], instance)
  <2>1. LxdAppliesPatch(r)
    BY <1>1, OnlyLxdApplies DEF Applies
  <2> QED
    BY <1>1, <2>1, AppliesEdit
<1>2. Invariant /\ [Next]_vars =>
          [\A r \in Requests :
              Applies(r) /\ seen[r] = instance =>
                  instance' = edited(job[r], instance)]_vars
  BY <1>1
<1> QED
  BY <1>2, Safety, PTL DEF Spec, UnracedEditIsExact

-----------------------------------------------------------------------------
(* Clients that wait for the end of each edit *)

(* Then one request at a time has anything left to be done, and what LXD   *)
(* showed to it is still there until its own update is applied.            *)
WaitingAgrees ==
    \A r \in Requests : ~ Quiet(r) =>
        /\ \A s \in Requests \ {r} : Quiet(s)
        /\ seen[r] # Unseen /\ update[r] # "applied" => seen[r] = instance

(* A step that goes on with r finds r at work, and so all others at rest.  *)
LEMMA WaitingStep ==
    ASSUME WaitingAgrees, NEW r \in Requests, ~ Quiet(r),
           instance' = instance \/ update'[r] = "applied",
           seen'[r] \in {seen[r], instance},
           update[r] = "applied" => update'[r] = "applied",
           \A s \in Requests \ {r} : UNCHANGED <<pc[s], call[s], update[s]>>
    PROVE  WaitingAgrees'
<1>1. \A s \in Requests \ {r} : Quiet(s)'
  BY DEF WaitingAgrees, Quiet, Over
<1>2. seen'[r] # Unseen /\ update'[r] # "applied" => seen'[r] = instance'
  BY DEF WaitingAgrees
<1> QED
  BY <1>1, <1>2 DEF WaitingAgrees

(* A request is only made when all are at rest. *)
LEMMA WaitingSubmit ==
    ASSUME Clients = "waiting", Invariant, NEW r \in Requests, NEW j \in Jobs,
           Submit(r, j)
    PROVE  WaitingAgrees'
<1>1. TypeOK /\ RequestAgrees(r)
  BY DEF Invariant
<1>2. \A s \in Requests : Quiet(s)
  BY Zenon DEF Submit, MaySubmit
<1>3. \A s \in Requests \ {r} : UNCHANGED <<pc[s], call[s], update[s]>>
  BY <1>1 DEF TypeOK, Submit
<1>4. \A s \in Requests \ {r} : Quiet(s)'
  BY <1>2, <1>3 DEF Quiet, Over
<1>5. seen'[r] = Unseen
  BY <1>1 DEF RequestAgrees, TracesAgree, Submit
<1> QED
  BY <1>4, <1>5 DEF WaitingAgrees

LEMMA WaitingGateway ==
    ASSUME Invariant, WaitingAgrees, NEW r \in Requests,
           Deliver(r) \/ Timeout(r) \/ ConnectionFails(r)
    PROVE  WaitingAgrees'
<1>1. TypeOK /\ RequestAgrees(r)
  BY DEF Invariant
<1>2. Awaiting(r)
  BY <1>1 DEF RequestAgrees, RepliesAgree, Deliver, Timeout, ConnectionFails
<1>3. PICK out : Resume(r, out)
  BY DEF Deliver, Timeout, ConnectionFails
<1>4. UNCHANGED <<instance, seen, update>>
  BY <1>3 DEF Resume, Fails, ReadReturns, PatchReturns, Answer
<1>5. \A s \in Requests \ {r} : UNCHANGED <<pc[s], call[s], update[s]>>
  BY <1>1, <1>3 DEF TypeOK, Resume, Fails, ReadReturns, PatchReturns, Answer
<1>6. ~ Quiet(r)
  BY <1>2 DEF Awaiting, Quiet, Over
<1> QED
  BY <1>4, <1>5, <1>6, WaitingStep

LEMMA WaitingLxd ==
    ASSUME Invariant, WaitingAgrees, NEW r \in Requests, Lxd(r)
    PROVE  WaitingAgrees'
<1>1. TypeOK /\ RequestAgrees(r)
  BY DEF Invariant
<1>2. ~ Quiet(r)
  BY DEF Lxd, LxdShowsInstance, LxdRejects, LxdAcceptsPatch, LxdAppliesPatch,
         LxdFailsPatch, Quiet
<1>3. /\ UNCHANGED pc
      /\ \A s \in Requests \ {r} : call'[s] = call[s] /\ update'[s] = update[s]
  BY <1>1 DEF TypeOK, Lxd, LxdShowsInstance, LxdRejects, LxdAcceptsPatch,
              LxdAppliesPatch, LxdFailsPatch, Respond
<1>4. instance' = instance \/ update'[r] = "applied"
  BY <1>1 DEF TypeOK, Lxd, LxdShowsInstance, LxdRejects, LxdAcceptsPatch,
              LxdAppliesPatch, LxdFailsPatch
<1>5. seen'[r] \in {seen[r], instance}
  BY <1>1 DEF TypeOK, Lxd, LxdShowsInstance, LxdRejects, LxdAcceptsPatch,
              LxdAppliesPatch, LxdFailsPatch
<1>6. update[r] = "applied" => update'[r] = "applied"
  BY <1>1 DEF RequestAgrees, CallsAgree, Lxd, LxdShowsInstance, LxdRejects,
              LxdAcceptsPatch, LxdAppliesPatch, LxdFailsPatch
<1> QED
  BY <1>2, <1>3, <1>4, <1>5, <1>6, WaitingStep

LEMMA WaitingNext ==
    ASSUME Clients = "waiting", Invariant, WaitingAgrees, [Next]_vars
    PROVE  WaitingAgrees'
<1>1. CASE UNCHANGED vars
  BY <1>1 DEF vars, WaitingAgrees, Quiet, Over
<1> QED
  BY <1>1, WaitingSubmit, WaitingGateway, WaitingLxd DEF Next, Gateway, AllDone

(* An edit that is applied is the edit of what is there. *)
LEMMA WaitingEdit ==
    ASSUME Invariant, WaitingAgrees, [Next]_vars, NEW r \in Requests, Applies(r)
    PROVE  /\ job[r] \in Jobs /\ instance \in Instances
           /\ instance' = edited(job[r], instance)
<1>1. LxdAppliesPatch(r)
  BY OnlyLxdApplies DEF Applies
<1>2. seen[r] \in Instances /\ instance' = edited(job[r], seen[r])
  BY <1>1, AppliesEdit
<1>3. seen[r] # Unseen /\ update[r] = "running" /\ ~ Quiet(r)
  BY <1>1, <1>2, DevicesAssumption DEF DevicesAssumption, LxdAppliesPatch, Quiet
<1>4. seen[r] = instance
  BY <1>3 DEF WaitingAgrees
<1>5. job[r] \in Jobs
  BY <1>3 DEF Invariant, RequestAgrees, TracesAgree
<1> QED
  BY <1>2, <1>4, <1>5

(* For clients that ask only when LXD has nothing left to do for any edit, *)
(* each attach and detach that takes effect does what it was asked for and *)
(* nothing else, whatever calls fail or time out.                          *)
THEOREM WaitingClientsEditExactly ==
    ASSUME Clients = "waiting"
    PROVE  Spec => [][\A r \in Requests :
                         Applies(r) => instance' = edited(job[r], instance)]_vars
<1>1. Init => WaitingAgrees
  BY DEF Init, WaitingAgrees, Quiet, Over
<1>2. Invariant /\ WaitingAgrees /\ [Next]_vars => WaitingAgrees'
  BY WaitingNext
<1>3. Invariant /\ WaitingAgrees /\ [Next]_vars =>
          [\A r \in Requests :
              Applies(r) => instance' = edited(job[r], instance)]_vars
  BY WaitingEdit
<1> QED
  BY <1>1, <1>2, <1>3, Safety, PTL DEF Spec

(* For such clients storage.py:365 is right: an attach preserves the       *)
(* existing devices.                                                       *)
THEOREM WaitingClientsLoseNothing ==
    ASSUME Clients = "waiting"
    PROVE  Spec => ExistingDevicesArePreserved
<1>1. Init => WaitingAgrees
  BY DEF Init, WaitingAgrees, Quiet, Over
<1>2. Invariant /\ WaitingAgrees /\ [Next]_vars => WaitingAgrees'
  BY WaitingNext
<1>3. ASSUME Invariant, WaitingAgrees, [Next]_vars, NEW r \in Requests, Applies(r),
             NEW k \in Keys, k # job[r].key
      PROVE  instance'[k] = instance[k]
  BY <1>3, WaitingEdit DEF edited, Instances
<1>4. Invariant /\ WaitingAgrees /\ [Next]_vars =>
          [\A r \in Requests, k \in Keys :
              Applies(r) /\ job[r].op = "attach" /\ k # job[r].key
              => instance'[k] = instance[k]]_vars
  BY <1>3
<1> QED
  BY <1>1, <1>2, <1>4, Safety, PTL DEF Spec, ExistingDevicesArePreserved

-----------------------------------------------------------------------------
(* Devices implements DeviceEditing: a request asks when it is submitted,  *)
(* looks when LXD shows it the instance, and takes effect when LXD applies *)
(* its PATCH; every other step stutters.                                   *)

Effective == {r \in Requests : update[r] = "applied"}

(* What is neither asked, nor looked at, nor applied does not show. *)
LEMMA OtherStepsStutter ==
    ASSUME UNCHANGED <<instance, job, seen>>,
           \A r \in Requests : update'[r] = "applied" <=> update[r] = "applied"
    PROVE  UNCHANGED <<instance, job, seen, Effective>>
BY DEF Effective

LEMMA GatewayImplements ==
    ASSUME Invariant, NEW r \in Requests, Gateway(r)
    PROVE  Editing!Ask(r) \/ UNCHANGED <<instance, job, seen, Effective>>
<1>1. CASE \E j \in Jobs : Submit(r, j)
  <2>1. job[r] = NoJob
    BY <1>1 DEF Invariant, RequestAgrees, TracesAgree, Submit
  <2> QED
    BY <1>1, <2>1 DEF Submit, Editing!Ask, Effective
<1>2. CASE Deliver(r) \/ Timeout(r) \/ ConnectionFails(r)
  <2>1. UNCHANGED <<instance, job, seen, update>>
    BY <1>2 DEF Deliver, Timeout, ConnectionFails, Resume, Fails, ReadReturns,
       PatchReturns, Answer
  <2> QED
    BY <2>1, OtherStepsStutter
<1> QED
  BY <1>1, <1>2 DEF Gateway

LEMMA LxdImplements ==
    ASSUME Invariant, NEW r \in Requests, Lxd(r)
    PROVE  \/ Editing!Look(r) \/ Editing!TakeEffect(r)
           \/ UNCHANGED <<instance, job, seen, Effective>>
<1>1. TypeOK /\ RequestAgrees(r)
  BY DEF Invariant
<1>2. CASE LxdShowsInstance(r)
  <2>1. job[r] # NoJob /\ seen[r] = Unseen
    BY <1>1, <1>2, DevicesAssumption
       DEF DevicesAssumption, RequestAgrees, TracesAgree, CallsAgree, LxdShowsInstance
  <2> QED
    BY <1>2, <2>1 DEF LxdShowsInstance, Editing!Look, Effective
<1>3. CASE LxdRejects(r)
  BY <1>3, OtherStepsStutter DEF LxdRejects
<1>4. CASE LxdAcceptsPatch(r)
  <2>1. update[r] = "none" /\ update' = [update EXCEPT ![r] = "running"]
    BY <1>1, <1>4 DEF RequestAgrees, CallsAgree, LxdAcceptsPatch
  <2>2. \A s \in Requests : update'[s] = "applied" <=> update[s] = "applied"
    BY <1>1, <2>1 DEF TypeOK
  <2> QED
    BY <1>4, <2>2, OtherStepsStutter DEF LxdAcceptsPatch
<1>5. CASE LxdAppliesPatch(r)
  <2>1. seen[r] \in Instances /\ instance' = edited(job[r], seen[r])
    BY <1>5, AppliesEdit
  <2>2. seen[r] # Unseen
    BY <2>1, DevicesAssumption DEF DevicesAssumption
  <2>3. r \notin Effective /\ Effective' = Effective \cup {r}
    BY <1>1, <1>5 DEF TypeOK, Effective, LxdAppliesPatch
  <2>4. instance' = Editing!edited(job[r], seen[r])
    BY <2>1 DEF edited, Editing!edited
  <2> QED
    BY <1>5, <2>2, <2>3, <2>4
       DEF LxdAppliesPatch, Editing!TakeEffect, Effective
<1>6. CASE LxdFailsPatch(r)
  <2>1. \A s \in Requests : update'[s] = "applied" <=> update[s] = "applied"
    BY <1>1, <1>6 DEF TypeOK, LxdFailsPatch
  <2> QED
    BY <1>6, <2>1, OtherStepsStutter DEF LxdFailsPatch
<1> QED
  BY <1>2, <1>3, <1>4, <1>5, <1>6 DEF Lxd

(* However requests interleave and whatever replies are lost, each attach  *)
(* and detach that takes effect is an edit of one device on the devices    *)
(* the instance had at one moment since it was asked for.                  *)
THEOREM EditingImplemented == Spec => ImplementsEditing
<1>1. Init => Editing!Init
  BY DEF Init, Instances, Editing!Init, Editing!Instances
<1>2. Invariant /\ [Next]_vars =>
          [Editing!Next]_<<instance, job, seen, Effective>>
  <2> SUFFICES ASSUME Invariant, [Next]_vars
               PROVE  [Editing!Next]_<<instance, job, seen, Effective>>
    OBVIOUS
  <2>1. ASSUME NEW r \in Requests, Gateway(r) \/ Lxd(r)
        PROVE  [Editing!Next]_<<instance, job, seen, Effective>>
    BY <2>1, GatewayImplements, LxdImplements DEF Editing!Next
  <2>2. CASE UNCHANGED vars
    BY <2>2 DEF vars, Effective
  <2> QED
    BY <2>1, <2>2 DEF Next, AllDone
<1> QED
  BY <1>1, <1>2, Safety, PTL DEF Spec, ImplementsEditing, Editing!Spec, Effective
=============================================================================
