----------------------------- MODULE Access_proofs -----------------------------
(***************************************************************************)
(* What Access promises, for every number of requests, users, rows and     *)
(* connections: only authorised requests act, a refusal and a success are  *)
(* true, and connections are returned.  The invariant is a predicate of    *)
(* one request at a time, and of the number of connections taken.          *)
(***************************************************************************)
EXTENDS Access, LxdReply_proofs, FiniteSetTheorems

(* The rows as they are now have been noted for a request in progress. *)
WitnessAgrees(r) ==
    InProgress(r) /\ NeedsUser(ask[r]) =>
        IF Permits(rows, ask[r]) THEN r \in allowed ELSE r \in denied

(* Who needs no user is not asked for one. *)
PathAgrees(r) ==
    pc[r] \in {"arrived", "selecting", "relaying"} => NeedsUser(ask[r])

(* What r has done, may still do or has been given needs its authority. *)
ActsAgree(r) ==
    \/ r \in carried \/ call[r] # "none" \/ pc[r] \in {"calling", "relaying"}
    \/ answer[r] \in 101..399
    => Authorised(r)

ConnectionAgrees(r) ==
    /\ r \in held => pc[r] \in {"selecting", "calling", "relaying"}
    /\ pc[r] \in {"selecting", "calling", "relaying"} /\ NeedsUser(ask[r]) => r \in held

(* The replies LXD or the lack of a connection can leave. *)
SoundReply(rp) ==
    /\ rp \in Replies
    /\ rp.kind = "error" => rp.code \in ErrorCodes
    /\ rp.kind = "malformed" => rp.code \in PageCodes

(* An error has changed nothing, and an envelope that is none has.  (Pages *)
(* with other statuses than 4xx, and no body, may come after either.)      *)
ReplyIsTrue(r) ==
    /\ \/ reply[r].kind = "error"
       \/ reply[r].kind = "malformed" /\ reply[r].code \in 400..499
       => r \notin carried
    /\ reply[r].kind \notin {"error", "malformed", "empty"} /\ ask[r].route.call = "write"
       => r \in carried
    /\ reply[r].kind \in {"malformed", "empty"} => r \in foreign

(* A call waits at LXD, has been carried out, or has been replied to. *)
CallAgrees(r) ==
    /\ call[r] # "none" => /\ pc[r] \in {"calling", "answered"}
                           /\ call[r] = ask[r].route.call
                           /\ r \notin carried
                           /\ reply[r] = NoReply
    /\ r \in carried => pc[r] \in {"calling", "answered"}
    /\ reply[r] # NoReply => pc[r] = "calling" /\ SoundReply(reply[r]) /\ ReplyIsTrue(r)

(* A refusal is true, and so is a success that rests on LXD's own reply.   *)
AnswerAgrees(r) ==
    /\ pc[r] = "answered" /\ ask[r].route.call = "write" =>
          /\ answer[r] \in 400..499 => r \notin carried /\ call[r] = "none"
          /\ answer[r] \in {201, 202} /\ r \notin foreign => r \in carried
    /\ answer[r] = 401 /\ 401 \notin PageCodes =>
          NeedsUser(ask[r]) /\ (r \in denied \/ ~ ask[r].good)

RequestAgrees(r) ==
    /\ pc[r] # "idle" => ask[r] \in Asks
    /\ PathAgrees(r)
    /\ WitnessAgrees(r)
    /\ ActsAgree(r)
    /\ ConnectionAgrees(r)
    /\ CallAgrees(r)
    /\ AnswerAgrees(r)

Invariant ==
    /\ TypeOK
    /\ \A r \in Requests : RequestAgrees(r)
    /\ Cardinality(held) <= PoolSize
-----------------------------------------------------------------------------
(* Routes and answers *)

Forms == {"json", "registered", "reference", "created", "dict", "stream", "health",
          "session"}

(* A write is answered with a reference or 201, and only health_deep, which *)
(* looks no user up, needs none.                                           *)
LEMMA RouteFacts ==
    ASSUME NEW route \in Routes
    PROVE  /\ route.form \in Forms
           /\ route.call \in {"none", "read", "write"}
           /\ route.call = "write" => route.form \in {"reference", "created"}
           /\ route.need = "nobody" => route.form = "health" /\ route.call = "read"
BY DEF Routes, AuthRoutes, PoolRoutes, VolumeRoutes, NetworkRoutes, ProjectRoutes,
       ImageRoutes, InstanceRoutes, LogRoutes, SnapshotRoutes, BackupRoutes,
       OperationRoutes, SystemRoutes, SessionRoutes,
       Route, Read, Write, Forms

LEMMA SoundReplies ==
    /\ \A kind \in ReplyKinds \ {"error", "malformed"} : SoundReply(Plain(kind))
    /\ \A code \in ErrorCodes : SoundReply(ErrorReply(code))
    /\ \A code \in PageCodes : SoundReply(PageReply(code))
    /\ \A o \in OpIds : SoundReply(Reply("operation", 0, o, "Running"))
BY DEF SoundReply, Plain, ErrorReply, PageReply, Reply, Replies, ReplyKinds,
       OperationStatus

(* LXD's own errors never become a success, nor a 401. *)
LEMMA EnvelopeStatus ==
    ASSUME NEW code \in ErrorCodes
    PROVE  lxd_err_to_http(Raised(lxd_error_for_status(code), code, FALSE))
               \notin {201, 202, 401}
<1> DEFINE exc == lxd_error_for_status(code)
           out == Raised(exc, code, FALSE)
           http == lxd_err_to_http(out)
<1> SUFFICES http \notin {201, 202, 401}
  OBVIOUS
<1>1. out.exc = exc /\ out.code = code
  BY DEF Raised
<1>2. code \in 400..599
  BY LxdReplyAssumption DEF LxdReplyAssumption
<1>3. CASE exc \in DOMAIN code_map
  <2>1. \A e \in DOMAIN code_map : code_map[e] \in {400, 403, 404, 409, 503}
    BY DEF code_map
  <2> HIDE DEF exc, out
  <2>2. http = code_map[exc]
    BY <1>1, <1>3 DEF lxd_err_to_http
  <2> HIDE DEF http
  <2> QED
    BY <1>3, <2>1, <2>2
<1>4. CASE exc \notin DOMAIN code_map
  <2>1. exc \notin {"LXDBadRequest", "LXDAuthError", "LXDNotFoundError", "LXDConflictError"}
    BY <1>4 DEF code_map
  <2>2. code \notin {400, 401, 403, 404, 409}
    BY <2>1 DEF lxd_error_for_status
  <2> HIDE DEF exc, out
  <2>3. http = IF code # 0 THEN code ELSE 500
    BY <1>1, <1>4 DEF lxd_err_to_http
  <2> HIDE DEF http
  <2> QED
    BY <1>2, <2>2, <2>3
<1> QED
  BY <1>3, <1>4

(* LXD's own 401 becomes 403; the status of a page is passed on. *)
LEMMA NoOther401 ==
    ASSUME NEW rp, SoundReply(rp), request(rp).exc # "none",
           lxd_err_to_http(request(rp)) \in {201, 202, 401}
    PROVE  rp.kind = "malformed" /\ lxd_err_to_http(request(rp)) \in PageCodes
<1>0. rp.kind \in {"transport", "timeout", "malformed", "error"}
  BY RaisedForKind DEF SoundReply
<1>1. CASE rp.kind \in {"transport", "timeout"}
  <2>1. lxd_err_to_http(request(rp)) = 503
    BY <1>1, LostReplyRaises, LostConnectionIs503
  <2> QED
    BY <2>1
<1>2. CASE rp.kind = "malformed"
  <2>1. request(rp) = Raised("LXDError", rp.code, FALSE)
    BY <1>2 DEF request
  <2>2. request(rp).exc \notin DOMAIN code_map /\ request(rp).code = rp.code
    BY <2>1 DEF Raised, code_map
  <2>3. lxd_err_to_http(request(rp)) \in {rp.code, 500}
    BY <2>2 DEF lxd_err_to_http
  <2> QED
    BY <1>2, <2>3 DEF SoundReply
<1>3. CASE rp.kind = "error"
  <2>1. request(rp) = Raised(lxd_error_for_status(rp.code), rp.code, FALSE)
    BY <1>3 DEF request
  <2>2. rp.code \in ErrorCodes
    BY <1>3 DEF SoundReply
  <2> QED
    BY <2>1, <2>2, EnvelopeStatus
<1> QED
  BY <1>0, <1>1, <1>2, <1>3

(* What the client is answered says of the reply, for each form of answer. *)
LEMMA AnswerFacts ==
    ASSUME NEW rp, SoundReply(rp), NEW form \in Forms
    PROVE  /\ answerTo(form, request(rp)) \in 200..599
           /\ form = "health" => answerTo(form, request(rp)) = 200
           /\ answerTo(form, request(rp)) = 401 => 401 \in PageCodes
           /\ form \in {"reference", "created"} =>
                 /\ answerTo(form, request(rp)) \in 400..499 =>
                       \/ rp.kind = "error"
                       \/ rp.kind = "malformed" /\ rp.code \in 400..499
                 /\ answerTo(form, request(rp)) \in {201, 202} =>
                       rp.kind \notin {"error", "transport", "timeout"}
<1> DEFINE out  == request(rp)
           http == lxd_err_to_http(out)
<1>1. success(form, out) \in {200, 201, 202, 500}
  BY DEF success
<1>2. /\ form = "health" => success(form, out) = 200
      /\ form \in {"reference", "created"} => success(form, out) \in {201, 202}
  BY DEF success
<1>3. rp \in Replies /\ out \in Outcomes
  BY RequestReturnsOutcome DEF SoundReply
<1>4. http \in 200..599
  BY <1>3, ErrorStatusIsHttp
<1>5. CASE answerTo(form, out) = success(form, out) /\ (form = "health" \/ form = "stream")
  BY <1>1, <1>2, <1>5
<1>6. CASE answerTo(form, out) = success(form, out) /\ out.exc = "none"
  <2>1. rp.kind \notin {"error", "malformed", "transport", "timeout"}
    BY <1>3, <1>6, RaisedForKind
  <2> QED
    BY <1>1, <1>2, <1>6, <2>1
<1>7. CASE answerTo(form, out) = http /\ form # "health" /\ out.exc # "none"
  <2>1. http \in {201, 202, 401} => http \in PageCodes /\ rp.kind = "malformed"
    BY <1>7, NoOther401
  <2>2. http \in 400..499 =>
            rp.kind = "error" \/ (rp.kind = "malformed" /\ rp.code \in 400..499)
    BY <1>3, <1>7, ClientErrorIsAReply
  <2> HIDE DEF http
  <2> QED
    BY <1>4, <1>7, <2>1, <2>2
<1> QED
  BY <1>5, <1>6, <1>7 DEF answerTo

-----------------------------------------------------------------------------
(* The steps *)

LEMMA InitSafety == Init => Invariant
<1> SUFFICES ASSUME Init PROVE Invariant
  OBVIOUS
<1>1. TypeOK
  BY DEF Init, TypeOK
<1>2. ASSUME NEW r \in Requests PROVE RequestAgrees(r)
  BY DEF Init, RequestAgrees, PathAgrees, WitnessAgrees, ActsAgree, ConnectionAgrees,
         CallAgrees, AnswerAgrees, InProgress
<1>3. Cardinality(held) <= PoolSize
  <2>1. Cardinality(held) = 0
    BY FS_EmptySet DEF Init
  <2> QED
    BY <2>1, AccessAssumption DEF AccessAssumption
<1> QED
  BY <1>1, <1>2, <1>3 DEF Invariant

(* What is said of a request depends on nothing of the others. *)
LEMMA OthersAgree ==
    ASSUME NEW s \in Requests, RequestAgrees(s), UNCHANGED rows,
           pc'[s] = pc[s], ask'[s] = ask[s], call'[s] = call[s],
           reply'[s] = reply[s], answer'[s] = answer[s],
           s \in held' <=> s \in held, s \in carried' <=> s \in carried,
           s \in allowed' <=> s \in allowed, s \in denied' <=> s \in denied,
           s \in foreign' <=> s \in foreign
    PROVE  RequestAgrees(s)'
<1>1. WitnessAgrees(s)'
  BY DEF RequestAgrees, WitnessAgrees, InProgress, NeedsUser, Permits
<1>2. ActsAgree(s)'
  BY DEF RequestAgrees, ActsAgree, Authorised, NeedsUser
<1>3. ConnectionAgrees(s)'
  BY DEF RequestAgrees, ConnectionAgrees, NeedsUser
<1>4. CallAgrees(s)'
  BY DEF RequestAgrees, CallAgrees, ReplyIsTrue
<1>5. AnswerAgrees(s)'
  BY DEF RequestAgrees, AnswerAgrees, NeedsUser
<1>6. PathAgrees(s)'
  BY DEF RequestAgrees, PathAgrees, NeedsUser
<1> QED
  BY <1>1, <1>2, <1>3, <1>4, <1>5, <1>6 DEF RequestAgrees

(* A step of r that keeps the types and what is said of r. *)
LEMMA StepOfOne ==
    ASSUME Invariant, NEW r \in Requests, UNCHANGED rows, TypeOK',
           RequestAgrees(r)', Cardinality(held') <= PoolSize,
           \A s \in Requests \ {r} :
              /\ pc'[s] = pc[s] /\ ask'[s] = ask[s] /\ call'[s] = call[s]
              /\ reply'[s] = reply[s] /\ answer'[s] = answer[s]
              /\ (s \in held' <=> s \in held) /\ (s \in carried' <=> s \in carried)
              /\ (s \in allowed' <=> s \in allowed) /\ (s \in denied' <=> s \in denied)
              /\ (s \in foreign' <=> s \in foreign)
    PROVE  Invariant'
<1>1. ASSUME NEW s \in Requests PROVE RequestAgrees(s)'
  <2>1. CASE s = r
    BY <2>1
  <2>2. CASE s # r
    BY <2>2, OthersAgree DEF Invariant
  <2> QED
    BY <2>1, <2>2
<1> QED
  BY <1>1 DEF Invariant

(* The pool never gives out more connections than it has. *)
LEMMA HeldBound ==
    ASSUME Invariant, NEW r \in Requests,
           \/ held' \subseteq held
           \/ held' = held \cup {r} /\ Cardinality(held) < PoolSize
    PROVE  Cardinality(held') <= PoolSize
<1>1. IsFiniteSet(held) /\ PoolSize \in Nat
  BY AccessAssumption, FS_Subset DEF AccessAssumption, Invariant, TypeOK
<1>2. Cardinality(held) \in Nat /\ Cardinality(held) <= PoolSize
  BY <1>1, FS_CardinalityType DEF Invariant
<1>3. CASE held' \subseteq held
  <2>1. Cardinality(held') \in Nat /\ Cardinality(held') <= Cardinality(held)
    BY <1>1, <1>3, FS_Subset, FS_CardinalityType
  <2> QED
    BY <1>1, <1>2, <2>1
<1>4. CASE held' = held \cup {r} /\ Cardinality(held) < PoolSize
  <2>1. Cardinality(held') \in {Cardinality(held), Cardinality(held) + 1}
    BY <1>1, <1>4, FS_AddElement
  <2> QED
    BY <1>1, <1>2, <1>4, <2>1
<1> QED
  BY <1>3, <1>4

LEMMA ArriveSafety ==
    ASSUME Invariant, NEW r \in Requests, NEW a \in Asks, Arrive(r, a)
    PROVE  Invariant'
<1> USE DEF Invariant
<1>0. /\ UNCHANGED <<rows, held, reply, answer, carried, foreign>>
      /\ pc[r] = "idle" /\ ask' = [ask EXCEPT ![r] = a]
  BY DEF Arrive
<1>1. a.route \in Routes /\ a.route.call \in {"none", "read", "write"}
  BY RouteFacts DEF Asks
<1>2. /\ ask'[r] = a /\ \A s \in Requests \ {r} : ask'[s] = ask[s]
      /\ \A s \in Requests \ {r} : pc'[s] = pc[s] /\ call'[s] = call[s]
      /\ NeedsUser(a) => pc'[r] = "arrived" /\ call'[r] = call[r]
      /\ ~ NeedsUser(a) => pc'[r] = "calling" /\ call'[r] = a.route.call
  BY DEF Arrive, TypeOK
<1>3. /\ \A s \in Requests \ {r} : (s \in allowed' <=> s \in allowed)
      /\ \A s \in Requests \ {r} : (s \in denied' <=> s \in denied)
      /\ allowed' \subseteq Requests /\ denied' \subseteq Requests
      /\ NeedsUser(a) /\ Permits(rows, a) => r \in allowed'
      /\ NeedsUser(a) /\ ~ Permits(rows, a) => r \in denied'
  BY DEF Arrive, Witness, TypeOK
<1>4. TypeOK'
  <2>1. ask' \in [Requests -> Asks \cup {NoAsk}]
    BY <1>0 DEF TypeOK
  <2>2. /\ pc' \in [Requests -> {"idle", "arrived", "selecting", "calling",
                                  "relaying", "answered"}]
        /\ call' \in [Requests -> {"none", "read", "write"}]
    BY <1>1 DEF Arrive, TypeOK
  <2>3. \A s \in Requests : pc'[s] = "answered" <=> answer'[s] # 0
    BY <1>0, <1>2 DEF TypeOK
  <2> QED
    BY <1>0, <1>3, <2>1, <2>2, <2>3 DEF TypeOK
<1>5. RequestAgrees(r)
  OBVIOUS
<1>6. /\ r \notin held /\ r \notin carried /\ call[r] = "none" /\ reply[r] = NoReply
      /\ answer[r] = 0
  BY <1>0, <1>5 DEF RequestAgrees, ConnectionAgrees, CallAgrees, TypeOK
<1>7. RequestAgrees(r)'
  <2>1. WitnessAgrees(r)'
    <3>1. Permits(rows, ask[r])' <=> Permits(rows, a)
      BY <1>0, <1>2 DEF Permits
    <3>2. NeedsUser(ask[r])' <=> NeedsUser(a)
      BY <1>2 DEF NeedsUser
    <3> QED
      BY <1>3, <3>1, <3>2 DEF WitnessAgrees
  <2>2. ActsAgree(r)'
    BY <1>0, <1>2, <1>6 DEF ActsAgree, Authorised, NeedsUser
  <2>3. ConnectionAgrees(r)'
    BY <1>0, <1>2, <1>6 DEF ConnectionAgrees, NeedsUser
  <2>4. CallAgrees(r)'
    BY <1>0, <1>2, <1>6 DEF CallAgrees
  <2>5. AnswerAgrees(r)'
    BY <1>0, <1>2, <1>6 DEF AnswerAgrees
  <2>6. PathAgrees(r)'
    BY <1>2 DEF PathAgrees, NeedsUser
  <2> QED
    BY <1>2, <2>1, <2>2, <2>3, <2>4, <2>5, <2>6 DEF RequestAgrees
<1>8. Cardinality(held') <= PoolSize
  BY <1>0, HeldBound
<1> QED
  BY <1>0, <1>2, <1>3, <1>4, <1>7, <1>8, StepOfOne

LEMMA EditRowSafety ==
    ASSUME Invariant, NEW u \in Users, NEW row \in Rows, EditRow(u, row)
    PROVE  Invariant'
<1> USE DEF Invariant
<1>0. UNCHANGED <<ask, pc, held, call, reply, answer, carried, foreign>>
  BY DEF EditRow
<1>1. \A r \in Requests :
        InProgress(r) /\ NeedsUser(ask[r]) =>
            /\ Permits(rows', ask[r]) => r \in allowed'
            /\ ~ Permits(rows', ask[r]) => r \in denied'
  BY DEF EditRow, Permits
<1>2. /\ allowed \subseteq allowed' /\ denied \subseteq denied'
      /\ allowed' \subseteq Requests /\ denied' \subseteq Requests
  BY DEF EditRow, TypeOK
<1>3. TypeOK'
  <2>1. rows' \in [Users -> Rows]
    BY DEF EditRow, TypeOK
  <2> QED
    BY <1>0, <1>2, <2>1 DEF TypeOK
<1>4. ASSUME NEW r \in Requests PROVE RequestAgrees(r)'
  <2>0. RequestAgrees(r)
    OBVIOUS
  <2>1. WitnessAgrees(r)'
    <3>1. /\ Permits(rows, ask[r])' <=> Permits(rows', ask[r])
          /\ NeedsUser(ask[r])' <=> NeedsUser(ask[r])
          /\ InProgress(r)' <=> InProgress(r)
      BY <1>0 DEF Permits, NeedsUser, InProgress
    <3> QED
      BY <1>1, <3>1 DEF WitnessAgrees
  <2>2. ActsAgree(r)'
    BY <1>0, <1>2, <2>0 DEF RequestAgrees, ActsAgree, Authorised, NeedsUser
  <2>3. ConnectionAgrees(r)'
    BY <1>0, <2>0 DEF RequestAgrees, ConnectionAgrees, NeedsUser
  <2>4. CallAgrees(r)'
    BY <1>0, <2>0 DEF RequestAgrees, CallAgrees, ReplyIsTrue
  <2>5. AnswerAgrees(r)'
    BY <1>0, <1>2, <2>0 DEF RequestAgrees, AnswerAgrees, NeedsUser
  <2>6. PathAgrees(r)'
    BY <1>0, <2>0 DEF RequestAgrees, PathAgrees, NeedsUser
  <2> QED
    BY <1>0, <2>0, <2>1, <2>2, <2>3, <2>4, <2>5, <2>6 DEF RequestAgrees
<1> QED
  BY <1>0, <1>3, <1>4

(* The answers r may be given: they are true, and r has the right to them. *)
MayBeTold(r, http) ==
    /\ http \in 101..599
    /\ http \in 101..399 => Authorised(r)
    /\ ask[r].route.call = "write" =>
          /\ http \in 400..499 => r \notin carried /\ call[r] = "none"
          /\ http \in {201, 202} /\ r \notin foreign => r \in carried
    /\ http = 401 /\ 401 \notin PageCodes =>
          NeedsUser(ask[r]) /\ (r \in denied \/ ~ ask[r].good)

(* Only a read that nobody awaits any more is forgotten. *)
CallIsKept(r) ==
    UNCHANGED call \/ (call[r] = "read" /\ call' = [call EXCEPT ![r] = "none"])

LEMMA AnswerSafety ==
    ASSUME Invariant, NEW r \in Requests, NEW http, Answer(r, http),
           InProgress(r), CallIsKept(r), MayBeTold(r, http)
    PROVE  Invariant'
<1> USE DEF Invariant
<1>0. UNCHANGED <<rows, ask, carried, allowed, denied, foreign>> /\ held' = held \ {r}
  BY DEF Answer, history
<1>1. /\ pc'[r] = "answered" /\ answer'[r] = http /\ reply'[r] = NoReply
      /\ \A s \in Requests \ {r} :
            pc'[s] = pc[s] /\ answer'[s] = answer[s] /\ reply'[s] = reply[s]
  BY DEF Answer, TypeOK
<1>6. /\ call'[r] = call[r] \/ (call[r] = "read" /\ call'[r] = "none")
      /\ \A s \in Requests \ {r} : call'[s] = call[s]
      /\ call' \in [Requests -> {"none", "read", "write"}]
  BY DEF CallIsKept, TypeOK
<1>7. http \in 101..599
  BY DEF MayBeTold
<1>2. TypeOK'
  <2>1. pc' \in [Requests -> {"idle", "arrived", "selecting", "calling",
                              "relaying", "answered"}]
    BY DEF Answer, TypeOK
  <2>2. answer' \in [Requests -> {0} \cup 101..599]
    BY <1>7 DEF Answer, TypeOK
  <2>3. reply' \in [Requests -> Replies \cup {NoReply}]
    BY DEF Answer, TypeOK
  <2>4. held' \subseteq Requests
    BY <1>0 DEF TypeOK
  <2>5. \A s \in Requests : pc'[s] = "answered" <=> answer'[s] # 0
    BY <1>1, <1>7 DEF TypeOK
  <2> QED
    BY <1>0, <1>6, <2>1, <2>2, <2>3, <2>4, <2>5 DEF TypeOK
<1>3. RequestAgrees(r)
  OBVIOUS
<1>4. RequestAgrees(r)'
  <2>1. WitnessAgrees(r)'
    BY <1>1 DEF WitnessAgrees, InProgress
  <2>2. ActsAgree(r)'
    <3>1. Authorised(r)' <=> Authorised(r)
      BY <1>0 DEF Authorised, NeedsUser
    <3> QED
      BY <1>0, <1>1, <1>3, <1>6, <3>1 DEF RequestAgrees, ActsAgree, MayBeTold
  <2>3. ConnectionAgrees(r)'
    BY <1>0, <1>1 DEF ConnectionAgrees
  <2>4. CallAgrees(r)'
    BY <1>0, <1>1, <1>3, <1>6 DEF RequestAgrees, CallAgrees
  <2>5. AnswerAgrees(r)'
    BY <1>0, <1>1, <1>6 DEF AnswerAgrees, NeedsUser, MayBeTold
  <2> QED
    BY <1>0, <1>1, <1>3, <2>1, <2>2, <2>3, <2>4, <2>5
       DEF RequestAgrees, PathAgrees, InProgress
<1>5. Cardinality(held') <= PoolSize
  BY <1>0, HeldBound
<1>8. \A s \in Requests \ {r} : s \in held' <=> s \in held
  BY <1>0
<1> QED
  BY <1>0, <1>1, <1>2, <1>4, <1>5, <1>6, <1>8, StepOfOne

(* A request that has not got past its dependencies has done nothing. *)
LEMMA NothingYet ==
    ASSUME Invariant, NEW r \in Requests,
           pc[r] \in {"arrived", "selecting", "relaying"}
    PROVE  /\ InProgress(r) /\ ask[r] \in Asks
           /\ call[r] = "none" /\ r \notin carried /\ reply[r] = NoReply /\ answer[r] = 0
<1>1. RequestAgrees(r)
  BY DEF Invariant
<1> QED
  BY <1>1 DEF RequestAgrees, CallAgrees, InProgress, Invariant, TypeOK

(* 401, 403 and the pool's 500, before anything has been done. *)
LEMMA RefusalSafety ==
    ASSUME Invariant, NEW r \in Requests,
           RefusesToken(r) \/ PoolTimesOut(r) \/ RefusesUser(r) \/ RefusesRole(r)
    PROVE  Invariant'
<1>1. /\ pc[r] \in {"arrived", "selecting"}
      /\ UNCHANGED call
  BY DEF RefusesToken, PoolTimesOut, RefusesUser, RefusesRole, Takes
<1>2. /\ InProgress(r) /\ ask[r] \in Asks /\ call[r] = "none" /\ r \notin carried
  BY <1>1, NothingYet
<1>3. NeedsUser(ask[r])
  <2>1. RequestAgrees(r)
    BY DEF Invariant
  <2> QED
    BY <1>1, <2>1 DEF RequestAgrees, PathAgrees
<1>4. ASSUME RefusesUser(r), ask[r].good PROVE r \in denied
  <2>1. ~ Permits(rows, ask[r])
    BY <1>4 DEF RefusesUser, Permits
  <2>2. WitnessAgrees(r)
    BY DEF Invariant, RequestAgrees
  <2> QED
    BY <1>2, <1>3, <2>1, <2>2 DEF WitnessAgrees
<1>5. PICK http \in {401, 403, 500} :
        /\ Answer(r, http)
        /\ http = 401 => r \in denied \/ ~ ask[r].good
  BY <1>4 DEF RefusesToken, PoolTimesOut, RefusesUser, RefusesRole, refusal
<1>6. http \in 101..599 /\ http \notin 101..399 /\ http \notin {201, 202}
  BY <1>5
<1>7. MayBeTold(r, http)
  BY <1>2, <1>3, <1>5, <1>6 DEF MayBeTold
<1>8. CallIsKept(r)
  BY <1>1 DEF CallIsKept
<1> QED
  BY <1>2, <1>5, <1>7, <1>8, AnswerSafety

LEMMA CheckOutSafety ==
    ASSUME Invariant, NEW r \in Requests, CheckOut(r)
    PROVE  Invariant'
<1> USE DEF Invariant
<1>0. /\ UNCHANGED <<rows, ask, call, reply, answer, carried, allowed, denied,
                     foreign>>
      /\ held' = held \cup {r} /\ pc[r] = "arrived" /\ Cardinality(held) < PoolSize
  BY DEF CheckOut, Takes, history
<1>1. pc'[r] = "selecting" /\ \A s \in Requests \ {r} : pc'[s] = pc[s]
  BY DEF CheckOut, TypeOK
<1>2. TypeOK'
  <2>1. pc' \in [Requests -> {"idle", "arrived", "selecting", "calling",
                              "relaying", "answered"}]
    BY DEF CheckOut, TypeOK
  <2>2. \A s \in Requests : pc'[s] = "answered" <=> answer'[s] # 0
    BY <1>0, <1>1 DEF TypeOK
  <2> QED
    BY <1>0, <2>1, <2>2 DEF TypeOK
<1>3. RequestAgrees(r)
  OBVIOUS
<1>4. /\ call[r] = "none" /\ r \notin carried /\ reply[r] = NoReply /\ answer[r] = 0
      /\ InProgress(r)
  BY <1>0, NothingYet
<1>5. RequestAgrees(r)'
  <2>1. WitnessAgrees(r)'
    BY <1>0, <1>3, <1>4 DEF RequestAgrees, WitnessAgrees, NeedsUser, Permits
  <2>2. ActsAgree(r)'
    BY <1>0, <1>1, <1>4 DEF ActsAgree
  <2>3. ConnectionAgrees(r)'
    BY <1>0, <1>1 DEF ConnectionAgrees
  <2>4. CallAgrees(r)'
    BY <1>0, <1>1, <1>4 DEF CallAgrees
  <2>5. AnswerAgrees(r)'
    BY <1>0, <1>1, <1>4 DEF AnswerAgrees
  <2>6. PathAgrees(r)'
    BY <1>0, <1>1, <1>3 DEF RequestAgrees, PathAgrees, NeedsUser
  <2> QED
    BY <1>0, <1>1, <1>3, <2>1, <2>2, <2>3, <2>4, <2>5, <2>6 DEF RequestAgrees
<1>6. Cardinality(held') <= PoolSize
  BY <1>0, HeldBound
<1> QED
  BY <1>0, <1>1, <1>2, <1>5, <1>6, StepOfOne

(* Who gets past require_role is authorised, whatever the row becomes. *)
LEMMA AdmitsSafety ==
    ASSUME Invariant, NEW r \in Requests, Admits(r)
    PROVE  Invariant'
<1> USE DEF Invariant
<1>0. pc[r] = "selecting" /\ ask[r].good /\ Permits(rows, ask[r]) /\ Proceeds(r)
  BY DEF Admits
<1>1. RequestAgrees(r)
  OBVIOUS
<1>2. /\ InProgress(r) /\ ask[r] \in Asks
      /\ call[r] = "none" /\ r \notin carried /\ reply[r] = NoReply /\ answer[r] = 0
  BY <1>0, NothingYet
<1>3. NeedsUser(ask[r]) /\ r \in held
  BY <1>0, <1>1 DEF RequestAgrees, PathAgrees, ConnectionAgrees
<1>4. Authorised(r)
  BY <1>0, <1>1, <1>2, <1>3 DEF RequestAgrees, WitnessAgrees, Authorised
<1>5. ASSUME NEW http \in {200, 201, 409}, Answer(r, http), UNCHANGED call,
             ask[r].route.call = "none"
      PROVE  Invariant'
  <2>1. Answer(r, http) /\ CallIsKept(r)
    BY <1>5 DEF CallIsKept
  <2>2. http \in 101..599 /\ http # 401
    OBVIOUS
  <2>3. MayBeTold(r, http)
    BY <1>4, <1>5, <2>2 DEF MayBeTold
  <2> QED
    BY <1>2, <2>1, <2>3, AnswerSafety
<1>6. ASSUME NEW at \in {"relaying", "calling"}, pc' = [pc EXCEPT ![r] = at],
             UNCHANGED <<rows, ask, held, reply, answer, carried, history>>,
             \/ UNCHANGED call
             \/ at = "calling" /\ call' = [call EXCEPT ![r] = ask[r].route.call]
      PROVE  Invariant'
  <2>0. UNCHANGED <<rows, ask, held, reply, answer, carried, allowed, denied, foreign>>
    BY <1>6 DEF history
  <2>1. ask[r].route.call \in {"none", "read", "write"}
    BY <1>2, RouteFacts DEF Asks
  <2>2. /\ pc'[r] = at /\ (call'[r] = "none" \/ (at = "calling" /\ call'[r] = ask[r].route.call))
        /\ \A s \in Requests \ {r} : pc'[s] = pc[s] /\ call'[s] = call[s]
    BY <1>2, <1>6 DEF TypeOK
  <2>3. TypeOK'
    <3>1. pc' \in [Requests -> {"idle", "arrived", "selecting", "calling",
                                "relaying", "answered"}]
      BY <1>6 DEF TypeOK
    <3>2. call' \in [Requests -> {"none", "read", "write"}]
      BY <1>6, <2>1 DEF TypeOK
    <3>3. \A s \in Requests : pc'[s] = "answered" <=> answer'[s] # 0
      BY <1>2, <2>0, <2>2 DEF TypeOK
    <3> QED
      BY <2>0, <3>1, <3>2, <3>3 DEF TypeOK
  <2>4. RequestAgrees(r)'
    <3>1. WitnessAgrees(r)'
      BY <1>1, <1>2, <2>0 DEF RequestAgrees, WitnessAgrees, NeedsUser, Permits
    <3>2. ActsAgree(r)'
      BY <1>4, <2>0 DEF ActsAgree, Authorised, NeedsUser
    <3>3. ConnectionAgrees(r)'
      BY <1>3, <2>0, <2>2 DEF ConnectionAgrees
    <3>4. CallAgrees(r)'
      BY <1>2, <2>0, <2>2 DEF CallAgrees
    <3>5. AnswerAgrees(r)'
      BY <1>2, <2>0, <2>2 DEF AnswerAgrees
    <3>6. PathAgrees(r)'
      BY <1>3, <2>0 DEF PathAgrees, NeedsUser
    <3> QED
      BY <1>2, <2>0, <3>1, <3>2, <3>3, <3>4, <3>5, <3>6 DEF RequestAgrees
  <2>5. Cardinality(held') <= PoolSize
    BY <2>0
  <2> QED
    BY <2>0, <2>2, <2>3, <2>4, <2>5, StepOfOne
<1>7. CASE ask[r].route.form = "session"
  BY <1>0, <1>6, <1>7 DEF Proceeds
<1>8. CASE ask[r].route.form # "session" /\ ask[r].route.call = "none"
  <2>1. PICK http \in localAnswers(ask[r].route.form) : Answer(r, http) /\ UNCHANGED call
    BY <1>0, <1>8 DEF Proceeds
  <2>2. http \in {200, 201, 409}
    BY DEF localAnswers
  <2> QED
    BY <1>5, <1>8, <2>1, <2>2
<1>9. CASE ask[r].route.form # "session" /\ ask[r].route.call # "none"
  BY <1>0, <1>6, <1>9 DEF Proceeds
<1> QED
  BY <1>7, <1>8, <1>9

(* What the handler makes of a reply is true, and so is what it makes of a *)
(* lost one.                                                               *)
LEMMA ResumeSafety ==
    ASSUME Invariant, NEW r \in Requests, NEW rp, SoundReply(rp),
           pc[r] = "calling", Resume(r, request(rp)),
           \/ rp.kind \in {"transport", "timeout"}
           \/ rp = reply[r] /\ reply[r] # NoReply
    PROVE  Invariant'
<1> DEFINE form == ask[r].route.form
           http == answerTo(form, request(rp))
<1>1. RequestAgrees(r)
  BY DEF Invariant
<1>2. InProgress(r) /\ ask[r] \in Asks /\ Authorised(r)
  BY <1>1 DEF RequestAgrees, ActsAgree, InProgress
<1>3. /\ form \in Forms
      /\ ask[r].route.call = "write" => form \in {"reference", "created"}
      /\ ~ NeedsUser(ask[r]) => form = "health"
  BY <1>2, RouteFacts DEF Asks, NeedsUser
<1>4. /\ http \in 200..599
      /\ http = 401 => 401 \in PageCodes
      /\ form \in {"reference", "created"} =>
            /\ http \in 400..499 =>
                  rp.kind = "error" \/ (rp.kind = "malformed" /\ rp.code \in 400..499)
            /\ http \in {201, 202} => rp.kind \notin {"error", "transport", "timeout"}
  <2> HIDE DEF form
  <2> QED
    BY <1>3, AnswerFacts
<1>5. PICK status : status = http /\ Answer(r, status)
  BY DEF Resume, Answer
<1>6. CallIsKept(r)
  BY DEF Resume, CallIsKept
<1>7. ask[r].route.call = "write" =>
        /\ http \in 400..499 => r \notin carried /\ call[r] = "none"
        /\ http \in {201, 202} /\ r \notin foreign => r \in carried
  <2> HIDE DEF http, form
  <2>1. SUFFICES ASSUME ask[r].route.call = "write"
                 PROVE  /\ http \in 400..499 => r \notin carried /\ call[r] = "none"
                        /\ http \in {201, 202} /\ r \notin foreign => r \in carried
    OBVIOUS
  <2>2. CASE rp.kind \in {"transport", "timeout"}
    BY <1>3, <1>4, <2>1, <2>2
  <2>3. CASE rp = reply[r] /\ reply[r] # NoReply
    <3>1. ReplyIsTrue(r) /\ call[r] = "none"
      BY <1>1, <2>3 DEF RequestAgrees, CallAgrees
    <3> QED
      BY <1>3, <1>4, <2>1, <2>3, <3>1 DEF ReplyIsTrue
  <2> QED
    BY <2>2, <2>3
<1> HIDE DEF http, form
<1>8. MayBeTold(r, status)
  BY <1>2, <1>4, <1>5, <1>7 DEF MayBeTold
<1> QED
  BY <1>2, <1>5, <1>6, <1>8, AnswerSafety

LEMMA DeliverSafety ==
    ASSUME Invariant, NEW r \in Requests,
           Deliver(r) \/ Timeout(r) \/ ConnectionFails(r)
    PROVE  Invariant'
<1>1. CASE Deliver(r)
  <2>1. pc[r] = "calling" /\ SoundReply(reply[r]) /\ reply[r] # NoReply
    BY <1>1 DEF Deliver, Invariant, RequestAgrees, CallAgrees
  <2> DEFINE rp == reply[r]
  <2>2. Resume(r, request(rp)) /\ rp = reply[r] /\ SoundReply(rp)
    BY <1>1, <2>1 DEF Deliver
  <2> HIDE DEF rp
  <2> QED
    BY <2>1, <2>2, ResumeSafety
<1>2. ASSUME NEW kind \in {"transport", "timeout"}, pc[r] = "calling",
             Resume(r, request(Plain(kind)))
      PROVE  Invariant'
  <2> DEFINE rp == Plain(kind)
  <2>1. SoundReply(rp) /\ rp.kind = kind
    <3>1. kind \in ReplyKinds \ {"error", "malformed"}
      BY DEF ReplyKinds
    <3> QED
      BY <3>1, SoundReplies DEF Plain, Reply
  <2>2. Resume(r, request(rp))
    BY <1>2
  <2> HIDE DEF rp
  <2> QED
    BY <1>2, <2>1, <2>2, ResumeSafety
<1> QED
  BY <1>1, <1>2 DEF Timeout, ConnectionFails

LEMMA SessionEndsSafety ==
    ASSUME Invariant, NEW r \in Requests, SessionEnds(r)
    PROVE  Invariant'
<1>1. pc[r] = "relaying" /\ UNCHANGED call
  BY DEF SessionEnds
<1>2. RequestAgrees(r)
  BY DEF Invariant
<1>3. InProgress(r) /\ r \notin carried /\ call[r] = "none"
  BY <1>1, NothingYet
<1>4. Authorised(r)
  BY <1>1, <1>2 DEF RequestAgrees, ActsAgree
<1> DEFINE http == 101
<1>5. Answer(r, http) /\ CallIsKept(r)
  BY <1>1 DEF SessionEnds, CallIsKept
<1>6. MayBeTold(r, http)
  BY <1>4 DEF MayBeTold
<1> HIDE DEF http
<1> QED
  BY <1>3, <1>5, <1>6, AnswerSafety

(* LXD replies: with what the reply says, if anybody still waits for it.   *)
LEMMA RespondSafety ==
    ASSUME Invariant, NEW r \in Requests, NEW rp, SoundReply(rp), Respond(r, rp),
           call[r] # "none",
           carried' = carried \/ (call[r] = "write" /\ carried' = carried \cup {r}),
           rp.kind = "error" \/ (rp.kind = "malformed" /\ rp.code \in 400..499)
              => carried' = carried,
           rp.kind \notin {"error", "malformed", "empty"} /\ call[r] = "write"
              => r \in carried'
    PROVE  Invariant'
<1> USE DEF Invariant
<1>0. UNCHANGED <<rows, ask, pc, held, answer, allowed, denied>>
  BY DEF Respond
<1>1. RequestAgrees(r)
  OBVIOUS
<1>2. /\ pc[r] \in {"calling", "answered"} /\ call[r] = ask[r].route.call
      /\ r \notin carried /\ reply[r] = NoReply
  BY <1>1 DEF RequestAgrees, CallAgrees
<1>3. /\ call'[r] = "none"
      /\ pc[r] = "calling" => reply'[r] = rp
      /\ pc[r] # "calling" => reply'[r] = reply[r]
      /\ \A s \in Requests \ {r} : call'[s] = call[s] /\ reply'[s] = reply[s]
  BY DEF Respond, TypeOK
<1>4. \A s \in Requests \ {r} : s \in carried' <=> s \in carried
  OBVIOUS
<1>8. /\ pc[r] = "calling" /\ rp.kind \in {"malformed", "empty"} => r \in foreign'
      /\ foreign \subseteq foreign' /\ foreign' \subseteq Requests
      /\ \A s \in Requests \ {r} : s \in foreign' <=> s \in foreign
  BY DEF Respond, TypeOK
<1>5. TypeOK'
  <2>1. call' \in [Requests -> {"none", "read", "write"}]
    BY DEF Respond, TypeOK
  <2>2. reply' \in [Requests -> Replies \cup {NoReply}]
    BY DEF Respond, TypeOK, SoundReply
  <2>3. carried' \subseteq Requests
    BY DEF TypeOK
  <2> QED
    BY <1>0, <1>8, <2>1, <2>2, <2>3 DEF TypeOK
<1>6. RequestAgrees(r)'
  <2>1. WitnessAgrees(r)'
    BY <1>0, <1>1 DEF RequestAgrees, WitnessAgrees, InProgress, NeedsUser, Permits
  <2>2. ActsAgree(r)'
    <3>1. Authorised(r)
      BY <1>1 DEF RequestAgrees, ActsAgree
    <3> QED
      BY <1>0, <3>1 DEF ActsAgree, Authorised, NeedsUser
  <2>3. ConnectionAgrees(r)'
    BY <1>0, <1>1 DEF RequestAgrees, ConnectionAgrees, NeedsUser
  <2>4. CallAgrees(r)'
    <3>1. ASSUME reply'[r] # NoReply
          PROVE  pc'[r] = "calling" /\ SoundReply(reply'[r]) /\ ReplyIsTrue(r)'
      <4>1. pc[r] = "calling" /\ reply'[r] = rp
        BY <1>2, <1>3, <3>1
      <4>2. ReplyIsTrue(r)'
        BY <1>0, <1>2, <1>8, <4>1 DEF ReplyIsTrue
      <4> QED
        BY <1>0, <4>1, <4>2
    <3>2. SoundReply(reply[r])' <=> SoundReply(reply'[r])
      BY DEF SoundReply
    <3> QED
      BY <1>0, <1>2, <1>3, <3>1, <3>2 DEF CallAgrees
  <2>5. AnswerAgrees(r)'
    <3>1. pc[r] = "answered" /\ ask[r].route.call = "write" => answer[r] \notin 400..499
      BY <1>1, <1>2 DEF RequestAgrees, AnswerAgrees
    <3>2. carried \subseteq carried'
      OBVIOUS
    <3> QED
      BY <1>0, <1>1, <1>8, <3>1, <3>2 DEF RequestAgrees, AnswerAgrees, NeedsUser
  <2>6. PathAgrees(r)'
    BY <1>0, <1>1 DEF RequestAgrees, PathAgrees, NeedsUser
  <2> QED
    BY <1>0, <1>1, <2>1, <2>2, <2>3, <2>4, <2>5, <2>6 DEF RequestAgrees
<1>7. Cardinality(held') <= PoolSize
  BY <1>0
<1> QED
  BY <1>0, <1>3, <1>4, <1>5, <1>6, <1>7, <1>8, StepOfOne

LEMMA LxdSafety ==
    ASSUME Invariant, NEW r \in Requests, Lxd(r)
    PROVE  Invariant'
<1>1. ASSUME NEW rp, SoundReply(rp), Respond(r, rp), call[r] # "none",
             rp.kind \in {"error", "malformed", "empty"} \/ call[r] = "read",
             UNCHANGED carried
      PROVE  Invariant'
  <2>1. rp.kind \notin {"error", "malformed", "empty"} /\ call[r] = "write"
          => r \in carried'
    BY <1>1
  <2> QED
    BY <1>1, <2>1, RespondSafety
<1>2. ASSUME NEW rp, SoundReply(rp), Respond(r, rp), call[r] = "write",
             rp.kind = "malformed" => rp.code \notin 400..499, rp.kind # "error",
             carried' = carried \cup {r}
      PROVE  Invariant'
  <2>1. r \in carried' /\ call[r] # "none"
    BY <1>2
  <2>2. ~ (rp.kind = "error" \/ (rp.kind = "malformed" /\ rp.code \in 400..499))
    BY <1>2
  <2> QED
    BY <1>2, <2>1, <2>2, RespondSafety
<1>3. CASE LxdReads(r)
  <2>1. PICK kind \in {"object", "null", "empty"} : Respond(r, Plain(kind))
    BY <1>3 DEF LxdReads
  <2>2. SoundReply(Plain(kind))
    BY SoundReplies DEF ReplyKinds
  <2> QED
    BY <1>1, <1>3, <2>1, <2>2 DEF LxdReads
<1>4. CASE LxdCarriesOut(r)
  <2>0. call[r] = "write" /\ carried' = carried \cup {r}
    BY <1>4 DEF LxdCarriesOut
  <2>1. CASE \E o \in OpIds : Respond(r, Reply("operation", 0, o, "Running"))
    <3>1. PICK o \in OpIds : Respond(r, Reply("operation", 0, o, "Running"))
      BY <2>1
    <3> DEFINE rp == Reply("operation", 0, o, "Running")
    <3>2. SoundReply(rp) /\ rp.kind = "operation" /\ Respond(r, rp)
      BY <3>1, SoundReplies DEF Reply
    <3> HIDE DEF rp
    <3> QED
      BY <1>2, <2>0, <3>2
  <2>2. ASSUME NEW kind \in {"null", "empty"}, Respond(r, Plain(kind))
        PROVE  Invariant'
    <3> DEFINE rp == Plain(kind)
    <3>1. SoundReply(rp) /\ rp.kind = kind /\ Respond(r, rp)
      BY <2>2, SoundReplies DEF Plain, Reply, ReplyKinds
    <3> HIDE DEF rp
    <3> QED
      BY <1>2, <2>0, <3>1
  <2>3. CASE \E code \in PageCodes \ (400..499) : Respond(r, PageReply(code))
    <3>1. PICK code \in PageCodes \ (400..499) : Respond(r, PageReply(code))
      BY <2>3
    <3> DEFINE rp == PageReply(code)
    <3>2. SoundReply(rp) /\ rp.kind = "malformed" /\ rp.code = code /\ Respond(r, rp)
      BY <3>1, SoundReplies DEF PageReply, Reply
    <3> HIDE DEF rp
    <3> QED
      BY <1>2, <2>0, <3>1, <3>2
  <2> QED
    BY <1>4, <2>1, <2>2, <2>3 DEF LxdCarriesOut
<1>5. CASE LxdRejects(r)
  <2>0. call[r] # "none" /\ UNCHANGED carried
    BY <1>5 DEF LxdRejects
  <2>1. CASE \E code \in ErrorCodes : Respond(r, ErrorReply(code))
    <3>1. PICK code \in ErrorCodes : Respond(r, ErrorReply(code))
      BY <2>1
    <3>2. SoundReply(ErrorReply(code)) /\ ErrorReply(code).kind = "error"
      BY SoundReplies DEF ErrorReply, Reply
    <3> QED
      BY <1>1, <2>0, <3>1, <3>2
  <2>2. CASE \E code \in PageCodes : Respond(r, PageReply(code))
    <3>1. PICK code \in PageCodes : Respond(r, PageReply(code))
      BY <2>2
    <3>2. SoundReply(PageReply(code)) /\ PageReply(code).kind = "malformed"
      BY SoundReplies DEF PageReply, Reply
    <3> QED
      BY <1>1, <2>0, <3>1, <3>2
  <2>3. CASE Respond(r, Plain("empty"))
    <3>1. SoundReply(Plain("empty")) /\ Plain("empty").kind = "empty"
      BY SoundReplies DEF Plain, Reply, ReplyKinds
    <3> QED
      BY <1>1, <2>0, <2>3, <3>1
  <2> QED
    BY <1>5, <2>1, <2>2, <2>3 DEF LxdRejects
<1> QED
  BY <1>3, <1>4, <1>5 DEF Lxd

LEMMA StutterSafety ==
    ASSUME Invariant, UNCHANGED vars
    PROVE  Invariant'
<1>0. UNCHANGED <<rows, ask, pc, held, call, reply, answer, carried, allowed, denied,
                  foreign>>
  BY DEF vars, history
<1>1. TypeOK'
  BY <1>0 DEF Invariant, TypeOK
<1>2. ASSUME NEW r \in Requests PROVE RequestAgrees(r)'
  BY <1>0, OthersAgree DEF Invariant
<1> QED
  BY <1>0, <1>1, <1>2 DEF Invariant

LEMMA NextSafety ==
    ASSUME Invariant, [Next]_vars
    PROVE  Invariant'
<1>1. ASSUME NEW r \in Requests, NEW a \in Asks, Arrive(r, a) PROVE Invariant'
  BY <1>1, ArriveSafety
<1>2. ASSUME NEW r \in Requests, Gateway(r) PROVE Invariant'
  BY <1>2, RefusalSafety, CheckOutSafety, AdmitsSafety, DeliverSafety DEF Gateway
<1>3. ASSUME NEW r \in Requests, SessionEnds(r) PROVE Invariant'
  BY <1>3, SessionEndsSafety
<1>4. ASSUME NEW r \in Requests, Lxd(r) PROVE Invariant'
  BY <1>4, LxdSafety
<1>5. ASSUME NEW u \in Users, NEW row \in Rows, EditRow(u, row) PROVE Invariant'
  BY <1>5, EditRowSafety
<1>6. CASE UNCHANGED vars
  BY <1>6, StutterSafety
<1> QED
  BY <1>1, <1>2, <1>3, <1>4, <1>5, <1>6 DEF Next

-----------------------------------------------------------------------------
(* What holds of every request *)

(* The inductive invariant: what has been noted of each request's rights,  *)
(* its connection, its call, its reply and its answer agree.               *)
THEOREM Safety == Spec => []Invariant
<1>1. Init => Invariant
  BY InitSafety
<1>2. Invariant /\ [Next]_vars => Invariant'
  BY NextSafety
<1> QED
  BY <1>1, <1>2, PTL DEF Spec

(* Every variable keeps its type, and just the answered requests have an   *)
(* HTTP status.                                                            *)
THEOREM TypeCorrect == Spec => []TypeOK
<1>1. Invariant => TypeOK
  BY DEF Invariant
<1> QED
  BY <1>1, Safety, PTL

(* get_current_user and require_role let nothing past them that a row has  *)
(* not allowed, however rows change and whenever LXD acts.                 *)
THEOREM ActsAreAuthorised == Spec => []OnlyAuthorisedRequestsAct
<1>1. Invariant => OnlyAuthorisedRequestsAct
  BY DEF Invariant, RequestAgrees, ActsAgree, OnlyAuthorisedRequestsAct
<1> QED
  BY <1>1, Safety, PTL

(* get_db's session takes at most one connection, of those there are, and  *)
(* returns it on every way out of the handler.                             *)
THEOREM ConnectionsComeBack == Spec => []ConnectionsAreReturned
<1>1. Invariant => ConnectionsAreReturned
  BY DEF Invariant, TypeOK, RequestAgrees, ConnectionAgrees, ConnectionsAreReturned
<1> QED
  BY <1>1, Safety, PTL

(* A 401 is the gateway's own, unless a page before LXD came with it: then *)
(* _lxd_err_to_http passes it on.                                          *)
THEOREM LogInAgainIsOwn ==
    ASSUME 401 \notin PageCodes
    PROVE  Spec => []LogInAgainIsJustified
<1>1. Invariant => LogInAgainIsJustified
  BY DEF Invariant, RequestAgrees, AnswerAgrees, LogInAgainIsJustified
<1> QED
  BY <1>1, Safety, PTL

(* A 4xx says that a write has not been and will not be carried out, and   *)
(* 201 and 202 that it has, however the replies come, late ones included,  *)
(* unless the one that came was a page or had no body.                     *)
THEOREM WritesAreAnsweredTruly == Spec => []AnswersToWritesAreTrue
<1>1. Invariant => AnswersToWritesAreTrue
  BY DEF Invariant, RequestAgrees, AnswerAgrees, AnswersToWritesAreTrue
<1> QED
  BY <1>1, Safety, PTL

=============================================================================
