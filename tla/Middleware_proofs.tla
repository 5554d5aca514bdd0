--------------------------- MODULE Middleware_proofs ---------------------------
(***************************************************************************)
(* Proofs about Middleware, for every set of requests, workers and         *)
(* headers.                                                                *)
(***************************************************************************)
EXTENDS Middleware, TLAPS

(* The contexts of a request that has arrived hold its id: the inner one   *)
(* always, the outer one until dispatch is left.                           *)
ContextsAgree ==
    \A r \in Requests :
        /\ pc[r] = "idle" => rid[r] = NoId /\ inner[r] = NoId
        /\ pc[r] # "idle" =>
              /\ ask[r] \in Asks /\ worker[r] \in Workers
              /\ rid[r] = IF ask[r].form = "socket" THEN NoId
                          ELSE request_id(r, ask[r], worker[r])
              /\ inner[r] = rid[r]
        /\ pc[r] \in {"failing", "answered"} =>
              ask[r].form # "socket" /\ outer[r] = NoId
        /\ pc[r] # "answered" => answer[r] = NoAnswer

(* Only requests that have arrived write to the log. *)
LogAgrees == \A line \in log : pc[line.by] # "idle"

(* What the properties need: answers and lines are made from the contexts, *)
(* and neither these nor the id of a request change afterwards.            *)
Invariant ==
    /\ TypeOK
    /\ ContextsAgree
    /\ LogAgrees
    /\ AnswersTellTheirId
    /\ LinesCarryTheirId

LEMMA InitSafety == Init => Invariant
BY MiddlewareAssumption
   DEF MiddlewareAssumption, Init, Invariant, TypeOK, ContextsAgree, LogAgrees,
       AnswersTellTheirId, LinesCarryTheirId, NoAnswer, Ids

(* A client's header is an id, made up or told by an answer. *)
LEMMA KnownIdsAreIds == TypeOK => KnownIds \subseteq Ids \cup {NoId}
BY DEF TypeOK, KnownIds, Ids

LEMMA ArriveSafety ==
    ASSUME Invariant, NEW r \in Requests, NEW a \in Asks, NEW w \in Workers,
           Arrive(r, a, w)
    PROVE  Invariant'
<1> DEFINE id == request_id(r, a, w)
<1>1. id \in Ids \cup {NoId}
  BY DEF request_id, Asks, Ids
<1>2. /\ ask' \in [Requests -> Asks \cup {NoAsk}]
      /\ worker' \in [Requests -> Workers \cup {NoWorker}]
      /\ pc' \in [Requests -> {"idle", "handling", "failing", "answered", "over",
                               "killed"}]
      /\ \A s \in Requests : pc'[s] = "answered" <=> answer'[s].status # 0
  BY DEF Invariant, TypeOK, Arrive
<1>3. /\ rid' \in [Requests -> Ids \cup {NoId}]
      /\ outer' \in [Requests -> Ids \cup {NoId}]
      /\ inner' \in [Requests -> Ids \cup {NoId}]
  <2>1. CASE a.form = "socket"
    BY <2>1 DEF Invariant, TypeOK, Arrive
  <2>2. CASE a.form # "socket"
    <3>1. /\ rid'   = [rid EXCEPT ![r] = id]
          /\ outer' = [outer EXCEPT ![r] = id]
          /\ inner' = [inner EXCEPT ![r] = id]
      BY <2>2 DEF Arrive, SetContext
    <3> QED
      BY <1>1, <3>1 DEF Invariant, TypeOK
  <2> QED
    BY <2>1, <2>2
<1>4. TypeOK'
  BY <1>2, <1>3 DEF Invariant, TypeOK, Arrive
<1>5. ContextsAgree'
  <2> SUFFICES ASSUME NEW s \in Requests
               PROVE  /\ pc'[s] = "idle" => rid'[s] = NoId /\ inner'[s] = NoId
                      /\ pc'[s] # "idle" =>
                            /\ ask'[s] \in Asks /\ worker'[s] \in Workers
                            /\ rid'[s] = IF ask'[s].form = "socket" THEN NoId
                                         ELSE request_id(s, ask'[s], worker'[s])
                            /\ inner'[s] = rid'[s]
                      /\ pc'[s] \in {"failing", "answered"} =>
                            ask'[s].form # "socket" /\ outer'[s] = NoId
                      /\ pc'[s] # "answered" => answer'[s] = NoAnswer
    BY DEF ContextsAgree, request_id
  <2>1. CASE s # r
    BY <2>1 DEF Invariant, TypeOK, ContextsAgree, Arrive, SetContext, request_id
  <2>2. CASE s = r
    <3>1. pc'[r] = "handling"
      BY DEF Invariant, TypeOK, Arrive
    <3>2. ask'[r] = a /\ worker'[r] = w /\ answer'[r] = NoAnswer
      BY DEF Invariant, TypeOK, ContextsAgree, Arrive
    <3>3. CASE a.form = "socket"
      BY <2>2, <3>1, <3>2, <3>3 DEF Invariant, ContextsAgree, Arrive
    <3>4. CASE a.form # "socket"
      BY <2>2, <3>1, <3>2, <3>4 DEF Invariant, TypeOK, Arrive, SetContext, request_id
    <3> QED
      BY <3>3, <3>4
  <2> QED
    BY <2>1, <2>2
<1>6. LogAgrees'
  BY DEF Invariant, TypeOK, LogAgrees, Arrive
<1>7. AnswersTellTheirId'
  BY DEF Invariant, TypeOK, AnswersTellTheirId, Arrive, SetContext
<1>8. LinesCarryTheirId'
  BY DEF Invariant, TypeOK, LogAgrees, LinesCarryTheirId, Arrive, SetContext
<1> QED
  BY <1>4, <1>5, <1>6, <1>7, <1>8 DEF Invariant

(* Any answer that is given inside of the middleware. *)
LEMMA RespondSafety ==
    ASSUME Invariant, NEW r \in Requests, NEW status \in {200, 404, 429},
           NEW body \in {rid[r], "none"}, Respond(r, status, body),
           pc[r] = "handling", ask[r].form # "socket"
    PROVE  Invariant'
<1>1. TypeOK'
  BY DEF Invariant, TypeOK, Respond, Ids
<1>2. ContextsAgree'
  BY DEF Invariant, TypeOK, ContextsAgree, Respond
<1>3. LogAgrees'
  BY DEF Invariant, TypeOK, LogAgrees, Respond
<1>4. AnswersTellTheirId'
  BY DEF Invariant, TypeOK, AnswersTellTheirId, Respond
<1>5. LinesCarryTheirId'
  BY DEF Invariant, LinesCarryTheirId, Respond
<1> QED
  BY <1>1, <1>2, <1>3, <1>4, <1>5 DEF Invariant

LEMMA LogSafety ==
    ASSUME Invariant, NEW r \in Requests, Log(r)
    PROVE  Invariant'
<1>1. TypeOK'
  BY DEF Invariant, TypeOK, Log, Line
<1>2. ContextsAgree' /\ AnswersTellTheirId'
  BY DEF Invariant, ContextsAgree, AnswersTellTheirId, Log
<1>3. LogAgrees'
  BY DEF Invariant, LogAgrees, Log, Line
<1>4. LinesCarryTheirId'
  BY DEF Invariant, ContextsAgree, LinesCarryTheirId, Log, Line
<1> QED
  BY <1>1, <1>2, <1>3, <1>4 DEF Invariant

LEMMA HandlerReturnsSafety ==
    ASSUME Invariant, NEW r \in Requests, HandlerReturns(r)
    PROVE  Invariant'
<1>1. pc[r] = "handling" /\ ask[r].form # "socket" /\ inner[r] = rid[r]
  BY DEF Invariant, ContextsAgree, HandlerReturns
<1>2. \E status \in {200, 404}, body \in {rid[r], "none"} : Respond(r, status, body)
  BY <1>1 DEF HandlerReturns
<1> QED
  BY <1>1, <1>2, RespondSafety

LEMMA RefuseSafety ==
    ASSUME Invariant, NEW r \in Requests, Refuse(r)
    PROVE  Invariant'
<1>1. pc[r] = "handling" /\ ask[r].form # "socket" /\ Respond(r, 429, "none")
  BY DEF Refuse
<1> QED
  BY <1>1, RespondSafety

LEMMA SocketClosesSafety ==
    ASSUME Invariant, NEW r \in Requests, SocketCloses(r)
    PROVE  Invariant'
<1>1. TypeOK' /\ ContextsAgree'
  BY DEF Invariant, TypeOK, ContextsAgree, SocketCloses
<1>2. LogAgrees' /\ AnswersTellTheirId' /\ LinesCarryTheirId'
  BY DEF Invariant, TypeOK, LogAgrees, AnswersTellTheirId, LinesCarryTheirId, SocketCloses
<1> QED
  BY <1>1, <1>2 DEF Invariant

LEMMA HandlerRaisesSafety ==
    ASSUME Invariant, NEW r \in Requests, HandlerRaises(r)
    PROVE  Invariant'
<1>1. TypeOK'
  BY DEF Invariant, TypeOK, ContextsAgree, HandlerRaises, NoAnswer
<1>2. ContextsAgree'
  BY DEF Invariant, TypeOK, ContextsAgree, HandlerRaises
<1>3. LogAgrees' /\ AnswersTellTheirId' /\ LinesCarryTheirId'
  BY DEF Invariant, TypeOK, LogAgrees, AnswersTellTheirId, LinesCarryTheirId, HandlerRaises
<1> QED
  BY <1>1, <1>2, <1>3 DEF Invariant

LEMMA UnhandledErrorSafety ==
    ASSUME Invariant, NEW r \in Requests, UnhandledError(r)
    PROVE  Invariant'
<1>1. pc[r] = "failing" /\ outer[r] = NoId
  BY DEF Invariant, ContextsAgree, UnhandledError
<1>2. TypeOK'
  BY <1>1 DEF Invariant, TypeOK, UnhandledError, Line
<1>3. ContextsAgree'
  BY <1>1 DEF Invariant, TypeOK, ContextsAgree, UnhandledError
<1>4. LogAgrees' /\ LinesCarryTheirId'
  BY <1>1 DEF Invariant, TypeOK, LogAgrees, LinesCarryTheirId, UnhandledError, Line
<1>5. AnswersTellTheirId'
  BY <1>1 DEF Invariant, TypeOK, AnswersTellTheirId, UnhandledError
<1> QED
  BY <1>2, <1>3, <1>4, <1>5 DEF Invariant

LEMMA RestartSafety ==
    ASSUME Invariant, NEW w \in Workers, Restart(w)
    PROVE  Invariant'
<1>1. \A r \in Requests : pc'[r] = pc[r] \/ (Running(r) /\ pc'[r] = "killed")
  BY DEF Restart
<1>2. TypeOK'
  BY <1>1, MiddlewareAssumption
     DEF MiddlewareAssumption, Invariant, TypeOK, Restart, Running
<1>3. ContextsAgree'
  BY <1>1 DEF Invariant, ContextsAgree, Restart, Running
<1>4. LogAgrees' /\ LinesCarryTheirId'
  BY <1>1 DEF Invariant, TypeOK, LogAgrees, LinesCarryTheirId, Restart, Running
<1>5. AnswersTellTheirId'
  BY <1>1 DEF Invariant, AnswersTellTheirId, Restart, Running
<1> QED
  BY <1>2, <1>3, <1>4, <1>5 DEF Invariant

LEMMA StutterSafety == Invariant /\ UNCHANGED vars => Invariant'
<1> SUFFICES ASSUME Invariant, UNCHANGED vars PROVE Invariant'
  OBVIOUS
<1> QED
  BY DEF vars, Invariant, TypeOK, ContextsAgree, LogAgrees,
         AnswersTellTheirId, LinesCarryTheirId, request_id

LEMMA NextSafety == Invariant /\ [Next]_vars => Invariant'
<1> SUFFICES ASSUME Invariant, [Next]_vars PROVE Invariant'
  OBVIOUS
<1>1. CASE UNCHANGED vars
  BY <1>1, StutterSafety
<1>2. CASE AllDone
  BY <1>2, StutterSafety DEF AllDone
<1>3. ASSUME NEW w \in Workers, Restart(w)
      PROVE  Invariant'
  BY <1>3, RestartSafety
<1>4. ASSUME NEW r \in Requests, Request(r)
      PROVE  Invariant'
  <2>1. ASSUME NEW f \in Forms, NEW h \in KnownIds \cup {NoId},
               NEW w \in Workers, Arrive(r, [form |-> f, header |-> h], w)
        PROVE  Invariant'
    <3>1. h \in Ids \cup {NoId}
      BY KnownIdsAreIds DEF Invariant
    <3>2. [form |-> f, header |-> h] \in Asks
      BY <3>1 DEF Asks
    <3> QED
      BY <2>1, <3>2, ArriveSafety
  <2>2. CASE Refuse(r)
    BY <2>2, RefuseSafety
  <2>3. CASE Log(r) \/ HandlerReturns(r) \/ SocketCloses(r)
    BY <2>3, LogSafety, HandlerReturnsSafety, SocketClosesSafety
  <2>4. CASE HandlerRaises(r) \/ UnhandledError(r)
    BY <2>4, HandlerRaisesSafety, UnhandledErrorSafety
  <2> QED
    BY <1>4, <2>1, <2>2, <2>3, <2>4 DEF Request
<1> QED
  BY <1>1, <1>2, <1>3, <1>4 DEF Next

-----------------------------------------------------------------------------
(* The theorems. *)

(* Contexts, answers and log lines agree in every reachable state. *)
THEOREM Safety == Spec => []Invariant
<1> QED
  BY InitSafety, NextSafety, PTL DEF Spec

(* Every variable keeps its type, and the answered requests are those with *)
(* a status.                                                               *)
THEOREM TypeCorrect == Spec => []TypeOK
<1>1. Invariant => TypeOK
  BY DEF Invariant
<1> QED
  BY <1>1, Safety, PTL

(* No answer tells the id of another request, however many run at the same *)
(* time in one worker.                                                     *)
THEOREM AnswersAreOwn == Spec => []AnswersTellTheirId
<1>1. Invariant => AnswersTellTheirId
  BY DEF Invariant
<1> QED
  BY <1>1, Safety, PTL

(* No line of the log carries the id of another request. *)
THEOREM LinesAreOwn == Spec => []LinesCarryTheirId
<1>1. Invariant => LinesCarryTheirId
  BY DEF Invariant
<1> QED
  BY <1>1, Safety, PTL

(* An id of the gateway's own leads from an answer to one request. *)
THEOREM IdsAreTraceable == Spec => []IdsLeadToOneRequest
<1>1. Invariant => IdsLeadToOneRequest
  <2> SUFFICES ASSUME Invariant, NEW r \in Requests, NEW line \in log,
                      answer[r].header # NoId, line.id = answer[r].header,
                      \A s \in Requests : pc[s] = "idle" \/ ask[s].header # line.id
               PROVE  line.by = r
    BY DEF IdsLeadToOneRequest
  <2> DEFINE own(s) == pc[s] # "idle" /\ rid[s] = line.id
  <2>1. own(r)
    BY DEF Invariant, ContextsAgree, AnswersTellTheirId, NoAnswer
  <2>2. line.by \in Requests /\ own(line.by)
    BY DEF Invariant, TypeOK, LogAgrees, LinesCarryTheirId
  <2>3. ASSUME NEW s \in Requests, own(s) PROVE line.id = s
    BY <2>3 DEF Invariant, ContextsAgree, request_id
  <2> QED
    BY <2>1, <2>2, <2>3
<1> QED
  BY <1>1, Safety, PTL
=============================================================================
