-------------------------- MODULE DemoHandlerProofs --------------------------
(***************************************************************************)
(* What the REST handlers do to the table is what concurrent calls of      *)
(* DemoModel do, so that its theorems hold behind the REST interface; and  *)
(* a POST or PUT that is answered 400 or 404 has stored nothing.           *)
(***************************************************************************)
EXTENDS DemoHandler, DemoModelDeletionProofs

LEMMA ReceiveBegins ==
  ASSUME NEW p \in Procs, NewRequest(p)
  PROVE  Begin(p) \/ UNCHANGED vars
BY DEF NewRequest, ReceiveGet, ReceivePost, ReceivePut, ReceiveDelete,
       PostInvalidJSON, PutInvalidJSON, PutNull, PutMismatch, Reject, Begin

LEMMA ContinueSteps ==
  ASSUME NEW p \in Procs, Continue(p) \/ ProceedBadly(p) \/ GatewayError(p)
  PROVE  Begin(p) \/ Step(p) \/ Fault(p) \/ UNCHANGED vars
BY DEF Continue, Proceed, PutUpdate, DeleteAll, Respond, ProceedBadly, GatewayError,
       Begin, Fault

LEMMA HandlerStepsAreModelSteps == [HandlerNext]_handlerVars => [Next]_vars
<1>1. ASSUME NEW p \in Procs,
             NewRequest(p) \/ Continue(p) \/ ProceedBadly(p) \/ GatewayError(p)
      PROVE  [Next]_vars
  BY <1>1, ReceiveBegins, ContinueSteps DEF Next
<1>2. ASSUME NEW id \in Ids, Replicate(id)
      PROVE  [Next]_vars
  BY <1>2 DEF Next
<1>3. UNCHANGED handlerVars => UNCHANGED vars
  BY DEF handlerVars
<1>. QED  BY <1>1, <1>2, <1>3 DEF HandlerNext

(* The handlers use the model as any of its callers would.                 *)
THEOREM HandlersUseModel == HandlerSpec => Spec
<1>1. HandlerInit => Init
  BY DEF HandlerInit
<1>. QED  BY <1>1, HandlerStepsAreModelSteps, PTL DEF HandlerSpec, Spec

(* Behind the REST interface too, a demo is whole as long as its version 1 *)
(* is there and at most one DELETE of it gets past that version, whatever  *)
(* requests are served, with stale reads, lost answers, repeated deletes   *)
(* and crashes, provided that no id is generated twice.                    *)
THEOREM WholeBehindHandlers ==
  ASSUME ~Collisions
  PROVE  HandlerSpec => [](WholeWhileFirst /\ OneDeletionSucceeds)
<1>1. RestSystem
  BY RestOpsOnly DEF RestOps, RestSystem
<1>. QED  BY <1>1, HandlersUseModel, WholeUntilDeleted, DeletionsSucceedOnce, PTL

-----------------------------------------------------------------------------
(* What a request that is being served knows of the call that serves it.   *)
ServedByItsCall(p) ==
  /\ call[p].pc = "returned" => call[p].result \in Results
  /\ ~Serving(p) => call[p].pc \notin Awaits
  /\ Serving(p) => http[p].method \in Methods
  /\ Serving(p) /\ http[p].method = "POST" => call[p].op = "create"
  /\ Serving(p) /\ http[p].method = "PUT" => call[p].op \in {"get", "update"}
  /\ Serving(p) /\ http[p].method \in {"POST", "PUT"} /\ http[p].wrote
       => /\ call[p].op \in {"create", "update"}
          /\ call[p].pc = "returned"
          /\ call[p].result \in {"ok", "Error"}
  /\ ~Serving(p) /\ http[p].method \in {"POST", "PUT"} /\ http[p].wrote
       => http[p].status \notin {400, 404}

HandlerInv ==
  /\ http \in [Procs -> Request]
  /\ \A p \in Procs : ServedByItsCall(p)

LEMMA HandlerInitInv == HandlerInit => HandlerInv
BY DEF HandlerInit, Init, Idle, HandlerInv, ServedByItsCall, Serving, NoRequest, Request, Awaits

(* A step of a call goes on with the same method; a create or an update    *)
(* that writes returns "ok" or is left without an answer.                  *)
LEMMA StepOfCall ==
  ASSUME TypeInv, NEW p \in Procs, Step(p) \/ Fail(p) \/ LostReply(p) \/ LostDelete(p)
  PROVE  /\ call[p].pc \in Awaits
         /\ \A q \in Procs : q # p => call'[q] = call[q]
         /\ call'[p].op = call[p].op
         /\ call'[p].pc = "returned" => call'[p].result \in Results
         /\ table' # table /\ call[p].op \in {"get", "create", "update"} =>
              /\ call[p].op # "get"
              /\ call'[p].pc = "returned" /\ call'[p].result \in {"ok", "Error"}
<1>1. call \in [Procs -> Call]
  BY DEF TypeInv, TypeOK
<1>2. call[p].pc \in Awaits => call[p].op \in Awaiting[call[p].pc]
  BY DEF TypeInv, CallsOK, Suspended
<1>a. CASE GetMissing(p)
  BY <1>1, <1>a DEF GetMissing, Return, Call, Awaits, Results
<1>b. CASE GetFound(p)
  BY <1>1, <1>b DEF GetFound, Call, Awaits, Results
<1>c. CASE ReadForUpdate(p)
  BY <1>1, <1>c DEF ReadForUpdate, Return, Call, Awaits, Results
<1>d. CASE ReadForRevision(p)
  BY <1>1, <1>d DEF ReadForRevision, Return, Call, Awaits, Results
<1>e. CASE ReadForDeletion(p)
  BY <1>1, <1>e DEF ReadForDeletion, Call, Awaits, Results
<1>4. CASE Save(p)
  BY <1>1, <1>2, <1>4 DEF Save, Return, Call, Awaits, Awaiting, Results
<1>f. CASE RetryCreate(p)
  BY <1>1, <1>f DEF RetryCreate, Call, Awaits
<1>g. CASE SaveRefused(p)
  BY <1>1, <1>g DEF SaveRefused, Return, Call, Awaits, Results
<1>h. CASE ReviseRefused(p)
  BY <1>1, <1>h DEF ReviseRefused, Return, Call, Awaits, Results
<1>i. CASE DeleteMissing(p)
  BY <1>1, <1>i DEF DeleteMissing, Return, Call, Awaits, Results
<1>6. CASE Revise(p)
  BY <1>1, <1>2, <1>6 DEF Revise, Return, Call, Awaits, Awaiting, Results
<1>7. CASE DeleteRow(p)
  BY <1>1, <1>2, <1>7 DEF DeleteRow, Return, Call, Awaits, Awaiting, Results
<1>8. CASE Fail(p)
  BY <1>1, <1>8 DEF Fail, Return, Call, Results, Awaits
<1>9. CASE LostReply(p)
  BY <1>1, <1>2, <1>9 DEF LostReply, Return, Call, Awaits, Awaiting, Results
<1>10. CASE LostDelete(p)
  BY <1>2, <1>10 DEF LostDelete, Awaits, Awaiting
<1>. QED  BY <1>a, <1>b, <1>c, <1>d, <1>e, <1>f, <1>g, <1>h, <1>i, <1>4, <1>6, <1>7, <1>8,
       <1>9, <1>10 DEF Step

LEMMA OtherRequests ==
  ASSUME HandlerInv, NEW p \in Procs,
         NEW request \in Request, http' = [http EXCEPT ![p] = request],
         \A q \in Procs : q # p => call'[q] = call[q],
         http'[p] = request => ServedByItsCall(p)'
  PROVE  HandlerInv'
<1>1. /\ http' \in [Procs -> Request] /\ http'[p] = request
      /\ \A q \in Procs : q # p => http'[q] = http[q]
  BY DEF HandlerInv
<1>2. \A q \in Procs : ServedByItsCall(q)'
  BY <1>1 DEF HandlerInv, ServedByItsCall, Serving
<1>. QED  BY <1>1, <1>2 DEF HandlerInv

(* The calls that the handlers make.                                       *)
LEMMA StartOfCall ==
  ASSUME TypeInv, NEW p \in Procs, Begin(p)
  PROVE  \A q \in Procs : q # p => call'[q] = call[q]
<1>1. call \in [Procs -> Call]
  BY DEF TypeInv, TypeOK
<1>. QED  BY <1>1 DEF Begin, StartGet, StartCreate, RefuseCreate, StartUpdate,
       StartUpdateRevision, StartDelete, StartDeleteCompletely, Start

LEMMA NewRequestStep ==
  ASSUME TypeInv, HandlerInv, NEW p \in Procs, NewRequest(p)
  PROVE  HandlerInv'
<1>1. call \in [Procs -> Call] /\ http \in [Procs -> Request]
  BY DEF TypeInv, TypeOK, HandlerInv
<1>2. \A q \in Procs : q # p => call'[q] = call[q]
  BY ReceiveBegins, StartOfCall DEF vars
<1>3. CASE ReceiveGet(p) \/ ReceivePut(p) \/ ReceiveDelete(p)
  <2>1. PICK method \in {"GET", "PUT", "DELETE"}, id \in Ids, demo \in Demo \cup {None} :
          Receive(p, method, id, demo) /\ StartGet(p)
    BY <1>3 DEF ReceiveGet, ReceivePut, ReceiveDelete
  <2> DEFINE request == NewlyReceived(method, id, demo, "first", 0)
  <2>2. call'[p].op = "get" /\ call'[p].pc = "get"
    BY <1>1, <2>1 DEF StartGet, Start
  <2>3. request \in Request /\ http' = [http EXCEPT ![p] = request]
    BY <2>1 DEF Receive, NewlyReceived, Request, Methods
  <2>4. http'[p] = request => ServedByItsCall(p)'
    BY <2>2 DEF ServedByItsCall, Serving, NewlyReceived, Methods
  <2>. QED  BY <1>2, <2>3, <2>4, OtherRequests
<1>4. CASE ReceivePost(p)
  <2> DEFINE request == NewlyReceived("POST", None, None, "first", 0)
  <2>1. call'[p].op = "create" /\ (call'[p].pc = "returned" => call'[p].result \in Results)
    <3>1. CASE StartCreate(p)
      BY <1>1, <3>1 DEF StartCreate, Start
    <3>2. CASE RefuseCreate(p)
      BY <1>1, <3>2 DEF RefuseCreate, Idle, Results
    <3>. QED  BY <1>4, <3>1, <3>2 DEF ReceivePost
  <2>2. request \in Request /\ http' = [http EXCEPT ![p] = request]
    BY <1>4 DEF ReceivePost, Receive, NewlyReceived, Request, Methods
  <2>3. http'[p] = request => ServedByItsCall(p)'
    BY <2>1 DEF ServedByItsCall, Serving, NewlyReceived, Methods
  <2>. QED  BY <1>2, <2>2, <2>3, OtherRequests
<1>5. CASE PostInvalidJSON(p) \/ PutInvalidJSON(p) \/ PutNull(p) \/ PutMismatch(p)
  <2>1. PICK method \in {"POST", "PUT"}, id \in Ids \cup {None}, demo \in Demo \cup {None},
             status \in Statuses : Reject(p, method, id, demo, status)
    BY <1>5 DEF Statuses, PostInvalidJSON, PutInvalidJSON, PutNull, PutMismatch
  <2> DEFINE request == NewlyReceived(method, id, demo, "answered", status)
  <2>2. request \in Request /\ http' = [http EXCEPT ![p] = request]
    BY <2>1 DEF Reject, NewlyReceived, Request, Methods
  <2>3. /\ call'[p].pc \notin Awaits
        /\ call'[p].pc = "returned" => call'[p].result \in Results
    BY <2>1 DEF Reject, vars, HandlerInv, ServedByItsCall
  <2>4. http'[p] = request => ServedByItsCall(p)'
    BY <2>3 DEF ServedByItsCall, Serving, NewlyReceived
  <2> HIDE DEF request
  <2>. QED  BY <1>2, <2>2, <2>4, OtherRequests
<1>. QED  BY <1>3, <1>4, <1>5 DEF NewRequest

LEMMA RequestWrote ==
  ASSUME NEW request \in Request, NEW wrote \in BOOLEAN
  PROVE  LET next == [request EXCEPT !.wrote = wrote]
         IN  /\ next \in Request /\ next.wrote = wrote
             /\ next.method = request.method /\ next.stage = request.stage
BY DEF Request

LEMMA RequestStatus ==
  ASSUME NEW request \in Request, NEW status \in Statuses
  PROVE  [request EXCEPT !.status = status] \in Request
BY DEF Request

LEMMA RequestReplied ==
  ASSUME NEW request \in Request, NEW status \in Statuses
  PROVE  LET next == Replied(request, status)
         IN  /\ next \in Request
             /\ next.stage = "answered" /\ next.status = status
             /\ next.method = request.method /\ next.wrote = request.wrote
<1> DEFINE answered == [request EXCEPT !.stage = "answered"]
<1>1. answered \in Request
  BY DEF Request
<1>2. [answered EXCEPT !.status = status] \in Request
  BY <1>1, RequestStatus
<1>3. Replied(request, status) = [answered EXCEPT !.status = status]
  BY DEF Replied, Request
<1>4. /\ Replied(request, status).stage = "answered"
      /\ Replied(request, status).status = status
      /\ Replied(request, status).method = request.method
      /\ Replied(request, status).wrote = request.wrote
  BY DEF Replied, Request
<1>. QED  BY <1>2, <1>3, <1>4

(* A call that goes on, whatever DynamoDB answers.                         *)
LEMMA ProceedStep ==
  ASSUME TypeInv, HandlerInv, NEW p \in Procs, Proceed(p) \/ ProceedBadly(p)
  PROVE  HandlerInv'
<1> DEFINE wrote == http[p].wrote \/ table' # table
           request == [http[p] EXCEPT !.wrote = wrote]
<1>1. http \in [Procs -> Request] /\ http[p] \in Request /\ ServedByItsCall(p)
  BY DEF HandlerInv
<1>2. Step(p) \/ Fail(p) \/ LostReply(p) \/ LostDelete(p)
  BY DEF Proceed, ProceedBadly
<1>3. /\ request \in Request /\ request.wrote = wrote
      /\ request.method = http[p].method /\ request.stage = http[p].stage
  <2>1. wrote \in BOOLEAN
    BY <1>1 DEF Request
  <2>. QED  BY <1>1, <2>1, RequestWrote
<1>4. http' = [http EXCEPT ![p] = request]
  BY <1>1 DEF Proceed, ProceedBadly
<1>5. Serving(p)
  BY <1>1, <1>2, StepOfCall DEF ServedByItsCall
<1>6. http[p].method \in {"POST", "PUT"} => ~http[p].wrote
  BY <1>1, <1>2, <1>5, StepOfCall DEF ServedByItsCall, Awaits
<1>7. http[p].method \in {"POST", "PUT"} /\ request.wrote => table' # table
  BY <1>3, <1>6
<1>8. http'[p] = request => ServedByItsCall(p)'
  BY <1>1, <1>2, <1>3, <1>5, <1>7, StepOfCall DEF ServedByItsCall, Serving
<1>. QED  BY <1>2, <1>3, <1>4, <1>8, StepOfCall, OtherRequests

LEMMA SecondCallStep ==
  ASSUME TypeInv, HandlerInv, NEW p \in Procs, PutUpdate(p) \/ DeleteAll(p)
  PROVE  HandlerInv'
<1> DEFINE request == [http[p] EXCEPT !.stage = "second"]
<1>1. /\ call \in [Procs -> Call] /\ http \in [Procs -> Request] /\ http[p] \in Request
      /\ ServedByItsCall(p)
  BY DEF TypeInv, TypeOK, HandlerInv
<1>2. request \in Request /\ http' = [http EXCEPT ![p] = request]
  BY <1>1 DEF PutUpdate, DeleteAll, Request
<1>3. \A q \in Procs : q # p => call'[q] = call[q]
  BY StartOfCall DEF PutUpdate, DeleteAll, Begin
<1>4. CASE PutUpdate(p)
  <2>1. call'[p].op = "update" /\ call'[p].pc = "get"
    BY <1>1, <1>4 DEF PutUpdate, StartUpdate, Start
  <2>2. http[p].method = "PUT" /\ ~http[p].wrote
    BY <1>1, <1>4 DEF PutUpdate, FirstCallFound, Ended, ServedByItsCall, Serving
  <2>3. request.method = "PUT" /\ ~request.wrote /\ request.stage = "second"
    BY <1>1, <2>2 DEF Request
  <2>4. http'[p] = request => ServedByItsCall(p)'
    BY <2>1, <2>3 DEF ServedByItsCall, Serving, Methods
  <2>. QED  BY <1>2, <1>3, <2>4, OtherRequests
<1>5. CASE DeleteAll(p)
  <2>1. call'[p].pc = "get"
    BY <1>1, <1>5 DEF DeleteAll, StartDeleteCompletely, Start
  <2>2. request.method = "DELETE" /\ request.stage = "second"
    BY <1>1, <1>5 DEF DeleteAll, FirstCallFound, Request
  <2>3. http'[p] = request => ServedByItsCall(p)'
    BY <2>1, <2>2 DEF ServedByItsCall, Serving, Methods
  <2>. QED  BY <1>2, <1>3, <2>3, OtherRequests
<1>. QED  BY <1>4, <1>5

LEMMA AnswerStep ==
  ASSUME TypeInv, HandlerInv, NEW p \in Procs, Respond(p) \/ GatewayError(p)
  PROVE  HandlerInv'
<1>1. /\ call \in [Procs -> Call] /\ http \in [Procs -> Request] /\ http[p] \in Request
      /\ ServedByItsCall(p)
  BY DEF TypeInv, TypeOK, HandlerInv
<1>2. CASE Respond(p)
  <2> DEFINE status == StatusOf(http[p].method, call[p].result)
             request == Replied(http[p], status)
  <2>1. call' = call /\ call[p].pc = "returned" /\ Serving(p)
    BY <1>2 DEF Respond, vars
  <2>2. call[p].result \in Results /\ http[p].method \in Methods
    BY <1>1, <2>1 DEF ServedByItsCall
  <2>3. /\ status \in Statuses
        /\ call[p].result \in {"ok", "Error"} => status \in {200, 201, 204, 500}
    BY <2>2 DEF StatusOf, Success, Results, Methods, Statuses
  <2>4. /\ request \in Request
        /\ request.method = http[p].method /\ request.wrote = http[p].wrote
        /\ request.stage = "answered" /\ request.status = status
    BY <1>1, <2>3, RequestReplied
  <2>5. http' = [http EXCEPT ![p] = request]
    BY <1>1, <1>2 DEF Respond, Answer
  <2>6. http'[p] = request => ServedByItsCall(p)'
    BY <1>1, <2>1, <2>3, <2>4 DEF ServedByItsCall, Serving, Awaits
  <2>. QED  BY <2>1, <2>4, <2>5, <2>6, OtherRequests
<1>3. CASE GatewayError(p)
  <2> DEFINE request == Replied(http[p], 500)
  <2>1. /\ \A q \in Procs : q # p => call'[q] = call[q]
        /\ call'[p].pc = "idle"
    BY <1>1, <1>3 DEF GatewayError, Crash, Idle
  <2>2. /\ request \in Request
        /\ request.stage = "answered" /\ request.status = 500
    <3>1. 500 \in Statuses
      BY DEF Statuses
    <3>. QED  BY <1>1, <3>1, RequestReplied
  <2>3. http' = [http EXCEPT ![p] = request]
    BY <1>1, <1>3 DEF GatewayError, Answer
  <2>4. http'[p] = request => ServedByItsCall(p)'
    BY <2>1, <2>2 DEF ServedByItsCall, Serving, Awaits
  <2> HIDE DEF request
  <2>5. request \in Request
    BY <2>2
  <2>. QED  BY <2>1, <2>3, <2>4, <2>5, OtherRequests
<1>. QED  BY <1>2, <1>3

LEMMA HandlerNextInv ==
  TypeInv /\ HandlerInv /\ [HandlerNext]_handlerVars => HandlerInv'
<1> SUFFICES ASSUME TypeInv, HandlerInv, [HandlerNext]_handlerVars
             PROVE  HandlerInv'
  OBVIOUS
<1>1. ASSUME NEW p \in Procs, NewRequest(p) \/ Continue(p) \/ ProceedBadly(p)
                              \/ GatewayError(p)
      PROVE  HandlerInv'
  BY <1>1, NewRequestStep, ProceedStep, SecondCallStep, AnswerStep DEF Continue
<1>2. CASE (\E id \in Ids : Replicate(id) /\ UNCHANGED http) \/ UNCHANGED handlerVars
  <2>1. call' = call /\ http' = http
    BY <1>2 DEF Replicate, handlerVars, vars
  <2>. QED  BY <2>1 DEF HandlerInv, ServedByItsCall, Serving
<1>. QED  BY <1>1, <1>2 DEF HandlerNext

LEMMA HandlerInvariant == HandlerSpec => [](TypeInv /\ HandlerInv)
<1>1. HandlerInit => TypeInv /\ HandlerInv
  BY TypeInit, HandlerInitInv DEF HandlerInit
<1>2. TypeInv /\ HandlerInv /\ [HandlerNext]_handlerVars => TypeInv' /\ HandlerInv'
  BY TypeNext, HandlerStepsAreModelSteps, HandlerNextInv
<1>. QED  BY <1>1, <1>2, PTL DEF HandlerSpec

(* Requests have their types.                                              *)
THEOREM HandlerTypesCorrect == HandlerSpec => []HandlerTypeOK
<1>1. TypeInv /\ HandlerInv => HandlerTypeOK
  BY DEF TypeInv, HandlerInv, HandlerTypeOK
<1>. QED  BY <1>1, HandlerInvariant, PTL

(* A POST or PUT that is answered 400 or 404 has stored nothing, with any  *)
(* number of requests, stale reads, lost answers and crashes.              *)
THEOREM RefusalsStoreNothing == HandlerSpec => []RefusedStoresNothing
<1>1. HandlerInv => RefusedStoresNothing
  BY DEF HandlerInv, ServedByItsCall, RefusedStoresNothing, Answered
<1>. QED  BY <1>1, HandlerInvariant, PTL

-----------------------------------------------------------------------------
(* Requests with an id in their path: the calls that serve them are about  *)
(* that id.                                                                *)
HasPath(p) == Serving(p) /\ http[p].id # None

OnItsPath(p) ==
  HasPath(p) =>
    /\ call[p].id = http[p].id /\ call[p].op # "create"
    /\ http[p].method # "POST"
    /\ http[p].method = "PUT" => http[p].demo.id = http[p].id

PathInv == \A p \in Procs : OnItsPath(p)

LEMMA StepKeepsId ==
  ASSUME TypeInv, NEW p \in Procs, Step(p) \/ Fail(p) \/ LostReply(p) \/ LostDelete(p),
         call[p].op # "create"
  PROVE  call'[p].id = call[p].id
<1>1. call \in [Procs -> Call]
  BY DEF TypeInv, TypeOK
<1>2. ASSUME NEW result, Return(p, result)
      PROVE  call'[p].id = call[p].id
  BY <1>1, <1>2 DEF Return, Call
<1>3. CASE GetFound(p)
  BY <1>1, <1>3 DEF GetFound, Call
<1>7. CASE ReadForUpdate(p)
  BY <1>1, <1>2, <1>7 DEF ReadForUpdate, Call
<1>8. CASE ReadForRevision(p)
  BY <1>1, <1>2, <1>8 DEF ReadForRevision, Call
<1>9. CASE ReadForDeletion(p)
  BY <1>1, <1>9 DEF ReadForDeletion, Call
<1>4. CASE DeleteRow(p)
  BY <1>1, <1>2, <1>4 DEF DeleteRow, Call
<1>5. CASE GetMissing(p) \/ Save(p) \/ SaveRefused(p) \/ Revise(p) \/ ReviseRefused(p)
           \/ DeleteMissing(p) \/ Fail(p) \/ LostReply(p)
  BY <1>2, <1>5 DEF GetMissing, Save, SaveRefused, Revise, ReviseRefused, DeleteMissing,
       Fail, LostReply
<1>6. ~RetryCreate(p)
  BY DEF RetryCreate
<1>10. CASE LostDelete(p)
  BY <1>10 DEF LostDelete
<1>. QED  BY <1>3, <1>4, <1>5, <1>6, <1>7, <1>8, <1>9, <1>10 DEF Step

LEMMA PathOfOthers ==
  ASSUME HandlerInv, PathInv, NEW p \in Procs,
         \A q \in Procs : q # p => call'[q] = call[q] /\ http'[q] = http[q],
         OnItsPath(p)'
  PROVE  PathInv'
BY DEF PathInv, OnItsPath, HasPath, Serving

LEMMA PathNewRequest ==
  ASSUME TypeInv, HandlerInv, PathInv, NEW p \in Procs, NewRequest(p)
  PROVE  PathInv'
<1>1. call \in [Procs -> Call] /\ http \in [Procs -> Request]
  BY DEF TypeInv, TypeOK, HandlerInv
<1>2. \A q \in Procs : q # p => call'[q] = call[q] /\ http'[q] = http[q]
  BY <1>1, ReceiveBegins, StartOfCall DEF vars, NewRequest, ReceiveGet, ReceivePost, ReceivePut,
     ReceiveDelete, PostInvalidJSON, PutInvalidJSON, PutNull, PutMismatch, Receive, Reject
<1>3. CASE ReceiveGet(p) \/ ReceivePut(p) \/ ReceiveDelete(p)
  <2>1. PICK method \in {"GET", "PUT", "DELETE"}, id \in Ids, demo \in Demo \cup {None} :
          /\ Receive(p, method, id, demo) /\ StartGet(p) /\ call'[p].id = id
          /\ method = "PUT" => demo.id = id
    BY <1>3 DEF ReceiveGet, ReceivePut, ReceiveDelete
  <2>2. call'[p].op = "get"
    BY <1>1, <2>1 DEF StartGet, Start
  <2>3. http'[p] = NewlyReceived(method, id, demo, "first", 0)
    BY <1>1, <2>1 DEF Receive
  <2>4. OnItsPath(p)'
    BY <2>1, <2>2, <2>3 DEF OnItsPath, HasPath, NewlyReceived
  <2>. QED  BY <1>2, <2>4, PathOfOthers
<1>4. CASE ReceivePost(p)
  <2>1. http'[p].id = None
    BY <1>1, <1>4 DEF ReceivePost, Receive, NewlyReceived
  <2>. QED  BY <1>2, <2>1, PathOfOthers DEF OnItsPath, HasPath
<1>5. CASE PostInvalidJSON(p) \/ PutInvalidJSON(p) \/ PutNull(p) \/ PutMismatch(p)
  <2>1. http'[p].stage = "answered"
    BY <1>1, <1>5 DEF PostInvalidJSON, PutInvalidJSON, PutNull, PutMismatch, Reject,
         NewlyReceived
  <2>. QED  BY <1>2, <2>1, PathOfOthers DEF OnItsPath, HasPath, Serving
<1>. QED  BY <1>3, <1>4, <1>5 DEF NewRequest

LEMMA PathContinue ==
  ASSUME TypeInv, HandlerInv, PathInv, NEW p \in Procs,
         Continue(p) \/ ProceedBadly(p) \/ GatewayError(p)
  PROVE  PathInv'
<1>1. call \in [Procs -> Call] /\ http \in [Procs -> Request] /\ OnItsPath(p)
  BY DEF TypeInv, TypeOK, HandlerInv, PathInv
<1>2. CASE Proceed(p) \/ ProceedBadly(p)
  <2>1. Step(p) \/ Fail(p) \/ LostReply(p) \/ LostDelete(p)
    BY <1>2 DEF Proceed, ProceedBadly
  <2>2. http' = [http EXCEPT ![p].wrote = @ \/ table' # table]
    BY <1>2 DEF Proceed, ProceedBadly
  <2>3. /\ http'[p].id = http[p].id /\ http'[p].stage = http[p].stage
        /\ http'[p].method = http[p].method /\ http'[p].demo = http[p].demo
        /\ \A q \in Procs : q # p => http'[q] = http[q]
    BY <1>1, <2>2 DEF Request
  <2>4. OnItsPath(p)'
    BY <1>1, <2>1, <2>3, StepOfCall, StepKeepsId DEF OnItsPath, HasPath, Serving
  <2>. QED  BY <2>1, <2>3, <2>4, StepOfCall, PathOfOthers
<1>3. CASE PutUpdate(p) \/ DeleteAll(p)
  <2>1. /\ http'[p].id = http[p].id /\ http'[p].stage = "second"
        /\ http'[p].method = http[p].method /\ http'[p].demo = http[p].demo
        /\ \A q \in Procs : q # p => http'[q] = http[q]
    BY <1>1, <1>3 DEF PutUpdate, DeleteAll, Request
  <2>2. /\ http[p].stage = "first"
        /\ \/ http[p].method = "PUT" /\ call'[p].id = http[p].demo.id
           \/ http[p].method = "DELETE" /\ call'[p].id = call[p].id
    BY <1>3 DEF PutUpdate, DeleteAll, FirstCallFound
  <2>3. call'[p].op # "create"
    BY <1>1, <1>3 DEF PutUpdate, DeleteAll, StartUpdate, StartDeleteCompletely, Start
  <2>4. OnItsPath(p)'
    BY <1>1, <2>1, <2>2, <2>3 DEF OnItsPath, HasPath, Serving
  <2>5. \A q \in Procs : q # p => call'[q] = call[q]
    BY <1>3, StartOfCall DEF PutUpdate, DeleteAll, Begin
  <2>. QED  BY <2>1, <2>4, <2>5, PathOfOthers
<1>4. CASE Respond(p) \/ GatewayError(p)
  <2>1. http'[p].stage = "answered" /\ \A q \in Procs : q # p => http'[q] = http[q]
    <3>1. PICK status : http' = [http EXCEPT ![p] = Replied(http[p], status)]
      BY <1>4 DEF Respond, GatewayError, Answer
    <3>2. Replied(http[p], status).stage = "answered"
      BY <1>1 DEF Replied, Request
    <3>. QED  BY <1>1, <3>1, <3>2
  <2>2. \A q \in Procs : q # p => call'[q] = call[q]
    BY <1>1, <1>4 DEF Respond, GatewayError, Crash, vars
  <2>. QED  BY <2>1, <2>2, PathOfOthers DEF OnItsPath, HasPath, Serving
<1>. QED  BY <1>2, <1>3, <1>4 DEF Continue

LEMMA PathNext ==
  TypeInv /\ HandlerInv /\ PathInv /\ [HandlerNext]_handlerVars => PathInv'
<1> SUFFICES ASSUME TypeInv, HandlerInv, PathInv, [HandlerNext]_handlerVars
             PROVE  PathInv'
  OBVIOUS
<1>1. CASE (\E id \in Ids : Replicate(id) /\ UNCHANGED http) \/ UNCHANGED handlerVars
  <2>1. call' = call /\ http' = http
    BY <1>1 DEF Replicate, handlerVars, vars
  <2>. QED  BY <2>1 DEF PathInv, OnItsPath, HasPath, Serving
<1>. QED  BY <1>1, PathNewRequest, PathContinue DEF HandlerNext

(* The rows that a call writes are those of its id.                        *)
LEMMA WritesOwnRows ==
  ASSUME NEW p \in Procs, Saves(p) \/ Revises(p) \/ Removes(p),
         NEW e, Row(table, e) # Row(table', e)
  PROVE  e[2] = call[p].id
<1>1. ASSUME NEW version, NEW item, table' = PutTwice(table, call[p].id, version, item)
      PROVE  e[2] = call[p].id
  <2>1. e \in {EntityId(call[p].id, 0), EntityId(call[p].id, version)}
    BY <1>1 DEF PutTwice, Row
  <2>. QED  BY <2>1 DEF EntityId
<1>2. CASE Removes(p)
  <2>1. e = Target(call[p])
    BY <1>2 DEF Removes, RemoveTarget, Remove, Row
  <2>. QED  BY <2>1 DEF Target, EntityId
<1>. QED  BY <1>1, <1>2 DEF Saves, WriteSaved, Revises, WriteRevised

(* A PUT or DELETE writes no row of another demo than the one in its path, *)
(* whatever id the body has and whatever other requests are served.        *)
THEOREM RequestsKeepToTheirPath == HandlerSpec => OnlyThePathsDemo
<1>1. ASSUME TypeInv, HandlerInv, PathInv, [HandlerNext]_handlerVars,
             NEW p \in Procs, HasPath(p), call'[p] # call[p] \/ LostDelete(p),
             NEW e, Row(table, e) # Row(table', e)
      PROVE  e[2] = http[p].id
  <2>1. PICK q \in Procs :
          NewRequest(q) \/ Continue(q) \/ ProceedBadly(q) \/ GatewayError(q)
    BY <1>1 DEF HandlerNext, handlerVars, vars, Replicate
  <2>2. Begin(q) \/ Step(q) \/ Fault(q)
    BY <1>1, <2>1, ReceiveBegins, ContinueSteps DEF vars
  <2>3. q = p \/ LostDelete(p)
    <3>1. Crash(q) => \A r \in Procs : r # q => call'[r] = call[r]
      BY <1>1 DEF Crash, TypeInv, TypeOK
    <3>. QED  BY <1>1, <2>2, <3>1, StartOfCall, StepOfCall DEF Fault
  <2>4. Saves(p) \/ Revises(p) \/ Removes(p)
    <3>1. CASE LostDelete(p)
      BY <3>1 DEF LostDelete, Removes
    <3>2. CASE q = p
      <4>1. table' # table
        BY <1>1
      <4>. QED  BY <1>1, <2>2, <3>2, <4>1, WritesOfSteps
    <3>. QED  BY <2>3, <3>1, <3>2
  <2>5. e[2] = call[p].id
    BY <1>1, <2>4, WritesOwnRows
  <2>. QED  BY <1>1, <2>5 DEF PathInv, OnItsPath
<1>2. TypeInv /\ HandlerInv /\ PathInv /\ [HandlerNext]_handlerVars =>
        [\A p \in Procs :
           Serving(p) /\ http[p].id # None /\ (call'[p] # call[p] \/ LostDelete(p))
           => \A e \in DOMAIN table \cup DOMAIN table' :
                Row(table, e) # Row(table', e) => e[2] = http[p].id]_handlerVars
  BY <1>1 DEF HasPath
<1>3. HandlerInit => PathInv
  BY DEF HandlerInit, NoRequest, PathInv, OnItsPath, HasPath, Serving
<1>. QED  BY <1>2, <1>3, PathNext, HandlerInvariant, PTL DEF HandlerSpec, OnlyThePathsDemo

=============================================================================
