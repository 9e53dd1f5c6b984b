----------------------------- MODULE DemoHandler -----------------------------
(***************************************************************************)
(* The REST handlers (rest-api/src/handlers/demo.handler.ts) on top of     *)
(* DemoModel.  An invocation of a Lambda function serves one request at a  *)
(* time: it checks the request, calls one or two methods of the model and  *)
(* answers with the status that ApiController.handle derives from their    *)
(* outcome.  A method runs as in DemoModel; the actions here say when one  *)
(* is called, with which arguments, and what is answered.                  *)
(*                                                                         *)
(* A definition under the heading "Mistake" is a wrong form of the one     *)
(* that follows it, as in DemoModel.                                       *)
(***************************************************************************)
EXTENDS DemoModel

Methods == {"GET", "POST", "PUT", "DELETE"}
RestOps == {"get", "create", "update", "deleteCompletely"}

ASSUME RestOpsOnly == Ops = RestOps

VARIABLE http   \* http[p]: the request process p serves or has served last

handlerVars == <<vars, http>>

(* A request: its method, the id in its path and the demo in its body;     *)
(* "first" and "second" tell which call of the model serves it.  wrote is  *)
(* a history variable: has a write of this request taken effect?           *)
Demo == [id : Ids, body : Bodies]
Statuses == {200, 201, 204, 400, 404, 500}
Request == [method : Methods \cup {"none"},
            id : Ids \cup {None},
            demo : Demo \cup {None},
            stage : {"first", "second", "answered"},
            status : Statuses \cup {0},
            wrote : BOOLEAN]

NoRequest == [method |-> "none", id |-> None, demo |-> None,
              stage |-> "answered", status |-> 0, wrote |-> FALSE]

HandlerTypeOK == TypeOK /\ http \in [Procs -> Request]

HandlerInit == Init /\ http = [p \in Procs |-> NoRequest]

Serving(p) == http[p].stage # "answered"

NewlyReceived(method, id, demo, stage, status) ==
  [method |-> method, id |-> id, demo |-> demo, stage |-> stage, status |-> status,
   wrote |-> FALSE]

Receive(p, method, id, demo) ==
  /\ ~Serving(p)
  /\ http' = [http EXCEPT ![p] = NewlyReceived(method, id, demo, "first", 0)]

(* A request that is answered before the model is called.                  *)
Reject(p, method, id, demo, status) ==
  /\ ~Serving(p)
  /\ http' = [http EXCEPT ![p] = NewlyReceived(method, id, demo, "answered", status)]
  /\ UNCHANGED vars

Replied(request, status) == [request EXCEPT !.stage = "answered", !.status = status]

Answer(p, status) == http' = [http EXCEPT ![p] = Replied(@, status)]

(* Bound: the PUTs being served may each add a version to the highest row. *)
PutHasRoom(id) ==
  LET underWay == {p \in Procs : Serving(p) /\ http[p].method = "PUT"
                                 /\ http[p].id = id}
  IN  \A version \in VersionsSeen(id) : version + Cardinality(underWay) < MaxVersion

-----------------------------------------------------------------------------
(* The handlers, up to their first call.                                   *)
ReceiveGet(p) ==
  \E id \in Ids :
    /\ Receive(p, "GET", id, None)
    /\ StartGet(p) /\ call'[p].id = id

(* The body null is a demo without fields, which create refuses.           *)
ReceivePost(p) ==
  /\ Receive(p, "POST", None, None)
  /\ StartCreate(p) \/ RefuseCreate(p)

(* demoModel.parse throws a BadRequestError.                               *)
PostInvalidJSON(p) == Reject(p, "POST", None, None, 400)
PutInvalidJSON(p) == \E id \in Ids : Reject(p, "PUT", id, None, 400)

(* parsedDemo.id of the body null throws a TypeError.                      *)
PutNull(p) == \E id \in Ids : Reject(p, "PUT", id, None, 500)

PutMismatch(p) ==
  \E id \in Ids, demo \in Demo :
    demo.id # id /\ Reject(p, "PUT", id, demo, 400)

(* Mistake: the id of the body is not compared with the path.              *)
ReceivePutUnchecked(p) ==
  \E id \in Ids, demo \in Demo :
    /\ PutHasRoom(id)
    /\ Receive(p, "PUT", id, demo)
    /\ StartGet(p) /\ call'[p].id = id

ReceivePut(p) ==
  \E id \in Ids, demo \in Demo :
    /\ demo.id = id
    /\ PutHasRoom(id)
    /\ Receive(p, "PUT", id, demo)
    /\ StartGet(p) /\ call'[p].id = id

ReceiveDelete(p) ==
  \E id \in Ids :
    /\ Receive(p, "DELETE", id, None)
    /\ StartGet(p) /\ call'[p].id = id

-----------------------------------------------------------------------------
(* The second call of put and deleteDemo, once get has found the demo.     *)
FirstCallFound(p, method) ==
  /\ http[p].stage = "first" /\ http[p].method = method
  /\ Ended(p, "get", "ok")

PutUpdate(p) ==
  /\ FirstCallFound(p, "PUT")
  /\ http' = [http EXCEPT ![p].stage = "second"]
  /\ StartUpdate(p)
  /\ call'[p].id = http[p].demo.id /\ call'[p].body = http[p].demo.body

DeleteAll(p) ==
  /\ FirstCallFound(p, "DELETE")
  /\ http' = [http EXCEPT ![p].stage = "second"]
  /\ StartDeleteCompletely(p)
  /\ call'[p].id = call[p].id

-----------------------------------------------------------------------------
(* ApiController.handle: what the last call of the model is answered with. *)
Success == [GET |-> 200, POST |-> 201, PUT |-> 200, DELETE |-> 204]

StatusOf(method, result) ==
  [ok |-> Success[method], BadRequest |-> 400, NotFound |-> 404, Error |-> 500][result]

LastCall(p) ==
  \/ http[p].method \in {"GET", "POST"}
  \/ http[p].stage = "second"
  \/ call[p].result # "ok"

Respond(p) ==
  /\ Serving(p)
  /\ call[p].pc = "returned"
  /\ LastCall(p)
  /\ Answer(p, StatusOf(http[p].method, call[p].result))
  /\ UNCHANGED vars

(* A call of the model goes on, with or without a fault of DynamoDB.       *)
Proceed(p) ==
  /\ Step(p)
  /\ http' = [http EXCEPT ![p].wrote = @ \/ table' # table]

ProceedBadly(p) ==
  /\ Fail(p) \/ LostReply(p) \/ LostDelete(p)
  /\ http' = [http EXCEPT ![p].wrote = @ \/ table' # table]

(* The function times out or dies, and the gateway answers for it.         *)
GatewayError(p) ==
  /\ Crash(p)
  /\ Answer(p, 500)

-----------------------------------------------------------------------------
NewRequest(p) ==
  \/ ReceiveGet(p) \/ ReceivePost(p) \/ ReceivePut(p) \/ ReceiveDelete(p)
  \/ PostInvalidJSON(p) \/ PutInvalidJSON(p) \/ PutNull(p) \/ PutMismatch(p)

Continue(p) == Proceed(p) \/ PutUpdate(p) \/ DeleteAll(p) \/ Respond(p)

HandlerNext ==
  \/ \E p \in Procs : NewRequest(p) \/ Continue(p) \/ ProceedBadly(p) \/ GatewayError(p)
  \/ \E id \in Ids : Replicate(id) /\ UNCHANGED http

HandlerSpec == HandlerInit /\ [][HandlerNext]_handlerVars

(* DynamoDB answers every request, and between two requests a handler only *)
(* computes.                                                               *)
FairHandlerSpec == HandlerSpec /\ \A p \in Procs : WF_handlerVars(Continue(p))

-----------------------------------------------------------------------------
(* Correctness.                                                            *)

Answered(p, method, statuses) ==
  ~Serving(p) /\ http[p].method = method /\ http[p].status \in statuses

(* A client that is told that its POST or PUT is wrong, 400 or 404, can    *)
(* rely on nothing being stored: save's transaction is all or nothing, and *)
(* create gives up only after refused ones (demo.model.ts 212-249,         *)
(* api.controller.ts 59-73).                                               *)
RefusedStoresNothing ==
  \A p \in Procs :
    Answered(p, "POST", {400, 404}) \/ Answered(p, "PUT", {400, 404})
      => ~http[p].wrote

(* A PUT or DELETE changes rows of the demo in its path only, though the   *)
(* id that update stores under is the one in the body (demo.handler.ts     *)
(* 60-68).                                                                 *)
OnlyThePathsDemo ==
  [][\A p \in Procs :
       Serving(p) /\ http[p].id # None /\ (call'[p] # call[p] \/ LostDelete(p))
       => \A e \in DOMAIN table \cup DOMAIN table' :
            Row(table, e) # Row(table', e) => e[2] = http[p].id]_handlerVars

(* "Handler to delete definitely an existing demo and all their versions"  *)
(* (demo.handler.ts 76): while no other request is served, a client whose  *)
(* DELETE is answered 204 or 404 finds no row of the demo.                 *)
DeletedDefinitely ==
  \A p \in Procs :
    Answered(p, "DELETE", {204, 404}) /\ (\A q \in Procs : ~Serving(q))
      => \A e \in DOMAIN table : e[2] # http[p].id

(* Every request is answered, by the handler or by the gateway: whatever   *)
(* vanishes between its two calls, and though create tries again when an   *)
(* id is taken and deleteCompletely is a loop, whose turns are bounded by  *)
(* what was read before the first one.                                     *)
EveryRequestAnswered == \A p \in Procs : Serving(p) ~> ~Serving(p)

=============================================================================
