----------------------------- MODULE Scenarios -----------------------------
(***************************************************************************)
(* The functional tests (rest-api/features): several test runs play the    *)
(* scenarios of Demo.feature against one deployment.  A run prepares its   *)
(* demos and clears them away with a DataManager, which calls DemoModel    *)
(* itself; between the two it sends a request to the handlers of           *)
(* DemoHandler and compares the answer with what the feature says.         *)
(*                                                                         *)
(* The features are about a deployment in which nothing fails, so no step  *)
(* here is a fault.  But the reads of the service are eventually           *)
(* consistent all the same: misread tells of which demos a read has        *)
(* answered something else than the latest copy.                           *)
(*                                                                         *)
(* A definition under the heading "Mistake" is a wrong form of the one     *)
(* that follows it, as in DemoModel.                                       *)
(***************************************************************************)
EXTENDS DemoHandler

CONSTANTS
  Runners,    \* test runs, each with its DataManager and one scenario at a time
  Own,        \* Own[r]: the processes that execute the model calls of run r
  Template,   \* DEMO_TEMPLATE
  Absent      \* the id 'doesnt-exists'

ASSUME ScenariosAssumption ==
  /\ Own \in [Runners -> SUBSET Procs]
  /\ \A r, s \in Runners : r # s => Own[r] \cap Own[s] = {}
  /\ None \notin Procs
  /\ Template \in Bodies /\ Template.status = "Created" /\ Valid(Template)
  /\ Valid([Template EXCEPT !.status = "Deleted"])
  /\ Absent \in Ids

Names == {"list", "fetch", "fetchAbsent", "create", "update", "delete"}

(* The processes that serve requests.                                      *)
Lambdas == Procs \ UNION {Own[r] : r \in Runners}

VARIABLES
  world,     \* world[r]: the scenario that run r plays and its DataManager
  misread    \* a history variable: the ids of which a read was stale

scenarioVars == <<handlerVars, world, misread>>

(* The scenario, the step it is at, the process whose answer it awaits,    *)
(* this.demo (id and item), the copy of that demo in the list that was     *)
(* asked for, and of the DataManager the ids it manages and the default    *)
(* demo.  failed: did a step or a hook of the scenario throw?              *)
NewWorld == [name |-> "none", step |-> "idle", awaits |-> None, demo |-> None,
             item |-> None, listed |-> None, managed |-> {}, default |-> None,
             failed |-> FALSE]

ScenariosInit ==
  HandlerInit /\ world = [r \in Runners |-> NewWorld] /\ misread = {}

Throws(r) ==
  world' = [world EXCEPT ![r] = [NewWorld EXCEPT
    !.step = "cleaning", !.default = world[r].default, !.failed = TRUE]]

-----------------------------------------------------------------------------
(* Given.                                                                  *)

(* "A demo that I created": createDemo, which throws when the manager has  *)
(* a default demo already.                                                 *)
GivenDemo(r) ==
  /\ world[r].step = "idle"
  /\ IF world[r].default # None
       THEN Throws(r) /\ UNCHANGED handlerVars
       ELSE /\ \E name \in Names \ {"fetchAbsent"}, p \in Own[r] :
                 /\ StartCreate(p)
                 /\ call'[p].body = Template /\ call'[p].id # Absent
                 /\ world' = [world EXCEPT ![r] = [NewWorld EXCEPT
                      !.name = name, !.step = "given", !.awaits = p]]
            /\ UNCHANGED http
  /\ UNCHANGED misread

DemoGiven(r) ==
  LET p == world[r].awaits
  IN  /\ world[r].step = "given" /\ Free(p)
      /\ IF call[p].result = "ok"
           THEN world' = [world EXCEPT ![r] = [world[r] EXCEPT
                  !.step = "ready", !.awaits = None,
                  !.demo = call[p].id, !.item = Saved(call[p]),
                  !.managed = @ \cup {call[p].id}, !.default = call[p].id]]
           ELSE Throws(r)
      /\ UNCHANGED <<handlerVars, misread>>

(* "A demo doesn't exist": the deletion of a row that is not there, whose  *)
(* NotFoundError is expected.                                              *)
GivenNoDemo(r) ==
  /\ world[r].step = "idle"
  /\ table' = Remove(table, EntityId(Absent, 0))
  /\ world' = [world EXCEPT ![r] = [NewWorld EXCEPT
       !.name = "fetchAbsent", !.step = "ready", !.demo = Absent,
       !.default = world[r].default]]
  /\ UNCHANGED <<replica, used, call, http, misread>>

-----------------------------------------------------------------------------
(* When.                                                                   *)
Edited(item) == [item.body EXCEPT !.status = "Deleted"]

Asked(r, l) ==
  \/ /\ world[r].name \in {"fetch", "fetchAbsent"}
     /\ ReceiveGet(l) /\ call'[l].id = world[r].demo
  \/ /\ world[r].name = "create"
     /\ ReceivePost(l) /\ call'[l].body = Template /\ call'[l].id # Absent
  \/ /\ world[r].name = "update"
     /\ ReceivePut(l)
     /\ http'[l].demo = [id |-> world[r].demo, body |-> Edited(world[r].item)]
  \/ /\ world[r].name = "delete"
     /\ ReceiveDelete(l) /\ call'[l].id = world[r].demo

Ask(r) ==
  /\ world[r].step = "ready"
  /\ \E l \in Lambdas :
       /\ \A q \in Runners : world[q].awaits # l
       /\ IF world[r].name = "list" THEN UNCHANGED handlerVars ELSE Asked(r, l)
       /\ world' = [world EXCEPT ![r].step = "asked", ![r].awaits = l]
  /\ UNCHANGED misread

(* The handler getAll: the answer of the scan, in which the copy of        *)
(* this.demo is all that matters to the scenario.  Bound: the rows fit in  *)
(* one page.                                                               *)
ScanDemos(r) ==
  LET id == world[r].demo
  IN  /\ world[r].step = "asked" /\ world[r].name = "list"
      /\ \E item \in Visible(id) :
           /\ world' = [world EXCEPT ![r].step = "scanned", ![r].listed = item]
           /\ misread' = IF item = Latest(id) THEN misread ELSE misread \cup {id}
      /\ UNCHANGED handlerVars

-----------------------------------------------------------------------------
(* Then, as soon as the answer is there.  An answer is a status, the id in *)
(* it and the item.                                                        *)
Answers(name, status, id, item, w) ==
  CASE name = "list"        -> item = w.item
    [] name = "fetch"       -> status = 200 /\ item = w.item
    [] name = "fetchAbsent" -> status = 404
    [] name = "create"      -> status = 201 /\ id \in Ids /\ item.body = Template
    [] name = "update"      -> status = 200 /\ item = [version |-> 2, body |-> Edited(w.item)]
    [] name = "delete"      -> status = 204

(* "I get a list of demos": this.demo is one of the rows in the list.      *)
ReplyList(r) ==
  LET w == world[r]
  IN  /\ w.step = "scanned"
      /\ world' = [world EXCEPT ![r] = [world[r] EXCEPT
           !.step = "cleaning", !.awaits = None, !.listed = None,
           !.failed = @ \/ ~Answers("list", 200, w.demo, w.listed, w)]]
      /\ UNCHANGED <<handlerVars, misread>>

(* Mistake: the demo that the API created is not handed to the manager.    *)
ManagedOwnOnly(w, status, id) == w.managed

(* manageDemo.                                                             *)
Managed(w, status, id) ==
  IF w.name = "create" /\ status = 201 THEN w.managed \cup {id} ELSE w.managed

Reply(r) ==
  LET w == world[r]
      l == w.awaits
      status == StatusOf(http[l].method, call[l].result)
      item == IF http[l].method = "GET" THEN call[l].latest ELSE Saved(call[l])
  IN  /\ w.step = "asked" /\ w.name # "list"
      /\ Respond(l)
      /\ world' = [world EXCEPT ![r] = [world[r] EXCEPT
           !.step = "cleaning", !.awaits = None,
           !.managed = Managed(w, status, call[l].id),
           !.failed = @ \/ ~Answers(w.name, status, call[l].id, item, w)]]
      /\ UNCHANGED misread

-----------------------------------------------------------------------------
(* After: deleteAll.                                                       *)

(* Mistake: the default demo is not forgotten.                             *)
CleanUpKeepsDefault(r) ==
  /\ world[r].step = "cleaning"
  /\ \E id \in world[r].managed, p \in Own[r] :
       /\ StartDeleteCompletely(p) /\ call'[p].id = id
       /\ world' = [world EXCEPT ![r].managed = @ \ {id}]
  /\ UNCHANGED <<http, misread>>

(* The deletions run side by side.                                         *)
CleanUp(r) ==
  /\ world[r].step = "cleaning"
  /\ \E id \in world[r].managed, p \in Own[r] :
       /\ StartDeleteCompletely(p) /\ call'[p].id = id
       /\ world' = [world EXCEPT ![r].managed = @ \ {id}, ![r].default = None]
  /\ UNCHANGED <<http, misread>>

(* Promise.all is settled: a demo that is gone is no error, anything else  *)
(* fails the hook.                                                         *)
CleanedUp(r) ==
  /\ world[r].step = "cleaning" /\ world[r].managed = {}
  /\ \A p \in Own[r] : Free(p)
  /\ world' = [world EXCEPT ![r] = [NewWorld EXCEPT
       !.demo = world[r].demo, !.default = world[r].default,
       !.failed = world[r].failed \/ \E p \in Own[r] : Ended(p, "deleteCompletely", "Error")]]
  /\ UNCHANGED <<handlerVars, misread>>

-----------------------------------------------------------------------------
Play(r) ==
  \/ GivenDemo(r) \/ DemoGiven(r) \/ GivenNoDemo(r)
  \/ Ask(r) \/ ScanDemos(r) \/ ReplyList(r) \/ Reply(r) \/ CleanUp(r) \/ CleanedUp(r)

(* Did the get of the call answer something else than the latest copy?     *)
Misreads(p) ==
  LET latest == Latest(call[p].id)
  IN  /\ call[p].pc = "get" /\ call'[p].pc # "get"
      /\ \/ call'[p].result = "NotFound" /\ latest # None
         \/ call'[p].latest \notin {None, latest}

(* The calls under way, of the managers and of the handlers.               *)
Work ==
  /\ \/ \E r \in Runners : \E p \in Own[r] : Step(p) /\ UNCHANGED http
     \/ \E l \in Lambdas : Proceed(l) \/ PutUpdate(l) \/ DeleteAll(l)
  /\ misread' = misread \cup {id \in Ids : \E p \in Procs : call[p].id = id /\ Misreads(p)}
  /\ UNCHANGED world

CatchUp == \E id \in Ids : Replicate(id) /\ UNCHANGED <<http, world, misread>>

ScenariosNext == Work \/ CatchUp \/ \E r \in Runners : Play(r)

ScenariosSpec == ScenariosInit /\ [][ScenariosNext]_scenarioVars

-----------------------------------------------------------------------------
(* Correctness.                                                            *)

(* What Demo.feature says comes true, and no clean-up fails, while other   *)
(* runs create, change and delete demos in the same table (Demo.ts         *)
(* 109-141, Shared.ts 10-20): a scenario fails only when a read of the     *)
(* demo it is about was stale.                                             *)
ScenariosPass ==
  \A r \in Runners : world[r].failed => world[r].demo \in misread

(* "Deletes all the managed resources to clean up after running a test     *)
(* case" (data.manager.ts 120): a row in the table belongs to a scenario   *)
(* that is still being played.  One that has ended leaves rows only of a   *)
(* demo of which a read was stale: its deletion is then taken for done, or *)
(* is too short.                                                           *)
NothingLeft ==
  \A e \in DOMAIN table : e[2] \in misread \/ \E r \in Runners :
    /\ world[r].step # "idle"
    /\ \/ e[2] \in world[r].managed
       \/ \E p \in Own[r] \cup ({world[r].awaits} \ {None}) : call[p].id = e[2]

=============================================================================
