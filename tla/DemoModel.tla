----------------------------- MODULE DemoModel -----------------------------
(***************************************************************************)
(* The methods of class DemoModel (data-models/lib/models/demo.model.ts)   *)
(* run by concurrent processes, the Lambda invocations, that share nothing *)
(* but the table.  A method runs without interruption between two awaits,  *)
(* so an action is what happens from the answer of one DynamoDB request to *)
(* the sending of the next one; the request itself takes effect in the     *)
(* action that handles its answer.                                         *)
(*                                                                         *)
(* client.get is called without ConsistentRead: it may answer from a copy  *)
(* of the row that is behind the writes, here replica[id].                 *)
(*                                                                         *)
(* A definition under the heading "Mistake" is a wrong form of the one    *)
(* that follows it: no specification uses it, it documents which mistake   *)
(* some property notices.                                                  *)
(***************************************************************************)
EXTENDS DemoTable, FiniteSets

CONSTANTS
  Procs,        \* concurrent Lambda invocations
  Ops,          \* the methods this system calls
  Retries,      \* default of create()'s parameter retry
  Collisions,   \* may uuidv4() return an id that it returned before?
  Lag,          \* may a get answer from a copy that is behind?
  Faults,       \* what may go wrong: "fail", "lostReply", "lostDelete", "crash"
  MaxVersion    \* bound: no update starts that could exceed this version

AllOps == {"get", "create", "update", "updateRevision", "delete",
           "deleteCompletely"}
Awaits == {"get", "save", "revise", "delete"}
Results == {"ok", "BadRequest", "NotFound", "Error"}

ASSUME ConstantsAssumption ==
  /\ Ops \subseteq AllOps
  /\ Retries \in Nat /\ MaxVersion \in Nat
  /\ Collisions \in BOOLEAN /\ Lag \in BOOLEAN
  /\ Faults \subseteq {"fail", "lostReply", "lostDelete", "crash"}

VARIABLES
  table,     \* the rows of the table
  replica,   \* replica[id]: the copy of row v0_{id} that lags behind
  used,      \* the ids uuidv4() has returned
  call       \* call[p]: the call process p executes or has executed last

vars == <<table, replica, used, call>>

(* A call: the method, the await it is suspended at ("idle" before the     *)
(* first call and "returned" after the end), its arguments, the item that  *)
(* this.get(id) returned, the remaining retries and its outcome.  version  *)
(* is the version row that updateRevision, delete or the loop of           *)
(* deleteCompletely addresses next.                                        *)
Call == [op : AllOps \cup {"none"},
         pc : Awaits \cup {"idle", "returned"},
         id : Ids \cup {None},
         body : Bodies \cup {None},
         version : Nat,
         latest : Item \cup {None},
         retry : Nat,
         result : Results \cup {"none"}]

Idle == [op |-> "none", pc |-> "idle", id |-> None, body |-> None,
         version |-> 0, latest |-> None, retry |-> 0, result |-> "none"]

TypeOK ==
  /\ DOMAIN table \subseteq EntityIds
  /\ table \in [DOMAIN table -> Item]
  /\ replica \in [Ids -> Item \cup {None}]
  /\ used \subseteq Ids
  /\ call \in [Procs -> Call]

(* A suspended call holds the arguments and the item that its method needs *)
(* from there on.                                                          *)
Awaiting ==
  [get    |-> {"get", "update", "updateRevision", "deleteCompletely"},
   save   |-> {"create", "update"},
   revise |-> {"updateRevision"},
   delete |-> {"delete", "deleteCompletely"}]

Suspended(c) ==
  /\ c.op \in Ops /\ c.op \in Awaiting[c.pc]
  /\ c.id \in Ids
  /\ c.op \in {"create", "update", "updateRevision"} => c.body \in Bodies
  /\ c.pc # "get" /\ c.op \notin {"create", "delete"} => c.latest \in Item
  /\ c.pc = "delete" /\ c.op = "deleteCompletely" => c.version <= c.latest.version

CallsOK == \A p \in Procs : call[p].pc \in Awaits => Suspended(call[p])

Init ==
  /\ table = [e \in {} |-> None]
  /\ replica = [id \in Ids |-> None]
  /\ used = {}
  /\ call = [p \in Procs |-> Idle]

-----------------------------------------------------------------------------
(* The items the methods write, from the state of the call.                *)

(* Mistake: a new demo numbered like the latest copy.                      *)
CreatedAtZero(c) == [version |-> 0, body |-> [c.body EXCEPT !.status = "Created"]]

Created(c) == [version |-> 1, body |-> [c.body EXCEPT !.status = "Created"]]

(* Mistake: a version is skipped.                                          *)
UpdatedSkipping(c) == [version |-> c.latest.version + 2, body |-> c.body]

Updated(c) == [version |-> c.latest.version + 1, body |-> c.body]
Revised(c) == [version |-> c.latest.version,
               body |-> [c.latest.body EXCEPT !.status = c.body.status]]

Saved(c) == IF c.op = "create" THEN Created(c) ELSE Updated(c)

Free(p) == call[p].pc \in {"idle", "returned"}
Fresh(id) == Collisions \/ id \notin used

Return(p, result) ==
  call' = [call EXCEPT ![p].pc = "returned", ![p].result = result]

Start(p, op, pc, id, body, version, retry) ==
  /\ op \in Ops
  /\ Free(p)
  /\ call' = [call EXCEPT ![p] =
       [op |-> op, pc |-> pc, id |-> id, body |-> body, version |-> version,
        latest |-> None, retry |-> retry, result |-> "none"]]

(* The versions of a demo that are stored, or that an update may have read *)
(* or still read.                                                          *)
VersionsSeen(id) ==
  UNION {{e[1], table[e].version} : e \in {e \in DOMAIN table : e[2] = id}}
  \cup {item.version : item \in {replica[id]} \ {None}}
  \cup {call[p].latest.version : p \in {p \in Procs : call[p].id = id /\ call[p].pc = "save"
                                                     /\ call[p].op = "update"}}

(* Bound: the updates under way may each add a version to the highest one. *)
HasRoom(id) ==
  LET underWay == {p \in Procs : call[p].op = "update" /\ call[p].id = id
                                 /\ call[p].pc \in Awaits}
  IN  \A version \in VersionsSeen(id) : version + Cardinality(underWay) < MaxVersion

-----------------------------------------------------------------------------
(* Calls, up to their first await.                                         *)
StartGet(p) ==
  /\ \E id \in Ids : Start(p, "get", "get", id, None, 0, 0)
  /\ UNCHANGED <<table, replica, used>>

StartCreate(p) ==
  /\ \E body \in Bodies, id \in Ids :
       /\ Fresh(id)
       /\ Start(p, "create", "save", id, body, 0, Retries)
       /\ Valid([body EXCEPT !.status = "Created"])
       /\ used' = used \cup {id}
  /\ UNCHANGED <<table, replica>>

(* The body is refused by validate() before anything is awaited.           *)
RefuseCreate(p) ==
  /\ "create" \in Ops
  /\ Free(p)
  /\ \E body \in Bodies :
       /\ ~Valid([body EXCEPT !.status = "Created"])
       /\ call' = [call EXCEPT ![p] = [Idle EXCEPT !.op = "create",
                     !.pc = "returned", !.body = body, !.result = "BadRequest"]]
  /\ UNCHANGED <<table, replica, used>>

StartUpdate(p) ==
  /\ \E id \in Ids, body \in Bodies :
       /\ HasRoom(id)
       /\ Start(p, "update", "get", id, body, 0, 0)
  /\ UNCHANGED <<table, replica, used>>

StartUpdateRevision(p) ==
  /\ \E id \in Ids, body \in Bodies, version \in 0..MaxVersion :
       Start(p, "updateRevision", "get", id, body, version, 0)
  /\ UNCHANGED <<table, replica, used>>

StartDelete(p) ==
  /\ \E id \in Ids, version \in 0..MaxVersion :
       Start(p, "delete", "delete", id, None, version, 0)
  /\ UNCHANGED <<table, replica, used>>

StartDeleteCompletely(p) ==
  /\ \E id \in Ids : Start(p, "deleteCompletely", "get", id, None, 0, 0)
  /\ UNCHANGED <<table, replica, used>>

-----------------------------------------------------------------------------
(* What client.get may answer for the latest version of a demo.            *)
Visible(id) ==
  {Row(table, EntityId(id, 0))} \cup (IF Lag THEN {replica[id]} ELSE {})

GetMissing(p) ==
  /\ call[p].pc = "get"
  /\ None \in Visible(call[p].id)
  /\ Return(p, "NotFound")
  /\ UNCHANGED <<table, replica, used>>

(* The answer of this.get(id) for get() itself.                            *)
GetFound(p) ==
  /\ call[p].op = "get" /\ call[p].pc = "get"
  /\ \E item \in Visible(call[p].id) \ {None} :
       call' = [call EXCEPT ![p].pc = "returned", ![p].result = "ok",
                            ![p].latest = item]
  /\ UNCHANGED <<table, replica, used>>

(* update: the new version is computed from the item read, whatever        *)
(* version the body carries, then checked.                                 *)
ReadForUpdate(p) ==
  /\ call[p].op = "update" /\ call[p].pc = "get"
  /\ \E item \in Visible(call[p].id) \ {None} :
       IF Valid(call[p].body)
         THEN call' = [call EXCEPT ![p].pc = "save", ![p].latest = item]
         ELSE Return(p, "BadRequest")
  /\ UNCHANGED <<table, replica, used>>

(* updateRevision: the item read, with the status of the argument.         *)
ReadForRevision(p) ==
  /\ call[p].op = "updateRevision" /\ call[p].pc = "get"
  /\ \E item \in Visible(call[p].id) \ {None} :
       IF Valid([item.body EXCEPT !.status = call[p].body.status])
         THEN call' = [call EXCEPT ![p].pc = "revise", ![p].latest = item]
         ELSE Return(p, "BadRequest")
  /\ UNCHANGED <<table, replica, used>>

(* deleteCompletely: the loop starts at 0 and ends at the version read.    *)
ReadForDeletion(p) ==
  /\ call[p].op = "deleteCompletely" /\ call[p].pc = "get"
  /\ \E item \in Visible(call[p].id) \ {None} :
       call' = [call EXCEPT ![p].pc = "delete", ![p].latest = item,
                            ![p].version = 0]
  /\ UNCHANGED <<table, replica, used>>

-----------------------------------------------------------------------------
(* Mistake: no condition on the version row.                               *)
CanSaveAlways(c) == TRUE

(* save: one transaction, cancelled when the version row exists.           *)
CanSave(c) == ~Exists(table, EntityId(c.id, Saved(c).version))

(* Mistake: only the latest copy is put.                                   *)
WriteLatestOnly(c) == table' = PutTwice(table, c.id, 0, Saved(c))

WriteSaved(c) == table' = PutTwice(table, c.id, Saved(c).version, Saved(c))

Save(p) ==
  /\ call[p].pc = "save"
  /\ CanSave(call[p])
  /\ WriteSaved(call[p])
  /\ Return(p, "ok")
  /\ UNCHANGED <<replica, used>>

(* Mistake: the retries are not counted.                                   *)
RetryCreateForever(p) ==
  /\ call[p].op = "create" /\ call[p].pc = "save"
  /\ ~CanSave(call[p])
  /\ \E id \in Ids : Fresh(id) /\ call' = [call EXCEPT ![p].id = id]
  /\ UNCHANGED <<table, replica, used>>

(* create: the id exists already, try again with another one.              *)
RetryCreate(p) ==
  /\ call[p].op = "create" /\ call[p].pc = "save"
  /\ ~CanSave(call[p])
  /\ call[p].retry > 0
  /\ \E id \in Ids :
       /\ Fresh(id)
       /\ call' = [call EXCEPT ![p].id = id, ![p].retry = @ - 1]
       /\ used' = used \cup {id}
  /\ UNCHANGED <<table, replica>>

(* Mistake: two requests instead of a transaction, the first one succeeds. *)
SaveRefusedHalfway(p) ==
  /\ call[p].pc = "save"
  /\ ~CanSave(call[p])
  /\ WriteLatestOnly(call[p])
  /\ Return(p, IF call[p].op = "create" THEN "Error" ELSE "BadRequest")
  /\ UNCHANGED <<replica, used>>

(* create rethrows the exception once no retry is left; update turns it    *)
(* into a BadRequestError.                                                 *)
SaveRefused(p) ==
  /\ call[p].pc = "save"
  /\ ~CanSave(call[p])
  /\ \/ /\ call[p].op = "create" /\ call[p].retry = 0
        /\ Return(p, "Error")
     \/ /\ call[p].op = "update"
        /\ Return(p, "BadRequest")
  /\ UNCHANGED <<table, replica, used>>

-----------------------------------------------------------------------------
(* Mistake: no condition on the version row.                               *)
CanReviseAnything(c) == c.version # 0

(* updateRevision's transaction: no condition on the latest row, and       *)
(* attribute_exists on the row of the version in the argument.             *)
CanRevise(c) == c.version # 0 /\ Exists(table, EntityId(c.id, c.version))

WriteRevised(c) == table' = PutTwice(table, c.id, c.version, Revised(c))

Revise(p) ==
  /\ call[p].pc = "revise"
  /\ CanRevise(call[p])
  /\ WriteRevised(call[p])
  /\ Return(p, "ok")
  /\ UNCHANGED <<replica, used>>

(* With version 0 both Puts are on one row, which DynamoDB rejects with    *)
(* another exception than a failed condition.                              *)
ReviseRefused(p) ==
  /\ call[p].pc = "revise"
  /\ ~CanRevise(call[p])
  /\ Return(p, IF call[p].version = 0 THEN "Error" ELSE "BadRequest")
  /\ UNCHANGED <<table, replica, used>>

-----------------------------------------------------------------------------
(* delete: the row must exist.                                             *)
Target(c) == EntityId(c.id, c.version)

RemoveTarget(c) == table' = Remove(table, Target(c))

(* Mistake: the loop ends one version too early.                           *)
LastDeleteTooEarly(c) == c.op = "delete" \/ c.version + 1 = c.latest.version

LastDelete(c) == c.op = "delete" \/ c.version = c.latest.version

DeleteRow(p) ==
  /\ call[p].pc = "delete"
  /\ Exists(table, Target(call[p]))
  /\ RemoveTarget(call[p])
  /\ IF LastDelete(call[p])
       THEN Return(p, "ok")
       ELSE call' = [call EXCEPT ![p].version = @ + 1]
  /\ UNCHANGED <<replica, used>>

(* Mistake: the loop goes on when a row is missing.                        *)
DeleteMissingSkipped(p) ==
  /\ call[p].pc = "delete"
  /\ ~Exists(table, Target(call[p]))
  /\ IF LastDelete(call[p])
       THEN Return(p, "ok")
       ELSE call' = [call EXCEPT ![p].version = @ + 1]
  /\ UNCHANGED <<table, replica, used>>

(* The failed condition becomes a NotFoundError, which also ends the loop  *)
(* of deleteCompletely.                                                    *)
DeleteMissing(p) ==
  /\ call[p].pc = "delete"
  /\ ~Exists(table, Target(call[p]))
  /\ Return(p, "NotFound")
  /\ UNCHANGED <<table, replica, used>>

-----------------------------------------------------------------------------
(* What the environment does to a call.                                    *)

(* DynamoDB rejects a request for another reason (throttling, a            *)
(* conflicting transaction); the exception goes up unchanged.              *)
Fail(p) ==
  /\ "fail" \in Faults
  /\ call[p].pc \in Awaits
  /\ Return(p, "Error")
  /\ UNCHANGED <<table, replica, used>>

(* A transaction takes effect but its answer is lost.  It carries an       *)
(* idempotency token, so that the SDK's repetitions change nothing: one of *)
(* them is answered like the transaction, which is then as good as         *)
(* answered, or the SDK gives up.                                          *)
LostReply(p) ==
  /\ "lostReply" \in Faults
  /\ \/ /\ call[p].pc = "save" /\ CanSave(call[p])
        /\ WriteSaved(call[p])
     \/ /\ call[p].pc = "revise" /\ CanRevise(call[p])
        /\ WriteRevised(call[p])
  /\ Return(p, "Error")
  /\ UNCHANGED <<replica, used>>

(* A delete takes effect but its answer is lost.  It carries no token: the *)
(* SDK sends it again after a while, and the repetition is a request like  *)
(* any other.  It finds the row gone, unless someone has put it back.      *)
LostDelete(p) ==
  /\ "lostDelete" \in Faults
  /\ call[p].pc = "delete" /\ Exists(table, Target(call[p]))
  /\ RemoveTarget(call[p])
  /\ UNCHANGED <<replica, used, call>>

(* The invocation times out or its instance dies between two requests.     *)
Crash(p) ==
  /\ "crash" \in Faults
  /\ call[p].pc \in Awaits
  /\ call' = [call EXCEPT ![p] = Idle]
  /\ UNCHANGED <<table, replica, used>>

(* The lagging copy of the latest row catches up.                          *)
Replicate(id) ==
  /\ Lag
  /\ replica[id] # Row(table, EntityId(id, 0))
  /\ replica' = [replica EXCEPT ![id] = Row(table, EntityId(id, 0))]
  /\ UNCHANGED <<table, used, call>>

-----------------------------------------------------------------------------
Begin(p) ==
  \/ StartGet(p) \/ StartCreate(p) \/ RefuseCreate(p) \/ StartUpdate(p)
  \/ StartUpdateRevision(p) \/ StartDelete(p) \/ StartDeleteCompletely(p)

(* The next step of a call under way.                                      *)
Step(p) ==
  \/ GetMissing(p) \/ GetFound(p) \/ ReadForUpdate(p) \/ ReadForRevision(p)
  \/ ReadForDeletion(p) \/ Save(p) \/ RetryCreate(p) \/ SaveRefused(p)
  \/ Revise(p) \/ ReviseRefused(p) \/ DeleteRow(p) \/ DeleteMissing(p)

Fault(p) == Fail(p) \/ LostReply(p) \/ LostDelete(p) \/ Crash(p)

Next ==
  \/ \E p \in Procs : Begin(p) \/ Step(p) \/ Fault(p)
  \/ \E id \in Ids : Replicate(id)

Spec == Init /\ [][Next]_vars

-----------------------------------------------------------------------------
(* Correctness.                                                            *)

Latest(id) == Row(table, EntityId(id, 0))

(* The item is stored at the row of its version.                           *)
Stored(id, item) ==
  LET e == EntityId(id, item.version) IN Exists(table, e) /\ table[e] = item

Ended(p, op, result) ==
  call[p].pc = "returned" /\ call[p].op = op /\ call[p].result = result

(* "Store the current/latest version twice" (demo.model.ts 337): the latest *)
(* copy of a demo is also stored at the row of its version.                *)
LatestHasVersion ==
  \A id \in Ids : Latest(id) # None => Stored(id, Latest(id))

(* Version 0 is the latest (demo.model.ts 67): a demo that has versions    *)
(* has a latest copy, and no version row is newer than that copy.          *)
LatestIsNewest ==
  \A e \in DOMAIN table : e[1] > 0 =>
    Latest(e[2]) # None /\ e[1] <= Latest(e[2]).version

(* "When I update a demo / Then I get a 200 status"                        *)
(* (rest-api/features/Demo.feature): a demo that exists can be given its   *)
(* next version.  If the row of that version were there while no call is   *)
(* under way, every later update would be refused (demo.model.ts 234,      *)
(* 363).                                                                   *)
NextVersionFree ==
  (\A p \in Procs : call[p].pc \notin Awaits) =>
    \A id \in Ids : Latest(id) # None =>
      ~Exists(table, EntityId(id, Latest(id).version + 1))

(* The history of a demo has no hole: below a version row are the rows of  *)
(* all the versions before it, and the row of version k holds the item     *)
(* numbered k.                                                             *)
HistoryComplete ==
  \A e \in DOMAIN table : e[1] > 0 =>
    /\ table[e].version = e[1]
    /\ \A k \in 1..e[1] : Exists(table, EntityId(e[2], k))

(* What an update under way has read, or may still read from the lagging   *)
(* copy, is a version of the demo, though maybe not the latest one.        *)
ReadsAreHistory ==
  /\ \A id \in Ids : replica[id] # None => Stored(id, replica[id])
  /\ \A p \in Procs : call[p].pc = "save" /\ call[p].op = "update"
       => Stored(call[p].id, call[p].latest)

(* A create or an update that answered its caller stays readable at its    *)
(* version, and no two of them were given the same version of a demo.      *)
Acknowledged(p) == Ended(p, "create", "ok") \/ Ended(p, "update", "ok")

AcknowledgedKept ==
  /\ \A p \in Procs : Acknowledged(p) => Stored(call[p].id, Saved(call[p]))
  /\ \A p, q \in Procs :
       Acknowledged(p) /\ Acknowledged(q) /\ p # q /\ call[p].id = call[q].id
         => Saved(call[p]).version # Saved(call[q]).version

(* A version row, once stored, is never overwritten: it can only be        *)
(* deleted (save's attribute_not_exists).                                  *)
VersionRowFixed(e) ==
  e[1] > 0 /\ Exists(table, e) => ~Exists(table', e) \/ table'[e] = table[e]

VersionRowsFixed == [][\A e \in DOMAIN table : VersionRowFixed(e)]_vars

(* Optimistic concurrency: what update read, be it stale, is the latest    *)
(* version at the moment its transaction takes effect, answered or not, so *)
(* that no version is computed from another one than the one before it.    *)
SavedOnTopOfLatest ==
  [][\A p \in Procs :
       call[p].pc = "save" /\ call[p].op = "update" /\ call'[p] # call[p] /\ table' # table
         => call[p].latest = Latest(call[p].id)]_vars

(* A version row appears only as the latest version of its demo, by        *)
(* whatever methods the demo is written (demo.model.ts 281-292, 353-365).  *)
NewVersionIsLatest ==
  [][\A e \in DOMAIN table' \ DOMAIN table : e[1] > 0 =>
       /\ Exists(table', EntityId(e[2], 0))
       /\ table'[EntityId(e[2], 0)] = table'[e]
       /\ table'[e].version = e[1]]_vars

(* Of all the deletions of one demo only one succeeds: version 1 is never  *)
(* written again, and a deletion that does not find it ends with a         *)
(* NotFoundError.                                                          *)
OneDeletionSucceeds ==
  \A p, q \in Procs :
    p # q /\ Ended(p, "deleteCompletely", "ok") /\ Ended(q, "deleteCompletely", "ok")
      => call[p].id # call[q].id

=============================================================================
