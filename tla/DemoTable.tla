----------------------------- MODULE DemoTable -----------------------------
(***************************************************************************)
(* The DynamoDB table behind data-models/lib/models/demo.model.ts, as the  *)
(* demo model uses it.                                                     *)
(*                                                                         *)
(* A demo is stored in several rows.  Row <<k, id>> (entityId v{k}_{id})   *)
(* with k > 0 holds version k of the demo; row <<0, id>> is a second copy  *)
(* of its latest version.  The value of a table is a function from the     *)
(* entity ids present to the items stored there, so that the condition     *)
(* attribute_exists(entityId) is membership in its domain.                 *)
(***************************************************************************)
EXTENDS Naturals

CONSTANTS
  Ids,       \* demo ids, the values uuidv4() may return
  Bodies,    \* what callers send: the content and the status of a demo
  Invalid,   \* a field value that the JSON schema refuses
  None       \* "no item", "no id": not a value of the program

ASSUME BodiesAreRecords ==
  \A b \in Bodies : b = [data |-> b.data, status |-> b.status]

(* Every body a demo can have: a body sent, perhaps with the status of     *)
(* another one or with the status that create() forces.                    *)
Status == {b.status : b \in Bodies} \cup {"Created"}
Body == [data : {b.data : b \in Bodies}, status : Status]

Version == Nat \ {0}
Item == [version : Version, body : Body]

ASSUME NoneIsNoValue == None \notin Ids /\ None \notin Bodies /\ None \notin Item

(* getEntityId: the key of a version of a demo, 0 being the latest.        *)
EntityId(id, version) == <<version, id>>
EntityIds == Nat \X Ids

(* The schema check of validate(): no field has a value it refuses.        *)
Valid(body) == body.data # Invalid /\ body.status # Invalid

Exists(tbl, e) == e \in DOMAIN tbl
Row(tbl, e) == IF e \in DOMAIN tbl THEN tbl[e] ELSE None

(* Two Puts of one transaction, both of them unconditional by now: the     *)
(* item is stored as the latest and at its version row.                    *)
PutTwice(tbl, id, version, item) ==
  LET written == {EntityId(id, 0), EntityId(id, version)}
  IN  [e \in DOMAIN tbl \cup written |-> IF e \in written THEN item ELSE tbl[e]]

Remove(tbl, e) == [f \in DOMAIN tbl \ {e} |-> tbl[f]]

=============================================================================
