-------------------------- MODULE DemoModelDeletion --------------------------
(***************************************************************************)
(* Deletions that race with updates, with each other and with the          *)
(* repetitions of the SDK: what they leave of a demo.                      *)
(*                                                                         *)
(* deleteCompletely is a loop of independent deletes, as long as the       *)
(* version that was read at its start.  The argument about it turns on     *)
(* version 1: no update writes it and no id is generated twice, so it is   *)
(* deleted once, and of the deletions of a demo only the one that found it *)
(* goes on to the later versions.                                          *)
(***************************************************************************)
EXTENDS DemoModel

Deleting(p) == call[p].op = "deleteCompletely" /\ call[p].pc = "delete"

RowsOf(id) == {e \in DOMAIN table : e[2] = id}

-----------------------------------------------------------------------------
(* Two history variables, which no step of DemoModel depends on.           *)
VARIABLES
  standing,  \* standing[p]: the rows that have been in the table ever since
             \* the deletion that p executes read the latest version
  repeated   \* the ids of the demos of which a delete lost its answer

deletionVars == <<vars, standing, repeated>>

DeletionInit == Init /\ standing = [p \in Procs |-> {}] /\ repeated = {}

DeletionNext ==
  /\ Next
  /\ standing' = [p \in Procs |->
       IF Deleting(p)' /\ ~Deleting(p) THEN DOMAIN table ELSE standing[p] \cap DOMAIN table']
  /\ repeated' = repeated \cup
       {id \in Ids : \E p \in Procs : LostDelete(p) /\ call[p].id = id}

DeletionSpec == DeletionInit /\ [][DeletionNext]_deletionVars

-----------------------------------------------------------------------------
(* What a deletion leaves.                                                 *)

(* "Delete all versions of an existing demo." (demo.model.ts 326), as far  *)
(* as the code goes: when deleteCompletely has returned, the versions up   *)
(* to the one it read are gone, whatever was read, lost or repeated.  What *)
(* is left of the demo is newer than what it read, or was written since.   *)
DeletedWhatItRead ==
  \A p \in Procs : Ended(p, "deleteCompletely", "ok") =>
    \A e \in standing[p] : e[2] = call[p].id => e[1] > call[p].latest.version

First(id) == EntityId(id, 1)

(* As long as version 1 of a demo is there the demo is whole: no version   *)
(* below another one is missing, and the latest copy is stored at its      *)
(* version too.  A deletion under way, one that was cut off or one whose   *)
(* deletes are repeated harms the versions after the first only once the   *)
(* first is gone (demo.model.ts 329-333).                                  *)
WholeWhileFirst ==
  \A id \in Ids : Exists(table, First(id)) =>
    /\ \A e \in RowsOf(id) : \A k \in 1..e[1] : Exists(table, EntityId(id, k))
    /\ Latest(id) # None => Stored(id, Latest(id))

(* The latest copy of a demo has its version row, even if version 1 is     *)
(* gone, unless a delete of the demo was sent again: the repetition may    *)
(* remove a version that was written after its first execution.            *)
KeptUnlessRepeated ==
  \A id \in Ids \ repeated : Latest(id) # None => Stored(id, Latest(id))

-----------------------------------------------------------------------------
(* Why: the invariant, of a system that gets, creates, updates and         *)
(* completely deletes demos and whose ids are never reused.                *)

(* The deletion that has removed version 1.                                *)
PastFirst(p) ==
  \/ Deleting(p) /\ call[p].version >= 2
  \/ Ended(p, "deleteCompletely", "ok")

Creating(p) == call[p].op = "create" /\ call[p].pc = "save"
Updating(p) == call[p].op = "update" /\ call[p].pc = "save"

(* An id whose demo has not been stored yet.                               *)
Unborn(id) ==
  /\ RowsOf(id) = {}
  /\ replica[id] = None
  /\ \A p \in Procs : call[p].id = id => ~Updating(p) /\ ~Deleting(p) /\ ~PastFirst(p)

(* A generated id belongs to one create until its demo is stored.          *)
CreatesOwnTheirIds ==
  /\ \A id \in Ids : id \notin used =>
       Unborn(id) /\ \A p \in Procs : Creating(p) => call[p].id # id
  /\ \A p \in Procs : Creating(p) =>
       /\ Unborn(call[p].id)
       /\ \A q \in Procs : Creating(q) /\ call[q].id = call[p].id => q = p

(* While version 1 is there, whatever has been read of the demo is too.    *)
ReadsWhileFirst ==
  \A id \in Ids : Exists(table, First(id)) =>
    /\ replica[id] # None => Exists(table, EntityId(id, replica[id].version))
    /\ \A p \in Procs : (Updating(p) \/ Deleting(p)) /\ call[p].id = id
         => Exists(table, EntityId(id, call[p].latest.version))

(* Only one deletion goes past version 1.                                  *)
OneDeletionPastFirst ==
  \A p \in Procs : PastFirst(p) =>
    /\ ~Exists(table, First(call[p].id))
    /\ \A q \in Procs : PastFirst(q) /\ call[q].id = call[p].id => q = p

(* The inductive invariant.                                                *)
DeletionInv ==
  /\ WholeWhileFirst
  /\ CreatesOwnTheirIds
  /\ ReadsWhileFirst
  /\ OneDeletionPastFirst

(* And of a demo none of whose deletes is repeated: the deletion past the  *)
(* first version finds all the versions that it has still to delete, and   *)
(* none will remove the version that can be read without removing the      *)
(* latest copy first.                                                      *)
FindsTheRest(p) ==
  call[p].version >= 2 =>
    \A k \in call[p].version..call[p].latest.version : Exists(table, EntityId(call[p].id, k))

LatestOutOfReach(p) ==
  /\ call[p].version > 0
  /\ Exists(table, Target(call[p]))
  /\ Latest(call[p].id) # None
  => Latest(call[p].id).version \notin call[p].version..call[p].latest.version

Kept(id) ==
  /\ Latest(id) # None => Stored(id, Latest(id))
  /\ \A p \in Procs : Deleting(p) /\ call[p].id = id => FindsTheRest(p) /\ LatestOutOfReach(p)

KeptInv == \A id \in Ids \ repeated : Kept(id)

=============================================================================
