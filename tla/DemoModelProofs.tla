-------------------------- MODULE DemoModelProofs --------------------------
(***************************************************************************)
(* Theorems about DemoModel, for every set of processes, ids and bodies.   *)
(***************************************************************************)
EXTENDS DemoModel, TLAPS

-----------------------------------------------------------------------------
(* What the two writes of the table do to its rows.                        *)

LEMMA PutTwiceType ==
  ASSUME NEW tbl, NEW id \in Ids, NEW version \in Nat, NEW item \in Item,
         DOMAIN tbl \subseteq EntityIds, tbl \in [DOMAIN tbl -> Item]
  PROVE  LET t == PutTwice(tbl, id, version, item)
         IN  /\ DOMAIN t \subseteq EntityIds
             /\ t \in [DOMAIN t -> Item]
BY DEF PutTwice, EntityIds, EntityId

LEMMA RemoveType ==
  ASSUME NEW tbl, NEW e,
         DOMAIN tbl \subseteq EntityIds, tbl \in [DOMAIN tbl -> Item]
  PROVE  LET t == Remove(tbl, e)
         IN  /\ DOMAIN t \subseteq EntityIds
             /\ t \in [DOMAIN t -> Item]
BY DEF Remove

-----------------------------------------------------------------------------
(* Types.                                                                  *)

LEMMA BodyType ==
  ASSUME NEW b \in Bodies
  PROVE  b \in Body /\ [b EXCEPT !.status = "Created"] \in Body
BY BodiesAreRecords DEF Body, Status

LEMMA StatusType ==
  ASSUME NEW b \in Body, NEW s \in Status
  PROVE  [b EXCEPT !.status = s] \in Body
BY DEF Body

(* The item a suspended call writes.                                       *)
LEMMA SavedType ==
  ASSUME NEW c \in Call, c.pc = "save", Suspended(c)
  PROVE  /\ Saved(c) \in Item
         /\ c.op = "create" => Saved(c).version = 1
         /\ c.op = "update" => Saved(c).version = c.latest.version + 1
BY BodyType DEF Suspended, Awaiting, Saved, Created, Updated, Item, Version

LEMMA RevisedType ==
  ASSUME NEW c \in Call, c.pc = "revise", Suspended(c)
  PROVE  Revised(c) \in Item
<1>1. c.latest \in Item /\ c.body \in Bodies
  BY DEF Suspended, Awaiting
<1>2. c.body.status \in Status
  BY <1>1 DEF Status
<1>. QED  BY <1>1, <1>2, StatusType DEF Revised, Item

TypeInv == TypeOK /\ CallsOK

LEMMA TypeInit == Init => TypeInv
BY NoneIsNoValue DEF Init, TypeInv, TypeOK, CallsOK, EntityIds, Call, Idle, Awaits

(* A step that changes only one call, to a well-formed one.                *)
LEMMA OneCallChanges ==
  ASSUME TypeInv, NEW p \in Procs, NEW c \in Call,
         call' = [call EXCEPT ![p] = c],
         c.pc \in Awaits => Suspended(c)
  PROVE  call' \in [Procs -> Call] /\ CallsOK'
<1>1. call' \in [Procs -> Call]
  BY DEF TypeInv, TypeOK
<1>2. ASSUME NEW q \in Procs, call'[q].pc \in Awaits
      PROVE  Suspended(call'[q])
  <2>1. CASE q = p
    BY <1>2, <2>1 DEF TypeInv, TypeOK
  <2>2. CASE q # p
    BY <1>2, <2>2 DEF TypeInv, TypeOK, CallsOK
  <2>. QED  BY <2>1, <2>2
<1>. QED  BY <1>1, <1>2 DEF CallsOK

LEMMA ReturnTypes ==
  ASSUME TypeInv, NEW p \in Procs, NEW result \in Results, Return(p, result)
  PROVE  call' \in [Procs -> Call] /\ CallsOK'
<1> DEFINE c == [call[p] EXCEPT !.pc = "returned", !.result = result]
<1>1. c \in Call /\ c.pc \notin Awaits
  BY DEF TypeInv, TypeOK, Call, Awaits
<1>2. call' = [call EXCEPT ![p] = c]
  BY DEF Return
<1>. QED  BY <1>1, <1>2, OneCallChanges

LEMMA StartTypes ==
  ASSUME TypeInv, NEW p \in Procs, NEW op \in AllOps, NEW pc \in Awaits,
         NEW id \in Ids, NEW body \in Bodies \cup {None}, NEW version \in Nat,
         NEW retry \in Nat, Start(p, op, pc, id, body, version, retry),
         op \in Awaiting[pc],
         op \in {"create", "update", "updateRevision"} => body \in Bodies,
         pc # "get" => op \in {"create", "delete"}
  PROVE  call' \in [Procs -> Call] /\ CallsOK'
<1> DEFINE c == [op |-> op, pc |-> pc, id |-> id, body |-> body,
                 version |-> version, latest |-> None, retry |-> retry,
                 result |-> "none"]
<1>1. c \in Call
  BY DEF Call
<1>2. Suspended(c)
  BY DEF Suspended, Start
<1>3. call' = [call EXCEPT ![p] = c]
  BY DEF Start
<1> HIDE DEF c
<1>. QED  BY <1>1, <1>2, <1>3, OneCallChanges

LEMMA VisibleType ==
  ASSUME TypeInv, NEW id \in Ids
  PROVE  Visible(id) \subseteq Item \cup {None}
BY DEF TypeInv, TypeOK, Visible, Row

LEMMA BeginTypes ==
  ASSUME TypeInv, NEW p \in Procs, Begin(p)
  PROVE  TypeInv'
<1>. USE ConstantsAssumption
<1>1. UNCHANGED <<table, replica>> /\ used' \subseteq Ids
  BY DEF Begin, StartGet, StartCreate, RefuseCreate, StartUpdate,
         StartUpdateRevision, StartDelete, StartDeleteCompletely, TypeInv, TypeOK
<1>2. call' \in [Procs -> Call] /\ CallsOK'
  <2>1. CASE StartGet(p)
    BY <2>1, StartTypes DEF StartGet, AllOps, Awaits, Awaiting
  <2>2. CASE StartCreate(p)
    BY <2>2, StartTypes DEF StartCreate, AllOps, Awaits, Awaiting
  <2>3. CASE RefuseCreate(p)
    <3>1. PICK body \in Bodies :
            call' = [call EXCEPT ![p] = [Idle EXCEPT !.op = "create",
                       !.pc = "returned", !.body = body, !.result = "BadRequest"]]
      BY <2>3 DEF RefuseCreate
    <3> DEFINE c == [Idle EXCEPT !.op = "create", !.pc = "returned",
                                 !.body = body, !.result = "BadRequest"]
    <3>2. c \in Call /\ c.pc \notin Awaits
      BY DEF Idle, Call, AllOps, Awaits, Results
    <3>. QED  BY <3>1, <3>2, OneCallChanges
  <2>4. CASE StartUpdate(p)
    BY <2>4, StartTypes DEF StartUpdate, AllOps, Awaits, Awaiting
  <2>5. CASE StartUpdateRevision(p)
    BY <2>5, StartTypes DEF StartUpdateRevision, AllOps, Awaits, Awaiting
  <2>6. CASE StartDelete(p)
    BY <2>6, StartTypes DEF StartDelete, AllOps, Awaits, Awaiting
  <2>7. CASE StartDeleteCompletely(p)
    BY <2>7, StartTypes DEF StartDeleteCompletely, AllOps, Awaits, Awaiting
  <2>. QED  BY <2>1, <2>2, <2>3, <2>4, <2>5, <2>6, <2>7 DEF Begin
<1>. QED  BY <1>1, <1>2 DEF TypeInv, TypeOK

(* The actions that read the latest copy change nothing but their call.    *)
LEMMA ReadTypes ==
  ASSUME TypeInv, NEW p \in Procs,
         GetMissing(p) \/ GetFound(p) \/ ReadForUpdate(p)
           \/ ReadForRevision(p) \/ ReadForDeletion(p)
  PROVE  TypeInv'
<1>1. UNCHANGED <<table, replica, used>>
  BY DEF GetMissing, GetFound, ReadForUpdate, ReadForRevision, ReadForDeletion
<1>2. call[p] \in Call /\ call[p].pc = "get" /\ Suspended(call[p])
  BY DEF GetMissing, GetFound, ReadForUpdate, ReadForRevision,
         ReadForDeletion, TypeInv, TypeOK, CallsOK, Awaits
<1>3. call[p].id \in Ids
  BY <1>2 DEF Suspended
<1>4. call' \in [Procs -> Call] /\ CallsOK'
  <2>1. CASE \E result \in Results : Return(p, result)
    BY <2>1, ReturnTypes
  <2>2. CASE GetFound(p)
    <3>1. PICK item \in Item :
            call' = [call EXCEPT ![p].pc = "returned", ![p].result = "ok",
                                 ![p].latest = item]
      BY <1>3, <2>2, VisibleType DEF GetFound
    <3> DEFINE c == [call[p] EXCEPT !.pc = "returned", !.result = "ok",
                                    !.latest = item]
    <3>2. c \in Call /\ c.pc \notin Awaits
      BY <1>2 DEF Call, Awaits, Results
    <3>3. call' = [call EXCEPT ![p] = c]
      BY <3>1
    <3> HIDE DEF c
    <3>. QED  BY <3>2, <3>3, OneCallChanges
  <2>3. CASE ReadForUpdate(p) /\ Valid(call[p].body)
    <3>1. PICK item \in Item :
            call' = [call EXCEPT ![p].pc = "save", ![p].latest = item]
      BY <1>3, <2>3, VisibleType DEF ReadForUpdate
    <3> DEFINE c == [call[p] EXCEPT !.pc = "save", !.latest = item]
    <3>2. c \in Call /\ Suspended(c)
      BY <1>2, <2>3 DEF Call, Awaits, Suspended, Awaiting, ReadForUpdate
    <3>. QED  BY <3>1, <3>2, OneCallChanges
  <2>4. CASE ReadForRevision(p) /\ ~ \E result \in Results : Return(p, result)
    <3>1. PICK item \in Item :
            call' = [call EXCEPT ![p].pc = "revise", ![p].latest = item]
      BY <1>3, <2>4, VisibleType DEF ReadForRevision, Results
    <3> DEFINE c == [call[p] EXCEPT !.pc = "revise", !.latest = item]
    <3>2. c \in Call /\ Suspended(c)
      BY <1>2, <2>4 DEF Call, Awaits, Suspended, Awaiting, ReadForRevision
    <3>. QED  BY <3>1, <3>2, OneCallChanges
  <2>5. CASE ReadForDeletion(p)
    <3>1. PICK item \in Item :
            call' = [call EXCEPT ![p].pc = "delete", ![p].latest = item,
                                 ![p].version = 0]
      BY <1>3, <2>5, VisibleType DEF ReadForDeletion
    <3> DEFINE c == [call[p] EXCEPT !.pc = "delete", !.latest = item,
                                    !.version = 0]
    <3>2. c \in Call
      BY <1>2 DEF Call, Awaits
    <3>3. c.version <= c.latest.version
      BY <1>2 DEF Call, Item, Version
    <3>4. Suspended(c)
      BY <1>2, <2>5, <3>3 DEF Call, Suspended, Awaiting, ReadForDeletion
    <3>5. call' = [call EXCEPT ![p] = c]
      BY <3>1
    <3> HIDE DEF c
    <3>. QED  BY <3>2, <3>4, <3>5, OneCallChanges
  <2>. QED  BY <2>1, <2>2, <2>3, <2>4, <2>5
            DEF GetMissing, ReadForUpdate, ReadForRevision, Results
<1>. QED  BY <1>1, <1>4 DEF TypeInv, TypeOK

(* The four writes.                                                        *)
LEMMA WriteSavedType ==
  ASSUME TypeInv, NEW p \in Procs, call[p].pc = "save", WriteSaved(call[p])
  PROVE  DOMAIN table' \subseteq EntityIds /\ table' \in [DOMAIN table' -> Item]
<1>1. call[p] \in Call /\ Suspended(call[p])
  BY DEF TypeInv, TypeOK, CallsOK, Awaits
<1>2. Saved(call[p]) \in Item /\ Saved(call[p]).version \in Nat /\ call[p].id \in Ids
  BY <1>1, SavedType DEF Suspended, Item, Version
<1>. QED  BY <1>2, PutTwiceType DEF WriteSaved, TypeInv, TypeOK

LEMMA WriteRevisedType ==
  ASSUME TypeInv, NEW p \in Procs, call[p].pc = "revise", WriteRevised(call[p])
  PROVE  DOMAIN table' \subseteq EntityIds /\ table' \in [DOMAIN table' -> Item]
<1>1. call[p] \in Call /\ Suspended(call[p])
  BY DEF TypeInv, TypeOK, CallsOK, Awaits
<1>2. Revised(call[p]) \in Item /\ call[p].version \in Nat /\ call[p].id \in Ids
  BY <1>1, RevisedType DEF Suspended, Call
<1>. QED  BY <1>2, PutTwiceType DEF WriteRevised, TypeInv, TypeOK

LEMMA RemoveTargetType ==
  ASSUME TypeInv, NEW c, RemoveTarget(c)
  PROVE  DOMAIN table' \subseteq EntityIds /\ table' \in [DOMAIN table' -> Item]
BY RemoveType DEF RemoveTarget, TypeInv, TypeOK

LEMMA WriteTypes ==
  ASSUME TypeInv, NEW p \in Procs,
         \/ Save(p) \/ RetryCreate(p) \/ SaveRefused(p) \/ Revise(p)
         \/ ReviseRefused(p) \/ DeleteRow(p) \/ DeleteMissing(p)
  PROVE  TypeInv'
<1>1. replica' = replica /\ used' \subseteq Ids
  BY DEF Save, RetryCreate, SaveRefused, Revise, ReviseRefused, DeleteRow,
         DeleteMissing, TypeInv, TypeOK
<1>2. DOMAIN table' \subseteq EntityIds /\ table' \in [DOMAIN table' -> Item]
  BY WriteSavedType, WriteRevisedType, RemoveTargetType
     DEF Save, RetryCreate, SaveRefused, Revise, ReviseRefused, DeleteRow,
         DeleteMissing, TypeInv, TypeOK
<1>3. call' \in [Procs -> Call] /\ CallsOK'
  <2>1. CASE \E result \in Results : Return(p, result)
    BY <2>1, ReturnTypes
  <2>2. CASE RetryCreate(p)
    <3>1. PICK id \in Ids :
            call' = [call EXCEPT ![p].id = id, ![p].retry = @ - 1]
      BY <2>2 DEF RetryCreate
    <3> DEFINE c == [call[p] EXCEPT !.id = id, !.retry = @ - 1]
    <3>2. call[p] \in Call /\ Suspended(call[p]) /\ call[p].retry > 0
      BY <2>2 DEF RetryCreate, TypeInv, TypeOK, CallsOK, Awaits
    <3>3. call[p].retry - 1 \in Nat
      BY <3>2 DEF Call
    <3>4. c \in Call
      BY <3>2, <3>3 DEF Call
    <3>5. Suspended(c)
      BY <2>2, <3>2 DEF Call, Suspended, Awaiting, RetryCreate
    <3>. QED  BY <3>1, <3>4, <3>5, OneCallChanges
  <2>3. CASE DeleteRow(p) /\ ~LastDelete(call[p])
    <3>1. call' = [call EXCEPT ![p].version = @ + 1]
      BY <2>3 DEF DeleteRow
    <3> DEFINE c == [call[p] EXCEPT !.version = @ + 1]
    <3>2. call[p] \in Call /\ Suspended(call[p])
      BY <2>3 DEF DeleteRow, TypeInv, TypeOK, CallsOK, Awaits
    <3>3. c \in Call
      BY <3>2 DEF Call
    <3>4. c.op = "deleteCompletely" => c.version <= c.latest.version
      <4>1. CASE call[p].op = "deleteCompletely"
        <5>1. /\ call[p].version \in Nat /\ call[p].latest.version \in Nat
              /\ call[p].version <= call[p].latest.version
              /\ call[p].version # call[p].latest.version
          BY <2>3, <3>2, <4>1 DEF Call, Suspended, LastDelete, Item, Version, DeleteRow
        <5>. QED  BY <3>2, <5>1 DEF Call
      <4>. QED  BY <3>2, <4>1 DEF Call
    <3>5. Suspended(c)
      BY <2>3, <3>2, <3>4 DEF Call, Suspended, Awaiting, DeleteRow
    <3>. QED  BY <3>1, <3>3, <3>5, OneCallChanges
  <2>. QED  BY <2>1, <2>2, <2>3 DEF Save, SaveRefused, Revise, ReviseRefused,
                                    DeleteRow, DeleteMissing, Results
<1>. QED  BY <1>1, <1>2, <1>3 DEF TypeInv, TypeOK

LEMMA FaultTypes ==
  ASSUME TypeInv, NEW p \in Procs, Fault(p)
  PROVE  TypeInv'
<1>1. UNCHANGED <<replica, used>>
  BY DEF Fault, Fail, LostReply, LostDelete, Crash
<1>2. DOMAIN table' \subseteq EntityIds /\ table' \in [DOMAIN table' -> Item]
  BY WriteSavedType, WriteRevisedType, RemoveTargetType
     DEF Fault, Fail, LostReply, LostDelete, Crash, TypeInv, TypeOK
<1>3. call' \in [Procs -> Call] /\ CallsOK'
  <2>1. CASE Fail(p) \/ LostReply(p)
    BY <2>1, ReturnTypes DEF Fail, LostReply, Results
  <2>2. CASE Crash(p)
    <3>1. Idle \in Call /\ Idle.pc \notin Awaits
      BY DEF Idle, Call, Awaits
    <3>. QED  BY <2>2, <3>1, OneCallChanges DEF Crash
  <2>3. CASE LostDelete(p)
    BY <2>3 DEF LostDelete, TypeInv, TypeOK, CallsOK
  <2>. QED  BY <2>1, <2>2, <2>3 DEF Fault
<1>. QED  BY <1>1, <1>2, <1>3 DEF TypeInv, TypeOK

LEMMA ReplicateTypes ==
  ASSUME TypeInv, NEW id \in Ids, Replicate(id)
  PROVE  TypeInv'
<1>1. Row(table, EntityId(id, 0)) \in Item \cup {None}
  BY DEF TypeInv, TypeOK, Row
<1>. QED  BY <1>1 DEF Replicate, TypeInv, TypeOK, CallsOK

LEMMA TypeNext == TypeInv /\ [Next]_vars => TypeInv'
<1> SUFFICES ASSUME TypeInv, [Next]_vars PROVE TypeInv'
  OBVIOUS
<1>1. ASSUME NEW p \in Procs, Begin(p) PROVE TypeInv'
  BY <1>1, BeginTypes
<1>2. ASSUME NEW p \in Procs, Step(p) PROVE TypeInv'
  BY <1>2, ReadTypes, WriteTypes DEF Step
<1>3. ASSUME NEW p \in Procs, Fault(p) PROVE TypeInv'
  BY <1>3, FaultTypes
<1>4. ASSUME NEW id \in Ids, Replicate(id) PROVE TypeInv'
  BY <1>4, ReplicateTypes
<1>5. CASE UNCHANGED vars
  BY <1>5 DEF vars, TypeInv, TypeOK, CallsOK
<1>. QED  BY <1>1, <1>2, <1>3, <1>4, <1>5 DEF Next

(* Every reachable state has values of the right types, and a suspended    *)
(* call always holds what its method needs after the await: no method      *)
(* computes a version or a body from a missing item.                       *)
THEOREM TypesCorrect == Spec => [](TypeOK /\ CallsOK)
<1>1. TypeInv => TypeOK /\ CallsOK
  BY DEF TypeInv
<1>. QED  BY <1>1, TypeInit, TypeNext, PTL DEF Spec

-----------------------------------------------------------------------------
(* What the steps change.                                                  *)

LEMMA StartChanges ==
  ASSUME TypeInv, NEW p \in Procs, NEW op, NEW pc \in Awaits, NEW id, NEW body,
         NEW version, NEW retry, Start(p, op, pc, id, body, version, retry)
  PROVE  /\ \A q \in Procs : q # p => call'[q] = call[q]
         /\ call'[p].op = op /\ call'[p].pc = pc /\ call'[p].id = id
         /\ ~Acknowledged(p)'
BY DEF Start, Acknowledged, Ended, TypeInv, TypeOK, Awaits

(* The rows after the transaction of save.                                 *)
LEMMA SavedRows ==
  ASSUME TypeInv, NEW p \in Procs, NEW id \in Ids, NEW item \in Item,
         id = call[p].id, item = Saved(call[p]),
         call[p].pc = "save", CanSave(call[p]), WriteSaved(call[p])
  PROVE  LET new == EntityId(id, item.version)
         IN  /\ new \notin DOMAIN table
             /\ DOMAIN table' = DOMAIN table \cup {EntityId(id, 0), new}
             /\ table'[new] = item
             /\ \A e \in DOMAIN table :
                  e # EntityId(id, 0) => table'[e] = table[e]
             /\ Latest(id)' = item
             /\ \A other \in Ids : other # id => Latest(other)' = Latest(other)
<1> DEFINE new == EntityId(id, item.version)
<1>1. table' = PutTwice(table, id, item.version, item)
  BY DEF WriteSaved
<1>2. /\ DOMAIN table' = DOMAIN table \cup {EntityId(id, 0), new}
      /\ table'[EntityId(id, 0)] = item
      /\ table'[new] = item
      /\ \A e \in DOMAIN table :
           e \notin {EntityId(id, 0), new} => table'[e] = table[e]
  BY <1>1 DEF PutTwice
<1>3. new \notin DOMAIN table
  BY DEF CanSave, Exists
<1>4. \A e \in DOMAIN table : e # EntityId(id, 0) => table'[e] = table[e]
  BY <1>2, <1>3
<1>5. Latest(id)' = item
  BY <1>2 DEF Latest, Row
<1>6. ASSUME NEW other \in Ids, other # id
      PROVE  Latest(other)' = Latest(other)
  <2>1. EntityId(other, 0) # EntityId(id, 0) /\ EntityId(other, 0) # new
    BY <1>6 DEF EntityId
  <2>. QED  BY <1>2, <1>4, <2>1 DEF Latest, Row
<1>. QED  BY <1>2, <1>3, <1>4, <1>5, <1>6

LEMMA SavedValues ==
  ASSUME TypeInv, NEW p \in Procs, call[p].pc = "save"
  PROVE  \E id \in Ids, item \in Item : id = call[p].id /\ item = Saved(call[p])
<1>1. call[p] \in Call /\ Suspended(call[p]) /\ call[p].id \in Ids
  BY DEF TypeInv, TypeOK, CallsOK, Awaits, Suspended
<1>. QED  BY <1>1, SavedType

(* A stored item stays stored when save writes its two rows.               *)
LEMMA SaveKeepsStored ==
  ASSUME TypeInv, NEW p \in Procs,
         call[p].pc = "save", CanSave(call[p]), WriteSaved(call[p]),
         NEW other, NEW stored, Stored(other, stored), stored.version # 0
  PROVE  Stored(other, stored)'
<1> DEFINE e == EntityId(other, stored.version)
<1>1. e \in DOMAIN table /\ table[e] = stored
  BY DEF Stored, Exists
<1>2. PICK id \in Ids, item \in Item : id = call[p].id /\ item = Saved(call[p])
  BY SavedValues
<1>3. e # EntityId(id, 0)
  BY DEF EntityId
<1>4. DOMAIN table \subseteq DOMAIN table'
  BY <1>2, SavedRows
<1>5. \A f \in DOMAIN table : f # EntityId(id, 0) => table'[f] = table[f]
  BY <1>2, SavedRows
<1>6. e \in DOMAIN table' /\ table'[e] = stored
  BY <1>1, <1>3, <1>4, <1>5
<1>. QED  BY <1>6 DEF Stored, Exists

-----------------------------------------------------------------------------
(* The steps that write the table.                                         *)
Saves(p) == call[p].pc = "save" /\ CanSave(call[p]) /\ WriteSaved(call[p])
Revises(p) == call[p].pc = "revise" /\ CanRevise(call[p]) /\ WriteRevised(call[p])
Removes(p) == call[p].pc = "delete" /\ RemoveTarget(call[p])

LEMMA WritesOfSteps ==
  ASSUME TypeInv, NEW p \in Procs, Begin(p) \/ Step(p) \/ Fault(p)
  PROVE  UNCHANGED table \/ Saves(p) \/ Revises(p) \/ Removes(p)
<1>1. Begin(p) => UNCHANGED table
  BY DEF Begin, StartGet, StartCreate, RefuseCreate, StartUpdate, StartUpdateRevision,
         StartDelete, StartDeleteCompletely
<1>2. Fault(p) => UNCHANGED table \/ Saves(p) \/ Revises(p) \/ Removes(p)
  BY DEF Fault, Fail, LostReply, LostDelete, Crash, Saves, Revises, Removes
<1>3. Save(p) => Saves(p)
  BY DEF Save, Saves
<1>4. Revise(p) => Revises(p)
  BY DEF Revise, Revises
<1>5. DeleteRow(p) => Removes(p)
  BY DEF DeleteRow, Removes
<1>6. Step(p) => UNCHANGED table \/ Save(p) \/ Revise(p) \/ DeleteRow(p)
  BY DEF Step, GetMissing, GetFound, ReadForUpdate, ReadForRevision, ReadForDeletion,
         RetryCreate, SaveRefused, ReviseRefused, DeleteMissing
<1>. QED  BY <1>1, <1>2, <1>3, <1>4, <1>5, <1>6

LEMMA WritesOfNext ==
  ASSUME TypeInv, [Next]_vars
  PROVE  UNCHANGED table \/ \E p \in Procs : Saves(p) \/ Revises(p) \/ Removes(p)
<1>1. CASE \E id \in Ids : Replicate(id)
  BY <1>1 DEF Replicate
<1>2. CASE UNCHANGED vars
  BY <1>2 DEF vars
<1>. QED  BY <1>1, <1>2, WritesOfSteps DEF Next

(* The rows after the transaction of updateRevision: none is new but the   *)
(* latest copy.                                                            *)
LEMMA RevisedRows ==
  ASSUME TypeInv, NEW p \in Procs, Revises(p)
  PROVE  DOMAIN table' \subseteq DOMAIN table \cup {EntityId(call[p].id, 0)}
BY DEF Revises, CanRevise, WriteRevised, PutTwice, Exists

(* A version row appears only together with the latest copy that is the    *)
(* same, by whatever methods a demo is written and deleted.                *)
THEOREM NewVersionsAreLatest == Spec => NewVersionIsLatest
<1>1. ASSUME TypeInv, [Next]_vars,
             NEW e \in DOMAIN table' \ DOMAIN table, e[1] > 0
      PROVE  /\ Exists(table', EntityId(e[2], 0))
             /\ table'[EntityId(e[2], 0)] = table'[e]
             /\ table'[e].version = e[1]
  <2>1. PICK p \in Procs : Saves(p) \/ Revises(p) \/ Removes(p)
    BY <1>1, WritesOfNext
  <2>2. CASE Saves(p)
    <3>1. PICK id \in Ids, item \in Item : id = call[p].id /\ item = Saved(call[p])
      BY <1>1, <2>2, SavedValues DEF Saves
    <3>2. table' = PutTwice(table, id, item.version, item)
      BY <2>2, <3>1 DEF Saves, WriteSaved
    <3>3. e = EntityId(id, item.version)
      BY <1>1, <3>2 DEF PutTwice, EntityId
    <3>4. e[1] = item.version /\ e[2] = id
      BY <3>3 DEF EntityId
    <3>. QED  BY <3>2, <3>3, <3>4 DEF PutTwice, Exists
  <2>3. CASE Revises(p)
    BY <1>1, <2>3, RevisedRows DEF EntityId
  <2>4. CASE Removes(p)
    BY <1>1, <2>4 DEF Removes, RemoveTarget, Remove
  <2>. QED  BY <2>1, <2>2, <2>3, <2>4
<1>2. TypeInv /\ [Next]_vars =>
        [\A e \in DOMAIN table' \ DOMAIN table : e[1] > 0 =>
           /\ Exists(table', EntityId(e[2], 0))
           /\ table'[EntityId(e[2], 0)] = table'[e]
           /\ table'[e].version = e[1]]_vars
  BY <1>1
<1>. QED  BY <1>2, TypeInit, TypeNext, PTL DEF Spec, NewVersionIsLatest

(* Without updateRevision, which no handler calls, a version row is never  *)
(* overwritten: every other write is behind save's attribute_not_exists.   *)
THEOREM VersionsNeverOverwritten ==
  ASSUME "updateRevision" \notin Ops
  PROVE  Spec => VersionRowsFixed
<1>1. ASSUME TypeInv, [Next]_vars, NEW e \in DOMAIN table
      PROVE  VersionRowFixed(e)
  <2>1. CASE UNCHANGED table
    BY <2>1 DEF VersionRowFixed
  <2>2. ASSUME NEW p \in Procs, Saves(p)
        PROVE  VersionRowFixed(e)
    <3>1. PICK id \in Ids, item \in Item : id = call[p].id /\ item = Saved(call[p])
      BY <1>1, <2>2, SavedValues DEF Saves
    <3>2. call[p].pc = "save" /\ CanSave(call[p]) /\ WriteSaved(call[p])
      BY <2>2 DEF Saves
    <3>3. \A f \in DOMAIN table : f # EntityId(id, 0) => table'[f] = table[f]
      BY <1>1, <3>1, <3>2, SavedRows
    <3>. QED  BY <3>3 DEF VersionRowFixed, EntityId
  <2>3. ASSUME NEW p \in Procs, Revises(p)
        PROVE  FALSE
    BY <1>1, <2>3 DEF Revises, TypeInv, CallsOK, Suspended, Awaits, Awaiting
  <2>4. ASSUME NEW p \in Procs, Removes(p)
        PROVE  VersionRowFixed(e)
    BY <2>4 DEF Removes, RemoveTarget, Remove, VersionRowFixed, Exists
  <2>. QED  BY <1>1, <2>1, <2>2, <2>3, <2>4, WritesOfNext
<1>2. TypeInv /\ [Next]_vars => [\A e \in DOMAIN table : VersionRowFixed(e)]_vars
  BY <1>1
<1>. QED  BY <1>2, TypeInit, TypeNext, PTL DEF Spec, VersionRowsFixed

=============================================================================
