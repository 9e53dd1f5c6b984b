----------------------- MODULE DemoModelDeletionProofs -----------------------
(***************************************************************************)
(* The system behind the REST API gets, creates, updates and completely    *)
(* deletes demos.  For every number of invocations, with stale reads, lost *)
(* answers, repeated deletes and crashes: a demo is whole as long as its   *)
(* version 1 is there, and of the deletions of a demo at most one          *)
(* succeeds.  As long as none of its deletes is repeated, a demo that can  *)
(* be read has its version row even after that.                            *)
(***************************************************************************)
EXTENDS DemoModelDeletion, DemoModelProofs

RestSystem ==
  Ops \subseteq {"get", "create", "update", "deleteCompletely"} /\ ~Collisions

LEMMA DeletionInvInit == Init => DeletionInv
<1> SUFFICES ASSUME Init PROVE DeletionInv
  OBVIOUS
<1>1. /\ DOMAIN table = {}
      /\ \A id \in Ids : replica[id] = None
      /\ \A p \in Procs : call[p].op = "none" /\ call[p].pc = "idle"
  BY DEF Init, Idle
<1>. QED  BY <1>1 DEF DeletionInv, WholeWhileFirst, CreatesOwnTheirIds, ReadsWhileFirst,
       OneDeletionPastFirst, Unborn, Creating, Updating, Deleting, PastFirst, Ended,
       RowsOf, Exists

(* Which actions the REST system takes, and what its calls may be doing.   *)
LEMMA RestSteps ==
  ASSUME RestSystem, TypeInv, NEW p \in Procs
  PROVE  /\ call[p].pc \in Awaits => call[p].op \in Ops /\ call[p].id \in Ids
         /\ call[p].pc = "save" => Creating(p) \/ Updating(p)
         /\ call[p].pc = "delete" => Deleting(p)
         /\ call[p].pc # "revise"
         /\ ~StartUpdateRevision(p) /\ ~StartDelete(p)
<1>1. call[p].pc \in Awaits =>
         /\ call[p].op \in Ops /\ call[p].id \in Ids
         /\ call[p].op \in {"get", "create", "update", "deleteCompletely"}
         /\ call[p].op \in Awaiting[call[p].pc]
  BY DEF RestSystem, TypeInv, CallsOK, Suspended
<1>2. \A op \in {"updateRevision", "delete"} : op \notin Ops
  BY DEF RestSystem
<1>3. ~StartUpdateRevision(p) /\ ~StartDelete(p)
  BY <1>2, Zenon DEF StartUpdateRevision, StartDelete, Start
<1>. QED  BY <1>1, <1>3 DEF Awaits, Awaiting, Creating, Updating, Deleting

-----------------------------------------------------------------------------
(* A call that ends, or one that is not about to write.                    *)
Quiet(p) == ~Creating(p) /\ ~Updating(p) /\ ~Deleting(p) /\ ~PastFirst(p)

(* The other calls stay as they are.                                       *)
OnlyCall(p) == \A q \in Procs : q # p => call'[q] = call[q]

LEMMA OthersSame ==
  ASSUME NEW p \in Procs, OnlyCall(p)
  PROVE  \A q \in Procs : q # p =>
           /\ call'[q] = call[q]
           /\ Creating(q)' <=> Creating(q)
           /\ Updating(q)' <=> Updating(q)
           /\ Deleting(q)' <=> Deleting(q)
           /\ PastFirst(q)' <=> PastFirst(q)
BY DEF OnlyCall, Creating, Updating, Deleting, PastFirst, Ended

LEMMA QuietStep ==
  ASSUME TypeInv, DeletionInv, NEW p \in Procs,
         UNCHANGED <<table, replica, used>>, OnlyCall(p), Quiet(p)'
  PROVE  DeletionInv'
<1>1. \A q \in Procs :
        /\ Creating(q)' \/ Updating(q)' \/ Deleting(q)' \/ PastFirst(q)'
             => q # p /\ call'[q] = call[q]
        /\ Creating(q)' => Creating(q)
        /\ Updating(q)' => Updating(q)
        /\ Deleting(q)' => Deleting(q)
        /\ PastFirst(q)' => PastFirst(q)
  BY OthersSame DEF Quiet
<1>2. \A id \in Ids : Unborn(id) => Unborn(id)'
  BY <1>1 DEF Unborn, RowsOf
<1>3. WholeWhileFirst'
  BY DEF DeletionInv, WholeWhileFirst, RowsOf, First, Latest, Stored
<1>4. CreatesOwnTheirIds'
  <2>1. \A q \in Procs : Creating(q) => call[q].id \in Ids
    BY DEF Creating, TypeInv, CallsOK, Suspended, Awaits
  <2>. QED  BY <1>1, <1>2, <2>1 DEF DeletionInv, CreatesOwnTheirIds
<1>5. ReadsWhileFirst'
  BY <1>1 DEF DeletionInv, ReadsWhileFirst, First
<1>6. OneDeletionPastFirst'
  BY <1>1 DEF DeletionInv, OneDeletionPastFirst, First
<1>. QED  BY <1>3, <1>4, <1>5, <1>6 DEF DeletionInv

(* A create sends its transaction with an id that was not generated before.*)
LEMMA StartCreateStep ==
  ASSUME RestSystem, TypeInv, DeletionInv, NEW p \in Procs, StartCreate(p)
  PROVE  DeletionInv'
<1>1. PICK id \in Ids, body \in Bodies :
        /\ id \notin used
        /\ used' = used \cup {id}
        /\ Start(p, "create", "save", id, body, 0, Retries)
  BY DEF StartCreate, Fresh, RestSystem
<1>2. /\ OnlyCall(p)
      /\ call'[p].op = "create" /\ call'[p].pc = "save" /\ call'[p].id = id
  BY <1>1 DEF Start, OnlyCall, TypeInv, TypeOK
<1>3. Creating(p)' /\ ~Updating(p)' /\ ~Deleting(p)' /\ ~PastFirst(p)'
  BY <1>2 DEF Creating, Updating, Deleting, PastFirst, Ended
<1>4. UNCHANGED <<table, replica>>
  BY DEF StartCreate
<1>5. \A q \in Procs :
        /\ Updating(q)' \/ Deleting(q)' \/ PastFirst(q)'
             => q # p /\ call'[q] = call[q]
        /\ Updating(q)' => Updating(q)
        /\ Deleting(q)' => Deleting(q)
        /\ PastFirst(q)' => PastFirst(q)
        /\ q # p => call'[q] = call[q] /\ (Creating(q)' => Creating(q))
  BY <1>2, <1>3, OthersSame
<1>6. \A other \in Ids : Unborn(other) => Unborn(other)'
  BY <1>4, <1>5 DEF Unborn, RowsOf
<1>7. WholeWhileFirst'
  BY <1>4 DEF DeletionInv, WholeWhileFirst, RowsOf, First, Latest, Stored
<1>8. CreatesOwnTheirIds'
  <2>1. \A q \in Procs : Creating(q) => call[q].id \in Ids /\ call[q].id # id
    BY <1>1 DEF Creating, TypeInv, CallsOK, Suspended, Awaits, DeletionInv,
                CreatesOwnTheirIds
  <2>2. Unborn(id)'
    BY <1>1, <1>6 DEF DeletionInv, CreatesOwnTheirIds
  <2>3. ASSUME NEW q \in Procs, Creating(q)'
        PROVE  /\ Unborn(call[q].id)'
               /\ \A r \in Procs : Creating(r)' /\ call'[r].id = call'[q].id => r = q
    <3>1. CASE q = p
      BY <1>2, <1>5, <2>1, <2>2, <3>1 DEF Unborn, RowsOf
    <3>2. CASE q # p
      <4>1. Creating(q) /\ call'[q] = call[q] /\ call[q].id \in Ids /\ call[q].id # id
        BY <1>5, <2>1, <2>3, <3>2
      <4>2. PICK other \in Ids : other = call[q].id
        BY <4>1
      <4>3. Unborn(other)'
        BY <1>6, <4>1, <4>2 DEF DeletionInv, CreatesOwnTheirIds
      <4>4. \A r \in Procs : Creating(r)' /\ call'[r].id = other => r = q
        BY <1>2, <1>5, <4>1, <4>2 DEF DeletionInv, CreatesOwnTheirIds
      <4>. QED  BY <4>1, <4>2, <4>3, <4>4 DEF Unborn, RowsOf
    <3>. QED  BY <3>1, <3>2
  <2>4. ASSUME NEW other \in Ids, other \notin used'
        PROVE  /\ Unborn(other)'
               /\ \A q \in Procs : Creating(q)' => call'[q].id # other
    BY <1>1, <1>2, <1>5, <1>6, <2>4 DEF DeletionInv, CreatesOwnTheirIds
  <2>. QED  BY <2>3, <2>4 DEF CreatesOwnTheirIds
<1>9. ReadsWhileFirst'
  BY <1>4, <1>5 DEF DeletionInv, ReadsWhileFirst, First
<1>10. OneDeletionPastFirst'
  BY <1>4, <1>5 DEF DeletionInv, OneDeletionPastFirst, First
<1>. QED  BY <1>7, <1>8, <1>9, <1>10 DEF DeletionInv

(* An update or a deletion has read the latest copy.                       *)
LEMMA ReadStep ==
  ASSUME TypeInv, DeletionInv, NEW p \in Procs, NEW id \in Ids, NEW item \in Item,
         id = call[p].id, item \in Visible(id),
         UNCHANGED <<table, replica, used>>, OnlyCall(p),
         call'[p].id = id, call'[p].latest = item,
         Updating(p)' \/ (Deleting(p)' /\ call'[p].version = 0)
  PROVE  DeletionInv'
<1>1. ~Creating(p)' /\ ~PastFirst(p)'
  BY DEF Creating, Updating, Deleting, PastFirst, Ended
<1>2. \A q \in Procs :
        /\ q # p => call'[q] = call[q]
        /\ Creating(q)' \/ PastFirst(q)' => q # p
        /\ q # p => /\ Creating(q)' <=> Creating(q)
                    /\ Updating(q)' <=> Updating(q)
                    /\ Deleting(q)' <=> Deleting(q)
                    /\ PastFirst(q)' <=> PastFirst(q)
  BY <1>1, OthersSame
<1>3. ~Unborn(id)
  <2>1. item # None
    BY NoneIsNoValue
  <2>2. CASE item = Row(table, EntityId(id, 0))
    <3>1. EntityId(id, 0) \in DOMAIN table /\ EntityId(id, 0)[2] = id
      BY <2>1, <2>2 DEF Row, EntityId
    <3>. QED  BY <3>1 DEF Unborn, RowsOf
  <2>3. CASE item = replica[id]
    BY <2>1, <2>3 DEF Unborn, RowsOf
  <2>. QED  BY <2>2, <2>3 DEF Visible
<1>4. Exists(table, First(id)) => Exists(table, EntityId(id, item.version))
  <2>1. item # None
    BY NoneIsNoValue
  <2>2. CASE item = Latest(id)
    BY <2>1, <2>2 DEF DeletionInv, WholeWhileFirst, Stored
  <2>3. CASE item = replica[id]
    BY <2>1, <2>3 DEF DeletionInv, ReadsWhileFirst
  <2>. QED  BY <2>2, <2>3 DEF Visible, Latest
<1>5. \A other \in Ids : other # id /\ Unborn(other) => Unborn(other)'
  BY <1>1, <1>2 DEF Unborn, RowsOf
<1>6. WholeWhileFirst'
  BY DEF DeletionInv, WholeWhileFirst, RowsOf, First, Latest, Stored
<1>7. CreatesOwnTheirIds'
  <2>1. \A q \in Procs : Creating(q) => call[q].id \in Ids /\ call[q].id # id
    BY <1>3 DEF Creating, TypeInv, CallsOK, Suspended, Awaits, DeletionInv,
                CreatesOwnTheirIds
  <2>2. ASSUME NEW q \in Procs, Creating(q)'
        PROVE  /\ Unborn(call[q].id)'
               /\ \A r \in Procs : Creating(r)' /\ call'[r].id = call'[q].id => r = q
    <3>1. q # p /\ Creating(q) /\ call'[q] = call[q]
      BY <1>2, <2>2
    <3>2. PICK other \in Ids : other = call[q].id /\ other # id
      BY <2>1, <3>1
    <3>3. Unborn(other)'
      BY <1>5, <3>1, <3>2 DEF DeletionInv, CreatesOwnTheirIds
    <3>4. \A r \in Procs : Creating(r)' /\ call'[r].id = other => r = q
      BY <1>2, <3>1, <3>2 DEF DeletionInv, CreatesOwnTheirIds
    <3>. QED  BY <3>1, <3>2, <3>3, <3>4 DEF Unborn, RowsOf
  <2>3. ASSUME NEW other \in Ids, other \notin used
        PROVE  /\ Unborn(other)'
               /\ \A q \in Procs : Creating(q)' => call'[q].id # other
    <3>1. other # id /\ Unborn(other)
      BY <1>3, <2>3 DEF DeletionInv, CreatesOwnTheirIds
    <3>. QED  BY <1>2, <1>5, <2>3, <3>1 DEF DeletionInv, CreatesOwnTheirIds
  <2>. QED  BY <2>2, <2>3 DEF CreatesOwnTheirIds
<1>8. ReadsWhileFirst'
  BY <1>2, <1>4 DEF DeletionInv, ReadsWhileFirst, First
<1>9. OneDeletionPastFirst'
  BY <1>2 DEF DeletionInv, OneDeletionPastFirst, First
<1>. QED  BY <1>6, <1>7, <1>8, <1>9 DEF DeletionInv

(* The lagging copy catches up.                                            *)
LEMMA ReplicateStep ==
  ASSUME TypeInv, DeletionInv, NEW id \in Ids, Replicate(id)
  PROVE  DeletionInv'
<1>1. UNCHANGED <<table, used, call>>
  BY DEF Replicate
<1>2. \A other \in Ids : replica'[other] \in {replica[other], Latest(other)}
  BY DEF Replicate, Latest, TypeInv, TypeOK
<1>3. \A other \in Ids : Unborn(other) => Unborn(other)'
  <2>1. ASSUME NEW other \in Ids, Unborn(other)
        PROVE  Unborn(other)'
    <3>1. Latest(other) = None
      BY <2>1 DEF Unborn, RowsOf, Latest, Row, EntityId
    <3>2. replica'[other] = None
      BY <1>2, <2>1, <3>1 DEF Unborn, RowsOf
    <3>. QED  BY <1>1, <2>1, <3>2 DEF Unborn, RowsOf, Updating, Deleting, PastFirst, Ended
  <2>. QED  BY <2>1
<1>4. CreatesOwnTheirIds'
  <2>1. \A q \in Procs : Creating(q) => call[q].id \in Ids
    BY DEF Creating, TypeInv, CallsOK, Suspended, Awaits
  <2>. QED  BY <1>1, <1>3, <2>1 DEF DeletionInv, CreatesOwnTheirIds, Creating
<1>5. ReadsWhileFirst'
  BY <1>1, <1>2 DEF DeletionInv, ReadsWhileFirst, First, WholeWhileFirst, Stored,
                    Updating, Deleting
<1>. QED  BY <1>1, <1>4, <1>5 DEF DeletionInv, WholeWhileFirst, RowsOf, Latest, Stored,
            OneDeletionPastFirst, PastFirst, Deleting, Ended, First

-----------------------------------------------------------------------------
(* What holds after the transaction of a create or of an update.           *)
LEMMA AfterSave ==
  ASSUME TypeInv, DeletionInv, NEW p \in Procs, NEW result \in {"ok", "Error"},
         NEW id \in Ids, NEW item \in Item, id = call[p].id, item = Saved(call[p]),
         Creating(p) \/ Updating(p),
         CanSave(call[p]), WriteSaved(call[p]), Return(p, result),
         UNCHANGED <<replica, used>>
  PROVE  /\ Quiet(p)' /\ OnlyCall(p)
         /\ \A other \in Ids : other = id \/ Exists(table, First(other))
              => (Latest(other)' # None => Stored(other, Latest(other))')
         /\ CreatesOwnTheirIds'
<1>1. /\ call'[p].pc = "returned" /\ call'[p].op = call[p].op /\ OnlyCall(p)
      /\ call[p].pc = "save" /\ call[p].op \in {"create", "update"}
  BY DEF Return, OnlyCall, TypeInv, TypeOK, Call, Creating, Updating
<1>2. Quiet(p)'
  BY <1>1 DEF Quiet, Creating, Updating, Deleting, PastFirst, Ended
<1>3. /\ DOMAIN table' = DOMAIN table \cup {EntityId(id, 0), EntityId(id, item.version)}
      /\ table'[EntityId(id, item.version)] = item
      /\ Latest(id)' = item
      /\ \A other \in Ids : other # id => Latest(other)' = Latest(other)
  BY <1>1, SavedRows
<1>4. \A q \in Procs :
        /\ q # p => call'[q] = call[q]
        /\ Creating(q)' \/ Updating(q)' \/ Deleting(q)' \/ PastFirst(q)' => q # p
        /\ q # p => /\ Creating(q)' <=> Creating(q)
                    /\ Updating(q)' <=> Updating(q)
                    /\ Deleting(q)' <=> Deleting(q)
                    /\ PastFirst(q)' <=> PastFirst(q)
  BY <1>1, <1>2, OthersSame DEF Quiet
<1>5. id \in used /\ \A q \in Procs : Creating(q) /\ q # p => call[q].id # id
  BY DEF DeletionInv, CreatesOwnTheirIds, Unborn
<1>6. \A other \in Ids : other # id /\ Unborn(other) => Unborn(other)'
  BY <1>3, <1>4 DEF Unborn, RowsOf, EntityId
<1>7. ASSUME NEW other \in Ids, other = id \/ Exists(table, First(other)),
             Latest(other)' # None
      PROVE  Stored(other, Latest(other))'
  <2>1. CASE other = id
    BY <1>3, <2>1 DEF Stored, Exists
  <2>2. CASE other # id
    <3>1. Latest(other) # None /\ Latest(other)' = Latest(other)
      BY <1>3, <1>7, <2>2
    <3>2. PICK old \in Item : old = Latest(other)
      BY <3>1 DEF Latest, Row, TypeInv, TypeOK
    <3>3. Stored(other, old) /\ old.version # 0
      BY <1>7, <2>2, <3>1, <3>2 DEF DeletionInv, WholeWhileFirst, Item, Version
    <3>4. Stored(other, old)'
      BY <1>1, <3>3, SaveKeepsStored
    <3>. QED  BY <3>1, <3>2, <3>4 DEF Stored
  <2>. QED  BY <2>1, <2>2
<1>8. CreatesOwnTheirIds'
  <2>1. ASSUME NEW q \in Procs, Creating(q)'
        PROVE  /\ Unborn(call[q].id)'
               /\ \A r \in Procs : Creating(r)' /\ call'[r].id = call'[q].id => r = q
    <3>1. q # p /\ Creating(q) /\ call'[q] = call[q] /\ call[q].id # id
      BY <1>4, <1>5, <2>1
    <3>2. PICK other \in Ids : other = call[q].id /\ other # id
      BY <3>1 DEF Creating, TypeInv, CallsOK, Suspended, Awaits
    <3>3. Unborn(other)'
      BY <1>6, <3>1, <3>2 DEF DeletionInv, CreatesOwnTheirIds
    <3>4. \A r \in Procs : Creating(r)' /\ call'[r].id = other => r = q
      BY <1>4, <3>1, <3>2 DEF DeletionInv, CreatesOwnTheirIds
    <3>. QED  BY <3>1, <3>2, <3>3, <3>4 DEF Unborn, RowsOf
  <2>2. ASSUME NEW other \in Ids, other \notin used
        PROVE  /\ Unborn(other)'
               /\ \A q \in Procs : Creating(q)' => call'[q].id # other
    <3>1. other # id /\ Unborn(other)
      BY <1>5, <2>2 DEF DeletionInv, CreatesOwnTheirIds
    <3>. QED  BY <1>4, <1>6, <2>2, <3>1 DEF DeletionInv, CreatesOwnTheirIds
  <2>. QED  BY <2>1, <2>2 DEF CreatesOwnTheirIds
<1>. QED  BY <1>1, <1>2, <1>7, <1>8

LEMMA SaveCreateStep ==
  ASSUME TypeInv, DeletionInv, NEW p \in Procs, NEW result \in {"ok", "Error"},
         Creating(p), CanSave(call[p]), WriteSaved(call[p]), Return(p, result),
         UNCHANGED <<replica, used>>
  PROVE  DeletionInv'
<1>1. PICK id \in Ids, item \in Item : id = call[p].id /\ item = Saved(call[p])
  BY SavedValues DEF Creating
<1>2. item.version = 1
  BY <1>1 DEF Creating, Saved, Created
<1>3. DOMAIN table' = DOMAIN table \cup {EntityId(id, 0), First(id)}
  BY <1>1, <1>2, SavedRows DEF Creating, First
<1>4. /\ Quiet(p)' /\ OnlyCall(p) /\ CreatesOwnTheirIds'
      /\ \A other \in Ids : other = id \/ Exists(table, First(other))
           => (Latest(other)' # None => Stored(other, Latest(other))')
  BY <1>1, AfterSave
<1>5. Unborn(id)
  BY <1>1 DEF DeletionInv, CreatesOwnTheirIds
<1>6. \A q \in Procs :
        Updating(q)' \/ Deleting(q)' \/ PastFirst(q)' =>
          /\ call'[q] = call[q] /\ call[q].id # id
          /\ Updating(q)' => Updating(q)
          /\ Deleting(q)' => Deleting(q)
          /\ PastFirst(q)' => PastFirst(q)
  <2>1. \A q \in Procs : Updating(q) \/ Deleting(q) \/ PastFirst(q) => call[q].id # id
    BY <1>5 DEF Unborn
  <2>2. \A q \in Procs : q # p =>
          /\ call'[q] = call[q]
          /\ Updating(q)' <=> Updating(q)
          /\ Deleting(q)' <=> Deleting(q)
          /\ PastFirst(q)' <=> PastFirst(q)
    BY <1>4, OthersSame
  <2>. QED  BY <1>4, <2>1, <2>2 DEF Quiet
<1>7. ASSUME NEW other \in Ids, Exists(table, First(other))'
      PROVE  /\ \A e \in RowsOf(other)' : \A k \in 1..e[1] : Exists(table, EntityId(other, k))'
             /\ Latest(other)' # None => Stored(other, Latest(other))'
             /\ replica[other] # None => Exists(table, EntityId(other, replica[other].version))'
             /\ \A q \in Procs : (Updating(q)' \/ Deleting(q)') /\ call'[q].id = other
                  => Exists(table', EntityId(other, call'[q].latest.version))
  <2>1. CASE other = id
    <3>1. \A e \in DOMAIN table' : e[2] = id => e[1] \in {0, 1}
      BY <1>3, <1>5 DEF Unborn, RowsOf, First, EntityId
    <3>2. EntityId(id, 1) \in DOMAIN table'
      BY <1>3 DEF First
    <3>3. replica[id] = None
      BY <1>5 DEF Unborn
    <3>4. \A e \in RowsOf(id)' : \A k \in 1..e[1] : Exists(table, EntityId(id, k))'
      BY <3>1, <3>2 DEF RowsOf, Exists
    <3>. QED  BY <1>4, <1>6, <2>1, <3>3, <3>4
  <2>2. CASE other # id
    <3>1. Exists(table, First(other))
      BY <1>3, <1>7, <2>2 DEF Exists, First, EntityId
    <3>2. \A e \in RowsOf(other)' : e \in RowsOf(other)
      BY <1>3, <2>2 DEF RowsOf, First, EntityId
    <3>3. \A e : Exists(table, e) => Exists(table', e)
      BY <1>3 DEF Exists
    <3>4. \A e \in RowsOf(other)' : \A k \in 1..e[1] : Exists(table, EntityId(other, k))'
      BY <3>1, <3>2, <3>3 DEF DeletionInv, WholeWhileFirst, Exists
    <3>. QED  BY <1>4, <1>6, <3>1, <3>3, <3>4 DEF DeletionInv, ReadsWhileFirst, Exists
  <2>. QED  BY <2>1, <2>2
<1>8. OneDeletionPastFirst'
  <2>1. ASSUME NEW q \in Procs, PastFirst(q)'
        PROVE  /\ First(call'[q].id) \notin DOMAIN table'
               /\ \A r \in Procs : PastFirst(r)' /\ call'[r].id = call'[q].id => r = q
    <3>1. PastFirst(q) /\ call'[q] = call[q] /\ call[q].id # id
      BY <1>6, <2>1
    <3>2. /\ First(call[q].id) \notin DOMAIN table
          /\ \A r \in Procs : PastFirst(r) /\ call[r].id = call[q].id => r = q
      BY <3>1 DEF DeletionInv, OneDeletionPastFirst, Exists
    <3>3. First(call[q].id) \notin DOMAIN table'
      BY <1>3, <3>1, <3>2 DEF First, EntityId
    <3>. QED  BY <1>6, <3>1, <3>2, <3>3
  <2>. QED  BY <2>1 DEF OneDeletionPastFirst, Exists, First
<1>9. WholeWhileFirst' /\ ReadsWhileFirst'
  BY <1>7 DEF WholeWhileFirst, ReadsWhileFirst, Exists
<1>. QED  BY <1>4, <1>8, <1>9 DEF DeletionInv

LEMMA SaveUpdateStep ==
  ASSUME TypeInv, DeletionInv, NEW p \in Procs, NEW result \in {"ok", "Error"},
         Updating(p), CanSave(call[p]), WriteSaved(call[p]), Return(p, result),
         UNCHANGED <<replica, used>>
  PROVE  DeletionInv'
<1>1. PICK id \in Ids, item \in Item : id = call[p].id /\ item = Saved(call[p])
  BY SavedValues DEF Updating
<1> DEFINE n == item.version
           new == EntityId(id, n)
<1>2. PICK base \in Item : base = call[p].latest
  BY DEF Updating, TypeInv, CallsOK, Suspended, Awaits
<1>3. n = base.version + 1 /\ n \in Nat /\ n >= 2
  BY <1>1, <1>2 DEF Updating, Saved, Updated, Item, Version
<1>4. DOMAIN table' = DOMAIN table \cup {EntityId(id, 0), new}
  BY <1>1, SavedRows DEF Updating
<1>5. /\ Quiet(p)' /\ OnlyCall(p) /\ CreatesOwnTheirIds'
      /\ \A other \in Ids : other = id \/ Exists(table, First(other))
           => (Latest(other)' # None => Stored(other, Latest(other))')
  BY <1>1, AfterSave
<1>6. \A q \in Procs :
        Updating(q)' \/ Deleting(q)' \/ PastFirst(q)' =>
          /\ call'[q] = call[q]
          /\ Updating(q)' => Updating(q)
          /\ Deleting(q)' => Deleting(q)
          /\ PastFirst(q)' => PastFirst(q)
  BY <1>5, OthersSame DEF Quiet
<1>7. \A other \in Ids : Exists(table, First(other))' => Exists(table, First(other))
  BY <1>3, <1>4 DEF Exists, First, EntityId
<1>8. ASSUME NEW other \in Ids, Exists(table, First(other))'
      PROVE  /\ \A e \in RowsOf(other)' : \A k \in 1..e[1] : Exists(table, EntityId(other, k))'
             /\ Latest(other)' # None => Stored(other, Latest(other))'
             /\ replica[other] # None => Exists(table, EntityId(other, replica[other].version))'
             /\ \A q \in Procs : (Updating(q)' \/ Deleting(q)') /\ call'[q].id = other
                  => Exists(table', EntityId(other, call'[q].latest.version))
  <2>1. Exists(table, First(other))
    BY <1>7, <1>8
  <2>2. ASSUME NEW e \in DOMAIN table', e[2] = other, NEW k \in 1..e[1]
        PROVE  EntityId(other, k) \in DOMAIN table'
    <3>1. CASE e \in DOMAIN table
      BY <1>4, <2>1, <2>2, <3>1 DEF DeletionInv, WholeWhileFirst, RowsOf, Exists
    <3>2. CASE e = new
      <4>1. other = id /\ e[1] = n
        BY <2>2, <3>2 DEF EntityId
      <4>2. EntityId(id, base.version) \in DOMAIN table
        BY <1>1, <1>2, <2>1, <4>1 DEF DeletionInv, ReadsWhileFirst, Exists
      <4>3. EntityId(id, base.version)[1] = base.version
            /\ EntityId(id, base.version)[2] = id
        BY DEF EntityId
      <4>4. \A j \in 1..base.version : EntityId(id, j) \in DOMAIN table
        BY <2>1, <4>1, <4>2, <4>3 DEF DeletionInv, WholeWhileFirst, RowsOf, Exists
      <4>5. k = n \/ k \in 1..base.version
        BY <1>2, <1>3, <2>2, <4>1 DEF Item, Version
      <4>. QED  BY <1>4, <4>1, <4>4, <4>5
    <3>3. CASE e = EntityId(id, 0)
      BY <2>2, <3>3 DEF EntityId
    <3>. QED  BY <1>4, <3>1, <3>2, <3>3
  <2>3. \A e : Exists(table, e) => Exists(table', e)
    BY <1>4 DEF Exists
  <2>4. \A e \in RowsOf(other)' : \A k \in 1..e[1] : Exists(table, EntityId(other, k))'
    BY <2>2 DEF RowsOf, Exists
  <2>. QED  BY <1>5, <1>6, <2>1, <2>3, <2>4 DEF DeletionInv, ReadsWhileFirst, Exists
<1>9. OneDeletionPastFirst'
  <2>1. ASSUME NEW q \in Procs, PastFirst(q)'
        PROVE  /\ First(call'[q].id) \notin DOMAIN table'
               /\ \A r \in Procs : PastFirst(r)' /\ call'[r].id = call'[q].id => r = q
    <3>1. PastFirst(q) /\ call'[q] = call[q]
      BY <1>6, <2>1
    <3>2. First(call[q].id) \notin DOMAIN table
      BY <3>1 DEF DeletionInv, OneDeletionPastFirst, Exists
    <3>3. First(call[q].id) \notin DOMAIN table'
      BY <1>3, <1>4, <3>2 DEF First, EntityId
    <3>. QED  BY <1>6, <3>1, <3>3 DEF DeletionInv, OneDeletionPastFirst
  <2>. QED  BY <2>1 DEF OneDeletionPastFirst, Exists, First
<1>10. WholeWhileFirst' /\ ReadsWhileFirst'
  BY <1>8 DEF WholeWhileFirst, ReadsWhileFirst, Exists
<1>. QED  BY <1>5, <1>9, <1>10 DEF DeletionInv

-----------------------------------------------------------------------------
(* What becomes of a deletion that has removed its row k: it is repeated,  *)
(* it goes on, or it was the last row.                                     *)
AfterDelete(p, k) ==
  \/ call'[p] = call[p]
  \/ /\ Deleting(p)' /\ call'[p].version = k + 1
     /\ call'[p].latest = call[p].latest
  \/ /\ ~Creating(p)' /\ ~Updating(p)' /\ ~Deleting(p)'
     /\ k = call[p].latest.version

LEMMA DeleteRowStep ==
  ASSUME TypeInv, DeletionInv, NEW p \in Procs, Deleting(p),
         Exists(table, Target(call[p])), RemoveTarget(call[p]),
         UNCHANGED <<replica, used>>, OnlyCall(p),
         call'[p].id = call[p].id, AfterDelete(p, call[p].version)
  PROVE  DeletionInv'
<1>1. PICK id \in Ids, k \in Nat, last \in Nat :
        /\ id = call[p].id /\ k = call[p].version /\ last = call[p].latest.version
        /\ last >= 1 /\ k <= last
  BY DEF Deleting, TypeInv, TypeOK, CallsOK, Suspended, Awaits, Call, Item, Version
<1> DEFINE e == EntityId(id, k)
<1>2. e[1] = k /\ e[2] = id
  BY DEF EntityId
<1>3. /\ e \in DOMAIN table
      /\ DOMAIN table' = DOMAIN table \ {e}
      /\ \A f \in DOMAIN table : f # e => table'[f] = table[f]
  BY <1>1 DEF Exists, RemoveTarget, Remove, Target
<1>4. /\ k = 0 => Latest(id)' = None
      /\ k > 0 => Latest(id)' = Latest(id)
      /\ \A other \in Ids : other # id => Latest(other)' = Latest(other)
  BY <1>2, <1>3 DEF Latest, Row, EntityId
<1>5. \A q \in Procs : q # p =>
        /\ call'[q] = call[q]
        /\ Creating(q)' <=> Creating(q)
        /\ Updating(q)' <=> Updating(q)
        /\ Deleting(q)' <=> Deleting(q)
        /\ PastFirst(q)' <=> PastFirst(q)
  BY OthersSame
<1>6. /\ ~Creating(p)' /\ ~Updating(p)'
      /\ Deleting(p)' => call'[p].latest = call[p].latest
      /\ PastFirst(p)' => k >= 1
  <2>1. CASE call'[p] = call[p]
    <3>1. ~Creating(p) /\ ~Updating(p) /\ ~Ended(p, "deleteCompletely", "ok")
      BY DEF Creating, Updating, Deleting, Ended
    <3>2. PastFirst(p) => k >= 1
      BY <1>1, <3>1 DEF PastFirst
    <3>. QED  BY <2>1, <3>1, <3>2 DEF Creating, Updating, PastFirst, Deleting, Ended
  <2>2. CASE Deleting(p)' /\ call'[p].version = k + 1 /\ call'[p].latest = call[p].latest
    BY <1>1, <2>2 DEF Creating, Updating, Deleting, PastFirst, Ended
  <2>3. CASE ~Creating(p)' /\ ~Updating(p)' /\ ~Deleting(p)' /\ k = last
    BY <1>1, <2>3
  <2>. QED  BY <1>1, <2>1, <2>2, <2>3 DEF AfterDelete
<1>7. k >= 2 => PastFirst(p) /\ First(id) \notin DOMAIN table
  BY <1>1 DEF PastFirst, DeletionInv, OneDeletionPastFirst, Exists
<1>8. CreatesOwnTheirIds'
  <2>1. ~Unborn(id)
    BY <1>1 DEF Unborn
  <2>2. \A other \in Ids : other # id /\ Unborn(other) => Unborn(other)'
    BY <1>1, <1>3, <1>5 DEF Unborn, RowsOf
  <2>3. ASSUME NEW q \in Procs, Creating(q)'
        PROVE  /\ Unborn(call[q].id)'
               /\ \A r \in Procs : Creating(r)' /\ call'[r].id = call'[q].id => r = q
    <3>1. q # p /\ Creating(q) /\ call'[q] = call[q] /\ Unborn(call[q].id)
      BY <1>5, <1>6, <2>3 DEF DeletionInv, CreatesOwnTheirIds
    <3>2. PICK other \in Ids : other = call[q].id /\ other # id
      BY <2>1, <3>1 DEF Creating, TypeInv, CallsOK, Suspended, Awaits
    <3>3. Unborn(other)'
      BY <2>2, <3>1, <3>2
    <3>4. \A r \in Procs : Creating(r)' /\ call'[r].id = other => r = q
      BY <1>5, <1>6, <3>1, <3>2 DEF DeletionInv, CreatesOwnTheirIds
    <3>. QED  BY <3>1, <3>2, <3>3, <3>4 DEF Unborn, RowsOf
  <2>4. ASSUME NEW other \in Ids, other \notin used
        PROVE  /\ Unborn(other)'
               /\ \A q \in Procs : Creating(q)' => call'[q].id # other
    <3>1. Unborn(other) /\ other # id
      BY <2>1, <2>4 DEF DeletionInv, CreatesOwnTheirIds
    <3>. QED  BY <1>5, <1>6, <2>2, <2>4, <3>1 DEF DeletionInv, CreatesOwnTheirIds
  <2>. QED  BY <2>3, <2>4 DEF CreatesOwnTheirIds
<1>9. ASSUME NEW other \in Ids, Exists(table, First(other))'
      PROVE  /\ \A f \in RowsOf(other)' : \A j \in 1..f[1] : Exists(table, EntityId(other, j))'
             /\ Latest(other)' # None => Stored(other, Latest(other))'
             /\ replica[other] # None => Exists(table, EntityId(other, replica[other].version))'
             /\ \A q \in Procs : (Updating(q)' \/ Deleting(q)') /\ call'[q].id = other
                  => Exists(table', EntityId(other, call'[q].latest.version))
  <2>1. First(other) \in DOMAIN table /\ First(other) # e
    BY <1>3, <1>9 DEF Exists, First
  <2>2. other = id => k = 0
    BY <1>7, <2>1 DEF First
  <2>3. \A j \in Nat : j > 0 /\ EntityId(other, j) \in DOMAIN table
                         => EntityId(other, j) \in DOMAIN table'
                            /\ table'[EntityId(other, j)] = table[EntityId(other, j)]
    BY <1>3, <2>2 DEF EntityId
  <2>4. ASSUME NEW f \in RowsOf(other)', NEW j \in 1..f[1]
        PROVE  Exists(table, EntityId(other, j))'
    <3>1. f \in RowsOf(other) /\ f[1] \in Nat /\ j \in Nat /\ j > 0
      BY <1>3 DEF RowsOf, TypeInv, TypeOK, EntityIds
    <3>2. EntityId(other, j) \in DOMAIN table
      BY <2>1, <3>1 DEF DeletionInv, WholeWhileFirst, Exists
    <3>. QED  BY <2>3, <3>1, <3>2 DEF Exists
  <2>5. ASSUME Latest(other)' # None
        PROVE  Stored(other, Latest(other))'
    <3>1. Latest(other)' = Latest(other)
      BY <1>4, <2>2, <2>5
    <3>2. PICK item \in Item : item = Latest(other)
      BY <2>5, <3>1 DEF Latest, Row, TypeInv, TypeOK
    <3>3. /\ EntityId(other, item.version) \in DOMAIN table
          /\ table[EntityId(other, item.version)] = item
      BY <2>1, <2>5, <3>1, <3>2 DEF DeletionInv, WholeWhileFirst, Stored, Exists
    <3>4. Stored(other, item)'
      BY <2>3, <3>2, <3>3 DEF Stored, Exists, Item, Version
    <3>. QED  BY <3>1, <3>2, <3>4 DEF Stored
  <2>6. replica[other] # None => Exists(table, EntityId(other, replica[other].version))'
    BY <2>1, <2>3 DEF DeletionInv, ReadsWhileFirst, Exists, TypeInv, TypeOK, Item,
                      Version
  <2>7. ASSUME NEW q \in Procs, Updating(q)' \/ Deleting(q)', call'[q].id = other
        PROVE  Exists(table', EntityId(other, call'[q].latest.version))
    <3>1. /\ Updating(q) \/ Deleting(q)
          /\ call[q].id = other /\ call'[q].latest = call[q].latest
      BY <1>5, <1>6, <2>7
    <3>2. /\ call[q].latest.version \in Nat /\ call[q].latest.version > 0
          /\ EntityId(other, call[q].latest.version) \in DOMAIN table
      BY <2>1, <3>1 DEF DeletionInv, ReadsWhileFirst, Exists, Updating, Deleting,
                        TypeInv, CallsOK, Suspended, Awaits, Item, Version
    <3>. QED  BY <2>3, <3>1, <3>2 DEF Exists
  <2>. QED  BY <2>4, <2>5, <2>6, <2>7
<1>10. OneDeletionPastFirst'
  <2>1. ASSUME NEW q \in Procs, q # p, PastFirst(q), call[q].id = id
        PROVE  k = 0
    BY <1>1, <1>3, <1>7, <2>1 DEF DeletionInv, OneDeletionPastFirst, Exists, First
  <2>2. ASSUME NEW q \in Procs, PastFirst(q)'
        PROVE  /\ First(call'[q].id) \notin DOMAIN table'
               /\ \A r \in Procs : PastFirst(r)' /\ call'[r].id = call'[q].id => r = q
    <3>1. CASE q = p
      <4>1. First(id) \notin DOMAIN table'
        BY <1>3, <1>6, <1>7, <2>2, <3>1 DEF First
      <4>2. \A r \in Procs : PastFirst(r)' /\ call'[r].id = id => r = p
        BY <1>5, <1>6, <2>1, <2>2, <3>1
      <4>. QED  BY <1>1, <3>1, <4>1, <4>2
    <3>2. CASE q # p
      <4>1. PastFirst(q) /\ call'[q] = call[q]
        BY <1>5, <2>2, <3>2
      <4>2. /\ First(call[q].id) \notin DOMAIN table
            /\ \A r \in Procs : PastFirst(r) /\ call[r].id = call[q].id => r = q
        BY <4>1 DEF DeletionInv, OneDeletionPastFirst, Exists
      <4>3. \A r \in Procs : PastFirst(r)' /\ call'[r].id = call[q].id => r = q
        BY <1>1, <1>5, <1>6, <2>1, <3>2, <4>1, <4>2
      <4>. QED  BY <1>3, <4>1, <4>2, <4>3
    <3>. QED  BY <3>1, <3>2
  <2>. QED  BY <2>2 DEF OneDeletionPastFirst, Exists, First
<1>11. WholeWhileFirst' /\ ReadsWhileFirst'
  BY <1>9 DEF WholeWhileFirst, ReadsWhileFirst, Exists
<1>. QED  BY <1>8, <1>10, <1>11 DEF DeletionInv

-----------------------------------------------------------------------------
LEMMA EndedQuiet ==
  ASSUME TypeInv, NEW p \in Procs, NEW result \in Results, Return(p, result),
         result # "ok"
  PROVE  /\ OnlyCall(p) /\ Quiet(p)' /\ call'[p].id = call[p].id
         /\ call'[p].op = call[p].op /\ call'[p].result = result
BY DEF Return, OnlyCall, Quiet, Creating, Updating, Deleting, PastFirst, Ended,
       TypeInv, TypeOK, Call

(* What the calls of the REST system do to the calls that hold something.  *)
LEMMA BeginOutcome ==
  ASSUME RestSystem, TypeInv, NEW p \in Procs, Begin(p), ~StartCreate(p)
  PROVE  OnlyCall(p) /\ Quiet(p)' /\ UNCHANGED <<table, replica, used>>
<1>1. CASE StartGet(p) \/ StartUpdate(p) \/ StartDeleteCompletely(p)
  <2>1. OnlyCall(p) /\ call'[p].pc = "get" /\ UNCHANGED <<table, replica, used>>
    BY <1>1 DEF StartGet, StartUpdate, StartDeleteCompletely, Start, OnlyCall,
                TypeInv, TypeOK
  <2>. QED  BY <2>1 DEF Quiet, Creating, Updating, Deleting, PastFirst, Ended
<1>2. CASE RefuseCreate(p)
  <2>1. OnlyCall(p) /\ call'[p].pc = "returned" /\ call'[p].result = "BadRequest"
        /\ UNCHANGED <<table, replica, used>>
    BY <1>2 DEF RefuseCreate, Idle, OnlyCall, TypeInv, TypeOK
  <2>. QED  BY <2>1 DEF Quiet, Creating, Updating, Deleting, PastFirst, Ended
<1>. QED  BY <1>1, <1>2, RestSteps DEF Begin

LEMMA ReadingOutcome ==
  ASSUME RestSystem, TypeInv, NEW p \in Procs,
         GetMissing(p) \/ GetFound(p) \/ ReadForUpdate(p) \/ ReadForDeletion(p)
  PROVE  /\ OnlyCall(p) /\ UNCHANGED <<table, replica, used>>
         /\ \/ Quiet(p)'
            \/ \E id \in Ids, item \in Item :
                 /\ id = call[p].id /\ item \in Visible(id)
                 /\ call'[p].id = id /\ call'[p].latest = item
                 /\ Updating(p)' \/ (Deleting(p)' /\ call'[p].version = 0)
<1>1. call[p] \in Call /\ call[p].pc = "get" /\ UNCHANGED <<table, replica, used>>
  BY DEF GetMissing, GetFound, ReadForUpdate, ReadForDeletion, TypeInv, TypeOK
<1>2. PICK id \in Ids : id = call[p].id
  BY <1>1, RestSteps DEF Awaits
<1>3. CASE Return(p, "NotFound") \/ Return(p, "BadRequest")
  BY <1>1, <1>3, EndedQuiet DEF Results
<1>4. CASE GetFound(p)
  <2>1. PICK item : call' = [call EXCEPT ![p].pc = "returned", ![p].result = "ok",
                                         ![p].latest = item]
    BY <1>4 DEF GetFound
  <2>2. OnlyCall(p) /\ call'[p].pc = "returned" /\ call'[p].op = "get"
    BY <1>1, <1>4, <2>1 DEF GetFound, OnlyCall, TypeInv, TypeOK, Call
  <2>. QED  BY <1>1, <2>2 DEF Quiet, Creating, Updating, Deleting, PastFirst, Ended
<1>5. CASE ReadForUpdate(p) /\ ~Return(p, "BadRequest")
  <2>1. PICK item \in Visible(id) \ {None} :
          call' = [call EXCEPT ![p].pc = "save", ![p].latest = item]
    BY <1>2, <1>5 DEF ReadForUpdate
  <2>2. item \in Item
    BY <2>1, VisibleType
  <2>3. /\ OnlyCall(p) /\ call'[p].id = id /\ call'[p].latest = item
        /\ call'[p].op = "update" /\ call'[p].pc = "save"
    BY <1>1, <1>2, <1>5, <2>1 DEF OnlyCall, TypeInv, TypeOK, Call, ReadForUpdate
  <2>. QED  BY <1>1, <1>2, <2>1, <2>2, <2>3 DEF Updating
<1>6. CASE ReadForDeletion(p)
  <2>1. PICK item \in Visible(id) \ {None} :
          call' = [call EXCEPT ![p].pc = "delete", ![p].latest = item,
                               ![p].version = 0]
    BY <1>2, <1>6 DEF ReadForDeletion
  <2>2. item \in Item
    BY <2>1, VisibleType
  <2>3. /\ OnlyCall(p) /\ call'[p].id = id /\ call'[p].latest = item
        /\ call'[p].op = "deleteCompletely" /\ call'[p].pc = "delete"
        /\ call'[p].version = 0
    BY <1>1, <1>2, <1>6, <2>1 DEF OnlyCall, TypeInv, TypeOK, Call, ReadForDeletion
  <2>. QED  BY <1>1, <1>2, <2>1, <2>2, <2>3 DEF Deleting
<1>. QED  BY <1>3, <1>4, <1>5, <1>6 DEF GetMissing, ReadForUpdate

LEMMA DeletingOutcome ==
  ASSUME RestSystem, TypeInv, NEW p \in Procs, DeleteRow(p) \/ LostDelete(p)
  PROVE  /\ Deleting(p) /\ Exists(table, Target(call[p])) /\ RemoveTarget(call[p])
         /\ OnlyCall(p) /\ call'[p].id = call[p].id
         /\ call'[p].latest = call[p].latest
         /\ UNCHANGED <<replica, used>>
         /\ AfterDelete(p, call[p].version)
         /\ LostDelete(p) \/ call'[p] # call[p]
<1>1. Deleting(p) /\ call[p] \in Call
  BY RestSteps DEF DeleteRow, LostDelete, TypeInv, TypeOK
<1>2. CASE LostDelete(p)
  BY <1>1, <1>2 DEF LostDelete, OnlyCall, AfterDelete
<1>3. CASE DeleteRow(p) /\ LastDelete(call[p])
  <2>1. Return(p, "ok") /\ call[p].version = call[p].latest.version
    BY <1>1, <1>3 DEF DeleteRow, LastDelete, Deleting
  <2>2. /\ OnlyCall(p) /\ call'[p].id = call[p].id
        /\ call'[p].latest = call[p].latest
        /\ call'[p].pc = "returned"
    BY <1>1, <2>1 DEF Return, OnlyCall, TypeInv, TypeOK, Call
  <2>3. ~Creating(p)' /\ ~Updating(p)' /\ ~Deleting(p)'
    BY <2>2 DEF Creating, Updating, Deleting
  <2>. QED  BY <1>1, <1>3, <2>1, <2>2, <2>3 DEF AfterDelete, DeleteRow, Deleting
<1>4. CASE DeleteRow(p) /\ ~LastDelete(call[p])
  <2>1. call' = [call EXCEPT ![p].version = @ + 1]
    BY <1>4 DEF DeleteRow
  <2>2. /\ OnlyCall(p) /\ call'[p].id = call[p].id
        /\ call'[p].op = call[p].op /\ call'[p].pc = call[p].pc
        /\ call'[p].version = call[p].version + 1
        /\ call'[p].latest = call[p].latest
    BY <1>1, <2>1 DEF OnlyCall, TypeInv, TypeOK, Call
  <2>3. Deleting(p)' /\ call'[p].version # call[p].version
    BY <1>1, <2>2 DEF Deleting, Call
  <2>. QED  BY <1>1, <1>4, <2>2, <2>3 DEF AfterDelete, DeleteRow
<1>. QED  BY <1>2, <1>3, <1>4

(* No create of the REST system is refused: its id is not taken.           *)
LEMMA CreatesAreAccepted ==
  ASSUME RestSystem, TypeInv, DeletionInv, NEW p \in Procs
  PROVE  ~RetryCreate(p)
<1> SUFFICES ASSUME RetryCreate(p) PROVE FALSE
  OBVIOUS
<1>1. PICK id \in Ids : id = call[p].id
  BY RestSteps DEF RetryCreate, Awaits
<1>2. Unborn(id)
  BY <1>1 DEF RetryCreate, Creating, DeletionInv, CreatesOwnTheirIds
<1>3. CanSave(call[p])
  BY <1>1, <1>2 DEF Unborn, RowsOf, CanSave, Exists, EntityId
<1>. QED  BY <1>3 DEF RetryCreate

(* The steps of the REST system.                                           *)
Storing(p, result) ==
  /\ Creating(p) \/ Updating(p)
  /\ CanSave(call[p]) /\ WriteSaved(call[p]) /\ Return(p, result)
  /\ UNCHANGED <<replica, used>>

LEMMA RestNext ==
  ASSUME RestSystem, TypeInv, DeletionInv, [Next]_vars
  PROVE  \/ UNCHANGED vars
         \/ \E id \in Ids : Replicate(id)
         \/ \E p \in Procs :
              \/ OnlyCall(p) /\ Quiet(p)' /\ UNCHANGED <<table, replica, used>>
              \/ StartCreate(p)
              \/ GetMissing(p) \/ GetFound(p) \/ ReadForUpdate(p) \/ ReadForDeletion(p)
              \/ \E result \in {"ok", "Error"} : Storing(p, result)
              \/ DeleteRow(p) \/ LostDelete(p)
<1>1. ASSUME NEW p \in Procs, Step(p)
      PROVE  \/ OnlyCall(p) /\ Quiet(p)' /\ UNCHANGED <<table, replica, used>>
             \/ GetMissing(p) \/ GetFound(p) \/ ReadForUpdate(p) \/ ReadForDeletion(p)
             \/ Storing(p, "ok")
             \/ DeleteRow(p)
  <2>1. ~ReadForRevision(p) /\ ~Revise(p) /\ ~ReviseRefused(p) /\ ~RetryCreate(p)
    <3>1. call[p].pc = "get" => call[p].op # "updateRevision"
      BY RestSteps DEF RestSystem, Awaits
    <3>. QED  BY <3>1, RestSteps, CreatesAreAccepted
              DEF ReadForRevision, Revise, ReviseRefused
  <2>2. CASE SaveRefused(p) \/ DeleteMissing(p)
    BY <2>2, EndedQuiet DEF SaveRefused, DeleteMissing, Results
  <2>3. CASE Save(p)
    BY <2>3, RestSteps DEF Save, Storing
  <2>. QED  BY <1>1, <2>1, <2>2, <2>3 DEF Step
<1>2. ASSUME NEW p \in Procs, Fault(p)
      PROVE  \/ OnlyCall(p) /\ Quiet(p)' /\ UNCHANGED <<table, replica, used>>
             \/ Storing(p, "Error")
             \/ LostDelete(p)
  <2>1. CASE Fail(p)
    BY <2>1, EndedQuiet DEF Fail, Results
  <2>2. CASE Crash(p)
    <3>1. OnlyCall(p) /\ call'[p].pc = "idle" /\ UNCHANGED <<table, replica, used>>
      BY <2>2 DEF Crash, Idle, OnlyCall, TypeInv, TypeOK
    <3>. QED  BY <3>1 DEF Quiet, Creating, Updating, Deleting, PastFirst, Ended
  <2>3. CASE LostReply(p)
    BY <2>3, RestSteps DEF LostReply, Storing
  <2>. QED  BY <1>2, <2>1, <2>2, <2>3 DEF Fault
<1>3. ASSUME NEW p \in Procs, Begin(p)
      PROVE  \/ OnlyCall(p) /\ Quiet(p)' /\ UNCHANGED <<table, replica, used>>
             \/ StartCreate(p)
  BY <1>3, BeginOutcome
<1>. QED  BY <1>1, <1>2, <1>3 DEF Next

LEMMA DeletionInvNext ==
  ASSUME RestSystem
  PROVE  TypeInv /\ DeletionInv /\ [Next]_vars => DeletionInv'
<1> SUFFICES ASSUME TypeInv, DeletionInv, [Next]_vars
             PROVE  DeletionInv'
  OBVIOUS
<1>1. ASSUME NEW p \in Procs,
             OnlyCall(p), Quiet(p)', UNCHANGED <<table, replica, used>>
      PROVE  DeletionInv'
  BY <1>1, QuietStep
<1>2. ASSUME NEW p \in Procs,
             GetMissing(p) \/ GetFound(p) \/ ReadForUpdate(p) \/ ReadForDeletion(p)
      PROVE  DeletionInv'
  <2>1. /\ OnlyCall(p) /\ UNCHANGED <<table, replica, used>>
        /\ \/ Quiet(p)'
           \/ \E id \in Ids, item \in Item :
                /\ id = call[p].id /\ item \in Visible(id)
                /\ call'[p].id = id /\ call'[p].latest = item
                /\ Updating(p)' \/ (Deleting(p)' /\ call'[p].version = 0)
    BY <1>2, ReadingOutcome
  <2>2. CASE Quiet(p)'
    BY <2>1, <2>2, QuietStep
  <2>3. CASE ~Quiet(p)'
    <3>1. PICK id \in Ids, item \in Item :
                /\ id = call[p].id /\ item \in Visible(id)
                /\ call'[p].id = id /\ call'[p].latest = item
                /\ Updating(p)' \/ (Deleting(p)' /\ call'[p].version = 0)
      BY <2>1, <2>3
    <3>. QED  BY <2>1, <3>1, ReadStep
  <2>. QED  BY <2>2, <2>3
<1>3. ASSUME NEW p \in Procs, NEW result \in {"ok", "Error"}, Storing(p, result)
      PROVE  DeletionInv'
  BY <1>3, SaveCreateStep, SaveUpdateStep DEF Storing
<1>4. ASSUME NEW p \in Procs, DeleteRow(p) \/ LostDelete(p)
      PROVE  DeletionInv'
  BY <1>4, DeletingOutcome, DeleteRowStep
<1>5. CASE UNCHANGED vars
  <2>1. UNCHANGED <<table, replica, used, call>>
    BY <1>5 DEF vars
  <2>. QED  BY <2>1 DEF DeletionInv, WholeWhileFirst, CreatesOwnTheirIds,
         ReadsWhileFirst, OneDeletionPastFirst, Unborn, RowsOf, Creating,
         Updating, Deleting, PastFirst, Ended, Latest, Stored, First
<1>. QED  BY <1>1, <1>2, <1>3, <1>4, <1>5, RestNext, StartCreateStep, ReplicateStep

LEMMA DeletionInvariant ==
  ASSUME RestSystem
  PROVE  Spec => [](TypeInv /\ DeletionInv)
<1>1. TypeInv /\ DeletionInv /\ [Next]_vars => TypeInv' /\ DeletionInv'
  BY DeletionInvNext, TypeNext
<1>. QED  BY <1>1, TypeInit, DeletionInvInit, PTL DEF Spec

(* Racing deletions and updates of a demo keep to an order that turns on   *)
(* version 1: while it is there, all that was read and stored of the demo  *)
(* is, no create takes an id that is in use, and of the deletions of the   *)
(* demo only one gets past it.  Stale reads, lost answers, repeated        *)
(* deletes and crashes included.                                           *)
THEOREM DeletionsKeepOrder ==
  ASSUME RestSystem
  PROVE  Spec => []DeletionInv
BY DeletionInvariant, PTL

(* As long as version 1 of a demo is there the demo is whole, although its *)
(* rows are deleted one by one, deletes are repeated and updates and other *)
(* deletions of it are under way.                                          *)
THEOREM WholeUntilDeleted ==
  ASSUME RestSystem
  PROVE  Spec => []WholeWhileFirst
<1>1. TypeInv /\ DeletionInv => WholeWhileFirst
  BY DEF DeletionInv
<1>. QED  BY <1>1, DeletionInvariant, PTL

(* Of all the deletions of one demo at most one answers 204.               *)
THEOREM DeletionsSucceedOnce ==
  ASSUME RestSystem
  PROVE  Spec => []OneDeletionSucceeds
<1>1. TypeInv /\ DeletionInv => OneDeletionSucceeds
  BY DEF DeletionInv, OneDeletionPastFirst, OneDeletionSucceeds, PastFirst
<1>. QED  BY <1>1, DeletionInvariant, PTL

-----------------------------------------------------------------------------
(* What a deletion that returned has deleted, whatever methods the system  *)
(* calls.                                                                  *)
StandingInv ==
  \A p \in Procs :
    /\ standing[p] \subseteq DOMAIN table
    /\ \A e \in standing[p] : e[2] = call[p].id =>
         /\ Deleting(p) => e[1] >= call[p].version
         /\ Ended(p, "deleteCompletely", "ok") => e[1] > call[p].latest.version

DeletionTypes == TypeInv /\ standing \in [Procs -> SUBSET EntityIds]

(* What a step of process p may be for the deletion it executes.           *)
NoDeletion(p) == ~Deleting(p)' /\ ~Ended(p, "deleteCompletely", "ok")'

StartsDeleting(p) ==
  ~Deleting(p) /\ Deleting(p)' /\ call'[p].version = 0 /\ UNCHANGED table

Deletes(p) ==
  /\ Deleting(p) /\ RemoveTarget(call[p]) /\ call'[p].id = call[p].id
  /\ \/ Deleting(p)' /\ call'[p].version = call[p].version + 1
     \/ /\ ~Deleting(p)' /\ call'[p].latest = call[p].latest
        /\ call[p].version = call[p].latest.version

LEMMA DeletionCases ==
  ASSUME TypeInv, NEW p \in Procs, Begin(p) \/ Step(p) \/ Fault(p)
  PROVE  OnlyCall(p) /\ (NoDeletion(p) \/ call'[p] = call[p] \/ StartsDeleting(p) \/ Deletes(p))
<1>0. call[p] \in Call /\ (call[p].pc = "save" => call[p].op \in {"create", "update"})
      /\ (call[p].pc = "revise" => call[p].op = "updateRevision")
      /\ (call[p].pc = "delete" => call[p].op \in {"delete", "deleteCompletely"})
      /\ (Deleting(p) => call[p].version \in Nat /\ call[p].latest \in Item)
  BY DEF TypeInv, TypeOK, CallsOK, Suspended, Awaits, Awaiting, Deleting, Call
<1>1. ASSUME NEW result \in Results, Return(p, result),
             result # "ok" \/ call[p].op # "deleteCompletely"
      PROVE  OnlyCall(p) /\ NoDeletion(p)
  <2>1. OnlyCall(p) /\ call'[p].pc = "returned" /\ call'[p].op = call[p].op
        /\ call'[p].result = result
    BY <1>0, <1>1 DEF Return, OnlyCall, TypeInv, TypeOK, Call
  <2>. QED  BY <1>1, <2>1 DEF NoDeletion, Deleting, Ended
<1>2. CASE Begin(p)
  <2>1. ASSUME NEW op, NEW pc \in {"get", "save", "delete"}, NEW id, NEW body, NEW version,
               NEW retry, Start(p, op, pc, id, body, version, retry),
               op # "deleteCompletely" \/ pc = "get"
        PROVE  OnlyCall(p) /\ NoDeletion(p)
    BY <2>1 DEF Start, OnlyCall, NoDeletion, Deleting, Ended, TypeInv, TypeOK
  <2>2. CASE StartGet(p) \/ StartUpdate(p) \/ StartUpdateRevision(p)
             \/ StartDeleteCompletely(p)
    BY <2>1, <2>2 DEF StartGet, StartUpdate, StartUpdateRevision, StartDeleteCompletely
  <2>3. CASE StartCreate(p) \/ StartDelete(p)
    BY <2>1, <2>3 DEF StartCreate, StartDelete
  <2>4. CASE RefuseCreate(p)
    <3>1. OnlyCall(p) /\ call'[p].pc = "returned" /\ call'[p].result = "BadRequest"
      BY <2>4 DEF RefuseCreate, Idle, OnlyCall, TypeInv, TypeOK
    <3>. QED  BY <3>1 DEF NoDeletion, Deleting, Ended
  <2>. QED  BY <1>2, <2>2, <2>3, <2>4 DEF Begin
<1>3. CASE ReadForDeletion(p)
  <2>1. PICK item : call' = [call EXCEPT ![p].pc = "delete", ![p].latest = item,
                                         ![p].version = 0]
    BY <1>3 DEF ReadForDeletion
  <2>2. OnlyCall(p) /\ call'[p].pc = "delete" /\ call'[p].op = "deleteCompletely"
        /\ call'[p].version = 0
    BY <1>0, <1>3, <2>1 DEF OnlyCall, TypeInv, TypeOK, Call, ReadForDeletion
  <2>. QED  BY <1>3, <2>2 DEF StartsDeleting, Deleting, ReadForDeletion
<1>4. CASE GetFound(p) \/ ReadForUpdate(p) \/ ReadForRevision(p)
  <2>1. CASE Return(p, "BadRequest")
    BY <1>1, <2>1 DEF Results
  <2>2. CASE ~Return(p, "BadRequest")
    <3>1. PICK item :
            \/ call' = [call EXCEPT ![p].pc = "returned", ![p].result = "ok", ![p].latest = item]
            \/ call' = [call EXCEPT ![p].pc = "save", ![p].latest = item]
            \/ call' = [call EXCEPT ![p].pc = "revise", ![p].latest = item]
      BY <1>4, <2>2 DEF GetFound, ReadForUpdate, ReadForRevision
    <3>2. OnlyCall(p) /\ call'[p].op = call[p].op
      BY <1>0, <3>1 DEF OnlyCall, TypeInv, TypeOK, Call
    <3>. QED  BY <1>4, <3>2 DEF NoDeletion, Deleting, Ended, GetFound, ReadForUpdate,
                               ReadForRevision
  <2>. QED  BY <2>1, <2>2
<1>5. CASE Save(p) \/ Revise(p)
  BY <1>0, <1>1, <1>5 DEF Save, Revise, Results
<1>6. CASE GetMissing(p) \/ SaveRefused(p) \/ ReviseRefused(p) \/ DeleteMissing(p)
           \/ Fail(p) \/ LostReply(p)
  <2>1. PICK result \in Results : result # "ok" /\ Return(p, result)
    BY <1>6 DEF GetMissing, SaveRefused, ReviseRefused, DeleteMissing, Fail, LostReply,
                Results
  <2>. QED  BY <1>1, <2>1
<1>7. CASE RetryCreate(p)
  <2>1. PICK id : call' = [call EXCEPT ![p].id = id, ![p].retry = @ - 1]
    BY <1>7 DEF RetryCreate
  <2>2. OnlyCall(p) /\ call'[p].op = "create"
    BY <1>0, <1>7, <2>1 DEF RetryCreate, OnlyCall, TypeInv, TypeOK, Call
  <2>. QED  BY <2>2 DEF NoDeletion, Deleting, Ended
<1>8. CASE DeleteRow(p)
  <2>1. CASE call[p].op = "delete"
    BY <1>1, <1>8, <2>1 DEF DeleteRow, LastDelete, Results
  <2>2. CASE call[p].op # "delete" /\ LastDelete(call[p])
    <3>1. OnlyCall(p) /\ call'[p].id = call[p].id /\ call'[p].latest = call[p].latest
          /\ call'[p].pc = "returned"
      BY <1>0, <1>8, <2>2 DEF DeleteRow, Return, OnlyCall, TypeInv, TypeOK, Call
    <3>. QED  BY <1>0, <1>8, <2>2, <3>1 DEF DeleteRow, Deletes, Deleting, LastDelete
  <2>3. CASE call[p].op # "delete" /\ ~LastDelete(call[p])
    <3>1. call' = [call EXCEPT ![p].version = @ + 1]
      BY <1>8, <2>3 DEF DeleteRow
    <3>2. OnlyCall(p) /\ call'[p].id = call[p].id /\ call'[p].op = call[p].op
          /\ call'[p].pc = call[p].pc /\ call'[p].version = call[p].version + 1
      BY <1>0, <3>1 DEF OnlyCall, TypeInv, TypeOK, Call
    <3>. QED  BY <1>0, <1>8, <2>3, <3>2 DEF DeleteRow, Deletes, Deleting
  <2>. QED  BY <2>1, <2>2, <2>3
<1>9. CASE LostDelete(p)
  BY <1>9 DEF LostDelete, OnlyCall
<1>10. CASE Crash(p)
  <2>1. OnlyCall(p) /\ call'[p].pc = "idle"
    BY <1>10 DEF Crash, Idle, OnlyCall, TypeInv, TypeOK
  <2>. QED  BY <2>1 DEF NoDeletion, Deleting, Ended
<1>. QED  BY <1>2, <1>3, <1>4, <1>5, <1>6, <1>7, <1>8, <1>9, <1>10 DEF Step, Fault

LEMMA StandingNext ==
  DeletionTypes /\ StandingInv /\ [DeletionNext]_deletionVars => StandingInv'
<1> SUFFICES ASSUME DeletionTypes, StandingInv, [DeletionNext]_deletionVars, NEW p \in Procs
             PROVE  /\ standing'[p] \subseteq DOMAIN table'
                    /\ \A e \in standing'[p] : e[2] = call'[p].id =>
                         /\ Deleting(p)' => e[1] >= call'[p].version
                         /\ Ended(p, "deleteCompletely", "ok")' => e[1] > call'[p].latest.version
  BY DEF StandingInv, Deleting, Ended
<1>1. TypeInv /\ [Next]_vars
  BY DEF DeletionTypes, DeletionNext, deletionVars
<1>2. CASE UNCHANGED deletionVars
  <2>1. UNCHANGED <<table, call, standing>>
    BY <1>2 DEF deletionVars, vars
  <2>. QED  BY <2>1 DEF StandingInv, Deleting, Ended
<1>3. CASE DeletionNext
  <2>1. standing'[p] = IF Deleting(p)' /\ ~Deleting(p) THEN DOMAIN table
                       ELSE standing[p] \cap DOMAIN table'
    BY <1>3 DEF DeletionNext
  <2>2. NoDeletion(p) \/ call'[p] = call[p] \/ StartsDeleting(p) \/ Deletes(p)
    <3>1. ASSUME NEW q \in Procs, Begin(q) \/ Step(q) \/ Fault(q)
          PROVE  NoDeletion(p) \/ call'[p] = call[p] \/ StartsDeleting(p) \/ Deletes(p)
      <4>1. CASE q = p
        BY <1>1, <3>1, <4>1, DeletionCases
      <4>2. CASE q # p
        BY <1>1, <3>1, <4>2, DeletionCases DEF OnlyCall
      <4>. QED  BY <4>1, <4>2
    <3>2. CASE \E id \in Ids : Replicate(id)
      BY <3>2 DEF Replicate
    <3>. QED  BY <1>3, <3>1, <3>2 DEF DeletionNext, Next
  <2>3. CASE NoDeletion(p)
    BY <2>1, <2>3 DEF NoDeletion
  <2>4. CASE call'[p] = call[p]
    BY <2>1, <2>4 DEF StandingInv, Deleting, Ended
  <2>5. CASE StartsDeleting(p)
    <3>1. \A e \in DOMAIN table : e[1] >= 0
      BY <1>1 DEF TypeInv, TypeOK, EntityIds
    <3>. QED  BY <2>1, <2>5, <3>1 DEF StartsDeleting, Deleting, Ended
  <2>6. CASE Deletes(p)
    <3>1. PICK id \in Ids, k \in Nat : id = call[p].id /\ k = call[p].version
      BY <1>1, <2>6 DEF Deletes, Deleting, TypeInv, TypeOK, CallsOK, Suspended, Awaits, Call
    <3>2. standing'[p] = standing[p] \cap DOMAIN table' /\ DOMAIN table' = DOMAIN table \ {<<k, id>>}
      BY <2>1, <2>6, <3>1 DEF Deletes, RemoveTarget, Remove, Target, EntityId
    <3>3. \A e \in standing'[p] : e[2] = id => e[1] \in Nat /\ e[1] >= k /\ e[1] # k
      <4>1. ASSUME NEW e \in standing'[p], e[2] = id
            PROVE  e[1] \in Nat /\ e[1] >= k /\ e[1] # k
        <5>1. e \in EntityIds /\ e # <<k, id>> /\ e[1] >= k
          BY <2>6, <3>1, <3>2, <4>1 DEF StandingInv, Deletes, DeletionTypes
        <5>. QED  BY <4>1, <5>1 DEF EntityIds
      <4>. QED  BY <4>1
    <3>4. CASE Deleting(p)' /\ call'[p].version = k + 1
      BY <2>6, <3>1, <3>2, <3>3, <3>4 DEF Deletes, Deleting, Ended
    <3>5. CASE ~Deleting(p)' /\ call'[p].latest = call[p].latest /\ k = call[p].latest.version
      BY <2>6, <3>1, <3>2, <3>3, <3>5 DEF Deletes
    <3>. QED  BY <2>6, <3>1, <3>4, <3>5 DEF Deletes
  <2>. QED  BY <2>2, <2>3, <2>4, <2>5, <2>6
<1>. QED  BY <1>2, <1>3

LEMMA DeletionTypesNext ==
  DeletionTypes /\ [DeletionNext]_deletionVars => DeletionTypes'
<1> SUFFICES ASSUME DeletionTypes, [DeletionNext]_deletionVars PROVE DeletionTypes'
  OBVIOUS
<1>1. [Next]_vars /\ TypeInv /\ TypeInv'
  BY TypeNext DEF DeletionTypes, DeletionNext, deletionVars
<1>2. CASE UNCHANGED deletionVars
  BY <1>1, <1>2 DEF deletionVars, DeletionTypes
<1>3. CASE DeletionNext
  BY <1>1, <1>3 DEF DeletionTypes, DeletionNext, TypeInv, TypeOK
<1>. QED  BY <1>2, <1>3

(* When deleteCompletely has returned, every row of the demo that was      *)
(* there when it read the latest copy and has not been written since is    *)
(* newer than that copy: with any number of invocations of all the         *)
(* methods, stale reads, failures, lost answers, repeated deletes and      *)
(* crashes.                                                                *)
THEOREM DeletionsDeleteWhatTheyRead == DeletionSpec => []DeletedWhatItRead
<1>1. DeletionInit => DeletionTypes /\ StandingInv
  BY TypeInit DEF DeletionInit, DeletionTypes, StandingInv
<1>2. DeletionTypes /\ StandingInv => DeletedWhatItRead
  BY DEF StandingInv, DeletedWhatItRead
<1>. QED  BY <1>1, <1>2, StandingNext, DeletionTypesNext, PTL DEF DeletionSpec

-----------------------------------------------------------------------------
(* A demo none of whose deletes is repeated.                               *)

(* The rows a deletion has still to remove all exist if the next one does. *)
LEMMA RowsToDelete ==
  ASSUME TypeInv, DeletionInv, NEW id \in Ids, Kept(id),
         NEW p \in Procs, Deleting(p), call[p].id = id, call[p].version > 0,
         Exists(table, Target(call[p])) \/ call[p].version > 1
  PROVE  \A k \in call[p].version..call[p].latest.version : Exists(table, EntityId(id, k))
<1>1. call[p].version \in Nat /\ call[p].latest.version \in Nat
  BY DEF Deleting, TypeInv, TypeOK, CallsOK, Suspended, Awaits, Call, Item, Version
<1>2. CASE call[p].version = 1
  <2>1. PICK last \in Nat : last = call[p].latest.version
    BY <1>1
  <2>2. Exists(table, First(id)) /\ Exists(table, EntityId(id, last))
    BY <1>2, <2>1 DEF Target, First, DeletionInv, ReadsWhileFirst
  <2>3. EntityId(id, last)[1] = last /\ EntityId(id, last) \in RowsOf(id)
    BY <2>2 DEF EntityId, RowsOf, Exists
  <2>4. \A k \in 1..last : Exists(table, EntityId(id, k))
    BY <2>2, <2>3 DEF DeletionInv, WholeWhileFirst
  <2>. QED  BY <1>2, <2>1, <2>4
<1>3. CASE call[p].version >= 2
  BY <1>3 DEF Kept, FindsTheRest
<1>. QED  BY <1>1, <1>2, <1>3

LEMMA KeptSame ==
  ASSUME TypeInv, NEW id \in Ids, Kept(id),
         \A k : LET e == EntityId(id, k)
                IN  /\ Exists(table', e) <=> Exists(table, e)
                    /\ Exists(table, e) => table'[e] = table[e],
         \A q \in Procs : Deleting(q)' /\ call'[q].id = id =>
           call'[q].version = 0 \/ (Deleting(q) /\ call'[q] = call[q])
  PROVE  Kept(id)'
<1>1. Latest(id)' = Latest(id)
  BY DEF Latest, Row, Exists
<1>2. Latest(id)' # None => Stored(id, Latest(id))'
  BY <1>1 DEF Kept, Stored
<1>3. ASSUME NEW q \in Procs, Deleting(q)', call'[q].id = id
      PROVE  FindsTheRest(q)' /\ LatestOutOfReach(q)'
  <2>1. CASE call'[q].version = 0
    BY <2>1 DEF FindsTheRest, LatestOutOfReach
  <2>2. CASE Deleting(q) /\ call'[q] = call[q]
    <3>1. FindsTheRest(q) /\ LatestOutOfReach(q)
      BY <1>3, <2>2 DEF Kept
    <3>2. FindsTheRest(q)'
      BY <1>3, <2>2, <3>1 DEF FindsTheRest
    <3>3. LatestOutOfReach(q)'
      BY <1>1, <1>3, <2>2, <3>1 DEF LatestOutOfReach, Target, Latest
    <3>. QED  BY <3>2, <3>3
  <2>. QED  BY <1>3, <2>1, <2>2
<1>. QED  BY <1>2, <1>3 DEF Kept

LEMMA KeptSave ==
  ASSUME TypeInv, DeletionInv, NEW id \in Ids, Kept(id),
         NEW p \in Procs, NEW result \in {"ok", "Error"}, Storing(p, result),
         call[p].id = id
  PROVE  Kept(id)'
<1>1. PICK item \in Item : item = Saved(call[p])
  BY SavedValues DEF Storing, Creating, Updating
<1> DEFINE n == item.version
           new == EntityId(id, n)
<1>2. /\ new \notin DOMAIN table
      /\ DOMAIN table' = DOMAIN table \cup {EntityId(id, 0), new}
      /\ Latest(id)' = item
  BY <1>1, SavedRows DEF Storing, Creating, Updating
<1>3. /\ Quiet(p)' /\ OnlyCall(p)
      /\ Latest(id)' # None => Stored(id, Latest(id))'
  BY <1>1, AfterSave DEF Storing
<1>4. ASSUME NEW q \in Procs, Deleting(q)', call'[q].id = id
      PROVE  FindsTheRest(q)' /\ LatestOutOfReach(q)'
  <2>1. Deleting(q) /\ call'[q] = call[q] /\ call[q].id = id
    BY <1>3, <1>4, OthersSame DEF Quiet
  <2>2. call[q].version \in Nat /\ FindsTheRest(q) /\ LatestOutOfReach(q)
    BY <2>1 DEF Kept, TypeInv, TypeOK, Call
  <2>3. Updating(p) /\ n \in Nat /\ n >= 2
    <3>1. Updating(p) /\ call[p].latest \in Item
      BY <2>1 DEF Storing, DeletionInv, CreatesOwnTheirIds, Unborn, Updating, TypeInv,
                  CallsOK, Suspended, Awaits
    <3>. QED  BY <1>1, <3>1 DEF Updating, Saved, Updated, Item, Version
  <2>4. FindsTheRest(q)'
    BY <1>2, <2>1, <2>2 DEF FindsTheRest, Exists
  <2>5. LatestOutOfReach(q)'
    <3>1. SUFFICES ASSUME call[q].version > 0, Target(call[q]) \in DOMAIN table'
                   PROVE  n \notin call[q].version..call[q].latest.version
      BY <1>2, <2>1 DEF LatestOutOfReach, Latest, Exists, Target
    <3>2. Target(call[q]) \in DOMAIN table \/ call[q].version > 1
      BY <1>2, <2>1, <2>2, <2>3, <3>1 DEF Target, EntityId
    <3>3. \A k \in call[q].version..call[q].latest.version : EntityId(id, k) \in DOMAIN table
      BY <2>1, <3>1, <3>2, RowsToDelete DEF Exists
    <3>. QED  BY <1>2, <3>3
  <2>. QED  BY <2>4, <2>5
<1>. QED  BY <1>3, <1>4 DEF Kept

LEMMA KeptDelete ==
  ASSUME RestSystem, TypeInv, DeletionInv, NEW id \in Ids, Kept(id),
         NEW p \in Procs, DeleteRow(p), ~LostDelete(p), call[p].id = id
  PROVE  Kept(id)'
<1>1. /\ Deleting(p) /\ Exists(table, Target(call[p])) /\ RemoveTarget(call[p])
      /\ OnlyCall(p) /\ call'[p].id = id /\ call'[p].latest = call[p].latest
      /\ call'[p] # call[p] /\ AfterDelete(p, call[p].version)
  BY DeletingOutcome
<1>2. PICK k \in Nat, last \in Nat : k = call[p].version /\ last = call[p].latest.version
  BY <1>1 DEF Deleting, TypeInv, TypeOK, CallsOK, Suspended, Awaits, Call, Item, Version
<1> DEFINE e == EntityId(id, k)
<1>3. /\ e \in DOMAIN table
      /\ DOMAIN table' = DOMAIN table \ {e}
      /\ \A f \in DOMAIN table : f # e => table'[f] = table[f]
  BY <1>1, <1>2 DEF Exists, RemoveTarget, Remove, Target
<1>4. Deleting(p)' => call'[p].version = k + 1
  BY <1>1, <1>2 DEF AfterDelete
<1>5. \A q \in Procs : q # p => call'[q] = call[q] /\ (Deleting(q)' <=> Deleting(q))
  BY <1>1, OthersSame
<1>6. Latest(id)' # None =>
        /\ k > 0 /\ Latest(id)' = Latest(id)
        /\ Latest(id).version \notin k..last
  <2>1. ASSUME Latest(id)' # None PROVE k > 0 /\ Latest(id)' = Latest(id)
    BY <1>2, <1>3, <2>1 DEF Latest, Row, EntityId
  <2>2. k > 0 /\ Latest(id) # None => Latest(id).version \notin k..last
    BY <1>1, <1>2 DEF Kept, LatestOutOfReach
  <2>. QED  BY <2>1, <2>2
<1>7. k > 0 => \A j \in k..last : EntityId(id, j) \in DOMAIN table
  BY <1>1, <1>2, RowsToDelete DEF Exists
<1>8. ASSUME Latest(id)' # None
      PROVE  Stored(id, Latest(id))'
  <2>1. PICK item \in Item : item = Latest(id)
    BY <1>6, <1>8 DEF Latest, Row, TypeInv, TypeOK
  <2>2. item.version # k
    <3>1. k \in k..last
      BY <1>1, <1>2 DEF Deleting, TypeInv, CallsOK, Suspended, Awaits
    <3>. QED  BY <1>6, <1>8, <2>1, <3>1
  <2>3. EntityId(id, item.version) \in DOMAIN table /\ table[EntityId(id, item.version)] = item
    BY <1>6, <1>8, <2>1 DEF Kept, Stored, Exists
  <2>4. EntityId(id, item.version) # e
    BY <2>2 DEF EntityId
  <2>5. Stored(id, item)'
    BY <1>3, <2>3, <2>4 DEF Stored, Exists
  <2>. QED  BY <1>6, <1>8, <2>1, <2>5 DEF Stored
<1>9. ASSUME NEW q \in Procs, Deleting(q)', call'[q].id = id
      PROVE  FindsTheRest(q)' /\ LatestOutOfReach(q)'
  <2>1. CASE q = p
    <3>1. call'[p].version = k + 1 /\ call'[p].latest.version = last
      BY <1>1, <1>2, <1>4, <1>9, <2>1
    <3>2. ASSUME k + 1 >= 2, NEW j \in (k + 1)..last
          PROVE  EntityId(id, j) \in DOMAIN table'
      <4>1. j \in k..last /\ j # k
        BY <3>2
      <4>2. EntityId(id, j) \in DOMAIN table /\ EntityId(id, j) # e
        BY <1>7, <3>2, <4>1 DEF EntityId
      <4>. QED  BY <1>3, <4>2
    <3>3. FindsTheRest(q)'
      BY <1>1, <2>1, <3>1, <3>2 DEF FindsTheRest, Exists
    <3>4. Latest(id)' # None => Latest(id)'.version \notin (k + 1)..last
      BY <1>6
    <3>5. LatestOutOfReach(q)'
      BY <1>1, <2>1, <3>1, <3>4 DEF LatestOutOfReach, Latest
    <3>. QED  BY <3>3, <3>5
  <2>2. CASE q # p
    <3>1. /\ Deleting(q) /\ call'[q] = call[q] /\ call[q].id = id
          /\ call[q].version \in Nat /\ FindsTheRest(q) /\ LatestOutOfReach(q)
      BY <1>5, <1>9, <2>2 DEF Kept, TypeInv, TypeOK, Call
    <3>2. call[q].version >= 2 => k = 0
      <4>1. SUFFICES ASSUME call[q].version >= 2, k >= 1 PROVE FALSE
        OBVIOUS
      <4>2. PastFirst(q)
        BY <3>1, <4>1 DEF PastFirst
      <4>3. First(id) \notin DOMAIN table
        BY <3>1, <4>2 DEF DeletionInv, OneDeletionPastFirst, Exists
      <4>4. k >= 2
        BY <1>3, <4>1, <4>3 DEF First
      <4>5. PastFirst(p)
        BY <1>1, <1>2, <4>4 DEF PastFirst
      <4>. QED  BY <2>2, <3>1, <4>2, <4>5 DEF DeletionInv, OneDeletionPastFirst
    <3>3. FindsTheRest(q)'
      <4>1. ASSUME call[q].version >= 2, NEW j \in call[q].version..call[q].latest.version
            PROVE  EntityId(id, j) \in DOMAIN table'
        <5>1. EntityId(id, j) \in DOMAIN table
          BY <3>1, <4>1 DEF FindsTheRest, Exists
        <5>2. EntityId(id, j) # e
          BY <3>1, <3>2, <4>1 DEF EntityId
        <5>. QED  BY <1>3, <5>1, <5>2
      <4>. QED  BY <3>1, <4>1 DEF FindsTheRest, Exists
    <3>4. LatestOutOfReach(q)'
      <4>1. SUFFICES ASSUME call[q].version > 0, Target(call[q]) \in DOMAIN table',
                            Latest(id)' # None
                     PROVE  Latest(id)'.version \notin call[q].version..call[q].latest.version
        BY <3>1 DEF LatestOutOfReach, Exists, Target, Latest
      <4>2. Latest(id)' = Latest(id) /\ Target(call[q]) \in DOMAIN table
        BY <1>3, <1>6, <4>1
      <4>. QED  BY <3>1, <4>1, <4>2 DEF LatestOutOfReach, Exists
    <3>. QED  BY <3>3, <3>4
  <2>. QED  BY <2>1, <2>2
<1>. QED  BY <1>8, <1>9 DEF Kept

LEMMA KeptNext ==
  ASSUME RestSystem, TypeInv, DeletionInv, [Next]_vars, NEW id \in Ids, Kept(id),
         \A p \in Procs : LostDelete(p) => call[p].id # id
  PROVE  Kept(id)'
<1>1. ASSUME UNCHANGED table,
             \A q \in Procs : Deleting(q)' /\ call'[q].id = id =>
               call'[q].version = 0 \/ (Deleting(q) /\ call'[q] = call[q])
      PROVE  Kept(id)'
  BY <1>1, KeptSame
<1>2. ASSUME NEW p \in Procs, OnlyCall(p),
             ~Deleting(p)' \/ call'[p].version = 0 \/ call'[p] = call[p]
      PROVE  \A q \in Procs : Deleting(q)' /\ call'[q].id = id =>
               call'[q].version = 0 \/ (Deleting(q) /\ call'[q] = call[q])
  BY <1>2, OthersSame DEF Deleting
<1>3. ASSUME NEW p \in Procs, OnlyCall(p), Quiet(p)', UNCHANGED <<table, replica, used>>
      PROVE  Kept(id)'
  BY <1>1, <1>2, <1>3 DEF Quiet
<1>4. ASSUME NEW p \in Procs, StartCreate(p)
      PROVE  Kept(id)'
  <2>1. OnlyCall(p) /\ call'[p].op = "create" /\ UNCHANGED table
    BY <1>4 DEF StartCreate, Start, OnlyCall, TypeInv, TypeOK
  <2>. QED  BY <1>1, <1>2, <2>1 DEF Deleting
<1>5. ASSUME NEW p \in Procs,
             GetMissing(p) \/ GetFound(p) \/ ReadForUpdate(p) \/ ReadForDeletion(p)
      PROVE  Kept(id)'
  <2>1. /\ OnlyCall(p) /\ UNCHANGED table
        /\ Quiet(p)' \/ Updating(p)' \/ call'[p].version = 0
    BY <1>5, ReadingOutcome
  <2>2. ~Deleting(p)' \/ call'[p].version = 0
    BY <2>1 DEF Quiet, Updating, Deleting
  <2>. QED  BY <1>1, <1>2, <2>1, <2>2
<1>6. ASSUME NEW p \in Procs, NEW result \in {"ok", "Error"}, Storing(p, result)
      PROVE  Kept(id)'
  <2>1. CASE call[p].id = id
    BY <1>6, <2>1, KeptSave
  <2>2. CASE call[p].id # id
    <3>1. PICK other \in Ids, item \in Item : other = call[p].id /\ item = Saved(call[p])
      BY <1>6, SavedValues DEF Storing, Creating, Updating
    <3>2. /\ DOMAIN table' = DOMAIN table \cup {EntityId(other, 0), EntityId(other, item.version)}
          /\ \A e \in DOMAIN table : e # EntityId(other, 0) => table'[e] = table[e]
      BY <1>6, <3>1, SavedRows DEF Storing, Creating, Updating
    <3>3. \A k : LET e == EntityId(id, k)
                 IN  /\ Exists(table', e) <=> Exists(table, e)
                     /\ Exists(table, e) => table'[e] = table[e]
      BY <2>2, <3>1, <3>2 DEF Exists, EntityId
    <3>4. Quiet(p)' /\ OnlyCall(p)
      BY <1>6, <3>1, AfterSave DEF Storing
    <3>. QED  BY <1>2, <3>3, <3>4, KeptSame DEF Quiet
  <2>. QED  BY <2>1, <2>2
<1>7. ASSUME NEW p \in Procs, DeleteRow(p) \/ LostDelete(p)
      PROVE  Kept(id)'
  <2>1. CASE call[p].id = id
    BY <1>7, <2>1, KeptDelete
  <2>2. CASE call[p].id # id
    <3>1. /\ RemoveTarget(call[p]) /\ OnlyCall(p) /\ call'[p].id # id
      BY <1>7, <2>2, DeletingOutcome
    <3>2. \A k : LET e == EntityId(id, k)
                 IN  /\ Exists(table', e) <=> Exists(table, e)
                     /\ Exists(table, e) => table'[e] = table[e]
      BY <2>2, <3>1 DEF RemoveTarget, Remove, Target, Exists, EntityId
    <3>3. \A q \in Procs : Deleting(q)' /\ call'[q].id = id =>
            call'[q].version = 0 \/ (Deleting(q) /\ call'[q] = call[q])
      BY <3>1, OthersSame
    <3>. QED  BY <3>2, <3>3, KeptSame
  <2>. QED  BY <2>1, <2>2
<1>8. ASSUME NEW other \in Ids, Replicate(other)
      PROVE  Kept(id)'
  BY <1>1, <1>8 DEF Replicate, Deleting
<1>9. CASE UNCHANGED vars
  BY <1>1, <1>9 DEF vars, Deleting
<1>. QED  BY <1>3, <1>4, <1>5, <1>6, <1>7, <1>8, <1>9, RestNext

LEMMA KeptInvariant ==
  ASSUME RestSystem
  PROVE  DeletionSpec => []KeptInv
<1>1. DeletionInit => TypeInv /\ DeletionInv /\ KeptInv
  <2>1. Init => KeptInv
    <3>1. Init => DOMAIN table = {} /\ \A p \in Procs : call[p].pc = "idle"
      BY DEF Init, Idle
    <3>. QED  BY <3>1 DEF KeptInv, Kept, Latest, Row, Deleting
  <2>. QED  BY <2>1, TypeInit, DeletionInvInit DEF DeletionInit
<1>2. TypeInv /\ DeletionInv /\ KeptInv /\ [DeletionNext]_deletionVars
        => TypeInv' /\ DeletionInv' /\ KeptInv'
  <2>1. SUFFICES ASSUME TypeInv, DeletionInv, KeptInv, [DeletionNext]_deletionVars
                 PROVE  TypeInv' /\ DeletionInv' /\ KeptInv'
    OBVIOUS
  <2>2. [Next]_vars
    BY <2>1 DEF DeletionNext, deletionVars
  <2>3. TypeInv' /\ DeletionInv'
    BY <2>1, <2>2, TypeNext, DeletionInvNext
  <2>4. ASSUME NEW id \in Ids, id \notin repeated'
        PROVE  Kept(id)'
    <3>1. CASE DeletionNext
      <4>1. id \notin repeated /\ \A p \in Procs : LostDelete(p) => call[p].id # id
        BY <2>4, <3>1 DEF DeletionNext
      <4>. QED  BY <2>1, <2>2, <2>4, <4>1, KeptNext DEF KeptInv
    <3>2. CASE UNCHANGED deletionVars
      <4>1. UNCHANGED <<table, call, repeated>>
        BY <3>2 DEF deletionVars, vars
      <4>2. Kept(id)
        BY <2>1, <2>4, <4>1 DEF KeptInv
      <4>. QED  BY <2>1, <4>1, <4>2, KeptSame DEF Deleting
    <3>. QED  BY <2>1, <3>1, <3>2
  <2>. QED  BY <2>3, <2>4 DEF KeptInv
<1>. QED  BY <1>1, <1>2, PTL DEF DeletionSpec

(* The latest copy of a demo has its version row, whatever deletions and   *)
(* updates of it race, as long as no delete of one of its rows lost its    *)
(* answer: only a repeated delete can remove the row of a version that is  *)
(* readable.                                                               *)
THEOREM ReadableIsKept ==
  ASSUME RestSystem
  PROVE  DeletionSpec => []KeptUnlessRepeated
<1>1. KeptInv => KeptUnlessRepeated
  BY DEF KeptInv, Kept, KeptUnlessRepeated
<1>. QED  BY <1>1, KeptInvariant, PTL

=============================================================================
