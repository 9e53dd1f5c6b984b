-------------------------- MODULE ScenariosProofs --------------------------
(***************************************************************************)
(* For any number of test runs, demos and functions: as long as no read is *)
(* stale, what Demo.feature says comes true for every run and every run    *)
(* leaves the table as it found it, though the runs share it.  The         *)
(* argument is that a demo belongs to one run from the moment its id is    *)
(* generated until its last row is deleted, and that a run's calls take    *)
(* turns, so that each finds the demo as the one before left it.           *)
(***************************************************************************)
EXTENDS Scenarios, DemoHandlerProofs

(* What is true of the model whatever is read: the demo 'doesnt-exists'    *)
(* never exists.                                                           *)
ModelInv == TypeInv /\ DeletionInv /\ Absent \notin used

-----------------------------------------------------------------------------
(* The order that the calls of the runs keep in the table.                 *)
Writing(p) == Creating(p) \/ Updating(p) \/ Deleting(p)

OneWriterPerDemo ==
  \A p, q \in Procs : Writing(p) /\ Writing(q) /\ call[p].id = call[q].id => p = q

Versions(id, from, to) == {EntityId(id, k) : k \in from..to}

(* A demo is there with all of its versions, it is gone, or a deletion is  *)
(* on its way through the versions that are left; and an update under way  *)
(* holds the latest copy.                                                  *)
NotDeleted(id) == \A p \in Procs : Deleting(p) => call[p].id # id

Gone(id) == NotDeleted(id) /\ RowsOf(id) = {}

Whole(id) ==
  /\ NotDeleted(id)
  /\ Latest(id) # None /\ RowsOf(id) = Versions(id, 0, Latest(id).version)

Leaving(id) ==
  \E p \in Procs :
    /\ Deleting(p) /\ call[p].id = id
    /\ RowsOf(id) = Versions(id, call[p].version, call[p].latest.version)

InOrder(id) ==
  /\ Gone(id) \/ Whole(id) \/ Leaving(id)
  /\ \A p \in Procs : Updating(p) /\ call[p].id = id => call[p].latest = Latest(id)

OrderInv == \A id \in Ids : InOrder(id)

LEMMA OrderInit == Init => OrderInv
<1> SUFFICES ASSUME Init PROVE OrderInv
  OBVIOUS
<1>1. DOMAIN table = {} /\ \A p \in Procs : call[p].op = "none"
  BY DEF Init, Idle
<1>. QED  BY <1>1 DEF OrderInv, InOrder, Gone, NotDeleted, RowsOf, Deleting, Updating

(* The rows of a demo stay as they are, or its latest copy and the set of  *)
(* them.                                                                   *)
SameDemo(id) == RowsOf(id)' = RowsOf(id) /\ Latest(id)' = Latest(id)

(* The rows of the other demos.                                            *)
LEMMA OtherDemos ==
  ASSUME NEW id,
         \A e : e[2] # id => (e \in DOMAIN table' <=> e \in DOMAIN table)
                             /\ Row(table', e) = Row(table, e)
  PROVE  \A other : other # id => SameDemo(other)
<1>1. \A other : EntityId(other, 0)[2] = other
  BY DEF EntityId
<1>2. ASSUME NEW other, other # id
      PROVE  SameDemo(other)
  <2>1. Latest(other)' = Latest(other)
    BY <1>1, <1>2 DEF Latest
  <2>2. RowsOf(other)' = RowsOf(other)
    BY <1>2 DEF RowsOf
  <2>. QED  BY <2>1, <2>2 DEF SameDemo
<1>. QED  BY <1>2

(* A demo whose rows stay, and which the moving call neither deletes nor   *)
(* is now about to update, stays in order.                                 *)
LEMMA OrderStays ==
  ASSUME NEW p \in Procs, OnlyCall(p), NEW id, InOrder(id), SameDemo(id),
         Deleting(p) => call[p].id # id,
         (Updating(p) \/ Deleting(p))' => call'[p].id # id
  PROVE  InOrder(id)'
<1>1. \A q \in Procs : q # p => /\ call'[q] = call[q]
                                /\ Deleting(q)' <=> Deleting(q)
                                /\ Updating(q)' <=> Updating(q)
  BY OthersSame
<1>2. RowsOf(id)' = RowsOf(id) /\ Latest(id)' = Latest(id)
  BY DEF SameDemo
<1>3. \A q \in Procs : Deleting(q)' /\ call'[q].id = id => Deleting(q) /\ call[q].id = id
  BY <1>1
<1>4. Gone(id) => Gone(id)'
  BY <1>2, <1>3 DEF Gone, NotDeleted
<1>5. Whole(id) => Whole(id)'
  BY <1>2, <1>3 DEF Whole, NotDeleted, Versions
<1>6. Leaving(id) => Leaving(id)'
  BY <1>1, <1>2 DEF Leaving, Versions
<1>7. \A q \in Procs : Updating(q)' /\ call'[q].id = id => call'[q].latest = Latest(id)'
  BY <1>1, <1>2 DEF InOrder
<1>. QED  BY <1>4, <1>5, <1>6, <1>7 DEF InOrder

(* A step that writes nothing, of a call that does not hold a copy.        *)
LEMMA OrderQuiet ==
  ASSUME OrderInv, NEW p \in Procs, OnlyCall(p), table' = table,
         ~Deleting(p), ~(Updating(p) \/ Deleting(p))'
  PROVE  OrderInv'
<1>1. \A id : SameDemo(id)
  BY DEF SameDemo, RowsOf, Latest
<1>. QED  BY <1>1, OrderStays DEF OrderInv

(* A call that has read the latest copy.                                   *)
LEMMA OrderRead ==
  ASSUME OrderInv, NEW p \in Procs, OnlyCall(p), table' = table,
         ~Deleting(p), NEW id \in Ids, call'[p].id = id, call'[p].latest = Latest(id),
         Latest(id) # None, Updating(p)' \/ (Deleting(p)' /\ call'[p].version = 0)
  PROVE  OrderInv'
<1>1. \A i : RowsOf(i)' = RowsOf(i) /\ Latest(i)' = Latest(i)
  BY DEF RowsOf, Latest
<1>2. \A i \in Ids : i # id => InOrder(i)'
  BY <1>1, OrderStays DEF OrderInv, SameDemo
<1>. SUFFICES InOrder(id)'
  BY <1>2 DEF OrderInv
<1>3. \A q \in Procs : q # p => /\ call'[q] = call[q]
                                /\ Deleting(q)' <=> Deleting(q)
                                /\ Updating(q)' <=> Updating(q)
  BY OthersSame
<1>4. InOrder(id)
  BY DEF OrderInv
<1>5. \A q \in Procs : Updating(q)' /\ call'[q].id = id => call'[q].latest = Latest(id)'
  BY <1>1, <1>3, <1>4 DEF InOrder
<1>6. CASE Gone(id)
  <2>1. EntityId(id, 0) \in RowsOf(id)
    BY DEF Latest, Row, RowsOf, EntityId
  <2>. QED  BY <1>6, <2>1 DEF Gone
<1>7. CASE Whole(id)
  <2>1. CASE Updating(p)'
    <3>1. ~Deleting(p)'
      BY <2>1 DEF Updating, Deleting
    <3>2. Whole(id)'
      BY <1>1, <1>3, <1>7, <3>1 DEF Whole, NotDeleted, Versions
    <3>. QED  BY <1>5, <3>2 DEF InOrder
  <2>2. CASE Deleting(p)' /\ call'[p].version = 0
    <3>1. RowsOf(id)' = Versions(id, call'[p].version, call'[p].latest.version)
      BY <1>1, <1>7, <2>2 DEF Whole
    <3>2. Leaving(id)'
      BY <2>2, <3>1 DEF Leaving, Versions
    <3>. QED  BY <1>5, <3>2 DEF InOrder
  <2>. QED  BY <2>1, <2>2
<1>8. CASE Leaving(id)
  <2>1. PICK q \in Procs :
          /\ Deleting(q) /\ call[q].id = id
          /\ RowsOf(id) = Versions(id, call[q].version, call[q].latest.version)
    BY <1>8 DEF Leaving
  <2>2. Deleting(q)' /\ call'[q] = call[q]
    BY <1>3, <2>1
  <2>3. Leaving(id)'
    BY <1>1, <2>1, <2>2 DEF Leaving, Versions
  <2>. QED  BY <1>5, <2>3 DEF InOrder
<1>. QED  BY <1>4, <1>6, <1>7, <1>8 DEF InOrder

(* A step that writes the rows of the demo that its call is about to       *)
(* write, which no other call is about to write.                           *)
LEMMA OrderWritten ==
  ASSUME OrderInv, OneWriterPerDemo, NEW p \in Procs, OnlyCall(p), Writing(p),
         NEW id \in Ids, call[p].id = id, call'[p].id = id, ~Updating(p)',
         \A e : e[2] # id => (e \in DOMAIN table' <=> e \in DOMAIN table)
                             /\ Row(table', e) = Row(table, e),
         \/ RowsOf(id)' = {} /\ ~Deleting(p)'
         \/ /\ Latest(id)' # None /\ ~Deleting(p)'
            /\ RowsOf(id)' = Versions(id, 0, Latest(id)'.version)
         \/ Deleting(p)' /\ RowsOf(id)' = Versions(id, call'[p].version, call'[p].latest.version)
  PROVE  OrderInv'
<1>1. \A i : i # id => SameDemo(i)
  BY OtherDemos
<1>2. \A i \in Ids : i # id => InOrder(i)'
  BY <1>1, OrderStays DEF OrderInv
<1>. SUFFICES InOrder(id)'
  BY <1>2 DEF OrderInv
<1>3. \A q \in Procs : q # p => /\ call'[q] = call[q]
                                /\ Deleting(q)' <=> Deleting(q)
                                /\ Updating(q)' <=> Updating(q)
  BY OthersSame
<1>4. \A q \in Procs : q # p /\ (Deleting(q) \/ Updating(q)) => call[q].id # id
  BY DEF OneWriterPerDemo, Writing
<1>5. \A q \in Procs : ~(Updating(q)' /\ call'[q].id = id)
  BY <1>3, <1>4
<1>6. ~Deleting(p)' => NotDeleted(id)'
  BY <1>3, <1>4 DEF NotDeleted
<1>7. CASE RowsOf(id)' = {} /\ ~Deleting(p)'
  BY <1>5, <1>6, <1>7 DEF InOrder, Gone
<1>8. CASE /\ Latest(id)' # None /\ ~Deleting(p)'
           /\ RowsOf(id)' = Versions(id, 0, Latest(id)'.version)
  <2>1. Whole(id)'
    BY <1>6, <1>8 DEF Whole, Versions
  <2>. QED  BY <1>5, <2>1 DEF InOrder
<1>9. CASE Deleting(p)' /\ RowsOf(id)' = Versions(id, call'[p].version, call'[p].latest.version)
  <2>1. Leaving(id)'
    BY <1>9 DEF Leaving, Versions
  <2>. QED  BY <1>5, <2>1 DEF InOrder
<1>. QED  BY <1>7, <1>8, <1>9

-----------------------------------------------------------------------------
(* The steps of a call keep the order, if its read is not stale.           *)
LEMMA RunsAreRest == ~Collisions => RestSystem
BY RestOpsOnly DEF RestOps, RestSystem

LEMMA StepsOfRest ==
  ASSUME ~Collisions, ModelInv, NEW p \in Procs, Step(p)
  PROVE  /\ OnlyCall(p)
         /\ \/ GetMissing(p) \/ GetFound(p) \/ ReadForUpdate(p) \/ ReadForDeletion(p)
            \/ Save(p) \/ SaveRefused(p) \/ DeleteRow(p) \/ DeleteMissing(p)
<1>1. RestSystem /\ TypeInv /\ DeletionInv
  BY RunsAreRest DEF ModelInv
<1>2. ~ReadForRevision(p) /\ ~Revise(p) /\ ~ReviseRefused(p) /\ ~RetryCreate(p)
  <2>1. call[p].pc = "get" => call[p].op # "updateRevision"
    BY <1>1, RestSteps DEF RestSystem, Awaits
  <2>. QED  BY <1>1, <2>1, RestSteps, CreatesAreAccepted DEF ReadForRevision, Revise, ReviseRefused
<1>3. OnlyCall(p)
  BY <1>1 DEF Step, GetMissing, GetFound, ReadForUpdate, ReadForRevision, ReadForDeletion,
     Save, RetryCreate, SaveRefused, Revise, ReviseRefused, DeleteRow, DeleteMissing,
     Return, OnlyCall, TypeInv, TypeOK
<1>. QED  BY <1>2, <1>3 DEF Step

(* What a get that is not stale has answered.                              *)
LEMMA FreshRead ==
  ASSUME ~Collisions, ModelInv, NEW p \in Procs, ~Misreads(p),
         GetMissing(p) \/ GetFound(p) \/ ReadForUpdate(p) \/ ReadForDeletion(p)
  PROVE  /\ call[p].pc = "get" /\ call[p].id \in Ids
         /\ call'[p].id = call[p].id /\ UNCHANGED <<table, replica, used>>
         /\ \/ /\ call'[p].pc = "returned" /\ call'[p].result = "NotFound"
               /\ GetMissing(p) /\ Latest(call[p].id) = None
            \/ /\ call'[p].pc = "returned" /\ call'[p].result = "BadRequest"
               /\ ReadForUpdate(p) /\ ~Valid(call[p].body)
            \/ /\ call'[p].latest = Latest(call[p].id) /\ Latest(call[p].id) # None
               /\ \/ GetFound(p) /\ call'[p].pc = "returned" /\ call'[p].result = "ok"
                  \/ ReadForUpdate(p) /\ Updating(p)'
                  \/ ReadForDeletion(p) /\ Deleting(p)' /\ call'[p].version = 0
                     /\ call'[p].result = call[p].result
<1>1. call \in [Procs -> Call] /\ call[p].pc = "get"
  BY DEF ModelInv, TypeInv, TypeOK, GetMissing, GetFound, ReadForUpdate, ReadForDeletion
<1>2. call[p].id \in Ids /\ UNCHANGED <<table, replica, used>>
  BY <1>1, RunsAreRest, RestSteps
     DEF ModelInv, Awaits, GetMissing, GetFound, ReadForUpdate, ReadForDeletion
<1>3. ASSUME NEW result, Return(p, result)
      PROVE  call'[p].pc = "returned" /\ call'[p].result = result /\ call'[p].id = call[p].id
  BY <1>1, <1>3 DEF Return, Call
<1>4. ASSUME NEW item, item # None, call'[p].latest = item, call'[p].pc # "get"
      PROVE  item = Latest(call[p].id)
  BY <1>1, <1>4 DEF Misreads
<1>5. CASE GetMissing(p)
  <2>1. Latest(call[p].id) = None
    BY <1>1, <1>3, <1>5 DEF GetMissing, Misreads
  <2>. QED  BY <1>1, <1>2, <1>3, <1>5, <2>1 DEF GetMissing
<1>6. CASE GetFound(p)
  <2>1. PICK item \in Visible(call[p].id) \ {None} :
          call' = [call EXCEPT ![p].pc = "returned", ![p].result = "ok", ![p].latest = item]
    BY <1>6 DEF GetFound
  <2>2. /\ call'[p].pc = "returned" /\ call'[p].result = "ok"
        /\ call'[p].latest = item /\ call'[p].id = call[p].id
    BY <1>1, <2>1 DEF Call
  <2>. QED  BY <1>1, <1>2, <1>4, <1>6, <2>1, <2>2
<1>7. CASE ReadForUpdate(p)
  <2>1. CASE Valid(call[p].body)
    <3>1. PICK item \in Visible(call[p].id) \ {None} :
            call' = [call EXCEPT ![p].pc = "save", ![p].latest = item]
      BY <1>7, <2>1 DEF ReadForUpdate
    <3>2. /\ call'[p].pc = "save" /\ call'[p].latest = item /\ call'[p].id = call[p].id
          /\ call'[p].op = "update"
      BY <1>1, <1>7, <3>1 DEF Call, ReadForUpdate
    <3>. QED  BY <1>1, <1>2, <1>4, <1>7, <3>1, <3>2 DEF Updating
  <2>2. CASE ~Valid(call[p].body)
    <3>1. Return(p, "BadRequest")
      BY <1>7, <2>2 DEF ReadForUpdate
    <3>. QED  BY <1>1, <1>2, <1>3, <1>7, <2>2, <3>1
  <2>. QED  BY <2>1, <2>2
<1>8. CASE ReadForDeletion(p)
  <2>1. PICK item \in Visible(call[p].id) \ {None} :
          call' = [call EXCEPT ![p].pc = "delete", ![p].latest = item, ![p].version = 0]
    BY <1>8 DEF ReadForDeletion
  <2>2. call'[p] = [call[p] EXCEPT !.pc = "delete", !.latest = item, !.version = 0]
    BY <1>1, <2>1
  <2>3. /\ call'[p].pc = "delete" /\ call'[p].latest = item /\ call'[p].id = call[p].id
        /\ call'[p].op = "deleteCompletely" /\ call'[p].version = 0
        /\ call'[p].result = call[p].result
    BY <1>1, <1>8, <2>2 DEF Call, ReadForDeletion
  <2>. QED  BY <1>1, <1>2, <1>4, <1>8, <2>1, <2>3 DEF Deleting
<1>. QED  BY <1>5, <1>6, <1>7, <1>8

(* A transaction of save: nothing of the demo is there, or the version     *)
(* that follows the latest one is stored.                                  *)
LEMMA OrderSave ==
  ASSUME ~Collisions, ModelInv, OneWriterPerDemo, OrderInv, NEW p \in Procs, Save(p)
  PROVE  OrderInv'
<1>1. /\ TypeInv /\ DeletionInv /\ RestSystem /\ OnlyCall(p)
      /\ call[p].pc = "save" /\ CanSave(call[p]) /\ WriteSaved(call[p])
      /\ Creating(p) \/ Updating(p)
  BY RunsAreRest, RestSteps, StepsOfRest DEF ModelInv, Save, Step
<1>2. PICK id \in Ids, item \in Item : id = call[p].id /\ item = Saved(call[p])
  BY <1>1, SavedValues
<1> DEFINE new == EntityId(id, item.version)
<1>3. /\ DOMAIN table' = DOMAIN table \cup {EntityId(id, 0), new}
      /\ \A e \in DOMAIN table : e # EntityId(id, 0) => table'[e] = table[e]
      /\ Latest(id)' = item /\ item # None
  BY <1>1, <1>2, SavedRows, NoneIsNoValue
<1>4. EntityId(id, 0)[2] = id /\ new[2] = id
  BY DEF EntityId
<1>5. \A e : e[2] # id => (e \in DOMAIN table' <=> e \in DOMAIN table)
                          /\ Row(table', e) = Row(table, e)
  BY <1>3, <1>4 DEF Row
<1>6. RowsOf(id)' = RowsOf(id) \cup {EntityId(id, 0), new}
  BY <1>3, <1>4 DEF RowsOf
<1>7. call[p] \in Call /\ Suspended(call[p]) /\ item.version \in Nat
  BY <1>1 DEF TypeInv, TypeOK, CallsOK, Awaits, Item, Version
<1>8. RowsOf(id)' = Versions(id, 0, item.version)
  <2>1. CASE Creating(p)
    <3>1. Unborn(id)
      BY <1>1, <1>2, <2>1 DEF DeletionInv, CreatesOwnTheirIds
    <3>2. item.version = 1
      BY <1>2, <1>7, <2>1, SavedType DEF Creating
    <3>. QED  BY <1>6, <3>1, <3>2 DEF Unborn, Versions
  <2>2. CASE Updating(p)
    <3>1. call[p].latest \in Item /\ item.version = call[p].latest.version + 1
      BY <1>1, <1>2, <1>7, <2>2, SavedType DEF Suspended, Updating
    <3>2. InOrder(id) /\ call[p].latest = Latest(id) /\ Latest(id) # None
      BY <1>2, <2>2, <3>1, NoneIsNoValue DEF OrderInv, InOrder
    <3>3. EntityId(id, 0) \in RowsOf(id)
      BY <1>4, <3>2 DEF Latest, Row, RowsOf
    <3>4. NotDeleted(id)
      <4>1. ~Deleting(p)
        BY <2>2 DEF Updating, Deleting
      <4>. QED  BY <1>2, <2>2, <4>1 DEF NotDeleted, OneWriterPerDemo, Writing
    <3>5. RowsOf(id) = Versions(id, 0, Latest(id).version)
      BY <3>2, <3>3, <3>4 DEF InOrder, Gone, Whole, Leaving, NotDeleted
    <3>6. Latest(id).version \in Nat /\ item.version = Latest(id).version + 1
      BY <3>1, <3>2 DEF Item, Version
    <3>7. 0..item.version = (0..Latest(id).version) \cup {item.version}
      BY <3>6
    <3>. QED  BY <1>6, <3>3, <3>5, <3>7 DEF Versions
  <2>. QED  BY <1>1, <2>1, <2>2
<1>9. call'[p].id = id /\ ~Updating(p)' /\ ~Deleting(p)'
  BY <1>2, <1>7 DEF Save, Return, Updating, Deleting, ModelInv, TypeInv, TypeOK, Call
<1>. QED  BY <1>1, <1>2, <1>3, <1>5, <1>8, <1>9, OrderWritten DEF Writing

(* The rows that a deletion has still to remove.                           *)
LEMMA RowsLeft ==
  ASSUME OneWriterPerDemo, OrderInv, NEW p \in Procs, Deleting(p), NEW id \in Ids, id = call[p].id
  PROVE  RowsOf(id) = Versions(id, call[p].version, call[p].latest.version)
<1>1. InOrder(id) /\ ~NotDeleted(id)
  BY DEF OrderInv, NotDeleted
<1>2. Leaving(id)
  BY <1>1 DEF InOrder, Gone, Whole
<1>. QED  BY <1>2 DEF Leaving, OneWriterPerDemo, Writing

(* A deletion finds each of them, and leaves nothing.                      *)
LEMMA OrderDelete ==
  ASSUME ~Collisions, ModelInv, OneWriterPerDemo, OrderInv, NEW p \in Procs,
         DeleteRow(p) \/ DeleteMissing(p)
  PROVE  /\ OrderInv'
         /\ UNCHANGED <<replica, used>> /\ call'[p].id = call[p].id
         /\ \/ Deleting(p)' /\ call'[p].result = call[p].result
            \/ Ended(p, "deleteCompletely", "ok")' /\ RowsOf(call[p].id)' = {}
<1>1. /\ call \in [Procs -> Call] /\ call[p] \in Call /\ Suspended(call[p])
      /\ Deleting(p) /\ call[p].id \in Ids /\ OnlyCall(p)
  BY RunsAreRest, RestSteps, StepsOfRest
     DEF ModelInv, TypeInv, TypeOK, CallsOK, Awaits, DeleteRow, DeleteMissing, Step
<1>2. PICK id \in Ids : id = call[p].id
  BY <1>1
<1>3. PICK version \in Nat, last \in Nat :
        version = call[p].version /\ last = call[p].latest.version /\ version <= last
  BY <1>1 DEF Suspended, Deleting, Call, Item, Version
<1>4. RowsOf(id) = Versions(id, version, last)
  BY <1>1, <1>2, <1>3, RowsLeft
<1>5. EntityId(id, version) \in DOMAIN table /\ Target(call[p]) = EntityId(id, version)
  BY <1>2, <1>3, <1>4 DEF Versions, RowsOf, Target
<1>6. DeleteRow(p)
  BY <1>5 DEF DeleteMissing, Exists
<1>7. /\ DOMAIN table' = DOMAIN table \ {EntityId(id, version)}
      /\ \A e \in DOMAIN table' : table'[e] = table[e]
  BY <1>5, <1>6 DEF DeleteRow, RemoveTarget, Remove
<1>8. \A k, n : EntityId(id, k)[2] = id /\ (EntityId(id, k) = EntityId(id, n) => k = n)
  BY DEF EntityId
<1>9. \A e : e[2] # id => (e \in DOMAIN table' <=> e \in DOMAIN table)
                          /\ Row(table', e) = Row(table, e)
  BY <1>7, <1>8 DEF Row
<1>10. RowsOf(id)' = Versions(id, version + 1, last)
  <2>1. RowsOf(id)' = RowsOf(id) \ {EntityId(id, version)}
    BY <1>7, <1>8 DEF RowsOf
  <2>2. \A k \in version..last : k = version \/ k \in version + 1..last
    OBVIOUS
  <2>3. \A k \in version + 1..last : k \in version..last /\ k # version
    OBVIOUS
  <2>. QED  BY <1>4, <1>8, <2>1, <2>2, <2>3 DEF Versions
<1>11. CASE version = last
  <2>1. Ended(p, "deleteCompletely", "ok")' /\ call'[p].id = id
    BY <1>1, <1>2, <1>3, <1>6, <1>11 DEF DeleteRow, LastDelete, Return, Ended, Deleting, Call
  <2>2. RowsOf(id)' = {}
    BY <1>10, <1>11 DEF Versions
  <2>3. ~Updating(p)' /\ ~Deleting(p)'
    BY <2>1 DEF Ended, Updating, Deleting
  <2>. QED  BY <1>1, <1>2, <1>6, <1>9, <2>1, <2>2, <2>3, OrderWritten DEF Writing, DeleteRow
<1>12. CASE version # last
  <2>1. call' = [call EXCEPT ![p].version = @ + 1]
    BY <1>1, <1>3, <1>6, <1>12 DEF DeleteRow, LastDelete, Deleting
  <2>2. /\ Deleting(p)' /\ ~Updating(p)' /\ call'[p].id = id
        /\ call'[p].version = version + 1 /\ call'[p].latest.version = last
        /\ call'[p].result = call[p].result
    BY <1>1, <1>2, <1>3, <2>1 DEF Deleting, Updating, Call
  <2>. QED  BY <1>1, <1>2, <1>6, <1>9, <1>10, <2>2, OrderWritten DEF Writing, DeleteRow
<1>. QED  BY <1>11, <1>12

LEMMA OrderStep ==
  ASSUME ~Collisions, ModelInv, OneWriterPerDemo, OrderInv, NEW p \in Procs, Step(p),
         ~Misreads(p)
  PROVE  OrderInv'
<1>1. TypeInv /\ OnlyCall(p)
  BY StepsOfRest DEF ModelInv
<1>2. CASE GetMissing(p) \/ GetFound(p) \/ ReadForUpdate(p) \/ ReadForDeletion(p)
  <2>1. /\ call[p].pc = "get" /\ call[p].id \in Ids /\ call'[p].id = call[p].id
        /\ table' = table
        /\ \/ call'[p].pc = "returned"
           \/ /\ call'[p].latest = Latest(call[p].id) /\ Latest(call[p].id) # None
              /\ Updating(p)' \/ (Deleting(p)' /\ call'[p].version = 0)
    BY <1>2, FreshRead
  <2>2. ~Deleting(p)
    BY <2>1 DEF Deleting
  <2>3. CASE call'[p].pc = "returned"
    BY <1>1, <2>1, <2>2, <2>3, OrderQuiet DEF Updating, Deleting
  <2>4. CASE call'[p].pc # "returned"
    BY <1>1, <2>1, <2>2, <2>4, OrderRead
  <2>. QED  BY <2>3, <2>4
<1>3. CASE SaveRefused(p)
  <2>1. /\ call[p].pc = "save" /\ call'[p].pc = "returned" /\ table' = table
    BY <1>1, <1>3 DEF SaveRefused, Return, TypeInv, TypeOK, Call
  <2>. QED  BY <1>1, <2>1, OrderQuiet DEF Updating, Deleting
<1>. QED  BY <1>2, <1>3, StepsOfRest, OrderSave, OrderDelete


-----------------------------------------------------------------------------
(* Whatever is read, every step of the scenarios is one of the model, or   *)
(* none.                                                                   *)

(* The deletion of what is not there changes nothing.                      *)
LEMMA NothingOfAbsent ==
  ASSUME ModelInv
  PROVE  /\ RowsOf(Absent) = {} /\ Latest(Absent) = None
         /\ Remove(table, EntityId(Absent, 0)) = table
<1>1. RowsOf(Absent) = {}
  BY ScenariosAssumption DEF ModelInv, DeletionInv, CreatesOwnTheirIds, Unborn
<1>2. EntityId(Absent, 0) \notin DOMAIN table
  BY <1>1 DEF EntityId, RowsOf
<1>3. Remove(table, EntityId(Absent, 0)) = table
  BY <1>2 DEF Remove, ModelInv, TypeInv, TypeOK
<1>. QED  BY <1>1, <1>2, <1>3 DEF Latest, Row

LEMMA CreateStarts ==
  ASSUME ~Collisions, TypeInv, NEW p \in Procs, StartCreate(p)
  PROVE  /\ OnlyCall(p) /\ table' = table
         /\ call'[p].op = "create" /\ call'[p].pc = "save" /\ call'[p].result = "none"
         /\ call'[p].id \in Ids \ used /\ used' = used \cup {call'[p].id}
<1>1. PICK body \in Bodies, id \in Ids :
        /\ id \notin used /\ used' = used \cup {id} /\ table' = table
        /\ Start(p, "create", "save", id, body, 0, Retries)
  BY DEF StartCreate, Fresh
<1>2. /\ OnlyCall(p)
      /\ call'[p] = [op |-> "create", pc |-> "save", id |-> id, body |-> body,
                     version |-> 0, latest |-> None, retry |-> Retries, result |-> "none"]
  BY <1>1 DEF Start, OnlyCall, TypeInv, TypeOK
<1>. QED  BY <1>1, <1>2

LEMMA StepsUseNoId ==
  ASSUME ~Collisions, ModelInv, NEW p \in Procs, Step(p)
  PROVE  used' = used
BY StepsOfRest DEF GetMissing, GetFound, ReadForUpdate, ReadForDeletion, Save, SaveRefused,
   DeleteRow, DeleteMissing

LEMMA AskedBegins ==
  ASSUME ~Collisions, ModelInv, NEW r \in Runners, NEW l \in Lambdas, Asked(r, l)
  PROVE  [Next]_vars /\ Absent \notin used'
<1>1. l \in Procs /\ TypeInv /\ Absent \notin used
  BY DEF Lambdas, ModelInv
<1>2. [Next]_vars
  BY <1>1, ReceiveBegins DEF Asked, NewRequest, Next
<1>3. CASE used' = used
  BY <1>1, <1>2, <1>3
<1>4. CASE StartCreate(l) /\ call'[l].id # Absent
  BY <1>1, <1>2, <1>4, CreateStarts
<1>. QED  BY <1>3, <1>4 DEF Asked, ReceiveGet, ReceivePost, ReceivePut, ReceiveDelete,
     StartGet, RefuseCreate

LEMMA ScenariosStep ==
  ASSUME ~Collisions, ModelInv, [ScenariosNext]_scenarioVars
  PROVE  [Next]_vars /\ Absent \notin used'
<1>1. /\ Lambdas \subseteq Procs /\ \A r \in Runners : Own[r] \subseteq Procs
      /\ Absent \notin used /\ TypeInv
  BY ScenariosAssumption DEF Lambdas, ModelInv
<1>2. CASE UNCHANGED vars
  BY <1>1, <1>2 DEF vars
<1>3. CASE Work
  <2>1. CASE \E p \in Procs : Step(p)
    BY <1>1, <2>1, StepsUseNoId DEF Next
  <2>2. CASE \E l \in Procs : PutUpdate(l) \/ DeleteAll(l)
    BY <1>1, <2>2 DEF PutUpdate, DeleteAll, StartUpdate, StartDeleteCompletely, Next, Begin
  <2>. QED  BY <1>1, <1>3, <2>1, <2>2 DEF Work, Proceed
<1>4. CASE CatchUp
  BY <1>1, <1>4 DEF CatchUp, Replicate, Next
<1>5. ASSUME NEW r \in Runners, Play(r)
      PROVE  [Next]_vars /\ Absent \notin used'
  <2>1. CASE GivenDemo(r)
    <3>1. CASE \E p \in Own[r] : StartCreate(p) /\ call'[p].id # Absent
      BY <1>1, <3>1, CreateStarts DEF Next, Begin
    <3>. QED  BY <1>2, <2>1, <3>1 DEF GivenDemo, handlerVars
  <2>2. CASE CleanUp(r)
    BY <1>1, <2>2 DEF CleanUp, StartDeleteCompletely, Next, Begin
  <2>3. CASE DemoGiven(r) \/ ScanDemos(r) \/ ReplyList(r) \/ Reply(r) \/ CleanedUp(r)
    BY <1>2, <2>3 DEF DemoGiven, ScanDemos, ReplyList, Reply, Respond, CleanedUp, handlerVars
  <2>4. CASE GivenNoDemo(r)
    BY <1>2, <2>4, NothingOfAbsent DEF GivenNoDemo, vars
  <2>5. CASE Ask(r)
    BY <1>2, <2>5, AskedBegins DEF Ask, handlerVars
  <2>. QED  BY <1>5, <2>1, <2>2, <2>3, <2>4, <2>5 DEF Play
<1>. QED  BY <1>2, <1>3, <1>4, <1>5 DEF ScenariosNext, scenarioVars, handlerVars

LEMMA ModelInvInit == ScenariosInit => ModelInv
BY TypeInit, DeletionInvInit DEF ScenariosInit, HandlerInit, Init, ModelInv

LEMMA ModelInvNext ==
  ASSUME ~Collisions
  PROVE  ModelInv /\ [ScenariosNext]_scenarioVars => ModelInv' /\ [Next]_vars
<1> SUFFICES ASSUME ModelInv, [ScenariosNext]_scenarioVars
             PROVE  ModelInv' /\ [Next]_vars
  OBVIOUS
<1>1. [Next]_vars /\ Absent \notin used' /\ TypeInv /\ DeletionInv /\ RestSystem
  BY ScenariosStep, RunsAreRest DEF ModelInv
<1>2. TypeInv' /\ DeletionInv'
  BY <1>1, TypeNext, DeletionInvNext
<1>. QED  BY <1>1, <1>2 DEF ModelInv

(* The test runs, their managers and the handlers that they ask use the    *)
(* model as any of its callers would, so that what is proved of the model  *)
(* is true while the features are tested, also with stale reads            *)
(* (data.manager.ts 97-139, demo.handler.ts 25-82).                        *)
THEOREM ScenariosUseModel ==
  ASSUME ~Collisions
  PROVE  ScenariosSpec => Spec
<1>1. ScenariosInit => Init
  BY DEF ScenariosInit, HandlerInit
<1>2. ModelInv /\ [ScenariosNext]_scenarioVars => ModelInv' /\ [Next]_vars
  BY ModelInvNext
<1>. QED  BY <1>1, <1>2, ModelInvInit, PTL DEF ScenariosSpec, Spec

-----------------------------------------------------------------------------
(* Where no read is stale: the processes that work for a run, and the      *)
(* demos that are its own.  The handler getAll calls no other method.      *)
AtWork(p) == call[p].pc \in Awaits
Listing(r) == world[r].name = "list" /\ world[r].step \in {"asked", "scanned"}

Agents(r) == {p \in Procs : \/ p = world[r].awaits /\ ~Listing(r)
                            \/ p \in Own[r] /\ AtWork(p)}
Holds(r) == (world[r].managed \cup {call[p].id : p \in Agents(r)}) \ {Absent}

-----------------------------------------------------------------------------
(* What is true of a run at each step of its scenario.                     *)
GivenItem == [version |-> 1, body |-> Template]

NothingManaged(r) == world[r].managed = {} /\ world[r].default = None
HandsFree(r) == \A p \in Own[r] : ~AtWork(p)

(* What the Given has prepared, and that it is still so.                   *)
HasDemo(r) ==
  \/ world[r].name = "fetchAbsent" /\ world[r].demo = Absent /\ NothingManaged(r)
  \/ /\ world[r].name \in Names \ {"fetchAbsent"}
     /\ world[r].demo \in Ids \ {Absent} /\ world[r].item = GivenItem
     /\ world[r].managed = {world[r].demo} /\ world[r].default = world[r].demo

Intact(r) == world[r].name # "fetchAbsent" => Latest(world[r].demo) = GivenItem

(* The calls of the model that serve a run, up to their ends.              *)
CreatesTemplate(p) ==
  /\ call[p].op = "create" /\ call[p].body = Template /\ call[p].id \in Ids \ {Absent}
  /\ call[p].pc = "save" \/ Ended(p, "create", "ok")

GetsDemo(r, l) ==
  /\ Intact(r) /\ http[l].stage = "first"
  /\ call[l].op = "get" /\ call[l].id = world[r].demo
  /\ \/ call[l].pc = "get"
     \/ /\ call[l].pc = "returned"
        /\ IF world[r].name = "fetchAbsent"
             THEN call[l].result = "NotFound"
             ELSE call[l].result = "ok" /\ call[l].latest = GivenItem

UpdatesDemo(r, l) ==
  /\ http[l].stage = "second"
  /\ call[l].op = "update" /\ call[l].id = world[r].demo
  /\ call[l].body = Edited(GivenItem)
  /\ \/ call[l].pc = "get" /\ Intact(r)
     \/ call[l].latest = GivenItem /\ (call[l].pc = "save" \/ Ended(l, "update", "ok"))

DeletesDemo(r, l) ==
  /\ http[l].stage = "second"
  /\ call[l].op = "deleteCompletely" /\ call[l].id = world[r].demo
  /\ \/ call[l].pc = "get" /\ Intact(r)
     \/ call[l].pc = "delete" \/ Ended(l, "deleteCompletely", "ok")

(* Function l serves the request of run r.                                 *)
ServesFetch(r, l) ==
  world[r].name \in {"fetch", "fetchAbsent"} /\ http[l].method = "GET" /\ GetsDemo(r, l)

ServesCreate(r, l) ==
  /\ world[r].name = "create" /\ http[l].method = "POST" /\ http[l].stage = "first"
  /\ CreatesTemplate(l) /\ call[l].id # world[r].demo

ServesUpdate(r, l) ==
  /\ world[r].name = "update" /\ http[l].method = "PUT"
  /\ http[l].demo = [id |-> world[r].demo, body |-> Edited(GivenItem)]
  /\ GetsDemo(r, l) \/ UpdatesDemo(r, l)

ServesDelete(r, l) ==
  /\ world[r].name = "delete" /\ http[l].method = "DELETE"
  /\ GetsDemo(r, l) \/ DeletesDemo(r, l)

AtIdle(r) ==
  /\ world[r].step = "idle" /\ world[r].awaits = None
  /\ NothingManaged(r) /\ HandsFree(r)

AtGiven(r) ==
  LET p == world[r].awaits IN
  /\ world[r].step = "given" /\ world[r].name \in Names \ {"fetchAbsent"}
  /\ p \in Own[r] /\ CreatesTemplate(p) /\ NothingManaged(r)
  /\ \A q \in Own[r] : AtWork(q) => q = p
  /\ call[p].pc = "returned" => Latest(call[p].id) = GivenItem

AtReady(r) ==
  /\ world[r].step = "ready" /\ world[r].awaits = None
  /\ HasDemo(r) /\ Intact(r) /\ HandsFree(r)

AtAsked(r) ==
  LET l == world[r].awaits IN
  /\ world[r].step = "asked" /\ l \in Lambdas
  /\ HasDemo(r) /\ HandsFree(r)
  /\ ServesFetch(r, l) \/ ServesCreate(r, l) \/ ServesUpdate(r, l) \/ ServesDelete(r, l)

AtListing(r) ==
  LET l == world[r].awaits IN
  /\ Listing(r) /\ l \in Lambdas /\ ~Serving(l) /\ ~AtWork(l)
  /\ HasDemo(r) /\ HandsFree(r)
  /\ IF world[r].step = "asked" THEN Intact(r) ELSE world[r].listed = GivenItem

AtCleaning(r) ==
  /\ world[r].step = "cleaning" /\ world[r].awaits = None
  /\ world[r].default \in world[r].managed \cup {None}
  /\ Absent \notin world[r].managed
  /\ \A p \in Own[r] : AtWork(p) =>
       /\ call[p].op = "deleteCompletely"
       /\ call[p].id \notin world[r].managed \cup {Absent}
       /\ \A q \in Own[r] : AtWork(q) /\ call[q].id = call[p].id => q = p

OnCourse(r) ==
  /\ ~world[r].failed
  /\ \/ AtIdle(r) \/ AtGiven(r) \/ AtReady(r)
     \/ AtAsked(r) \/ AtListing(r) \/ AtCleaning(r)

-----------------------------------------------------------------------------
(* What is true of the runs together.                                      *)
RunsApart ==
  \A r, s \in Runners : r # s =>
    /\ Holds(r) \cap Holds(s) = {}
    /\ world[r].awaits = world[s].awaits => world[r].awaits = None

(* Ids, rows and busy functions are some run's.                            *)
Owned ==
  /\ \A r \in Runners : Holds(r) \subseteq used
  /\ \A e \in DOMAIN table : \E r \in Runners : e[2] \in Holds(r)
  /\ \A l \in Lambdas : Serving(l) \/ AtWork(l) => \E r \in Runners : world[r].awaits = l

NoDeletionFails ==
  \A p \in Procs : call[p].op = "deleteCompletely" => call[p].result # "Error"

World == [name : Names \cup {"none"},
          step : {"idle", "given", "ready", "asked", "scanned", "cleaning"},
          awaits : Procs \cup {None}, demo : Ids \cup {None},
          item : {GivenItem, None}, listed : {GivenItem, None},
          managed : SUBSET Ids, default : Ids \cup {None}, failed : BOOLEAN]

TypesInv ==
  TypeInv /\ http \in [Procs -> Request] /\ world \in [Runners -> World]

RunsInv == (\A r \in Runners : OnCourse(r)) /\ RunsApart /\ Owned /\ NoDeletionFails

ScenariosInv == ModelInv /\ TypesInv /\ OrderInv /\ RunsInv

-----------------------------------------------------------------------------
(* A step of a call where the calls on its demo take turns.                *)

(* It changes no row of another demo and no other call, and goes on with   *)
(* the method and the arguments it was called with.                        *)
LEMMA StepStaysPut ==
  ASSUME ~Collisions, ModelInv, NEW p \in Procs, Step(p)
  PROVE  /\ OnlyCall(p)
         /\ \A other : other # call[p].id => SameDemo(other)
         /\ call'[p].op = call[p].op /\ call'[p].body = call[p].body
         /\ used' = used
<1>1. OnlyCall(p) /\ TypeInv
  BY StepsOfRest DEF ModelInv
<1>2. ASSUME NEW e, e[2] # call[p].id
      PROVE  (e \in DOMAIN table' <=> e \in DOMAIN table) /\ Row(table', e) = Row(table, e)
  <2>1. Row(table', e) = Row(table, e)
    BY <1>1, <1>2, WritesOfSteps, WritesOwnRows DEF Row
  <2>2. TypeInv'
    BY <1>1, TypeNext DEF Next
  <2>. QED  BY <1>1, <2>1, <2>2, NoneIsNoValue DEF Row, TypeInv, TypeOK
<1>3. \A other : other # call[p].id => SameDemo(other)
  BY <1>2, OtherDemos
<1>4. call'[p].body = call[p].body
  <2>1. call \in [Procs -> Call]
    BY <1>1 DEF TypeInv, TypeOK
  <2>2. ASSUME NEW result, Return(p, result)
        PROVE  call'[p].body = call[p].body
    BY <2>1, <2>2 DEF Return, Call
  <2>3. CASE GetFound(p)
    BY <2>1, <2>3 DEF GetFound, Call
  <2>4. CASE ReadForUpdate(p)
    BY <2>1, <2>2, <2>4 DEF ReadForUpdate, Call
  <2>5. CASE ReadForDeletion(p)
    <3>1. PICK item \in Visible(call[p].id) \ {None} :
            call'[p] = [call[p] EXCEPT !.pc = "delete", !.latest = item, !.version = 0]
      BY <2>1, <2>5 DEF ReadForDeletion
    <3>. QED  BY <2>1, <3>1 DEF Call
  <2>6. CASE DeleteRow(p)
    BY <2>1, <2>2, <2>6 DEF DeleteRow, Call
  <2>7. CASE GetMissing(p) \/ Save(p) \/ SaveRefused(p) \/ DeleteMissing(p)
    BY <2>2, <2>7 DEF GetMissing, Save, SaveRefused, DeleteMissing
  <2>. QED  BY <2>3, <2>4, <2>5, <2>6, <2>7, StepsOfRest
<1>. QED  BY <1>1, <1>3, <1>4, StepOfCall, StepsUseNoId

(* The call that is about to be suspended no more.                         *)
LEMMA ReturnValues ==
  ASSUME TypeInv, NEW p \in Procs, NEW result, Return(p, result)
  PROVE  /\ call'[p].pc = "returned" /\ call'[p].result = result
         /\ call'[p].id = call[p].id /\ call'[p].latest = call[p].latest
BY DEF Return, TypeInv, TypeOK, Call

(* A new demo is stored, for nothing of it is there.                       *)
LEMMA CreateStep ==
  ASSUME ~Collisions, ModelInv, NEW p \in Procs, Step(p),
         call[p].op = "create", call[p].pc = "save"
  PROVE  /\ Ended(p, "create", "ok")' /\ call'[p].id = call[p].id
         /\ Latest(call[p].id)' = Saved(call[p])
<1>1. TypeInv /\ DeletionInv
  BY DEF ModelInv
<1>2. PICK id \in Ids, item \in Item : id = call[p].id /\ item = Saved(call[p])
  BY <1>1, SavedValues
<1>3. CanSave(call[p])
  BY <1>1, <1>2 DEF CanSave, Exists, DeletionInv, CreatesOwnTheirIds, Unborn, Creating,
     RowsOf, EntityId
<1>4. Save(p)
  BY <1>3 DEF Step, GetMissing, GetFound, ReadForUpdate, ReadForRevision, ReadForDeletion,
       RetryCreate, SaveRefused, Revise, ReviseRefused, DeleteRow, DeleteMissing
<1>5. Latest(id)' = item
  BY <1>1, <1>2, <1>4, SavedRows DEF Save
<1>6. call'[p].op = "create"
  BY <1>1, <1>4 DEF Save, Return, TypeInv, TypeOK, Call
<1>. QED  BY <1>1, <1>2, <1>4, <1>5, <1>6, ReturnValues DEF Save, Ended

(* A get that is not stale answers what is there.                          *)
LEMMA GetStep ==
  ASSUME ~Collisions, ModelInv, NEW p \in Procs, Step(p), ~Misreads(p),
         call[p].op = "get", call[p].pc = "get"
  PROVE  /\ table' = table
         /\ call'[p].pc = "returned" /\ call'[p].id = call[p].id
         /\ IF Latest(call[p].id) = None
              THEN call'[p].result = "NotFound"
              ELSE call'[p].result = "ok" /\ call'[p].latest = Latest(call[p].id)
<1>1. GetMissing(p) \/ GetFound(p)
  BY DEF Step, ReadForUpdate, ReadForRevision, ReadForDeletion, Save,
       RetryCreate, SaveRefused, Revise, ReviseRefused, DeleteRow, DeleteMissing
<1>2. ~ReadForUpdate(p) /\ ~ReadForDeletion(p)
  BY DEF ReadForUpdate, ReadForDeletion
<1>. QED  BY <1>1, <1>2, FreshRead

(* An update of a demo that is there is stored on top of it.               *)
LEMMA UpdateReads ==
  ASSUME ~Collisions, ModelInv, NEW p \in Procs, Step(p), ~Misreads(p),
         call[p].op = "update", call[p].pc = "get",
         Latest(call[p].id) # None, Valid(call[p].body)
  PROVE  /\ call'[p].pc = "save" /\ call'[p].id = call[p].id
         /\ call'[p].latest = Latest(call[p].id)
<1>1. GetMissing(p) \/ ReadForUpdate(p)
  BY DEF Step, GetFound, ReadForRevision, ReadForDeletion, Save,
       RetryCreate, SaveRefused, Revise, ReviseRefused, DeleteRow, DeleteMissing
<1>2. ~GetFound(p) /\ ~ReadForDeletion(p)
  BY DEF GetFound, ReadForDeletion
<1>. QED  BY <1>1, <1>2, FreshRead DEF Updating

LEMMA UpdateSaves ==
  ASSUME ~Collisions, ModelInv, OrderInv, OneWriterPerDemo, NEW p \in Procs, Step(p),
         call[p].op = "update", call[p].pc = "save"
  PROVE  /\ Ended(p, "update", "ok")' /\ call'[p].id = call[p].id
         /\ call'[p].latest = call[p].latest
<1>1. TypeInv /\ Updating(p)
  BY DEF ModelInv, Updating
<1>2. PICK id \in Ids, item \in Item : id = call[p].id /\ item = Saved(call[p])
  BY <1>1, SavedValues
<1>3. call[p].latest \in Item /\ item.version = call[p].latest.version + 1
  BY <1>1, <1>2 DEF TypeInv, TypeOK, CallsOK, Suspended, Awaits, Awaiting, Saved, Updated
<1>4. InOrder(id) /\ call[p].latest = Latest(id) /\ Latest(id) # None
  BY <1>1, <1>2, <1>3, NoneIsNoValue DEF OrderInv, InOrder
<1>5. NotDeleted(id)
  <2>1. ~Deleting(p)
    BY <1>1 DEF Updating, Deleting
  <2>. QED  BY <1>1, <1>2, <2>1 DEF NotDeleted, OneWriterPerDemo, Writing
<1>6. RowsOf(id) = Versions(id, 0, Latest(id).version)
  <2>1. EntityId(id, 0) \in RowsOf(id)
    BY <1>4 DEF Latest, Row, RowsOf, EntityId
  <2>. QED  BY <1>4, <1>5, <2>1 DEF InOrder, Gone, Whole, Leaving, NotDeleted
<1>7. CanSave(call[p])
  <2> SUFFICES ASSUME EntityId(id, item.version) \in DOMAIN table PROVE FALSE
    BY <1>2 DEF CanSave, Exists
  <2>1. EntityId(id, item.version) \in Versions(id, 0, Latest(id).version)
    BY <1>6 DEF RowsOf, EntityId
  <2>2. item.version \in 0..Latest(id).version
    BY <2>1 DEF Versions, EntityId
  <2>. QED  BY <1>3, <1>4, <2>2 DEF Item, Version
<1>8. Save(p)
  BY <1>7 DEF Step, GetMissing, GetFound, ReadForUpdate, ReadForRevision, ReadForDeletion,
       RetryCreate, SaveRefused, Revise, ReviseRefused, DeleteRow, DeleteMissing
<1>9. call'[p].op = "update"
  BY <1>1, <1>8 DEF Save, Return, TypeInv, TypeOK, Call
<1>. QED  BY <1>1, <1>8, <1>9, ReturnValues DEF Save, Ended

(* A deletion that is not stale reads what it deletes, or ends when there  *)
(* is nothing.                                                             *)
LEMMA DeletionReads ==
  ASSUME ~Collisions, ModelInv, OrderInv, NEW p \in Procs, Step(p), ~Misreads(p),
         call[p].op = "deleteCompletely", call[p].pc = "get", call[p].result # "Error",
         \A q \in Procs : Deleting(q) => call[q].id # call[p].id
  PROVE  /\ call'[p].id = call[p].id /\ call'[p].result # "Error"
         /\ IF Latest(call[p].id) = None
              THEN call'[p].pc = "returned" /\ RowsOf(call[p].id)' = {}
              ELSE call'[p].pc = "delete"
<1>1. GetMissing(p) \/ ReadForDeletion(p)
  BY DEF Step, GetFound, ReadForUpdate, ReadForRevision, Save,
       RetryCreate, SaveRefused, Revise, ReviseRefused, DeleteRow, DeleteMissing
<1>2. ~GetFound(p) /\ ~ReadForUpdate(p)
  BY DEF GetFound, ReadForUpdate
<1>3. /\ call[p].id \in Ids /\ call'[p].id = call[p].id /\ table' = table
      /\ \/ /\ call'[p].pc = "returned" /\ call'[p].result = "NotFound"
            /\ Latest(call[p].id) = None
         \/ /\ Latest(call[p].id) # None /\ Deleting(p)' /\ call'[p].result = call[p].result
  BY <1>1, <1>2, FreshRead
<1>4. PICK id \in Ids : id = call[p].id
  BY <1>3
<1>5. Latest(id) = None => RowsOf(id) = {}
  BY <1>4 DEF OrderInv, InOrder, Gone, Whole, Leaving
<1>. QED  BY <1>3, <1>4, <1>5 DEF Deleting, RowsOf

LEMMA DeletionDeletes ==
  ASSUME ~Collisions, ModelInv, OrderInv, OneWriterPerDemo, NEW p \in Procs, Step(p),
         call[p].op = "deleteCompletely", call[p].pc = "delete", call[p].result # "Error"
  PROVE  /\ call'[p].id = call[p].id /\ call'[p].result # "Error"
         /\ \/ call'[p].pc = "delete"
            \/ Ended(p, "deleteCompletely", "ok")' /\ RowsOf(call[p].id)' = {}
<1>1. DeleteRow(p) \/ DeleteMissing(p)
  BY DEF Step, GetMissing, GetFound, ReadForUpdate, ReadForRevision, ReadForDeletion,
       Save, RetryCreate, SaveRefused, Revise, ReviseRefused
<1>. QED  BY <1>1, OrderDelete DEF Deleting, Ended

-----------------------------------------------------------------------------
(* Whose processes and demos they are.                                     *)
LEMMA AgentsAtSteps ==
  ASSUME NEW r \in Runners, OnCourse(r)
  PROVE  /\ AtIdle(r) \/ AtReady(r) => Agents(r) = {}
         /\ AtListing(r) => Agents(r) = {}
         /\ AtGiven(r) \/ AtAsked(r) => Agents(r) = {world[r].awaits}
         /\ AtCleaning(r) => Agents(r) = {p \in Own[r] : AtWork(p)}
<1>1. Own[r] \subseteq Procs /\ None \notin Procs /\ Lambdas \subseteq Procs
  BY ScenariosAssumption DEF Lambdas
<1>2. AtIdle(r) \/ AtReady(r) => Agents(r) = {}
  BY <1>1 DEF AtIdle, AtReady, HandsFree, Agents
<1>3. AtGiven(r) => Agents(r) = {world[r].awaits}
  BY <1>1 DEF AtGiven, Agents, Listing
<1>4. AtAsked(r) => Agents(r) = {world[r].awaits}
  <2>1. AtAsked(r) => ~Listing(r)
    BY DEF AtAsked, Listing, ServesFetch, ServesCreate, ServesUpdate, ServesDelete
  <2>. QED  BY <1>1, <2>1 DEF AtAsked, HandsFree, Agents
<1>6. AtListing(r) => Agents(r) = {}
  BY <1>1 DEF AtListing, HandsFree, Agents
<1>5. AtCleaning(r) => Agents(r) = {p \in Own[r] : AtWork(p)}
  BY <1>1 DEF AtCleaning, Agents
<1>. QED  BY <1>2, <1>3, <1>4, <1>5, <1>6

(* A function that serves a run's request.                                 *)
LEMMA AskedIsServed ==
  ASSUME NEW r \in Runners, AtAsked(r)
  PROVE  Serving(world[r].awaits)
BY DEF AtAsked, ServesFetch, ServesCreate, ServesUpdate, ServesDelete, GetsDemo, UpdatesDemo, DeletesDemo, Serving

(* The run that a busy function works for.                                 *)
LEMMA RunOfLambda ==
  ASSUME RunsInv, NEW l \in Lambdas, Serving(l) \/ AtWork(l)
  PROVE  \E r \in Runners : AtAsked(r) /\ world[r].awaits = l
<1>1. PICK r \in Runners : world[r].awaits = l
  BY DEF RunsInv, Owned
<1>2. OnCourse(r) /\ l \notin Own[r] /\ l # None
  BY ScenariosAssumption DEF RunsInv, Lambdas
<1>. QED  BY <1>1, <1>2 DEF OnCourse, AtIdle, AtGiven, AtReady, AtListing, AtCleaning

LEMMA WritersAreAgents ==
  ASSUME RunsInv, NEW p \in Procs, Writing(p)
  PROVE  \E r \in Runners : p \in Agents(r) /\ call[p].id \in Holds(r)
<1>1. AtWork(p)
  BY DEF Writing, Creating, Updating, Deleting, AtWork, Awaits
<1>2. PICK r \in Runners : p \in Agents(r)
  <2>1. CASE p \in Lambdas
    <3>1. PICK r \in Runners : AtAsked(r) /\ world[r].awaits = p
      BY <1>1, <2>1, RunOfLambda
    <3>2. ~Listing(r)
      BY <3>1 DEF AtAsked, Listing, ServesFetch, ServesCreate, ServesUpdate, ServesDelete
    <3>. QED  BY <3>1, <3>2 DEF Agents
  <2>. QED  BY <1>1, <2>1 DEF Lambdas, Agents
<1>3. OnCourse(r)
  BY DEF RunsInv
<1>4. call[p].id # Absent
  <2>1. AtGiven(r) => call[p].id # Absent
    BY <1>2, <1>3, AgentsAtSteps DEF AtGiven, CreatesTemplate
  <2>2. AtCleaning(r) => call[p].id # Absent
    BY <1>2, <1>3, AgentsAtSteps DEF AtCleaning
  <2>3. ASSUME AtAsked(r)
        PROVE  call[p].id # Absent
    <3>1. p = world[r].awaits
      BY <1>2, <1>3, <2>3, AgentsAtSteps
    <3>2. ~GetsDemo(r, p)
      BY DEF GetsDemo, Writing, Creating, Updating, Deleting
    <3>3. ServesUpdate(r, p) \/ ServesDelete(r, p) => call[p].id = world[r].demo /\ world[r].demo # Absent
      BY <2>3, <3>2 DEF ServesUpdate, ServesDelete, UpdatesDemo, DeletesDemo, AtAsked, HasDemo
    <3>. QED  BY <2>3, <3>1, <3>2, <3>3 DEF AtAsked, ServesFetch, ServesCreate, CreatesTemplate
  <2>. QED  BY <1>2, <1>3, <2>1, <2>2, <2>3, AgentsAtSteps DEF OnCourse
<1>. QED  BY <1>2, <1>4 DEF Holds

(* The calls on a demo take turns.                                         *)
LEMMA RunsTakeTurns == RunsInv => OneWriterPerDemo
<1> SUFFICES ASSUME RunsInv, NEW p \in Procs, NEW q \in Procs,
                    Writing(p), Writing(q), call[p].id = call[q].id
             PROVE  p = q
  BY DEF OneWriterPerDemo
<1>1. PICK r \in Runners : p \in Agents(r) /\ call[p].id \in Holds(r)
  BY WritersAreAgents
<1>2. PICK s \in Runners : q \in Agents(s) /\ call[q].id \in Holds(s)
  BY WritersAreAgents
<1>3. r = s
  BY <1>1, <1>2 DEF RunsInv, RunsApart
<1>4. OnCourse(r)
  BY DEF RunsInv
<1>5. AtCleaning(r) => p = q
  BY <1>1, <1>2, <1>3, <1>4, AgentsAtSteps DEF AtCleaning
<1>. QED  BY <1>1, <1>2, <1>3, <1>4, <1>5, AgentsAtSteps DEF OnCourse

(* What a step of run r, in which only processes of P change, leaves to    *)
(* the other runs.                                                         *)
Unasked == {l \in Lambdas : \A s \in Runners : world[s].awaits # l}

ByRun(r, P) ==
  /\ P \subseteq Own[r] \cup {world[r].awaits} \cup Unasked
  /\ \A q \in Procs \ P : call'[q] = call[q] /\ http'[q] = http[q]
  /\ \A s \in Runners \ {r} : world'[s] = world[s]
  /\ \A id : id \notin Holds(r) => SameDemo(id)
  /\ used \subseteq used'

LEMMA NotOfOthers ==
  ASSUME RunsInv, NEW r \in Runners, NEW P, ByRun(r, P), NEW s \in Runners, s # r
  PROVE  Procs \cap (Own[s] \cup {world[s].awaits}) \cap P = {}
<1>1. OnCourse(s)
  BY DEF RunsInv
<1>2. Own[s] \cap Own[r] = {} /\ None \notin Procs /\ Own[s] \subseteq Procs
      /\ Own[r] \subseteq Procs /\ Lambdas \cap (Own[r] \cup Own[s]) = {}
  BY ScenariosAssumption DEF Lambdas
<1>3. world[r].awaits \notin Own[s]
  <2>1. OnCourse(r)
    BY DEF RunsInv
  <2>. QED  BY <1>2, <2>1 DEF OnCourse, AtIdle, AtGiven, AtReady, AtAsked, AtListing, AtCleaning
<1>4. Own[s] \cap P = {}
  BY <1>2, <1>3 DEF ByRun, Unasked
<1>5. ASSUME world[s].awaits \in Procs
      PROVE  world[s].awaits \notin P
  <2>1. world[s].awaits # world[r].awaits
    BY <1>2, <1>5 DEF RunsInv, RunsApart
  <2>2. world[s].awaits \in Own[s] \cup Lambdas
    BY <1>1, <1>2, <1>5 DEF OnCourse, AtIdle, AtGiven, AtReady, AtAsked, AtListing, AtCleaning
  <2>. QED  BY <1>2, <1>4, <2>1, <2>2 DEF ByRun, Unasked
<1>. QED  BY <1>4, <1>5

LEMMA OthersKeepTheirs ==
  ASSUME RunsInv, NEW r \in Runners, NEW P, ByRun(r, P), NEW s \in Runners, s # r
  PROVE  Agents(s)' = Agents(s) /\ Holds(s)' = Holds(s) /\ world'[s] = world[s]
         /\ \A p \in Procs \cap (Own[s] \cup {world[s].awaits}) :
              call'[p] = call[p] /\ http'[p] = http[p]
<1>1. Own[s] \subseteq Procs
  BY ScenariosAssumption
<1>2. \A p \in Procs \cap (Own[s] \cup {world[s].awaits}) :
        call'[p] = call[p] /\ http'[p] = http[p]
  BY <1>1, NotOfOthers DEF ByRun
<1>3. world'[s] = world[s]
  BY DEF ByRun
<1>4. Agents(s)' = Agents(s)
  BY <1>1, <1>2, <1>3 DEF Agents, AtWork, Listing
<1>. QED  BY <1>2, <1>3, <1>4 DEF Holds, Agents

LEMMA OthersStayOnCourse ==
  ASSUME RunsInv, NEW r \in Runners, NEW P, ByRun(r, P), NEW s \in Runners, s # r
  PROVE  OnCourse(s)'
<1>0. Own[s] \subseteq Procs /\ Lambdas \subseteq Procs
  BY ScenariosAssumption DEF Lambdas
<1>1. /\ world'[s] = world[s]
      /\ \A p \in Procs \cap (Own[s] \cup {world[s].awaits}) :
           call'[p] = call[p] /\ http'[p] = http[p]
  BY OthersKeepTheirs
<1>2. OnCourse(s)
  BY DEF RunsInv
<1>3. \A id \in Holds(s) : Latest(id)' = Latest(id)
  BY DEF ByRun, SameDemo, RunsInv, RunsApart
<1>4. \A p \in Own[s] : AtWork(p)' <=> AtWork(p)
  BY <1>0, <1>1 DEF AtWork
<1>5. ASSUME HasDemo(s), Intact(s)
      PROVE  Intact(s)'
  BY <1>1, <1>3, <1>5 DEF HasDemo, Intact, Holds
<1>6. (HasDemo(s) => HasDemo(s)') /\ (HandsFree(s) => HandsFree(s)')
      /\ (NothingManaged(s) => NothingManaged(s)')
  BY <1>1, <1>4 DEF HasDemo, HandsFree, NothingManaged
<1>7. \A p \in Agents(s) : CreatesTemplate(p) => CreatesTemplate(p)'
  BY <1>1 DEF Agents, CreatesTemplate, Ended
<1>8. AtIdle(s) => AtIdle(s)'
  BY <1>1, <1>6 DEF AtIdle
<1>9. AtGiven(s) => AtGiven(s)'
  <2> SUFFICES ASSUME AtGiven(s), NEW p, p = world[s].awaits PROVE AtGiven(s)'
    OBVIOUS
  <2>1. p \in Agents(s) /\ p \in Own[s]
    BY <1>2, AgentsAtSteps DEF AtGiven
  <2>2. CreatesTemplate(p)' /\ call'[p] = call[p]
    BY <1>0, <1>1, <1>7, <2>1 DEF AtGiven
  <2>3. call[p].id \in Holds(s)
    BY <2>1 DEF AtGiven, CreatesTemplate, Holds
  <2>4. Latest(call[p].id)' = Latest(call[p].id)
    BY <1>3, <2>3, <2>2 DEF Latest
  <2>. QED  BY <1>1, <1>4, <1>6, <2>2, <2>4 DEF AtGiven
<1>10. AtReady(s) => AtReady(s)'
  BY <1>1, <1>5, <1>6 DEF AtReady
<1>11. AtAsked(s) => AtAsked(s)'
  <2> SUFFICES ASSUME AtAsked(s), NEW l, l = world[s].awaits PROVE AtAsked(s)'
    OBVIOUS
  <2>1. l \in Agents(s)
    BY <1>2, AgentsAtSteps
  <2>2. call'[l] = call[l] /\ http'[l] = http[l] /\ HasDemo(s)
    BY <1>0, <1>1, <2>1 DEF AtAsked
  <2>3. GetsDemo(s, l) => GetsDemo(s, l)'
    BY <1>1, <1>5, <2>2 DEF GetsDemo
  <2>4. UpdatesDemo(s, l) => UpdatesDemo(s, l)'
    BY <1>1, <1>5, <2>2 DEF UpdatesDemo, Ended
  <2>5. DeletesDemo(s, l) => DeletesDemo(s, l)'
    BY <1>1, <1>5, <2>2 DEF DeletesDemo, Ended
  <2>6. CreatesTemplate(l) => CreatesTemplate(l)'
    BY <1>7, <2>1
  <2>. QED  BY <1>1, <1>6, <2>2, <2>3, <2>4, <2>5, <2>6
            DEF AtAsked, ServesFetch, ServesCreate, ServesUpdate, ServesDelete
<1>12. AtListing(s) => AtListing(s)'
  <2> SUFFICES ASSUME AtListing(s) PROVE AtListing(s)'
    OBVIOUS
  <2>1. LET l == world[s].awaits IN l \in Lambdas /\ ~Serving(l)' /\ ~AtWork(l)'
    BY <1>0, <1>1 DEF AtListing, Serving, AtWork
  <2>2. HasDemo(s)' /\ HandsFree(s)' /\ (Intact(s) => Intact(s)')
    BY <1>5, <1>6 DEF AtListing
  <2>. QED  BY <1>1, <2>1, <2>2 DEF AtListing, Listing
<1>13. AtCleaning(s) => AtCleaning(s)'
  BY <1>0, <1>1, <1>4 DEF AtCleaning
<1>. QED  BY <1>1, <1>2, <1>8, <1>9, <1>10, <1>11, <1>12, <1>13 DEF OnCourse

(* So the invariant of the runs is a matter of the run that moves.         *)
LEMMA OneRunMoves ==
  ASSUME RunsInv, NEW r \in Runners, NEW P, ByRun(r, P), OnCourse(r)',
         Holds(r)' \subseteq Holds(r) \cup (used' \ used),
         \A id \in Holds(r) \ Holds(r)' : RowsOf(id)' = {},
         world'[r].awaits \in P \cup {world[r].awaits, None},
         \A l \in Lambdas \cap (P \cup {world[r].awaits}) :
           (Serving(l) \/ AtWork(l))' => world'[r].awaits = l,
         \A p \in Procs \cap P : call'[p].op = "deleteCompletely" => call'[p].result # "Error"
  PROVE  RunsInv'
<1>1. \A s \in Runners : s # r =>
        /\ Agents(s)' = Agents(s) /\ Holds(s)' = Holds(s) /\ world'[s] = world[s]
        /\ OnCourse(s)'
  BY OthersKeepTheirs, OthersStayOnCourse
<1>2. RunsApart'
  <2>1. ASSUME NEW s \in Runners, s # r
        PROVE  /\ Holds(r)' \cap Holds(s)' = {}
               /\ world'[r].awaits = world'[s].awaits => world'[r].awaits = None
    <3>1. Holds(r)' \cap Holds(s)' = {}
      BY <1>1, <2>1 DEF RunsInv, RunsApart, Owned
    <3>2. ASSUME world'[r].awaits = world'[s].awaits, world'[r].awaits # None
          PROVE  FALSE
      <4>1. world[s].awaits = world'[r].awaits
        BY <1>1, <2>1, <3>2
      <4>2. world[s].awaits # world[r].awaits
        BY <2>1, <3>2, <4>1 DEF RunsInv, RunsApart
      <4>3. world[s].awaits \in P
        BY <4>1, <4>2, <3>2
      <4>4. world[s].awaits \in Procs
        BY <2>1, <3>2, <4>1, ScenariosAssumption DEF RunsInv, OnCourse, AtIdle, AtGiven,
           AtReady, AtAsked, AtListing, AtCleaning, Lambdas
      <4>. QED  BY <2>1, <4>3, <4>4, NotOfOthers
    <3>. QED  BY <3>1, <3>2
  <2>. QED  BY <1>1, <2>1 DEF RunsInv, RunsApart
<1>3. Owned'
  <2>1. \A s \in Runners : Holds(s)' \subseteq used'
    BY <1>1 DEF RunsInv, Owned, ByRun
  <2>2. ASSUME NEW e \in DOMAIN table'
        PROVE  \E s \in Runners : e[2] \in Holds(s)'
    <3>1. CASE e[2] \in Holds(r)
      BY <3>1, <2>2 DEF RowsOf
    <3>2. CASE e[2] \notin Holds(r)
      <4>1. e \in DOMAIN table
        BY <2>2, <3>2 DEF ByRun, SameDemo, RowsOf
      <4>2. PICK s \in Runners : e[2] \in Holds(s)
        BY <4>1 DEF RunsInv, Owned
      <4>. QED  BY <1>1, <3>2, <4>2
    <3>. QED  BY <3>1, <3>2
  <2>3. ASSUME NEW l \in Lambdas, (Serving(l) \/ AtWork(l))'
        PROVE  \E s \in Runners : world'[s].awaits = l
    <3>1. CASE l \in P \cup {world[r].awaits}
      BY <2>3, <3>1
    <3>2. CASE l \notin P \cup {world[r].awaits}
      <4>1. l \in Procs
        BY DEF Lambdas
      <4>2. Serving(l) \/ AtWork(l)
        BY <2>3, <3>2, <4>1 DEF ByRun, Serving, AtWork
      <4>3. PICK s \in Runners : world[s].awaits = l
        BY <4>2 DEF RunsInv, Owned
      <4>. QED  BY <1>1, <3>2, <4>3
    <3>. QED  BY <3>1, <3>2
  <2>. QED  BY <2>1, <2>2, <2>3 DEF Owned
<1>4. NoDeletionFails'
  BY DEF RunsInv, NoDeletionFails, ByRun
<1>5. \A s \in Runners : OnCourse(s)'
  BY <1>1
<1>. QED  BY <1>2, <1>3, <1>4, <1>5 DEF RunsInv

-----------------------------------------------------------------------------
(* The steps of a run.                                                     *)
LEMMA OtherWorlds ==
  ASSUME TypesInv, NEW r \in Runners, NEW w, world' = [world EXCEPT ![r] = w]
  PROVE  world'[r] = w /\ \A s \in Runners \ {r} : world'[s] = world[s]
BY DEF TypesInv

LEMMA NothingStepped ==
  ASSUME NEW r \in Runners, NEW P, P \subseteq Own[r] \cup {world[r].awaits} \cup Unasked,
         table' = table, used \subseteq used',
         \A q \in Procs \ P : call'[q] = call[q] /\ http'[q] = http[q],
         \A s \in Runners \ {r} : world'[s] = world[s]
  PROVE  ByRun(r, P)
BY DEF ByRun, SameDemo, RowsOf, Latest

(* Its template is a body as create stores it.                             *)
LEMMA TemplateIsBody ==
  /\ Template.data # Invalid /\ [Template EXCEPT !.status = "Created"] = Template
  /\ Valid(Template) /\ GivenItem \in Item /\ GivenItem # None
  /\ Valid(Edited(GivenItem))
<1>1. Template = [data |-> Template.data, status |-> "Created"]
  BY ScenariosAssumption, BodiesAreRecords
<1>2. [Template EXCEPT !.status = "Created"] = Template
  BY <1>1
<1>3. GivenItem \in Item
  <2>1. Template \in Body
    BY ScenariosAssumption, BodyType
  <2>. QED  BY <2>1 DEF GivenItem, Item, Version
<1>4. Edited(GivenItem) = [Template EXCEPT !.status = "Deleted"]
  BY DEF Edited, GivenItem
<1>5. Valid(Template) /\ Valid(Edited(GivenItem)) /\ Template.data # Invalid
  BY <1>4, ScenariosAssumption DEF Valid
<1>. QED  BY <1>2, <1>3, <1>5, NoneIsNoValue

(* A created template is the item that the run expects.                    *)
LEMMA SavedTemplate ==
  ASSUME NEW p, CreatesTemplate(p)
  PROVE  Saved(call[p]) = GivenItem
BY TemplateIsBody DEF CreatesTemplate, Saved, Created, GivenItem

LEMMA StartedCreate ==
  ASSUME ~Collisions, TypesInv, NEW p \in Procs, StartCreate(p),
         call'[p].body = Template, call'[p].id # Absent
  PROVE  /\ CreatesTemplate(p)' /\ call'[p].pc = "save" /\ table' = table
         /\ call'[p].id \notin used /\ used' = used \cup {call'[p].id}
         /\ OnlyCall(p) /\ call'[p].result # "Error"
BY CreateStarts DEF TypesInv, CreatesTemplate

LEMMA GivenDemoMoves ==
  ASSUME ~Collisions, TypesInv, RunsInv, NEW r \in Runners, GivenDemo(r)
  PROVE  RunsInv'
<1>1. OnCourse(r) /\ AtIdle(r)
  BY DEF RunsInv, OnCourse, AtGiven, AtReady, AtAsked, AtListing, Listing, AtCleaning, GivenDemo
<1>2. PICK name \in Names \ {"fetchAbsent"}, p \in Own[r] :
        /\ StartCreate(p) /\ call'[p].body = Template /\ call'[p].id # Absent
        /\ world' = [world EXCEPT ![r] = [NewWorld EXCEPT
             !.name = name, !.step = "given", !.awaits = p]]
        /\ http' = http
  BY <1>1 DEF GivenDemo, AtIdle, NothingManaged
<1>3. p \in Procs
  BY ScenariosAssumption
<1>4. /\ CreatesTemplate(p)' /\ call'[p].pc = "save" /\ table' = table
      /\ call'[p].id \notin used /\ used' = used \cup {call'[p].id}
      /\ OnlyCall(p) /\ call'[p].result # "Error"
  BY <1>2, <1>3, StartedCreate
<1>5. /\ world'[r] = [NewWorld EXCEPT !.name = name, !.step = "given", !.awaits = p]
      /\ \A s \in Runners \ {r} : world'[s] = world[s]
  BY <1>2 DEF TypesInv
<1>6. /\ world'[r].name = name /\ world'[r].step = "given" /\ world'[r].awaits = p
      /\ world'[r].managed = {} /\ world'[r].default = None /\ ~world'[r].failed
  BY <1>5 DEF NewWorld
<1>7. ByRun(r, {p})
  <2>1. \A q \in Procs \ {p} : call'[q] = call[q] /\ http'[q] = http[q]
    BY <1>2, <1>4 DEF OnlyCall
  <2>2. used \subseteq used' /\ {p} \subseteq Own[r]
    BY <1>4
  <2>. QED  BY <1>4, <1>5, <2>1, <2>2, NothingStepped
<1>8. AtGiven(r)'
  <2>1. \A q \in Own[r] : AtWork(q)' => q = p
    BY <1>1, <1>4, ScenariosAssumption DEF AtIdle, HandsFree, AtWork, OnlyCall
  <2>. QED  BY <1>4, <1>6, <2>1 DEF AtGiven, NothingManaged
<1>9. OnCourse(r)'
  BY <1>6, <1>8 DEF OnCourse
<1>10. Holds(r)' = {call'[p].id} /\ Holds(r) = {}
  <2>1. Agents(r)' = {p}
    BY <1>3, <1>6, <1>8 DEF Agents, AtGiven, Listing
  <2>. QED  BY <1>1, <1>2, <1>6, <2>1, AgentsAtSteps DEF Holds, AtIdle, NothingManaged
<1>11. {p} \cap Lambdas = {} /\ world[r].awaits \notin Lambdas
  BY <1>1, <1>3, ScenariosAssumption DEF Lambdas, AtIdle
<1>. QED  BY <1>1, <1>2, <1>4, <1>6, <1>7, <1>9, <1>10, <1>11, OneRunMoves

(* Where nothing steps but the run: its demo is stored, or its Given, its  *)
(* scan or its clean-up is over.                                           *)
LEMMA RunMovesAlone ==
  ASSUME RunsInv, NEW r \in Runners, OnCourse(r)', NoDeletionFails,
         table' = table /\ used' = used /\ call' = call /\ http' = http,
         \A s \in Runners \ {r} : world'[s] = world[s],
         Holds(r)' = Holds(r),
         world'[r].awaits \in {None, world[r].awaits},
         \A l \in Lambdas : l = world[r].awaits => ~Serving(l) /\ ~AtWork(l)
  PROVE  RunsInv'
<1>1. ByRun(r, {})
  BY NothingStepped
<1>2. \A l \in Lambdas : l = world[r].awaits => ~Serving(l)' /\ ~AtWork(l)'
  BY DEF Serving, AtWork
<1>. QED  BY <1>1, <1>2, OneRunMoves DEF RunsInv, Owned

LEMMA DemoGivenMoves ==
  ASSUME TypesInv, RunsInv, NEW r \in Runners, DemoGiven(r)
  PROVE  RunsInv'
<1>1. OnCourse(r) /\ AtGiven(r)
  BY DEF RunsInv, OnCourse, AtIdle, AtReady, AtAsked, AtListing, Listing, AtCleaning, DemoGiven
<1>2. PICK p \in Own[r] : p = world[r].awaits
  BY <1>1 DEF AtGiven
<1>3. p \in Procs /\ p \notin Lambdas
  BY ScenariosAssumption DEF Lambdas
<1>4. /\ CreatesTemplate(p) /\ call[p].pc = "returned" /\ call[p].result = "ok"
      /\ Latest(call[p].id) = GivenItem /\ Saved(call[p]) = GivenItem
      /\ call[p].id \in Ids \ {Absent}
  BY <1>1, <1>2, SavedTemplate DEF AtGiven, DemoGiven, CreatesTemplate, Free, Ended
<1>5. UNCHANGED <<table, used, call, http>>
  BY DEF DemoGiven, handlerVars, vars
<1> DEFINE given == [world[r] EXCEPT
              !.step = "ready", !.awaits = None, !.demo = call[p].id, !.item = Saved(call[p]),
              !.managed = world[r].managed \cup {call[p].id}, !.default = call[p].id]
<1>6. world' = [world EXCEPT ![r] = given]
  BY <1>2, <1>4 DEF DemoGiven, TypesInv
<1>7. /\ world'[r].step = "ready" /\ world'[r].awaits = None
      /\ world'[r].demo = call[p].id /\ world'[r].item = GivenItem
      /\ world'[r].managed = {call[p].id} /\ world'[r].default = call[p].id
      /\ world'[r].name = world[r].name /\ ~world'[r].failed
      /\ \A s \in Runners \ {r} : world'[s] = world[s]
  <2>1. world'[r] = given /\ \A s \in Runners \ {r} : world'[s] = world[s]
    <3>. HIDE DEF given
    <3>. QED  BY <1>6, OtherWorlds
  <2>2. world[r].managed = {} /\ ~world[r].failed /\ world[r] \in World
    BY <1>1 DEF TypesInv, OnCourse, AtGiven, NothingManaged
  <2>. QED  BY <1>4, <2>1, <2>2 DEF World
<1>8. HandsFree(r)'
  BY <1>1, <1>2, <1>4, <1>5 DEF AtGiven, HandsFree, AtWork, Awaits
<1>9. AtReady(r)'
  BY <1>1, <1>4, <1>5, <1>7, <1>8 DEF AtGiven, AtReady, HasDemo, Intact, Latest
<1>10. OnCourse(r)'
  BY <1>7, <1>9 DEF OnCourse
<1>11. Holds(r) = {call[p].id} /\ Holds(r)' = {call[p].id}
  <2>1. Agents(r) = {p}
    BY <1>1, <1>2, AgentsAtSteps
  <2>2. Agents(r)' = {}
    BY <1>7, <1>8, ScenariosAssumption DEF Agents, HandsFree
  <2>. QED  BY <1>1, <1>4, <1>7, <2>1, <2>2 DEF Holds, AtGiven, NothingManaged
<1>. QED  BY <1>2, <1>3, <1>5, <1>7, <1>10, <1>11, RunMovesAlone DEF RunsInv

LEMMA GivenNoDemoMoves ==
  ASSUME ModelInv, TypesInv, RunsInv, NEW r \in Runners, GivenNoDemo(r)
  PROVE  RunsInv'
<1>1. OnCourse(r) /\ AtIdle(r)
  BY DEF RunsInv, OnCourse, AtGiven, AtReady, AtAsked, AtListing, Listing, AtCleaning, GivenNoDemo
<1>2. UNCHANGED <<table, used, call, http>>
  BY NothingOfAbsent DEF GivenNoDemo
<1>3. world' = [world EXCEPT ![r] = [NewWorld EXCEPT !.name = "fetchAbsent", !.step = "ready",
                   !.demo = Absent, !.default = world[r].default]]
  BY DEF GivenNoDemo
<1>4. /\ world'[r].name = "fetchAbsent" /\ world'[r].step = "ready"
      /\ world'[r].demo = Absent /\ world'[r].awaits = None
      /\ world'[r].managed = {} /\ world'[r].default = None /\ ~world'[r].failed
      /\ \A s \in Runners \ {r} : world'[s] = world[s]
  BY <1>1, <1>3 DEF TypesInv, NewWorld, AtIdle, NothingManaged
<1>5. AtReady(r)'
  BY <1>1, <1>2, <1>4 DEF AtIdle, AtReady, HasDemo, NothingManaged, Intact, HandsFree, AtWork
<1>6. OnCourse(r)'
  BY <1>4, <1>5 DEF OnCourse
<1>7. Holds(r) = {} /\ Holds(r)' = {}
  <2>1. Agents(r)' = {}
    BY <1>4, <1>5, ScenariosAssumption DEF Agents, AtReady, HandsFree
  <2>. QED  BY <1>1, <1>4, <2>1, AgentsAtSteps DEF Holds, AtIdle, NothingManaged
<1>8. world[r].awaits \notin Lambdas
  BY <1>1, ScenariosAssumption DEF AtIdle, Lambdas
<1>. QED  BY <1>2, <1>4, <1>6, <1>7, <1>8, RunMovesAlone DEF RunsInv

LEMMA ScanDemosMoves ==
  ASSUME TypesInv, RunsInv, NEW r \in Runners, ScanDemos(r), misread' = {}
  PROVE  RunsInv' /\ world' \in [Runners -> World]
<1>1. OnCourse(r) /\ AtListing(r) /\ world[r].step = "asked" /\ world[r].name = "list"
  BY DEF RunsInv, OnCourse, AtIdle, AtGiven, AtReady, AtAsked, ServesFetch, ServesCreate,
     ServesUpdate, ServesDelete, AtCleaning, ScanDemos
<1>2. UNCHANGED <<table, used, call, http>>
  BY DEF ScanDemos, handlerVars, vars
<1>3. world' = [world EXCEPT ![r].step = "scanned", ![r].listed = GivenItem]
  <2>1. PICK item \in Visible(world[r].demo) :
          /\ world' = [world EXCEPT ![r].step = "scanned", ![r].listed = item]
          /\ misread' = IF item = Latest(world[r].demo) THEN misread ELSE misread \cup {world[r].demo}
    BY DEF ScanDemos
  <2>2. item = GivenItem
    BY <1>1, <2>1 DEF AtListing, Intact
  <2>. QED  BY <2>1, <2>2
<1>4. /\ world'[r] = [world[r] EXCEPT !.step = "scanned", !.listed = GivenItem]
      /\ \A s \in Runners \ {r} : world'[s] = world[s]
      /\ world[r] \in World /\ world \in [Runners -> World]
  BY <1>3 DEF TypesInv
<1>5. /\ world'[r].step = "scanned" /\ world'[r].listed = GivenItem
      /\ world'[r].awaits = world[r].awaits /\ world'[r].failed = world[r].failed
      /\ world'[r].managed = world[r].managed /\ world'[r].default = world[r].default
      /\ world'[r].name = world[r].name /\ world'[r].demo = world[r].demo
      /\ world'[r].item = world[r].item
  BY <1>4 DEF World
<1>6. AtListing(r)'
  BY <1>1, <1>2, <1>5 DEF AtListing, Listing, HasDemo, NothingManaged, HandsFree, AtWork, Serving
<1>7. OnCourse(r)'
  BY <1>1, <1>5, <1>6 DEF OnCourse
<1>8. Holds(r)' = Holds(r)
  <2>1. Agents(r) = {} /\ Agents(r)' = {}
    BY <1>1, <1>6, ScenariosAssumption DEF AtListing, HandsFree, Agents
  <2>. QED  BY <1>5, <2>1 DEF Holds
<1>9. RunsInv'
  BY <1>1, <1>2, <1>4, <1>5, <1>7, <1>8, RunMovesAlone DEF RunsInv, AtListing
<1>10. world' \in [Runners -> World]
  <2> DEFINE scanned == [world[r] EXCEPT !.step = "scanned", !.listed = GivenItem]
  <2>1. scanned \in World /\ world' = [world EXCEPT ![r] = scanned]
    BY <1>3, <1>4 DEF World
  <2>. HIDE DEF scanned
  <2>. QED  BY <1>4, <2>1
<1>. QED  BY <1>9, <1>10

LEMMA ReplyListMoves ==
  ASSUME TypesInv, RunsInv, NEW r \in Runners, ReplyList(r)
  PROVE  RunsInv' /\ world' \in [Runners -> World]
<1>1. OnCourse(r) /\ AtListing(r) /\ world[r].step = "scanned" /\ world[r].name = "list"
  BY DEF RunsInv, OnCourse, AtIdle, AtGiven, AtReady, AtAsked, AtListing, Listing, AtCleaning,
     ReplyList
<1>2. UNCHANGED <<table, used, call, http>>
  BY DEF ReplyList, handlerVars, vars
<1>3. world[r].item = GivenItem /\ world[r].listed = GivenItem
  BY <1>1 DEF AtListing, HasDemo
<1> DEFINE passes == Answers("list", 200, world[r].demo, world[r].listed, world[r])
           replied == [world[r] EXCEPT !.step = "cleaning", !.awaits = None, !.listed = None,
                         !.failed = world[r].failed \/ ~passes]
<1>4. world' = [world EXCEPT ![r] = replied]
  BY DEF ReplyList
<1>5. passes
  BY <1>3 DEF Answers
<1>6. /\ world'[r] = replied /\ \A s \in Runners \ {r} : world'[s] = world[s]
      /\ world[r] \in World /\ world \in [Runners -> World]
  <2>. HIDE DEF replied
  <2>. QED  BY <1>4 DEF TypesInv
<1>7. /\ world'[r].step = "cleaning" /\ world'[r].awaits = None /\ ~world'[r].failed
      /\ world'[r].managed = world[r].managed /\ world'[r].default = world[r].default
      /\ replied \in World
  <2>. HIDE DEF passes
  <2>. QED  BY <1>1, <1>5, <1>6 DEF World, OnCourse
<1>8. HandsFree(r)'
  BY <1>1, <1>2 DEF AtListing, HandsFree, AtWork
<1>9. AtCleaning(r)'
  BY <1>1, <1>7, <1>8 DEF AtListing, HasDemo, AtCleaning, HandsFree, NothingManaged
<1>10. OnCourse(r)'
  BY <1>7, <1>9 DEF OnCourse
<1>11. Holds(r)' = Holds(r)
  <2>1. Agents(r) = {} /\ Agents(r)' = {}
    BY <1>1, <1>7, <1>8, AgentsAtSteps, ScenariosAssumption DEF Agents, HandsFree
  <2>. QED  BY <1>7, <2>1 DEF Holds
<1>12. RunsInv'
  BY <1>1, <1>2, <1>6, <1>7, <1>10, <1>11, RunMovesAlone DEF RunsInv, AtListing
<1>13. world' \in [Runners -> World]
  <2>. HIDE DEF replied
  <2>. QED  BY <1>4, <1>6, <1>7
<1>. QED  BY <1>12, <1>13

LEMMA CleanedUpMoves ==
  ASSUME TypesInv, RunsInv, NEW r \in Runners, CleanedUp(r)
  PROVE  RunsInv'
<1>1. OnCourse(r) /\ AtCleaning(r) /\ world[r].managed = {} /\ world[r].default = None
  BY DEF RunsInv, OnCourse, AtIdle, AtGiven, AtReady, AtAsked, AtListing, Listing, AtCleaning,
     CleanedUp
<1>2. UNCHANGED <<table, used, call, http>>
  BY DEF CleanedUp, handlerVars, vars
<1>3. ~ \E p \in Own[r] : Ended(p, "deleteCompletely", "Error")
  BY ScenariosAssumption DEF RunsInv, NoDeletionFails, Ended
<1>4. /\ world'[r] = [NewWorld EXCEPT !.demo = world[r].demo, !.default = None, !.failed = FALSE]
      /\ \A s \in Runners \ {r} : world'[s] = world[s]
  BY <1>1, <1>3 DEF TypesInv, CleanedUp, OnCourse
<1>5. /\ world'[r].step = "idle" /\ world'[r].awaits = None /\ ~world'[r].failed
      /\ world'[r].managed = {} /\ world'[r].default = None
  BY <1>4 DEF NewWorld
<1>6. HandsFree(r) /\ HandsFree(r)'
  BY <1>2, ScenariosAssumption DEF CleanedUp, HandsFree, AtWork, Free, Awaits
<1>7. OnCourse(r)'
  BY <1>5, <1>6 DEF OnCourse, AtIdle, NothingManaged
<1>8. Holds(r)' = Holds(r)
  <2>1. Agents(r) = {} /\ Agents(r)' = {}
    BY <1>1, <1>5, <1>6, ScenariosAssumption DEF Agents, HandsFree, AtCleaning
  <2>. QED  BY <1>1, <1>5, <2>1 DEF Holds
<1>9. world[r].awaits \notin Lambdas
  BY <1>1, ScenariosAssumption DEF AtCleaning, Lambdas
<1>. QED  BY <1>2, <1>4, <1>5, <1>7, <1>8, <1>9, RunMovesAlone DEF RunsInv

(* Calls that read first, as they are when they start.                     *)
LEMMA StartedReading ==
  ASSUME TypesInv, NEW p \in Procs, NEW op, NEW id, NEW body,
         Start(p, op, "get", id, body, 0, 0)
  PROVE  /\ OnlyCall(p) /\ Free(p)
         /\ call'[p].op = op /\ call'[p].pc = "get" /\ call'[p].id = id
         /\ call'[p].body = body /\ call'[p].result = "none"
<1>1. call'[p] = [op |-> op, pc |-> "get", id |-> id, body |-> body, version |-> 0,
                  latest |-> None, retry |-> 0, result |-> "none"]
  BY DEF Start, TypesInv, TypeInv, TypeOK
<1>. QED  BY <1>1 DEF Start, OnlyCall, TypesInv, TypeInv, TypeOK

(* The request of a run arrives at a function.                             *)
LEMMA RequestArrives ==
  ASSUME ~Collisions, TypesInv, RunsInv, NEW r \in Runners, NEW l \in Lambdas,
         AtReady(r), world[r].name # "list", Asked(r, l),
         world'[r].name = world[r].name, world'[r].demo = world[r].demo, Intact(r)'
  PROVE  /\ ~Serving(l) /\ table' = table /\ used \subseteq used' /\ OnlyCall(l)
         /\ \A q \in Procs \ {l} : http'[q] = http[q]
         /\ (ServesFetch(r, l) \/ ServesCreate(r, l) \/ ServesUpdate(r, l) \/ ServesDelete(r, l))'
         /\ call'[l].id = world[r].demo \/ (call'[l].id \in used' \ used)
         /\ call'[l].result # "Error"
<1>0. l \in Procs /\ http \in [Procs -> Request]
  BY DEF TypesInv, Lambdas
<1>1. ASSUME NEW method, NEW id, NEW demo, Receive(l, method, id, demo)
      PROVE  /\ ~Serving(l) /\ \A q \in Procs \ {l} : http'[q] = http[q]
             /\ http'[l].method = method /\ http'[l].demo = demo /\ http'[l].stage = "first"
  BY <1>0, <1>1 DEF Receive, NewlyReceived
<1>2. ASSUME NEW id \in Ids, StartGet(l), call'[l].id = id
      PROVE  /\ table' = table /\ used' = used /\ OnlyCall(l)
             /\ call'[l].op = "get" /\ call'[l].pc = "get" /\ call'[l].result = "none"
  BY <1>0, <1>2, StartedReading DEF StartGet
<1>3. HasDemo(r)
  BY DEF AtReady
<1>4. CASE world[r].name \in {"fetch", "fetchAbsent"}
  <2>1. PICK id \in Ids : /\ Receive(l, "GET", id, None) /\ StartGet(l) /\ call'[l].id = id
                          /\ id = world[r].demo
    BY <1>4 DEF Asked, ReceiveGet
  <2>2. ServesFetch(r, l)'
    BY <1>1, <1>2, <1>4, <2>1 DEF ServesFetch, GetsDemo
  <2>. QED  BY <1>1, <1>2, <1>3, <2>1, <2>2
<1>5. CASE world[r].name = "create"
  <2>1. /\ Receive(l, "POST", None, None) /\ call'[l].body = Template /\ call'[l].id # Absent
        /\ StartCreate(l) \/ RefuseCreate(l)
    BY <1>5 DEF Asked, ReceivePost
  <2>2. ~RefuseCreate(l)
    <3> SUFFICES ASSUME RefuseCreate(l) PROVE FALSE
      OBVIOUS
    <3>1. PICK body \in Bodies :
            /\ ~Valid([body EXCEPT !.status = "Created"])
            /\ call' = [call EXCEPT ![l] = [Idle EXCEPT !.op = "create",
                          !.pc = "returned", !.body = body, !.result = "BadRequest"]]
      BY DEF RefuseCreate
    <3>2. call'[l].body = body
      BY <1>0, <3>1 DEF TypesInv, TypeInv, TypeOK, Idle
    <3>. QED  BY <2>1, <3>1, <3>2, TemplateIsBody
  <2>3. /\ CreatesTemplate(l)' /\ call'[l].pc = "save" /\ table' = table
        /\ call'[l].id \notin used /\ used' = used \cup {call'[l].id}
        /\ OnlyCall(l) /\ call'[l].result # "Error"
    BY <1>0, <2>1, <2>2, StartedCreate
  <2>4. world[r].demo \in used
    BY <1>3, <1>5 DEF HasDemo, RunsInv, Owned, Holds
  <2>5. ServesCreate(r, l)'
    BY <1>1, <1>5, <2>1, <2>3, <2>4 DEF ServesCreate
  <2>. QED  BY <1>1, <1>3, <2>1, <2>3, <2>5
<1>6. CASE world[r].name = "update"
  <2>1. PICK id \in Ids, demo \in Demo :
          /\ Receive(l, "PUT", id, demo) /\ StartGet(l) /\ call'[l].id = id /\ demo.id = id
          /\ http'[l].demo = [id |-> world[r].demo, body |-> Edited(world[r].item)]
    BY <1>6 DEF Asked, ReceivePut
  <2>2. id = world[r].demo /\ world[r].item = GivenItem
    BY <1>1, <1>3, <1>6, <2>1 DEF HasDemo
  <2>3. ServesUpdate(r, l)'
    BY <1>1, <1>2, <1>6, <2>1, <2>2 DEF ServesUpdate, GetsDemo
  <2>. QED  BY <1>1, <1>2, <1>3, <2>1, <2>2, <2>3
<1>7. CASE world[r].name = "delete"
  <2>1. PICK id \in Ids : /\ Receive(l, "DELETE", id, None) /\ StartGet(l) /\ call'[l].id = id
                          /\ id = world[r].demo
    BY <1>7 DEF Asked, ReceiveDelete
  <2>2. ServesDelete(r, l)'
    BY <1>1, <1>2, <1>7, <2>1 DEF ServesDelete, GetsDemo
  <2>. QED  BY <1>1, <1>2, <1>3, <2>1, <2>2
<1>. QED  BY <1>3, <1>4, <1>5, <1>6, <1>7 DEF HasDemo, Names

LEMMA AskListMoves ==
  ASSUME TypesInv, RunsInv, NEW r \in Runners, Ask(r), world[r].name = "list"
  PROVE  RunsInv'
<1>1. OnCourse(r) /\ AtReady(r)
  BY DEF RunsInv, OnCourse, AtIdle, AtGiven, AtAsked, AtListing, Listing, AtCleaning, Ask
<1>2. PICK l \in Lambdas :
        /\ \A q \in Runners : world[q].awaits # l
        /\ world' = [world EXCEPT ![r].step = "asked", ![r].awaits = l]
        /\ UNCHANGED handlerVars
  BY DEF Ask
<1>3. /\ world'[r].step = "asked" /\ world'[r].awaits = l /\ ~world'[r].failed
      /\ world'[r].managed = world[r].managed /\ world'[r].default = world[r].default
      /\ world'[r].name = "list" /\ world'[r].demo = world[r].demo
      /\ world'[r].item = world[r].item
      /\ \A s \in Runners \ {r} : world'[s] = world[s]
  BY <1>1, <1>2 DEF TypesInv, World, OnCourse
<1>4. UNCHANGED <<table, used, call, http>>
  BY <1>2 DEF handlerVars, vars
<1>5. ~Serving(l) /\ ~AtWork(l) /\ l \in Procs
  BY <1>2 DEF RunsInv, Owned, Lambdas
<1>6. AtListing(r)'
  BY <1>1, <1>3, <1>4, <1>5 DEF AtReady, AtListing, Listing, HasDemo, NothingManaged, Intact,
     Latest, HandsFree, AtWork, Serving
<1>7. OnCourse(r)'
  BY <1>3, <1>6 DEF OnCourse
<1>8. Holds(r)' = Holds(r)
  <2>1. Agents(r) = {} /\ Agents(r)' = {}
    BY <1>1, <1>6, AgentsAtSteps, ScenariosAssumption DEF AtListing, HandsFree, Agents
  <2>. QED  BY <1>3, <2>1 DEF Holds
<1>9. ByRun(r, {l})
  <2>1. {l} \subseteq Unasked /\ used \subseteq used'
    BY <1>2, <1>4 DEF Unasked
  <2>2. \A q \in Procs \ {l} : call'[q] = call[q] /\ http'[q] = http[q]
    BY <1>4
  <2>. QED  BY <1>3, <1>4, <2>1, <2>2, NothingStepped
<1>10. world[r].awaits = None /\ None \notin Lambdas
  BY <1>1, ScenariosAssumption DEF AtReady, Lambdas
<1>. QED  BY <1>3, <1>4, <1>7, <1>8, <1>9, <1>10, OneRunMoves
          DEF RunsInv, NoDeletionFails

LEMMA AskMoves ==
  ASSUME ~Collisions, TypesInv, RunsInv, NEW r \in Runners, Ask(r), world[r].name # "list"
  PROVE  RunsInv'
<1>1. OnCourse(r) /\ AtReady(r)
  BY DEF RunsInv, OnCourse, AtIdle, AtGiven, AtAsked, AtListing, Listing, AtCleaning, Ask
<1>2. PICK l \in Lambdas :
        /\ \A q \in Runners : world[q].awaits # l
        /\ Asked(r, l) /\ world' = [world EXCEPT ![r].step = "asked", ![r].awaits = l]
  BY DEF Ask
<1>3. /\ world'[r].step = "asked" /\ world'[r].awaits = l /\ ~world'[r].failed
      /\ world'[r].managed = world[r].managed /\ world'[r].default = world[r].default
      /\ world'[r].name = world[r].name /\ world'[r].demo = world[r].demo
      /\ world'[r].item = world[r].item
      /\ \A s \in Runners \ {r} : world'[s] = world[s]
  BY <1>1, <1>2 DEF TypesInv, World, OnCourse
<1>4. table' = table
  BY <1>2, <1>1 DEF Asked, ReceiveGet, ReceivePost, ReceivePut, ReceiveDelete, StartGet,
     StartCreate, RefuseCreate, AtReady, HasDemo, Names
<1>5. Intact(r)' /\ HasDemo(r)'
  BY <1>1, <1>3, <1>4 DEF AtReady, Intact, HasDemo, NothingManaged, Latest
<1>6. /\ ~Serving(l) /\ used \subseteq used' /\ OnlyCall(l)
      /\ \A q \in Procs \ {l} : http'[q] = http[q]
      /\ (ServesFetch(r, l) \/ ServesCreate(r, l) \/ ServesUpdate(r, l) \/ ServesDelete(r, l))'
      /\ call'[l].id = world[r].demo \/ (call'[l].id \in used' \ used)
      /\ call'[l].result # "Error"
  BY <1>1, <1>2, <1>3, <1>5, RequestArrives
<1>7. l \in Procs /\ Own[r] \subseteq Procs \ {l}
  BY ScenariosAssumption DEF Lambdas
<1>8. HandsFree(r)'
  BY <1>1, <1>6, <1>7 DEF AtReady, HandsFree, AtWork, OnlyCall
<1>9. AtAsked(r)' /\ OnCourse(r)'
  BY <1>3, <1>5, <1>6, <1>8 DEF AtAsked, OnCourse
<1>10. Holds(r)' \subseteq Holds(r) \cup (used' \ used) /\ Holds(r) \subseteq Holds(r)'
  <2>1. Agents(r) = {} /\ Agents(r)' = {l}
    BY <1>1, <1>3, <1>7, <1>8, AgentsAtSteps DEF Agents, HandsFree, Listing
  <2>2. world[r].demo \in world[r].managed \cup {Absent}
    BY <1>1 DEF AtReady, HasDemo
  <2>. QED  BY <1>3, <1>6, <2>1, <2>2 DEF Holds
<1>11. ByRun(r, {l})
  <2>1. \A q \in Procs \ {l} : call'[q] = call[q] /\ http'[q] = http[q]
    BY <1>6 DEF OnlyCall
  <2>2. {l} \subseteq Unasked
    BY <1>2 DEF Unasked
  <2>. QED  BY <1>3, <1>4, <1>6, <2>1, <2>2, NothingStepped
<1>12. world[r].awaits = None /\ None \notin Lambdas
  BY <1>1, ScenariosAssumption DEF AtReady, Lambdas
<1>. QED  BY <1>3, <1>6, <1>9, <1>10, <1>11, <1>12, OneRunMoves

(* The answer is the one that the feature expects.                         *)
LEMMA AnswerComesTrue ==
  ASSUME RunsInv, NEW r \in Runners, AtAsked(r), NEW l, l = world[r].awaits, Respond(l)
  PROVE  LET status == StatusOf(http[l].method, call[l].result)
             item == IF http[l].method = "GET" THEN call[l].latest ELSE Saved(call[l])
         IN  /\ Answers(world[r].name, status, call[l].id, item, world[r])
             /\ call[l].id = world[r].demo \/ (world[r].name = "create" /\ status = 201)
             /\ world[r].name = "create" =>
                  status = 201 /\ call[l].id \in Ids \ (world[r].managed \cup {Absent})
<1>1. call[l].pc = "returned" /\ LastCall(l)
  BY DEF Respond
<1>2. \A method \in {"GET", "POST", "PUT", "DELETE"} :
         /\ StatusOf(method, "ok") = Success[method]
         /\ StatusOf(method, "NotFound") = 404
  BY DEF StatusOf
<1>3. Success["GET"] = 200 /\ Success["POST"] = 201 /\ Success["PUT"] = 200
      /\ Success["DELETE"] = 204
  BY DEF Success
<1>4. CASE ServesFetch(r, l)
  <2>1. CASE world[r].name = "fetchAbsent"
    <3>1. http[l].method = "GET" /\ call[l].result = "NotFound" /\ call[l].id = world[r].demo
      BY <1>1, <1>4, <2>1 DEF ServesFetch, GetsDemo
    <3>. QED  BY <1>2, <2>1, <3>1 DEF Answers
  <2>2. CASE world[r].name = "fetch"
    <3>1. /\ http[l].method = "GET" /\ call[l].result = "ok" /\ call[l].latest = GivenItem
          /\ call[l].id = world[r].demo
      BY <1>1, <1>4, <2>2 DEF ServesFetch, GetsDemo
    <3>2. world[r].item = GivenItem
      BY <2>2 DEF AtAsked, HasDemo
    <3>. QED  BY <1>2, <1>3, <2>2, <3>1, <3>2 DEF Answers
  <2>. QED  BY <1>4, <2>1, <2>2 DEF ServesFetch
<1>5. CASE ServesCreate(r, l)
  <2>1. /\ http[l].method = "POST" /\ call[l].result = "ok" /\ world[r].name = "create"
        /\ call[l].id \in Ids \ {Absent} /\ call[l].id # world[r].demo
        /\ Saved(call[l]) = GivenItem
    BY <1>1, <1>5, SavedTemplate DEF ServesCreate, CreatesTemplate, Ended
  <2>2. world[r].managed = {world[r].demo}
    BY <2>1 DEF AtAsked, HasDemo
  <2>. QED  BY <1>2, <1>3, <2>1, <2>2 DEF Answers, GivenItem
<1>6. CASE ServesUpdate(r, l)
  <2>1. http[l].method = "PUT" /\ world[r].name = "update" /\ world[r].item = GivenItem
    BY <1>6 DEF ServesUpdate, AtAsked, HasDemo
  <2>2. ~GetsDemo(r, l)
    BY <1>1, <2>1 DEF GetsDemo, LastCall
  <2>3. /\ call[l].result = "ok" /\ call[l].latest = GivenItem /\ call[l].op = "update"
        /\ call[l].body = Edited(GivenItem) /\ call[l].id = world[r].demo
    BY <1>1, <1>6, <2>2 DEF ServesUpdate, UpdatesDemo, Ended
  <2>4. Saved(call[l]) = [version |-> 2, body |-> Edited(GivenItem)]
    BY <2>3 DEF Saved, Updated, GivenItem
  <2>. QED  BY <1>2, <1>3, <2>1, <2>3, <2>4 DEF Answers
<1>7. CASE ServesDelete(r, l)
  <2>1. http[l].method = "DELETE" /\ world[r].name = "delete"
    BY <1>7 DEF ServesDelete
  <2>2. ~GetsDemo(r, l)
    BY <1>1, <2>1 DEF GetsDemo, LastCall
  <2>3. call[l].result = "ok" /\ call[l].id = world[r].demo
    BY <1>1, <1>7, <2>2 DEF ServesDelete, DeletesDemo, Ended
  <2>. QED  BY <1>2, <1>3, <2>1, <2>3 DEF Answers
<1>. QED  BY <1>4, <1>5, <1>6, <1>7 DEF AtAsked

LEMMA ReplyMoves ==
  ASSUME TypesInv, RunsInv, NEW r \in Runners, Reply(r)
  PROVE  RunsInv'
<1>1. OnCourse(r) /\ AtAsked(r)
  BY DEF RunsInv, OnCourse, AtIdle, AtGiven, AtReady, AtListing, Listing, AtCleaning, Reply
<1>2. PICK l \in Lambdas : l = world[r].awaits
  BY <1>1 DEF AtAsked
<1>3. l \in Procs
  BY DEF Lambdas
<1> DEFINE status == StatusOf(http[l].method, call[l].result)
           item == IF http[l].method = "GET" THEN call[l].latest ELSE Saved(call[l])
           passes == Answers(world[r].name, status, call[l].id, item, world[r])
           managed == Managed(world[r], status, call[l].id)
           replied == [world[r] EXCEPT !.step = "cleaning", !.awaits = None,
                         !.managed = managed, !.failed = world[r].failed \/ ~passes]
<1>4. Respond(l) /\ world' = [world EXCEPT ![r] = replied]
  BY <1>2 DEF Reply
<1>5. /\ passes
      /\ call[l].id = world[r].demo \/ (world[r].name = "create" /\ status = 201)
      /\ world[r].name = "create" =>
           status = 201 /\ call[l].id \in Ids \ (world[r].managed \cup {Absent})
  BY <1>1, <1>2, <1>4, AnswerComesTrue
<1>6. /\ world'[r].step = "cleaning" /\ world'[r].awaits = None /\ ~world'[r].failed
      /\ world'[r].managed = managed /\ world'[r].default = world[r].default
      /\ \A s \in Runners \ {r} : world'[s] = world[s]
  <2>1. world'[r] = replied /\ \A s \in Runners \ {r} : world'[s] = world[s]
    <3>. HIDE DEF replied
    <3>. QED  BY <1>4, OtherWorlds
  <2>2. world[r] \in World /\ ~world[r].failed
    BY <1>1 DEF TypesInv, OnCourse
  <2>. HIDE DEF passes, managed
  <2>. QED  BY <1>5, <2>1, <2>2 DEF World
<1>7. UNCHANGED <<table, used, call>> /\ \A q \in Procs \ {l} : http'[q] = http[q]
  BY <1>4 DEF Respond, Answer, vars, TypesInv
<1>8. ~Serving(l)' /\ ~AtWork(l)' /\ ~AtWork(l)
  BY <1>3, <1>4, <1>7 DEF Respond, Answer, Replied, Serving, AtWork, TypesInv, Request, Awaits
<1>9. HandsFree(r)' /\ HandsFree(r)
  BY <1>1, <1>7 DEF AtAsked, HandsFree, AtWork
<1>10. /\ managed = world[r].managed \/ managed = world[r].managed \cup {call[l].id}
       /\ world[r].name = "create" => call[l].id \in managed
       /\ managed # world[r].managed => call[l].id # Absent
  BY <1>5 DEF Managed
<1>11. AtCleaning(r)'
  <2>1. world[r].default \in world[r].managed \cup {None} /\ Absent \notin world[r].managed
    BY <1>1 DEF AtAsked, HasDemo, NothingManaged
  <2>. HIDE DEF managed
  <2>. QED  BY <1>6, <1>9, <1>10, <2>1 DEF AtCleaning, HandsFree
<1>12. OnCourse(r)'
  BY <1>6, <1>11 DEF OnCourse
<1>13. Holds(r)' = Holds(r)
  <2>1. Agents(r) = {l} /\ Agents(r)' = {}
    BY <1>1, <1>2, <1>6, <1>9, AgentsAtSteps, ScenariosAssumption DEF Agents, HandsFree
  <2>2. world[r].demo \in world[r].managed \cup {Absent}
    BY <1>1 DEF AtAsked, HasDemo
  <2>. HIDE DEF managed, status
  <2>. QED  BY <1>5, <1>6, <1>10, <2>1, <2>2 DEF Holds
<1>14. ByRun(r, {l})
  BY <1>2, <1>6, <1>7, NothingStepped
<1>. QED  BY <1>2, <1>6, <1>7, <1>8, <1>12, <1>13, <1>14, OneRunMoves
          DEF RunsInv, Owned, NoDeletionFails

(* A clean-up starts one deletion after the other.                         *)
LEMMA CleanUpMoves ==
  ASSUME TypesInv, RunsInv, NEW r \in Runners, CleanUp(r)
  PROVE  RunsInv'
<1>1. OnCourse(r) /\ AtCleaning(r)
  BY DEF RunsInv, OnCourse, AtIdle, AtGiven, AtReady, AtAsked, AtListing, Listing, CleanUp
<1>2. PICK id \in world[r].managed, p \in Own[r] :
        /\ StartDeleteCompletely(p) /\ call'[p].id = id
        /\ world' = [world EXCEPT ![r].managed = @ \ {id}, ![r].default = None]
  BY DEF CleanUp
<1>3. p \in Procs /\ Own[r] \subseteq Procs
  BY ScenariosAssumption
<1>4. /\ world'[r].step = "cleaning" /\ world'[r].awaits = None /\ ~world'[r].failed
      /\ world'[r].managed = world[r].managed \ {id} /\ world'[r].default = None
      /\ \A s \in Runners \ {r} : world'[s] = world[s]
  BY <1>1, <1>2 DEF TypesInv, World, OnCourse, AtCleaning
<1>5. /\ OnlyCall(p) /\ Free(p) /\ call'[p].op = "deleteCompletely" /\ call'[p].pc = "get"
      /\ call'[p].result # "Error" /\ table' = table /\ used' = used /\ http' = http
  BY <1>2, <1>3, StartedReading DEF StartDeleteCompletely, CleanUp
<1>6. ~AtWork(p) /\ AtWork(p)' /\ \A q \in Own[r] : q # p => call'[q] = call[q]
  BY <1>3, <1>5 DEF AtWork, Free, Awaits, OnlyCall
<1>7. id # Absent /\ \A q \in Own[r] : AtWork(q) => call[q].id # id
  BY <1>1 DEF AtCleaning
<1>8. AtCleaning(r)' /\ OnCourse(r)'
  <2>1. ASSUME NEW q \in Own[r], AtWork(q)'
        PROVE  /\ call'[q].op = "deleteCompletely"
               /\ call'[q].id \notin world'[r].managed \cup {Absent}
               /\ \A t \in Own[r] : AtWork(t)' /\ call'[t].id = call'[q].id => t = q
    <3>1. CASE q = p
      <4>1. \A t \in Own[r] : t # p => (AtWork(t)' <=> AtWork(t)) /\ call'[t] = call[t]
        BY <1>6 DEF AtWork
      <4>2. \A t \in Own[r] : AtWork(t)' /\ call'[t].id = id => t = p
        BY <1>7, <4>1
      <4>. QED  BY <1>2, <1>4, <1>5, <1>7, <3>1, <4>2
    <3>2. CASE q # p
      <4>1. call'[q] = call[q] /\ AtWork(q) /\ call[q].id # id
        BY <1>6, <1>7, <2>1, <3>2 DEF AtWork
      <4>2. \A t \in Own[r] : AtWork(t)' /\ call'[t].id = call[q].id => AtWork(t) /\ call'[t] = call[t]
        BY <1>2, <1>6, <4>1 DEF AtWork
      <4>. QED  BY <1>1, <1>4, <4>1, <4>2 DEF AtCleaning
    <3>. QED  BY <3>1, <3>2
  <2>. QED  BY <1>1, <1>4, <2>1 DEF AtCleaning, OnCourse
<1>9. Holds(r)' = Holds(r)
  <2>1. Agents(r)' = Agents(r) \cup {p}
    BY <1>1, <1>3, <1>4, <1>6 DEF Agents, AtWork, AtCleaning, Listing
  <2>2. p \notin Agents(r)
    BY <1>1, <1>3, <1>6, ScenariosAssumption DEF Agents, AtCleaning
  <2>3. \A q \in Agents(r) : call'[q].id = call[q].id
    BY <1>5, <2>2 DEF OnlyCall, Agents
  <2>4. {call'[q].id : q \in Agents(r)'} = {call[q].id : q \in Agents(r)} \cup {id}
    BY <1>2, <2>1, <2>3
  <2>. QED  BY <1>4, <2>4 DEF Holds
<1>10. ByRun(r, {p})
  BY <1>4, <1>5, NothingStepped DEF OnlyCall
<1>11. {p} \cap Lambdas = {} /\ world[r].awaits \notin Lambdas
  BY <1>1, <1>3, ScenariosAssumption DEF Lambdas, AtCleaning
<1>. QED  BY <1>4, <1>5, <1>8, <1>9, <1>10, <1>11, OneRunMoves DEF RunsInv, Owned

-----------------------------------------------------------------------------
(* The steps of the calls that work for a run.                             *)

(* No other call is about to write the demo that an agent works on.        *)
LEMMA AgentAlone ==
  ASSUME RunsInv, NEW r \in Runners, NEW p \in Agents(r), call[p].id # Absent, AtWork(p),
         NEW q \in Procs, Writing(q), call[q].id = call[p].id
  PROVE  q = p
<1>1. PICK s \in Runners : q \in Agents(s) /\ call[q].id \in Holds(s)
  BY WritersAreAgents
<1>2. call[p].id \in Holds(r)
  BY DEF Holds
<1>3. s = r
  BY <1>1, <1>2 DEF RunsInv, RunsApart
<1>4. AtWork(q)
  BY DEF Writing, Creating, Updating, Deleting, AtWork, Awaits
<1>5. OnCourse(r)
  BY DEF RunsInv
<1>6. AtCleaning(r) => q = p
  BY <1>1, <1>3, <1>4, <1>5, AgentsAtSteps DEF AtCleaning
<1>. QED  BY <1>1, <1>3, <1>5, <1>6, AgentsAtSteps DEF OnCourse

(* A step of an agent that goes on with the demo it works on.              *)
LEMMA AgentSteps ==
  ASSUME ~Collisions, ModelInv, RunsInv, NEW r \in Runners, NEW p \in Agents(r), Step(p),
         \A q \in Procs \ {p} : http'[q] = http[q], world' = world,
         call'[p].id = call[p].id, OnCourse(r)',
         call[p].op = "deleteCompletely" => call'[p].result # "Error",
         p \in Own[r] /\ p # world[r].awaits /\ ~AtWork(p)' => RowsOf(call[p].id)' = {},
         call[p].id = Absent => table' = table
  PROVE  RunsInv'
<1>0. p \in Procs /\ AtWork(p) /\ call'[p].op = call[p].op
  BY StepOfCall DEF Agents, AtWork, ModelInv
<1>1. OnlyCall(p) /\ used' = used /\ \A other : other # call[p].id => SameDemo(other)
  BY <1>0, StepStaysPut
<1>2. \A id : id \notin Holds(r) => SameDemo(id)
  <2>1. CASE call[p].id = Absent
    BY <2>1 DEF SameDemo, RowsOf, Latest
  <2>2. CASE call[p].id # Absent
    BY <1>1, <2>2 DEF Holds
  <2>. QED  BY <2>1, <2>2
<1>3. Agents(r)' \subseteq Agents(r) /\ Agents(r) \ {p} \subseteq Agents(r)'
  BY <1>0, <1>1 DEF Agents, AtWork, Listing, OnlyCall
<1>4. \A q \in Agents(r) : call'[q].id = call[q].id
  BY <1>1 DEF OnlyCall, Agents
<1>5. Holds(r)' \subseteq Holds(r)
  BY <1>3, <1>4 DEF Holds
<1>6. ASSUME NEW id \in Holds(r) \ Holds(r)'
      PROVE  RowsOf(id)' = {}
  <2>1. p \notin Agents(r)' /\ id = call[p].id
    BY <1>3, <1>4, <1>6 DEF Holds
  <2>2. p # world[r].awaits /\ ~AtWork(p)' /\ p \in Own[r]
    <3>1. ~Listing(r)
      BY AgentsAtSteps DEF RunsInv, OnCourse, AtIdle, AtGiven, AtReady, AtAsked, AtCleaning,
         Listing, ServesFetch, ServesCreate, ServesUpdate, ServesDelete
    <3>. QED  BY <1>0, <2>1, <3>1 DEF Agents, Listing
  <2>. QED  BY <2>1, <2>2
<1>7. ByRun(r, {p})
  BY <1>1, <1>2 DEF ByRun, OnlyCall, Agents
<1>8. \A l \in Lambdas \cap {p, world[r].awaits} : l = world[r].awaits
  BY ScenariosAssumption DEF Agents, Lambdas
<1>. QED  BY <1>0, <1>5, <1>6, <1>7, <1>8, OneRunMoves DEF RunsInv, Owned, NoDeletionFails

LEMMA OwnStepMoves ==
  ASSUME ~Collisions, ScenariosInv, NEW r \in Runners, NEW p \in Own[r], Step(p), ~Misreads(p),
         http' = http, world' = world
  PROVE  RunsInv'
<1>0. /\ TypeInv /\ ModelInv /\ OrderInv /\ OneWriterPerDemo /\ RunsInv /\ OnCourse(r)
      /\ p \in Procs /\ Own[r] \subseteq Procs
  BY ScenariosAssumption, RunsTakeTurns DEF ScenariosInv, TypesInv, RunsInv
<1>1. /\ AtWork(p) /\ call'[p].op = call[p].op /\ call'[p].body = call[p].body
      /\ OnlyCall(p)
  BY <1>0, StepOfCall, StepStaysPut DEF AtWork
<1>2. p \in Agents(r)
  BY <1>0, <1>1 DEF Agents
<1>3. call[p].result # "Error" \/ call[p].op # "deleteCompletely"
  BY <1>0 DEF RunsInv, NoDeletionFails
<1>4. AtGiven(r) \/ AtCleaning(r)
  BY <1>0, <1>1, ScenariosAssumption
     DEF OnCourse, AtIdle, AtReady, AtAsked, AtListing, HandsFree
<1>5. CASE AtGiven(r)
  <2>1. p = world[r].awaits /\ CreatesTemplate(p) /\ call[p].pc = "save"
    BY <1>1, <1>5 DEF AtGiven, CreatesTemplate, Ended, AtWork, Awaits
  <2>2. /\ Ended(p, "create", "ok")' /\ call'[p].id = call[p].id
        /\ Latest(call[p].id)' = Saved(call[p])
    BY <1>0, <2>1, CreateStep DEF CreatesTemplate
  <2>3. Latest(call[p].id)' = GivenItem
    BY <2>1, <2>2, SavedTemplate
  <2>4. CreatesTemplate(p)'
    BY <1>1, <2>1, <2>2 DEF CreatesTemplate
  <2>5. \A q \in Own[r] : AtWork(q)' => q = p
    BY <1>0, <1>1, <1>5, <2>1 DEF AtGiven, AtWork, OnlyCall
  <2>6. AtGiven(r)' /\ OnCourse(r)'
    BY <1>0, <1>5, <2>1, <2>2, <2>3, <2>4, <2>5
       DEF AtGiven, OnCourse, NothingManaged, Latest
  <2>. QED  BY <1>0, <1>2, <2>1, <2>2, <2>6, AgentSteps DEF CreatesTemplate
<1>6. CASE AtCleaning(r)
  <2>1. call[p].op = "deleteCompletely" /\ call[p].id # Absent /\ p # world[r].awaits
    BY <1>0, <1>1, <1>6, ScenariosAssumption DEF AtCleaning
  <2>2. call[p].pc \in {"get", "delete"}
    BY <1>0, <1>1, <2>1 DEF AtWork, TypeInv, CallsOK, Suspended, Awaits, Awaiting
  <2>3. \A q \in Procs : Deleting(q) /\ call[p].pc = "get" => call[q].id # call[p].id
    BY <1>0, <1>1, <1>2, <2>1, AgentAlone DEF Deleting, Writing
  <2>4. /\ call'[p].id = call[p].id /\ call'[p].result # "Error"
        /\ ~AtWork(p)' => RowsOf(call[p].id)' = {}
    <3>1. CASE call[p].pc = "get"
      BY <1>0, <1>3, <2>1, <2>3, <3>1, DeletionReads DEF AtWork, Awaits
    <3>2. CASE call[p].pc = "delete"
      BY <1>0, <1>3, <2>1, <3>2, DeletionDeletes DEF AtWork, Awaits
    <3>. QED  BY <2>2, <3>1, <3>2
  <2>5. AtCleaning(r)' /\ OnCourse(r)'
    <3>1. \A q \in Own[r] : (AtWork(q)' => AtWork(q)) /\ call'[q].op = call[q].op
                            /\ call'[q].id = call[q].id
      BY <1>0, <1>1, <2>4 DEF OnlyCall, AtWork
    <3>. QED  BY <1>0, <1>6, <3>1 DEF AtCleaning, OnCourse
  <2>. QED  BY <1>0, <1>2, <2>1, <2>4, <2>5, AgentSteps
<1>. QED  BY <1>4, <1>5, <1>6

(* A call that serves a run's request goes on as the run expects.          *)
LEMMA ServedSteps ==
  ASSUME ~Collisions, ScenariosInv, NEW r \in Runners, AtAsked(r),
         NEW l \in Procs, l = world[r].awaits, Step(l), ~Misreads(l), world' = world,
         http'[l].method = http[l].method, http'[l].stage = http[l].stage,
         http'[l].demo = http[l].demo
  PROVE  /\ call'[l].id = call[l].id
         /\ call[l].op = "deleteCompletely" => call'[l].result # "Error"
         /\ call[l].id = Absent => table' = table
         /\ (ServesFetch(r, l) \/ ServesCreate(r, l) \/ ServesUpdate(r, l) \/ ServesDelete(r, l))'
<1>0. /\ TypeInv /\ ModelInv /\ OrderInv /\ OneWriterPerDemo /\ RunsInv /\ HasDemo(r)
      /\ call[l].op = "deleteCompletely" => call[l].result # "Error"
  BY RunsTakeTurns DEF ScenariosInv, TypesInv, AtAsked, RunsInv, NoDeletionFails
<1>1. /\ AtWork(l) /\ call'[l].op = call[l].op /\ call'[l].body = call[l].body
      /\ l \in Agents(r) /\ call[l].pc # "returned"
  <2>1. ~Listing(r)
    BY DEF AtAsked, Listing, ServesFetch, ServesCreate, ServesUpdate, ServesDelete
  <2>. QED  BY <1>0, <2>1, StepOfCall, StepStaysPut DEF AtWork, Agents, Awaits
<1>2. world[r].name # "fetchAbsent" /\ Intact(r) =>
        Latest(world[r].demo) = GivenItem /\ GivenItem # None /\ world[r].demo # Absent
  BY <1>0, TemplateIsBody DEF HasDemo, Intact
<1>3. CASE GetsDemo(r, l)
  <2>1. call[l].op = "get" /\ call[l].pc = "get" /\ call[l].id = world[r].demo /\ Intact(r)
    BY <1>1, <1>3 DEF GetsDemo
  <2>2. /\ table' = table /\ call'[l].pc = "returned" /\ call'[l].id = call[l].id
        /\ IF Latest(world[r].demo) = None
             THEN call'[l].result = "NotFound"
             ELSE call'[l].result = "ok" /\ call'[l].latest = Latest(world[r].demo)
    BY <1>0, <2>1, GetStep
  <2>3. world[r].name = "fetchAbsent" => Latest(world[r].demo) = None
    BY <1>0, NothingOfAbsent DEF HasDemo
  <2>4. Intact(r)'
    BY <2>1, <2>2 DEF Intact, Latest
  <2>5. GetsDemo(r, l)'
    BY <1>1, <1>2, <1>3, <2>1, <2>2, <2>3, <2>4 DEF GetsDemo
  <2>6. (ServesFetch(r, l) \/ ServesUpdate(r, l) \/ ServesDelete(r, l))'
    <3>1. ~ServesCreate(r, l)
      BY <2>1 DEF ServesCreate, CreatesTemplate
    <3>. QED  BY <2>5, <3>1 DEF AtAsked, ServesFetch, ServesUpdate, ServesDelete
  <2>. QED  BY <2>1, <2>2, <2>6
<1>4. CASE ServesCreate(r, l)
  <2>1. call[l].op = "create" /\ call[l].pc = "save" /\ call[l].id # Absent
    BY <1>1, <1>4 DEF ServesCreate, CreatesTemplate, Ended
  <2>2. Ended(l, "create", "ok")' /\ call'[l].id = call[l].id
    BY <1>0, <2>1, CreateStep
  <2>3. CreatesTemplate(l)'
    BY <1>1, <1>4, <2>2 DEF ServesCreate, CreatesTemplate
  <2>. QED  BY <1>4, <2>1, <2>2, <2>3 DEF ServesCreate
<1>5. CASE ServesUpdate(r, l) /\ UpdatesDemo(r, l)
  <2>1. /\ world[r].name = "update" /\ world[r].demo # Absent
        /\ call[l].op = "update" /\ call[l].id = world[r].demo
        /\ call[l].body = Edited(GivenItem) /\ Valid(call[l].body)
    BY <1>0, <1>5, TemplateIsBody DEF ServesUpdate, UpdatesDemo, HasDemo
  <2>2. CASE call[l].pc = "get"
    <3>1. Latest(call[l].id) = GivenItem /\ GivenItem # None
      BY <1>2, <1>5, <2>1, <2>2, TemplateIsBody DEF UpdatesDemo, Ended
    <3>2. call'[l].pc = "save" /\ call'[l].id = call[l].id
          /\ call'[l].latest = GivenItem
      BY <1>0, <2>1, <2>2, <3>1, UpdateReads
    <3>3. UpdatesDemo(r, l)'
      BY <1>1, <1>5, <2>1, <3>2 DEF UpdatesDemo
    <3>. QED  BY <1>5, <2>1, <3>2, <3>3 DEF ServesUpdate
  <2>3. CASE call[l].pc = "save"
    <3>1. /\ Ended(l, "update", "ok")' /\ call'[l].id = call[l].id
          /\ call'[l].latest = call[l].latest
      BY <1>0, <2>1, <2>3, UpdateSaves
    <3>2. UpdatesDemo(r, l)'
      BY <1>1, <1>5, <2>1, <2>3, <3>1 DEF UpdatesDemo
    <3>. QED  BY <1>5, <2>1, <3>1, <3>2 DEF ServesUpdate
  <2>. QED  BY <1>1, <1>5, <2>2, <2>3 DEF UpdatesDemo, Ended
<1>6. CASE ServesDelete(r, l) /\ DeletesDemo(r, l)
  <2>1. /\ world[r].name = "delete" /\ world[r].demo # Absent
        /\ call[l].op = "deleteCompletely" /\ call[l].id = world[r].demo
        /\ call[l].result # "Error"
    BY <1>0, <1>6 DEF ServesDelete, DeletesDemo, HasDemo
  <2>2. CASE call[l].pc = "get"
    <3>1. Latest(call[l].id) = GivenItem /\ GivenItem # None
      BY <1>2, <1>6, <2>1, <2>2, TemplateIsBody DEF DeletesDemo, Ended
    <3>2. \A q \in Procs : Deleting(q) => call[q].id # call[l].id
      BY <1>0, <1>1, <2>1, <2>2, AgentAlone DEF Deleting, Writing
    <3>3. call'[l].id = call[l].id /\ call'[l].result # "Error"
          /\ call'[l].pc = "delete"
      BY <1>0, <2>1, <2>2, <3>1, <3>2, DeletionReads
    <3>4. DeletesDemo(r, l)'
      BY <1>1, <1>6, <2>1, <3>3 DEF DeletesDemo
    <3>. QED  BY <1>6, <2>1, <3>3, <3>4 DEF ServesDelete
  <2>3. CASE call[l].pc = "delete"
    <3>1. /\ call'[l].id = call[l].id /\ call'[l].result # "Error"
          /\ call'[l].pc = "delete" \/ Ended(l, "deleteCompletely", "ok")'
      BY <1>0, <2>1, <2>3, DeletionDeletes
    <3>2. DeletesDemo(r, l)'
      BY <1>1, <1>6, <2>1, <3>1 DEF DeletesDemo
    <3>. QED  BY <1>6, <2>1, <3>1, <3>2 DEF ServesDelete
  <2>. QED  BY <1>1, <1>6, <2>2, <2>3 DEF DeletesDemo, Ended
<1>. QED  BY <1>3, <1>4, <1>5, <1>6 DEF AtAsked, ServesFetch, ServesUpdate, ServesDelete

LEMMA ProceedMoves ==
  ASSUME ~Collisions, ScenariosInv, NEW l \in Lambdas, Proceed(l), ~Misreads(l),
         world' = world
  PROVE  RunsInv'
<1>0. /\ TypesInv /\ TypeInv /\ ModelInv /\ RunsInv /\ l \in Procs /\ Step(l)
      /\ http \in [Procs -> Request] /\ http[l] \in Request
  BY DEF ScenariosInv, TypesInv, Lambdas, Proceed
<1>1. AtWork(l) /\ call'[l].op = call[l].op /\ OnlyCall(l)
  BY <1>0, StepOfCall, StepStaysPut DEF AtWork
<1>2. /\ http'[l].method = http[l].method /\ http'[l].stage = http[l].stage
      /\ http'[l].demo = http[l].demo /\ \A q \in Procs \ {l} : http'[q] = http[q]
  BY <1>0 DEF Proceed, Request
<1>3. PICK r \in Runners : AtAsked(r) /\ world[r].awaits = l
  BY <1>0, <1>1, RunOfLambda
<1>4. /\ call'[l].id = call[l].id
      /\ call[l].op = "deleteCompletely" => call'[l].result # "Error"
      /\ call[l].id = Absent => table' = table
      /\ (ServesFetch(r, l) \/ ServesCreate(r, l) \/ ServesUpdate(r, l) \/ ServesDelete(r, l))'
  BY <1>0, <1>2, <1>3, ServedSteps
<1>5. AtAsked(r)'
  <2>1. HandsFree(r)'
    BY <1>1, <1>3, ScenariosAssumption DEF AtAsked, HandsFree, AtWork, OnlyCall, Lambdas
  <2>. QED  BY <1>3, <1>4, <2>1 DEF AtAsked, HasDemo, NothingManaged
<1>6. OnCourse(r)'
  BY <1>0, <1>5 DEF OnCourse, RunsInv
<1>7. l \in Agents(r) /\ l \notin Own[r]
  <2>1. ~Listing(r)
    BY <1>3 DEF AtAsked, Listing, ServesFetch, ServesCreate, ServesUpdate, ServesDelete
  <2>. QED  BY <1>0, <1>3, <2>1, ScenariosAssumption DEF Agents, Lambdas
<1>. QED  BY <1>0, <1>2, <1>4, <1>6, <1>7, AgentSteps

(* The second call of put and deleteDemo.                                  *)
LEMMA SecondCallMoves ==
  ASSUME TypesInv, RunsInv, NEW l \in Lambdas, PutUpdate(l) \/ DeleteAll(l), world' = world
  PROVE  RunsInv'
<1>0. l \in Procs /\ http \in [Procs -> Request] /\ http[l] \in Request
      /\ http' = [http EXCEPT ![l].stage = "second"] /\ http[l].stage = "first"
      /\ call[l].op = "get" /\ call[l].pc = "returned" /\ call[l].result = "ok"
  BY DEF TypesInv, Lambdas, PutUpdate, DeleteAll, FirstCallFound, Ended
<1>1. /\ http'[l].method = http[l].method /\ http'[l].stage = "second"
      /\ http'[l].demo = http[l].demo /\ \A q \in Procs \ {l} : http'[q] = http[q]
  BY <1>0 DEF Request
<1>2. PICK r \in Runners : AtAsked(r) /\ world[r].awaits = l
  BY <1>0, RunOfLambda DEF Serving
<1>3. /\ world[r].name \in {"update", "delete"} /\ call[l].id = world[r].demo
      /\ HasDemo(r) /\ Intact(r)
      /\ ServesUpdate(r, l) \/ ServesDelete(r, l)
  BY <1>0, <1>2 DEF AtAsked, ServesFetch, ServesCreate, CreatesTemplate, ServesUpdate, ServesDelete,
     GetsDemo, UpdatesDemo, DeletesDemo, FirstCallFound, PutUpdate, DeleteAll
<1>4. UNCHANGED <<table, used>>
  BY DEF PutUpdate, DeleteAll, StartUpdate, StartDeleteCompletely
<1>5. Intact(r)' /\ HasDemo(r)'
  BY <1>3, <1>4 DEF Intact, HasDemo, NothingManaged, Latest
<1>6. /\ OnlyCall(l) /\ call'[l].id = call[l].id /\ call'[l].result # "Error"
      /\ (ServesUpdate(r, l) \/ ServesDelete(r, l))'
  <2>1. CASE PutUpdate(l)
    <3>1. ServesUpdate(r, l)
      BY <1>3, <2>1 DEF PutUpdate, FirstCallFound, ServesUpdate, ServesDelete
    <3>2. PICK id \in Ids, body \in Bodies : Start(l, "update", "get", id, body, 0, 0)
      BY <2>1 DEF PutUpdate, StartUpdate
    <3>3. /\ OnlyCall(l) /\ call'[l].op = "update" /\ call'[l].pc = "get"
          /\ call'[l].result = "none"
      BY <1>0, <3>2, StartedReading
    <3>4. call'[l].id = world[r].demo /\ call'[l].body = Edited(GivenItem)
      BY <2>1, <3>1 DEF PutUpdate, ServesUpdate
    <3>5. UpdatesDemo(r, l)'
      BY <1>1, <1>5, <3>3, <3>4 DEF UpdatesDemo
    <3>. QED  BY <1>1, <1>3, <3>1, <3>3, <3>4, <3>5 DEF ServesUpdate
  <2>2. CASE DeleteAll(l)
    <3>1. ServesDelete(r, l)
      BY <1>3, <2>2 DEF DeleteAll, FirstCallFound, ServesUpdate, ServesDelete
    <3>2. PICK id \in Ids : Start(l, "deleteCompletely", "get", id, None, 0, 0)
      BY <2>2 DEF DeleteAll, StartDeleteCompletely
    <3>3. /\ OnlyCall(l) /\ call'[l].op = "deleteCompletely" /\ call'[l].pc = "get"
          /\ call'[l].result = "none"
      BY <1>0, <3>2, StartedReading
    <3>4. call'[l].id = world[r].demo
      BY <1>3, <2>2 DEF DeleteAll
    <3>5. DeletesDemo(r, l)'
      BY <1>1, <1>5, <3>3, <3>4 DEF DeletesDemo
    <3>. QED  BY <1>1, <1>3, <3>1, <3>3, <3>4, <3>5 DEF ServesDelete
  <2>. QED  BY <2>1, <2>2
<1>7. Own[r] \subseteq Procs \ {l}
  BY ScenariosAssumption DEF Lambdas
<1>8. AtAsked(r)'
  <2>1. HandsFree(r)'
    BY <1>2, <1>6, <1>7 DEF AtAsked, HandsFree, AtWork, OnlyCall
  <2>. QED  BY <1>2, <1>5, <1>6, <2>1 DEF AtAsked
<1>9. OnCourse(r)'
  BY <1>8 DEF OnCourse, RunsInv
<1>10. Holds(r)' = Holds(r)
  <2>1. Agents(r) = {l} /\ Agents(r)' = {l}
    BY <1>0, <1>2, <1>7, <1>8, AgentsAtSteps DEF OnCourse, RunsInv, AtAsked, HandsFree, Agents,
       Listing, ServesFetch, ServesCreate, ServesUpdate, ServesDelete
  <2>. QED  BY <1>6, <2>1 DEF Holds
<1>11. ByRun(r, {l})
  <2>1. \A q \in Procs \ {l} : call'[q] = call[q] /\ http'[q] = http[q]
    BY <1>1, <1>6 DEF OnlyCall
  <2>. QED  BY <1>2, <1>4, <2>1, NothingStepped
<1>12. world'[r].awaits = l /\ used' = used
  BY <1>2, <1>4
<1>. QED  BY <1>0, <1>2, <1>6, <1>9, <1>10, <1>11, <1>12, OneRunMoves


-----------------------------------------------------------------------------
(* Requests and runs have their types.                                     *)
LEMMA NewRequestType ==
  ASSUME NEW method \in Methods, NEW id \in Ids \cup {None}, NEW demo \in Demo \cup {None}
  PROVE  NewlyReceived(method, id, demo, "first", 0) \in Request
BY DEF NewlyReceived, Request

LEMMA AskedType ==
  ASSUME TypesInv, NEW r \in Runners, NEW l \in Lambdas, Asked(r, l)
  PROVE  http' \in [Procs -> Request]
<1>1. ASSUME NEW method \in Methods, NEW id \in Ids \cup {None}, NEW demo \in Demo \cup {None},
             Receive(l, method, id, demo)
      PROVE  http' \in [Procs -> Request]
  <2>1. PICK request \in Request : http' = [http EXCEPT ![l] = request]
    BY <1>1, NewRequestType DEF Receive
  <2>. QED  BY <2>1 DEF TypesInv
<1>2. CASE ReceiveGet(l) \/ ReceiveDelete(l)
  BY <1>1, <1>2 DEF ReceiveGet, ReceiveDelete, Methods
<1>3. CASE ReceivePost(l)
  BY <1>1, <1>3 DEF ReceivePost, Methods
<1>4. CASE ReceivePut(l)
  BY <1>1, <1>4 DEF ReceivePut, Methods
<1>. QED  BY <1>2, <1>3, <1>4 DEF Asked

(* An answer has one of the statuses that the features expect.             *)
LEMMA ReplyType ==
  ASSUME TypesInv, RunsInv, NEW r \in Runners, Reply(r)
  PROVE  http' \in [Procs -> Request] /\ world' \in [Runners -> World]
<1>1. OnCourse(r) /\ AtAsked(r)
  BY DEF RunsInv, OnCourse, AtIdle, AtGiven, AtReady, AtListing, Listing, AtCleaning, Reply
<1>2. PICK l \in Procs : l = world[r].awaits
  BY <1>1 DEF AtAsked, Lambdas
<1> DEFINE status == StatusOf(http[l].method, call[l].result)
           item == IF http[l].method = "GET" THEN call[l].latest ELSE Saved(call[l])
           passes == Answers(world[r].name, status, call[l].id, item, world[r])
           managed == Managed(world[r], status, call[l].id)
           replied == [world[r] EXCEPT !.step = "cleaning", !.awaits = None,
                         !.managed = managed, !.failed = world[r].failed \/ ~passes]
<1>3. Respond(l) /\ world' = [world EXCEPT ![r] = replied]
  BY <1>2 DEF Reply
<1>4. /\ passes
      /\ call[l].id = world[r].demo \/ (world[r].name = "create" /\ status = 201)
      /\ world[r].name = "create" =>
           status = 201 /\ call[l].id \in Ids \ (world[r].managed \cup {Absent})
  BY <1>1, <1>2, <1>3, AnswerComesTrue
<1>5. world[r].name \in Names \ {"list"}
  BY <1>1, <1>2 DEF AtAsked, ServesFetch, ServesCreate, ServesUpdate, ServesDelete, Names
<1>6. status \in Statuses
  <2>. HIDE DEF status, item
  <2>. QED  BY <1>4, <1>5 DEF Answers, Names, Statuses
<1>7. http' \in [Procs -> Request]
  <2>. HIDE DEF status
  <2>1. Replied(http[l], status) \in Request
    BY <1>6, RequestReplied DEF TypesInv
  <2>2. Answer(l, status)
    BY <1>3 DEF Respond, status
  <2>. QED  BY <2>1, <2>2 DEF Answer, TypesInv
<1>8. managed \in SUBSET Ids
  <2>1. world[r].managed \in SUBSET Ids
    BY DEF TypesInv, World
  <2>. HIDE DEF status
  <2>. QED  BY <1>4, <2>1 DEF Managed
<1>9. replied \in World
  <2>1. world[r] \in World /\ (world[r].failed \/ ~passes) \in BOOLEAN
    BY DEF TypesInv, World
  <2>. HIDE DEF managed, passes
  <2>. QED  BY <1>8, <2>1 DEF World
<1>10. world' \in [Runners -> World]
  <2>. HIDE DEF replied
  <2>. QED  BY <1>3, <1>9 DEF TypesInv
<1>. QED  BY <1>7, <1>10

LEMMA WorldTypes ==
  ASSUME TypesInv, RunsInv, NEW r \in Runners,
         GivenDemo(r) \/ DemoGiven(r) \/ GivenNoDemo(r) \/ Ask(r) \/ CleanUp(r) \/ CleanedUp(r)
  PROVE  world' \in [Runners -> World]
<1>1. world \in [Runners -> World] /\ world[r] \in World /\ OnCourse(r)
  BY DEF TypesInv, RunsInv
<1>2. Own[r] \subseteq Procs /\ Lambdas \subseteq Procs /\ Absent \in Ids
  BY ScenariosAssumption DEF Lambdas
<1>3. NewWorld \in World
  BY DEF NewWorld, World
<1>4. CASE Throws(r)
  <2> DEFINE thrown == [NewWorld EXCEPT !.step = "cleaning", !.default = world[r].default,
                                        !.failed = TRUE]
  <2>1. thrown \in World
    BY <1>1, <1>3 DEF World
  <2>2. world' = [world EXCEPT ![r] = thrown]
    BY <1>4 DEF Throws
  <2>. HIDE DEF thrown
  <2>. QED  BY <1>1, <2>1, <2>2
<1>5. CASE GivenDemo(r)
  <2>1. CASE \E name \in Names \ {"fetchAbsent"}, p \in Own[r] :
               world' = [world EXCEPT ![r] = [NewWorld EXCEPT
                           !.name = name, !.step = "given", !.awaits = p]]
    <3>1. PICK name \in Names, p \in Procs :
            world' = [world EXCEPT ![r] = [NewWorld EXCEPT
                        !.name = name, !.step = "given", !.awaits = p]]
      BY <1>2, <2>1
    <3> DEFINE given == [NewWorld EXCEPT !.name = name, !.step = "given", !.awaits = p]
    <3>2. given \in World
      BY <1>3 DEF World
    <3>3. world' = [world EXCEPT ![r] = given]
      BY <3>1
    <3>. HIDE DEF given
    <3>. QED  BY <1>1, <3>2, <3>3
  <2>. QED  BY <1>4, <1>5, <2>1 DEF GivenDemo
<1>6. CASE DemoGiven(r)
  <2> DEFINE p == world[r].awaits
             given == [world[r] EXCEPT
                 !.step = "ready", !.awaits = None, !.demo = call[p].id, !.item = Saved(call[p]),
                 !.managed = world[r].managed \cup {call[p].id}, !.default = call[p].id]
  <2>1. CreatesTemplate(p) /\ call[p].id \in Ids /\ Saved(call[p]) = GivenItem
    BY <1>1, <1>6, SavedTemplate
       DEF OnCourse, AtIdle, AtGiven, AtReady, AtAsked, AtListing, Listing, AtCleaning,
           DemoGiven, CreatesTemplate
  <2>2. given \in World
    BY <1>1, <2>1 DEF World
  <2>3. Throws(r) \/ world' = [world EXCEPT ![r] = given]
    BY <1>6 DEF DemoGiven
  <2>. HIDE DEF given
  <2>. QED  BY <1>1, <1>4, <2>2, <2>3
<1>7. CASE GivenNoDemo(r)
  <2> DEFINE given == [NewWorld EXCEPT !.name = "fetchAbsent", !.step = "ready",
                         !.demo = Absent, !.default = world[r].default]
  <2>1. given \in World
    BY <1>1, <1>2, <1>3 DEF World, Names
  <2>2. world' = [world EXCEPT ![r] = given]
    BY <1>7 DEF GivenNoDemo
  <2>. HIDE DEF given
  <2>. QED  BY <1>1, <2>1, <2>2
<1>8. CASE Ask(r)
  <2>1. PICK l \in Procs : world' = [world EXCEPT ![r].step = "asked", ![r].awaits = l]
    BY <1>2, <1>8 DEF Ask
  <2>. QED  BY <1>1, <2>1 DEF World
<1>9. CASE CleanUp(r)
  <2>1. PICK id \in world[r].managed :
          world' = [world EXCEPT ![r].managed = @ \ {id}, ![r].default = None]
    BY <1>9 DEF CleanUp
  <2>. QED  BY <1>1, <2>1 DEF World
<1>10. CASE CleanedUp(r)
  <2> DEFINE ended == [NewWorld EXCEPT !.demo = world[r].demo, !.default = world[r].default,
                 !.failed = world[r].failed \/ \E p \in Own[r] : Ended(p, "deleteCompletely", "Error")]
  <2>1. ended \in World
    BY <1>1 DEF World, NewWorld
  <2>2. world' = [world EXCEPT ![r] = ended]
    BY <1>10 DEF CleanedUp
  <2>. HIDE DEF ended
  <2>. QED  BY <1>1, <2>1, <2>2
<1>. QED  BY <1>5, <1>6, <1>7, <1>8, <1>9, <1>10

LEMMA ScenariosTypes ==
  ASSUME ~Collisions, ScenariosInv, [ScenariosNext]_scenarioVars, misread' = {}
  PROVE  TypesInv'
<1>0. TypesInv /\ RunsInv
  BY DEF ScenariosInv
<1>1. TypeInv'
  BY ModelInvNext DEF ScenariosInv, ModelInv
<1>2. CASE UNCHANGED scenarioVars \/ CatchUp
  BY <1>0, <1>1, <1>2 DEF scenarioVars, handlerVars, CatchUp, TypesInv
<1>3. CASE Work
  <2>1. world' = world
    BY <1>3 DEF Work
  <2>2. ASSUME NEW l \in Lambdas, Proceed(l) \/ PutUpdate(l) \/ DeleteAll(l)
        PROVE  http' \in [Procs -> Request]
    <3>1. http \in [Procs -> Request] /\ http[l] \in Request
      BY <1>0 DEF TypesInv, Lambdas
    <3>2. CASE Proceed(l)
      <4> DEFINE wrote == http[l].wrote \/ table' # table
                 request == [http[l] EXCEPT !.wrote = wrote]
      <4>1. wrote \in BOOLEAN
        BY <3>1 DEF Request
      <4>2. request \in Request
        <5>. HIDE DEF wrote
        <5>. QED  BY <3>1, <4>1, RequestWrote
      <4>3. http' = [http EXCEPT ![l] = request]
        BY <3>1, <3>2 DEF Proceed
      <4>. HIDE DEF request
      <4>. QED  BY <3>1, <4>2, <4>3
    <3>3. CASE http' = [http EXCEPT ![l].stage = "second"]
      BY <3>1, <3>3 DEF Request
    <3>. QED  BY <2>2, <3>2, <3>3 DEF PutUpdate, DeleteAll
  <2>. QED  BY <1>0, <1>1, <1>3, <2>1, <2>2 DEF Work, TypesInv
<1>4. ASSUME NEW r \in Runners, Play(r)
      PROVE  TypesInv'
  <2>1. CASE Reply(r)
    BY <1>0, <1>1, <2>1, ReplyType DEF TypesInv
  <2>2. CASE Ask(r)
    BY <1>0, <1>1, <2>2, AskedType, WorldTypes DEF Ask, TypesInv, handlerVars
  <2>3. CASE ScanDemos(r) \/ ReplyList(r)
    BY <1>0, <1>1, <2>3, ScanDemosMoves, ReplyListMoves
       DEF ScanDemos, ReplyList, TypesInv, handlerVars
  <2>4. CASE GivenDemo(r) \/ DemoGiven(r) \/ GivenNoDemo(r) \/ CleanUp(r) \/ CleanedUp(r)
    <3>1. http' = http
      <4>1. CASE GivenDemo(r)
        BY <4>1 DEF GivenDemo, handlerVars
      <4>. QED  BY <2>4, <4>1 DEF DemoGiven, GivenNoDemo, CleanUp, CleanedUp, handlerVars
    <3>. QED  BY <1>0, <1>1, <2>4, <3>1, WorldTypes DEF TypesInv
  <2>. QED  BY <1>4, <2>1, <2>2, <2>3, <2>4 DEF Play
<1>. QED  BY <1>2, <1>3, <1>4 DEF ScenariosNext

-----------------------------------------------------------------------------
(* The steps of the scenarios, as long as no read is stale.                *)

(* misread only grows.                                                     *)
LEMMA ReadsStayFresh ==
  ASSUME ~Collisions, ModelInv, [ScenariosNext]_scenarioVars, misread' = {}
  PROVE  misread = {} /\ (Work => \A p \in Procs : ~Misreads(p))
<1>1. ASSUME Work
      PROVE  misread = {} /\ \A p \in Procs : ~Misreads(p)
  <2>1. misread = {} /\ {id \in Ids : \E p \in Procs : call[p].id = id /\ Misreads(p)} = {}
    BY <1>1 DEF Work
  <2>2. ASSUME NEW p \in Procs, Misreads(p)
        PROVE  call[p].id \in Ids
    BY <2>2, RunsAreRest, RestSteps DEF ModelInv, Misreads, Awaits
  <2>. QED  BY <2>1, <2>2
<1>2. ASSUME NEW r \in Runners, Play(r)
      PROVE  misread = {}
  <2>1. CASE ScanDemos(r)
    BY <2>1 DEF ScanDemos
  <2>2. CASE GivenDemo(r)
    BY <2>2 DEF GivenDemo
  <2>. QED  BY <1>2, <2>1, <2>2 DEF Play, DemoGiven, GivenNoDemo, Ask, ReplyList, Reply,
              CleanUp, CleanedUp
<1>. QED  BY <1>1, <1>2 DEF ScenariosNext, CatchUp, scenarioVars

LEMMA RunsNext ==
  ASSUME ~Collisions, ScenariosInv, [ScenariosNext]_scenarioVars, misread' = {}
  PROVE  RunsInv'
<1>0. TypesInv /\ RunsInv /\ ModelInv /\ \A r \in Runners : Own[r] \subseteq Procs
  BY ScenariosAssumption DEF ScenariosInv
<1>1. CASE UNCHANGED <<table, used, call, http, world>>
  <2>1. table' = table /\ used' = used /\ call' = call /\ http' = http /\ world' = world
    BY <1>1
  <2>2. \A r \in Runners : Agents(r)' = Agents(r) /\ Holds(r)' = Holds(r)
    BY <2>1 DEF Agents, Holds, AtWork, Listing
  <2>3. ASSUME NEW r \in Runners
        PROVE  OnCourse(r)'
    <3>1. AtIdle(r) => AtIdle(r)'
      BY <2>1 DEF AtIdle, NothingManaged, HandsFree, AtWork
    <3>2. AtGiven(r) => AtGiven(r)'
      BY <2>1 DEF AtGiven, NothingManaged, CreatesTemplate, Ended, Latest, AtWork
    <3>3. AtReady(r) => AtReady(r)'
      BY <2>1 DEF AtReady, HasDemo, NothingManaged, Intact, Latest, HandsFree, AtWork
    <3>4. AtAsked(r) => AtAsked(r)'
      BY <2>1 DEF AtAsked, HasDemo, NothingManaged, Intact, Latest, HandsFree, AtWork,
         ServesFetch, ServesCreate, ServesUpdate, ServesDelete, GetsDemo, CreatesTemplate,
         UpdatesDemo, DeletesDemo, Ended
    <3>5. AtListing(r) => AtListing(r)'
      BY <2>1 DEF AtListing, Listing, HasDemo, NothingManaged, Intact, Latest, HandsFree,
         AtWork, Serving
    <3>6. AtCleaning(r) => AtCleaning(r)'
      BY <2>1 DEF AtCleaning, AtWork
    <3>. QED  BY <1>0, <2>1, <3>1, <3>2, <3>3, <3>4, <3>5, <3>6 DEF RunsInv, OnCourse
  <2>. QED  BY <1>0, <2>1, <2>2, <2>3
            DEF RunsInv, RunsApart, Owned, NoDeletionFails, Serving, AtWork
<1>2. CASE UNCHANGED scenarioVars \/ CatchUp
  BY <1>1, <1>2 DEF scenarioVars, handlerVars, vars, CatchUp, Replicate
<1>3. CASE Work
  <2>1. world' = world /\ \A p \in Procs : ~Misreads(p)
    BY <1>0, <1>3, ReadsStayFresh DEF Work
  <2>2. \A r \in Runners : \A p \in Own[r] : Step(p) /\ http' = http => RunsInv'
    BY <1>0, <2>1, OwnStepMoves
  <2>3. \A l \in Lambdas : Proceed(l) => RunsInv'
    BY <2>1, ProceedMoves DEF Lambdas
  <2>4. \A l \in Lambdas : PutUpdate(l) \/ DeleteAll(l) => RunsInv'
    BY <1>0, <2>1, SecondCallMoves
  <2>. QED  BY <1>3, <2>2, <2>3, <2>4 DEF Work
<1>4. ASSUME NEW r \in Runners, Play(r)
      PROVE  RunsInv'
  BY <1>0, <1>4, GivenDemoMoves, DemoGivenMoves, GivenNoDemoMoves, AskMoves, AskListMoves,
     ScanDemosMoves, ReplyListMoves, ReplyMoves, CleanUpMoves, CleanedUpMoves DEF Play
<1>. QED  BY <1>2, <1>3, <1>4 DEF ScenariosNext

(* A call that begins has read nothing yet.                                *)
LEMMA OrderBegin ==
  ASSUME TypeInv, OrderInv, NEW p \in Procs,
         StartGet(p) \/ StartCreate(p) \/ RefuseCreate(p) \/ StartUpdate(p)
           \/ StartDeleteCompletely(p)
  PROVE  OrderInv'
<1>1. Free(p) /\ OnlyCall(p) /\ table' = table
  BY DEF StartGet, StartCreate, RefuseCreate, StartUpdate, StartDeleteCompletely, Start,
     OnlyCall, TypeInv, TypeOK
<1>2. call'[p].pc \in {"get", "returned"} \/ call'[p].op = "create"
  <2>1. CASE RefuseCreate(p)
    <3>1. PICK body \in Bodies : call' = [call EXCEPT ![p] =
            [Idle EXCEPT !.op = "create", !.pc = "returned", !.body = body,
                         !.result = "BadRequest"]]
      BY <2>1 DEF RefuseCreate
    <3>2. call'[p] = [Idle EXCEPT !.op = "create", !.pc = "returned", !.body = body,
                                  !.result = "BadRequest"]
      BY <3>1 DEF TypeInv, TypeOK
    <3>. QED  BY <3>2 DEF Idle
  <2>2. ASSUME NEW op, NEW pc, NEW id, NEW body, NEW retry,
               Start(p, op, pc, id, body, 0, retry), pc = "get" \/ op = "create"
        PROVE  call'[p].pc \in {"get", "returned"} \/ call'[p].op = "create"
    BY <2>2 DEF Start, TypeInv, TypeOK
  <2>3. CASE StartCreate(p)
    BY <2>2, <2>3 DEF StartCreate
  <2>4. CASE StartGet(p) \/ StartUpdate(p) \/ StartDeleteCompletely(p)
    BY <2>2, <2>4 DEF StartGet, StartUpdate, StartDeleteCompletely
  <2>. QED  BY <2>1, <2>3, <2>4
<1>3. ~Deleting(p) /\ ~Updating(p)' /\ ~Deleting(p)'
  BY <1>1, <1>2 DEF Free, Updating, Deleting
<1>. QED  BY <1>1, <1>3, OrderQuiet

LEMMA OrderNext ==
  ASSUME ~Collisions, ScenariosInv, [ScenariosNext]_scenarioVars, misread' = {}
  PROVE  OrderInv'
<1>0. /\ TypeInv /\ ModelInv /\ OrderInv /\ OneWriterPerDemo
      /\ Lambdas \subseteq Procs /\ \A r \in Runners : Own[r] \subseteq Procs
  BY RunsTakeTurns, ScenariosAssumption DEF ScenariosInv, ModelInv, Lambdas
<1>1. CASE UNCHANGED <<table, call>>
  BY <1>0, <1>1 DEF OrderInv, InOrder, Gone, Whole, Leaving, NotDeleted, RowsOf, Latest,
     Versions, Updating, Deleting
<1>2. CASE UNCHANGED scenarioVars \/ CatchUp
  BY <1>1, <1>2 DEF scenarioVars, handlerVars, vars, CatchUp, Replicate
<1>3. CASE Work
  <2>1. \A p \in Procs : Step(p) => OrderInv'
    BY <1>0, <1>3, ReadsStayFresh, OrderStep
  <2>2. \A l \in Procs : PutUpdate(l) \/ DeleteAll(l) => OrderInv'
    BY <1>0, OrderBegin DEF PutUpdate, DeleteAll
  <2>. QED  BY <1>0, <1>3, <2>1, <2>2 DEF Work, Proceed
<1>4. ASSUME NEW r \in Runners, Play(r)
      PROVE  OrderInv'
  <2>1. CASE GivenDemo(r)
    BY <1>0, <1>1, <2>1, OrderBegin DEF GivenDemo, handlerVars, vars
  <2>2. CASE CleanUp(r)
    BY <1>0, <2>2, OrderBegin DEF CleanUp
  <2>3. CASE DemoGiven(r) \/ ScanDemos(r) \/ ReplyList(r) \/ Reply(r) \/ CleanedUp(r)
    BY <1>1, <2>3 DEF DemoGiven, ScanDemos, ReplyList, Reply, Respond, CleanedUp,
       handlerVars, vars
  <2>4. CASE GivenNoDemo(r)
    BY <1>0, <1>1, <2>4, NothingOfAbsent DEF GivenNoDemo
  <2>5. CASE Ask(r)
    <3>1. \A l \in Lambdas : Asked(r, l) => OrderInv'
      BY <1>0, OrderBegin DEF Asked, ReceiveGet, ReceivePost, ReceivePut, ReceiveDelete
    <3>. QED  BY <1>1, <2>5, <3>1 DEF Ask, handlerVars, vars
  <2>. QED  BY <1>4, <2>1, <2>2, <2>3, <2>4, <2>5 DEF Play
<1>. QED  BY <1>2, <1>3, <1>4 DEF ScenariosNext

-----------------------------------------------------------------------------
(* The invariant of the scenarios, up to the first stale read.             *)
FreshInv == ModelInv /\ (misread = {} => ScenariosInv)

LEMMA FreshInvInit == ScenariosInit => FreshInv
<1> SUFFICES ASSUME ScenariosInit PROVE ScenariosInv
  BY ModelInvInit DEF FreshInv
<1>1. Init /\ TypeInv /\ ModelInv /\ OrderInv
  BY ModelInvInit, OrderInit DEF ScenariosInit, HandlerInit, ModelInv
<1>2. /\ \A p \in Procs : http[p] = NoRequest /\ call[p] = Idle
      /\ http = [p \in Procs |-> NoRequest] /\ DOMAIN table = {} /\ used = {}
      /\ world = [r \in Runners |-> NewWorld]
  BY DEF ScenariosInit, HandlerInit, Init
<1>3. NoRequest \in Request /\ NewWorld \in World
  BY DEF NoRequest, Request, NewWorld, World
<1>4. ~ \E p \in Procs : AtWork(p) \/ Serving(p)
  BY <1>2 DEF AtWork, Awaits, Idle, Serving, NoRequest
<1>5. \A r \in Runners : /\ world[r].step = "idle" /\ world[r].awaits = None /\ ~world[r].failed
                         /\ world[r].managed = {} /\ world[r].default = None
  BY <1>2 DEF NewWorld
<1>6. \A r \in Runners : Agents(r) = {} /\ Holds(r) = {}
  BY <1>4, <1>5, ScenariosAssumption DEF Agents, Holds
<1>7. \A r \in Runners : OnCourse(r)
  BY <1>4, <1>5, ScenariosAssumption DEF OnCourse, AtIdle, NothingManaged, HandsFree
<1>8. \A p \in Procs : call[p].op # "deleteCompletely"
  BY <1>2 DEF Idle
<1>9. TypesInv
  BY <1>1, <1>2, <1>3 DEF TypesInv
<1>10. RunsInv
  BY <1>2, <1>4, <1>5, <1>6, <1>7, <1>8
     DEF RunsInv, RunsApart, Owned, NoDeletionFails, Lambdas
<1>. QED  BY <1>1, <1>9, <1>10 DEF ScenariosInv

LEMMA FreshInvNext ==
  ASSUME ~Collisions
  PROVE  FreshInv /\ [ScenariosNext]_scenarioVars => FreshInv'
<1> SUFFICES ASSUME FreshInv, [ScenariosNext]_scenarioVars
             PROVE  FreshInv'
  OBVIOUS
<1>1. ModelInv /\ ModelInv'
  BY ModelInvNext DEF FreshInv
<1>2. ASSUME misread' = {}
      PROVE  ScenariosInv'
  <2>1. ScenariosInv
    BY <1>1, <1>2, ReadsStayFresh DEF FreshInv
  <2>. QED  BY <1>1, <1>2, <2>1, ScenariosTypes, RunsNext, OrderNext DEF ScenariosInv
<1>. QED  BY <1>1, <1>2 DEF FreshInv

LEMMA FreshInvariant ==
  ASSUME ~Collisions
  PROVE  ScenariosSpec => []FreshInv
BY FreshInvInit, FreshInvNext, PTL DEF ScenariosSpec

-----------------------------------------------------------------------------
(* As long as no read is stale, no two calls are ever about to write the   *)
(* same demo, whichever runs, managers and handlers make them              *)
(* (data.manager.ts 97-139, demo.handler.ts 25-82).                        *)
THEOREM RunsTakeTurnsOnDemos ==
  ASSUME ~Collisions
  PROVE  ScenariosSpec => [](misread = {} => OneWriterPerDemo)
<1>1. FreshInv => (misread = {} => OneWriterPerDemo)
  BY RunsTakeTurns DEF FreshInv, ScenariosInv
<1>. QED  BY <1>1, FreshInvariant, PTL

(* A scenario fails, or its clean-up throws, only after some read was      *)
(* stale, for any number of runs that share the table (Demo.ts 109-141,    *)
(* Shared.ts 10-20).                                                       *)
THEOREM EveryScenarioPasses ==
  ASSUME ~Collisions
  PROVE  ScenariosSpec => [](misread = {} => ScenariosPass)
<1>1. FreshInv => (misread = {} => ScenariosPass)
  BY DEF FreshInv, ScenariosInv, RunsInv, OnCourse, ScenariosPass
<1>. QED  BY <1>1, FreshInvariant, PTL

(* A run leaves nothing behind: as long as no read is stale, each row in   *)
(* the table is of a demo of a run whose scenario is still being played    *)
(* (data.manager.ts 120-139).                                              *)
THEOREM RunsLeaveNothing ==
  ASSUME ~Collisions
  PROVE  ScenariosSpec => [](misread = {} => NothingLeft)
<1>1. ASSUME ScenariosInv
      PROVE  NothingLeft
  <2> SUFFICES ASSUME NEW e \in DOMAIN table
               PROVE  \E r \in Runners :
                 /\ world[r].step # "idle"
                 /\ \/ e[2] \in world[r].managed
                    \/ \E p \in Own[r] \cup ({world[r].awaits} \ {None}) : call[p].id = e[2]
    BY DEF NothingLeft
  <2>1. PICK r \in Runners : e[2] \in Holds(r)
    BY <1>1 DEF ScenariosInv, RunsInv, Owned
  <2>2. OnCourse(r)
    BY <1>1 DEF ScenariosInv, RunsInv
  <2>3. world[r].step # "idle"
    BY <2>1, <2>2, AgentsAtSteps
       DEF OnCourse, AtIdle, AtGiven, AtReady, AtAsked, AtListing, Listing, AtCleaning,
           NothingManaged, Holds
  <2>. QED  BY <2>1, <2>3, ScenariosAssumption DEF Holds, Agents
<1>. QED  BY <1>1, FreshInvariant, PTL DEF FreshInv
=============================================================================
