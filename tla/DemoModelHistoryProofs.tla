----------------------- MODULE DemoModelHistoryProofs -----------------------
(***************************************************************************)
(* A system that only creates, updates and reads demos keeps a complete,   *)
(* append-only history of each of them, for every number of invocations    *)
(* and with stale reads, id collisions, lost answers and crashes; and so   *)
(* it implements DemoHistory.                                              *)
(***************************************************************************)
EXTENDS DemoModelHistory, DemoModelProofs

AppendOnly == Ops \subseteq {"get", "create", "update"}

HistoryInv ==
  /\ LatestHasVersion
  /\ LatestIsNewest
  /\ HistoryComplete
  /\ ReadsAreHistory
  /\ AcknowledgedKept

LEMMA HistoryInit == Init => HistoryInv
BY DEF Init, HistoryInv, LatestHasVersion, LatestIsNewest, HistoryComplete,
       ReadsAreHistory, AcknowledgedKept, Acknowledged, Ended, Latest, Row, Idle

-----------------------------------------------------------------------------
(* When the condition of save holds, the version it writes follows the     *)
(* newest one, and an update has read that one.                            *)
LEMMA SaveFollowsNewest ==
  ASSUME TypeInv, HistoryInv, NEW p \in Procs,
         call[p].pc = "save", CanSave(call[p])
  PROVE  LET id == call[p].id
             n == Saved(call[p]).version
         IN  /\ id \in Ids /\ Saved(call[p]) \in Item /\ n \in Nat /\ n > 0
             /\ EntityId(id, n) \notin DOMAIN table
             /\ \A e \in DOMAIN table : e[2] = id => e[1] < n
             /\ \A k \in 1..(n - 1) : EntityId(id, k) \in DOMAIN table
             /\ call[p].op = "update" => call[p].latest = Latest(id)
<1> DEFINE c == call[p]
           id == c.id
           n == Saved(c).version
<1>1. c \in Call /\ Suspended(c) /\ id \in Ids /\ c.op \in {"create", "update"}
  BY DEF TypeInv, TypeOK, CallsOK, Awaits, Suspended, Awaiting
<1>2. /\ Saved(c) \in Item /\ n \in Nat /\ n > 0
      /\ c.op = "create" => n = 1
      /\ c.op = "update" => c.latest \in Item /\ n = c.latest.version + 1
  BY <1>1, SavedType DEF Item, Version, Suspended
<1>3. EntityId(id, n) \notin DOMAIN table
  BY DEF CanSave, Exists
<1>4. ASSUME NEW e \in DOMAIN table, e[2] = id, e[1] >= n
      PROVE  FALSE
  <2>1. e[1] \in Nat /\ e[1] > 0 /\ n \in 1..e[1]
    BY <1>2, <1>4 DEF TypeInv, TypeOK, EntityIds
  <2>. QED  BY <1>3, <1>4, <2>1 DEF HistoryInv, HistoryComplete, Exists
<1>5. \A e \in DOMAIN table : e[2] = id => e[1] < n
  BY <1>2, <1>4 DEF TypeInv, TypeOK, EntityIds
<1>6. ASSUME c.op = "update"
      PROVE  /\ c.latest = Latest(id)
             /\ \A k \in 1..(n - 1) : EntityId(id, k) \in DOMAIN table
  <2> DEFINE m == c.latest.version
             e == EntityId(id, m)
  <2>1. e \in DOMAIN table /\ table[e] = c.latest /\ e[1] = m /\ e[2] = id
    BY <1>6 DEF HistoryInv, ReadsAreHistory, Stored, Exists, EntityId
  <2>2. m \in Nat /\ m > 0 /\ n = m + 1
    BY <1>2, <1>6 DEF Item, Version
  <2>3. \A k \in 1..m : EntityId(id, k) \in DOMAIN table
    BY <2>1, <2>2 DEF HistoryInv, HistoryComplete, Exists
  <2>4. Latest(id) # None /\ m <= Latest(id).version
    BY <2>1, <2>2 DEF HistoryInv, LatestIsNewest
  <2>5. /\ EntityId(id, Latest(id).version) \in DOMAIN table
        /\ table[EntityId(id, Latest(id).version)] = Latest(id)
    BY <1>1, <2>4 DEF HistoryInv, LatestHasVersion, Stored, Exists
  <2>6. Latest(id) \in Item
    BY <2>4 DEF Latest, Row, TypeInv, TypeOK
  <2>7. Latest(id).version < m + 1
    BY <1>5, <2>2, <2>5 DEF EntityId
  <2>8. Latest(id).version = m
    BY <2>2, <2>4, <2>6, <2>7 DEF Item, Version
  <2>. QED  BY <2>1, <2>2, <2>3, <2>5, <2>8
<1>7. \A k \in 1..(n - 1) : EntityId(id, k) \in DOMAIN table
  <2>1. CASE c.op = "update"
    BY <1>6, <2>1
  <2>2. CASE c.op = "create"
    BY <1>2, <2>2
  <2>. QED  BY <1>1, <2>1, <2>2
<1>. QED  BY <1>1, <1>2, <1>3, <1>5, <1>6, <1>7

(* The transaction of save preserves what HistoryInv says of the table.    *)
LEMMA SavePreservesTable ==
  ASSUME TypeInv, HistoryInv, NEW p \in Procs,
         call[p].pc = "save", CanSave(call[p]), WriteSaved(call[p])
  PROVE  LatestHasVersion' /\ LatestIsNewest' /\ HistoryComplete'
<1>1. PICK id \in Ids, item \in Item : id = call[p].id /\ item = Saved(call[p])
  BY SavedValues
<1> DEFINE n == item.version
           new == EntityId(id, n)
<1>2. /\ n \in Nat /\ n > 0
      /\ \A e \in DOMAIN table : e[2] = id => e[1] < n
      /\ \A k \in 1..(n - 1) : EntityId(id, k) \in DOMAIN table
  BY <1>1, SaveFollowsNewest
<1>3. /\ new \notin DOMAIN table
      /\ DOMAIN table' = DOMAIN table \cup {EntityId(id, 0), new}
      /\ table'[new] = item
      /\ \A e \in DOMAIN table : e # EntityId(id, 0) => table'[e] = table[e]
      /\ Latest(id)' = item
      /\ \A other \in Ids : other # id => Latest(other)' = Latest(other)
  BY <1>1, SavedRows
<1>4. item # None /\ \A e \in DOMAIN table : e \in Nat \X Ids /\ table[e] \in Item
  BY NoneIsNoValue DEF TypeInv, TypeOK, EntityIds
<1>5. new[1] = n /\ new[2] = id /\ EntityId(id, 0)[1] = 0 /\ EntityId(id, 0)[2] = id
  BY DEF EntityId
<1>6. LatestHasVersion'
  <2>1. ASSUME NEW other \in Ids, Latest(other)' # None
        PROVE  Stored(other, Latest(other))'
    <3>1. CASE other = id
      BY <1>3, <3>1 DEF Stored, Exists
    <3>2. CASE other # id
      <4>1. Latest(other) # None /\ Latest(other) \in Item /\ Latest(other)' = Latest(other)
        BY <1>3, <1>4, <2>1, <3>2 DEF Latest, Row
      <4>2. PICK item2 \in Item : item2 = Latest(other)
        BY <4>1
      <4>3. Stored(other, item2) /\ item2.version # 0
        BY <4>1, <4>2 DEF HistoryInv, LatestHasVersion, Item, Version
      <4>4. Stored(other, item2)'
        BY <4>3, SaveKeepsStored
      <4>. QED  BY <4>1, <4>2, <4>4 DEF Stored
    <3>. QED  BY <3>1, <3>2
  <2>. QED  BY <2>1 DEF LatestHasVersion
<1>7. LatestIsNewest'
  <2>1. ASSUME NEW e \in DOMAIN table', e[1] > 0
        PROVE  Latest(e[2])' # None /\ e[1] <= Latest(e[2])'.version
    <3>1. CASE e[2] = id
      <4>1. e[1] <= n
        BY <1>2, <1>3, <1>4, <1>5, <3>1
      <4>. QED  BY <1>3, <1>4, <3>1, <4>1
    <3>2. CASE e[2] # id
      <4>1. e \in DOMAIN table /\ e[2] \in Ids
        BY <1>3, <1>4, <1>5, <3>2
      <4>2. Latest(e[2])' = Latest(e[2])
        BY <1>3, <3>2, <4>1
      <4>. QED  BY <2>1, <4>1, <4>2 DEF HistoryInv, LatestIsNewest
    <3>. QED  BY <3>1, <3>2
  <2>. QED  BY <2>1 DEF LatestIsNewest
<1>8. HistoryComplete'
  <2>1. ASSUME NEW e \in DOMAIN table', e[1] > 0
        PROVE  /\ table'[e].version = e[1]
               /\ \A k \in 1..e[1] : EntityId(e[2], k) \in DOMAIN table'
    <3>1. CASE e = new
      BY <1>2, <1>3, <1>5, <3>1
    <3>2. CASE e # new
      <4>1. e \in DOMAIN table /\ table'[e] = table[e]
        BY <1>3, <1>5, <2>1, <3>2
      <4>. QED  BY <1>3, <2>1, <4>1 DEF HistoryInv, HistoryComplete, Exists
    <3>. QED  BY <3>1, <3>2
  <2>. QED  BY <2>1 DEF HistoryComplete, Exists
<1>. QED  BY <1>6, <1>7, <1>8

-----------------------------------------------------------------------------
(* A step of one call that writes nothing.                                 *)
LEMMA CallStep ==
  ASSUME TypeInv, HistoryInv, NEW p \in Procs,
         UNCHANGED <<table, replica>>,
         \A q \in Procs : q # p => call'[q] = call[q],
         call'[p].pc = "save" /\ call'[p].op = "update"
           => Stored(call'[p].id, call'[p].latest),
         ~Acknowledged(p)'
  PROVE  HistoryInv'
<1>1. LatestHasVersion' /\ LatestIsNewest' /\ HistoryComplete'
  BY DEF HistoryInv, LatestHasVersion, LatestIsNewest, HistoryComplete, Latest,
         Stored
<1>2. ReadsAreHistory'
  BY DEF HistoryInv, ReadsAreHistory, Stored
<1>3. \A q \in Procs : Acknowledged(q)' => q # p /\ Acknowledged(q) /\ call'[q] = call[q]
  BY DEF Acknowledged, Ended
<1>4. AcknowledgedKept'
  BY <1>3 DEF HistoryInv, AcknowledgedKept, Stored, Saved, Created, Updated
<1>. QED  BY <1>1, <1>2, <1>4 DEF HistoryInv

(* A step that writes by save, whether or not its answer arrives.          *)
LEMMA SaveStep ==
  ASSUME TypeInv, HistoryInv, NEW p \in Procs, NEW result \in {"ok", "Error"},
         call[p].pc = "save", CanSave(call[p]), WriteSaved(call[p]),
         Return(p, result), UNCHANGED <<replica, used>>
  PROVE  HistoryInv'
<1>1. PICK id \in Ids, item \in Item : id = call[p].id /\ item = Saved(call[p])
  BY SavedValues
<1>2. /\ call'[p] = [call[p] EXCEPT !.pc = "returned", !.result = result]
      /\ \A q \in Procs : q # p => call'[q] = call[q]
  BY DEF Return, TypeInv, TypeOK
<1>3. /\ call'[p].pc = "returned" /\ call'[p].id = id
      /\ call[p] \in Call
  BY <1>1, <1>2 DEF TypeInv, TypeOK, Call
<1>4. Saved(call'[p]) = item
  BY <1>1, <1>2, <1>3 DEF Saved, Created, Updated, Call
<1>5. Stored(id, item)'
  <2>1. /\ DOMAIN table' = DOMAIN table
             \cup {EntityId(id, 0), EntityId(id, item.version)}
        /\ table'[EntityId(id, item.version)] = item
    BY <1>1, SavedRows
  <2>. QED  BY <2>1 DEF Stored, Exists
<1>6. ReadsAreHistory'
  <2>1. ASSUME NEW other \in Ids, replica[other] # None
        PROVE  Stored(other, replica[other])'
    <3>1. PICK old \in Item : old = replica[other]
      BY <2>1 DEF TypeInv, TypeOK
    <3>2. Stored(other, old) /\ old.version # 0
      BY <2>1, <3>1 DEF HistoryInv, ReadsAreHistory, Item, Version
    <3>3. Stored(other, old)'
      BY <3>2, SaveKeepsStored
    <3>. QED  BY <3>1, <3>3 DEF Stored
  <2>2. ASSUME NEW q \in Procs, q # p, call[q].pc = "save", call[q].op = "update"
        PROVE  Stored(call[q].id, call[q].latest)'
    <3>1. call[q].latest \in Item /\ call[q].id \in Ids
      BY <2>2 DEF TypeInv, CallsOK, Suspended, Awaits
    <3>2. PICK other \in Ids, old \in Item : other = call[q].id /\ old = call[q].latest
      BY <3>1
    <3>3. Stored(other, old) /\ old.version # 0
      BY <2>2, <3>2 DEF HistoryInv, ReadsAreHistory, Item, Version
    <3>4. Stored(other, old)'
      BY <3>3, SaveKeepsStored
    <3>. QED  BY <1>2, <2>2, <3>2, <3>4
  <2>. QED  BY <1>2, <1>3, <2>1, <2>2 DEF ReadsAreHistory, Stored
<1>7. AcknowledgedKept'
  <2>1. ASSUME NEW q \in Procs, q # p, Acknowledged(q)'
        PROVE  /\ Stored(call[q].id, Saved(call[q]))'
               /\ Saved(call[q]).version # item.version \/ call[q].id # id
    <3>1. call'[q] = call[q] /\ Acknowledged(q)
      BY <1>2, <2>1 DEF Acknowledged, Ended
    <3>2. PICK other, old : other = call[q].id /\ old = Saved(call[q])
      OBVIOUS
    <3>3. Stored(other, old)
      BY <3>1, <3>2 DEF HistoryInv, AcknowledgedKept
    <3>4. old.version # 0
      <4>1. CASE call[q].op = "create"
        BY <3>2, <4>1 DEF Saved, Created
      <4>2. CASE call[q].op = "update"
        <5>1. EntityId(other, old.version) \in DOMAIN table
              /\ table[EntityId(other, old.version)] = old
          BY <3>3 DEF Stored, Exists
        <5>2. old \in Item
          BY <5>1 DEF TypeInv, TypeOK
        <5>. QED  BY <5>2 DEF Item, Version
      <4>. QED  BY <3>1, <4>1, <4>2 DEF Acknowledged, Ended
    <3>5. Stored(other, old)'
      BY <3>3, <3>4, SaveKeepsStored
    <3>6. EntityId(id, item.version) \notin DOMAIN table
      BY <1>1, SavedRows
    <3>7. old.version # item.version \/ other # id
      BY <3>3, <3>6 DEF Stored, Exists
    <3>. QED  BY <3>1, <3>2, <3>5, <3>7 DEF Saved, Created, Updated
  <2>2. \A q \in Procs : q # p => call'[q] = call[q]
    BY <1>2
  <2>3. \A q, r \in Procs : q # p /\ r # p /\ q # r /\ Acknowledged(q)'
            /\ Acknowledged(r)' /\ call[q].id = call[r].id
          => Saved(call[q]).version # Saved(call[r]).version
    BY <2>2 DEF HistoryInv, AcknowledgedKept, Acknowledged, Ended
  <2>4. \A q \in Procs : q # p => Saved(call'[q]) = Saved(call[q])
    BY <2>2
  <2>. QED  BY <1>3, <1>4, <1>5, <2>1, <2>2, <2>3, <2>4
            DEF AcknowledgedKept, Stored
<1>8. LatestHasVersion' /\ LatestIsNewest' /\ HistoryComplete'
  BY SavePreservesTable
<1>. QED  BY <1>6, <1>7, <1>8 DEF HistoryInv

-----------------------------------------------------------------------------
(* Which actions an append-only system takes.                              *)
LEMMA AppendOnlySteps ==
  ASSUME AppendOnly, TypeInv, NEW p \in Procs
  PROVE  /\ ~ReadForRevision(p) /\ ~ReadForDeletion(p)
         /\ call[p].pc \notin {"revise", "delete"}
         /\ ~StartUpdateRevision(p) /\ ~StartDelete(p) /\ ~StartDeleteCompletely(p)
<1>1. call[p].pc \in Awaits => call[p].op \in {"get", "create", "update"}
                               /\ call[p].op \in Awaiting[call[p].pc]
  BY DEF AppendOnly, TypeInv, CallsOK, Suspended
<1>2. call[p].pc \notin {"revise", "delete"}
  BY <1>1 DEF Awaits, Awaiting
<1>3. ~ReadForRevision(p) /\ ~ReadForDeletion(p)
  BY <1>1 DEF Awaits, ReadForRevision, ReadForDeletion
<1>4. \A op \in {"updateRevision", "delete", "deleteCompletely"} : op \notin Ops
  BY DEF AppendOnly
<1>5. ~StartUpdateRevision(p) /\ ~StartDelete(p) /\ ~StartDeleteCompletely(p)
  BY <1>4, Zenon DEF StartUpdateRevision, StartDelete, StartDeleteCompletely, Start
<1>. QED  BY <1>2, <1>3, <1>5

LEMMA HistoryNext ==
  ASSUME AppendOnly
  PROVE  TypeInv /\ HistoryInv /\ [Next]_vars => HistoryInv'
<1> SUFFICES ASSUME TypeInv, HistoryInv, [Next]_vars
             PROVE  HistoryInv'
  OBVIOUS
<1>1. ASSUME NEW p \in Procs, Begin(p)
      PROVE  HistoryInv'
  <2>1. /\ UNCHANGED <<table, replica>>
        /\ \A q \in Procs : q # p => call'[q] = call[q]
        /\ call'[p].op = "update" => call'[p].pc # "save"
        /\ ~Acknowledged(p)'
    <3>1. CASE StartGet(p) \/ StartCreate(p) \/ StartUpdate(p)
      BY <3>1, StartChanges DEF StartGet, StartCreate, StartUpdate, Awaits
    <3>2. CASE RefuseCreate(p)
      BY <3>2 DEF RefuseCreate, Idle, Acknowledged, Ended, TypeInv, TypeOK
    <3>. QED  BY <1>1, <3>1, <3>2, AppendOnlySteps DEF Begin
  <2>. QED  BY <2>1, CallStep
<1>2. ASSUME NEW p \in Procs, Step(p) \/ Fault(p)
      PROVE  HistoryInv'
  <2>1. CASE Return(p, "NotFound") \/ Return(p, "BadRequest") \/ Return(p, "Error")
    <3>1. CASE UNCHANGED <<table, replica>>
      <4>1. /\ \A q \in Procs : q # p => call'[q] = call[q]
            /\ call'[p].pc = "returned" /\ call'[p].result # "ok"
        BY <2>1 DEF Return, TypeInv, TypeOK, Call
      <4>. QED  BY <3>1, <4>1, CallStep DEF Acknowledged, Ended
    <3>2. CASE LostReply(p)
      BY <3>2, AppendOnlySteps, SaveStep DEF LostReply
    <3>3. CASE Save(p)
      BY <3>3, SaveStep DEF Save
    <3>. QED  BY <1>2, <3>1, <3>2, <3>3, AppendOnlySteps
              DEF Step, Fault, GetMissing, GetFound, ReadForUpdate, RetryCreate,
                  SaveRefused, Revise, ReviseRefused, DeleteRow, DeleteMissing,
                  Fail, LostDelete, Crash
  <2>2. CASE Save(p)
    BY <2>2, SaveStep DEF Save
  <2>3. CASE GetFound(p)
    <3>1. /\ UNCHANGED <<table, replica>>
          /\ \A q \in Procs : q # p => call'[q] = call[q]
          /\ call'[p].op = "get"
      BY <2>3 DEF GetFound, TypeInv, TypeOK, Call
    <3>. QED  BY <3>1, CallStep DEF Acknowledged, Ended
  <2>4. CASE ReadForUpdate(p) /\ ~Return(p, "BadRequest")
    <3>1. PICK item \in Visible(call[p].id) \ {None} :
            call' = [call EXCEPT ![p].pc = "save", ![p].latest = item]
      BY <2>4 DEF ReadForUpdate
    <3>2. call[p] \in Call /\ call[p].id \in Ids
      BY <2>4 DEF ReadForUpdate, TypeInv, TypeOK, CallsOK, Suspended, Awaits
    <3>3. Stored(call[p].id, item)
      BY <3>1, <3>2 DEF Visible, HistoryInv, LatestHasVersion, Latest, ReadsAreHistory
    <3>4. /\ \A q \in Procs : q # p => call'[q] = call[q]
          /\ call'[p].pc = "save" /\ call'[p].latest = item
          /\ call'[p].id = call[p].id
      BY <3>1, <3>2 DEF TypeInv, TypeOK, Call
    <3>5. UNCHANGED <<table, replica>>
      BY <2>4 DEF ReadForUpdate
    <3>. QED  BY <3>3, <3>4, <3>5, CallStep DEF Acknowledged, Ended
  <2>5. CASE RetryCreate(p)
    <3>1. /\ UNCHANGED <<table, replica>>
          /\ \A q \in Procs : q # p => call'[q] = call[q]
          /\ call'[p].pc = "save" /\ call'[p].op = "create"
      BY <2>5 DEF RetryCreate, TypeInv, TypeOK, Call
    <3>. QED  BY <3>1, CallStep DEF Acknowledged, Ended
  <2>6. CASE Crash(p)
    <3>1. /\ UNCHANGED <<table, replica>>
          /\ \A q \in Procs : q # p => call'[q] = call[q]
          /\ call'[p].pc = "idle"
      BY <2>6 DEF Crash, Idle, TypeInv, TypeOK
    <3>. QED  BY <3>1, CallStep DEF Acknowledged, Ended
  <2>. QED  BY <1>2, <2>1, <2>2, <2>3, <2>4, <2>5, <2>6, AppendOnlySteps
            DEF Step, Fault, GetMissing, ReadForUpdate, SaveRefused, Revise,
                ReviseRefused, DeleteRow, DeleteMissing, Fail, LostReply, LostDelete
<1>3. ASSUME NEW id \in Ids, Replicate(id)
      PROVE  HistoryInv'
  <2>1. UNCHANGED <<table, call>>
    BY <1>3 DEF Replicate
  <2>2. \A other \in Ids : replica'[other] \in {replica[other], Latest(other)}
    BY <1>3 DEF Replicate, Latest, TypeInv, TypeOK
  <2>3. ReadsAreHistory'
    BY <2>1, <2>2 DEF HistoryInv, ReadsAreHistory, LatestHasVersion, Stored
  <2>. QED  BY <2>1, <2>3 DEF HistoryInv, LatestHasVersion, LatestIsNewest,
            HistoryComplete, AcknowledgedKept, Acknowledged, Ended, Latest, Stored,
            Saved, Created, Updated
<1>4. CASE UNCHANGED vars
  BY <1>4 DEF vars, HistoryInv, LatestHasVersion, LatestIsNewest, HistoryComplete,
              ReadsAreHistory, AcknowledgedKept, Acknowledged, Ended, Latest, Stored,
              Saved, Created, Updated
<1>. QED  BY <1>1, <1>2, <1>3, <1>4 DEF Next

LEMMA HistoryInvariant ==
  ASSUME AppendOnly
  PROVE  Spec => [](TypeInv /\ HistoryInv)
<1>1. TypeInv /\ HistoryInv /\ [Next]_vars => TypeInv' /\ HistoryInv'
  BY HistoryNext, TypeNext
<1>. QED  BY <1>1, TypeInit, HistoryInit, PTL DEF Spec

(* With only creates, updates and reads, the latest copy is always the     *)
(* newest version row, and the version rows of a demo run from 1 to it     *)
(* without a hole.                                                         *)
THEOREM HistoriesComplete ==
  ASSUME AppendOnly
  PROVE  Spec => [](LatestHasVersion /\ LatestIsNewest /\ HistoryComplete)
<1>1. TypeInv /\ HistoryInv => LatestHasVersion /\ LatestIsNewest /\ HistoryComplete
  BY DEF HistoryInv
<1>. QED  BY <1>1, HistoryInvariant, PTL

(* What a call has read is, however stale the read was, a version that the *)
(* history of its demo holds.                                              *)
THEOREM ReadsComeFromHistory ==
  ASSUME AppendOnly
  PROVE  Spec => []ReadsAreHistory
<1>1. TypeInv /\ HistoryInv => ReadsAreHistory
  BY DEF HistoryInv
<1>. QED  BY <1>1, HistoryInvariant, PTL

(* No acknowledged create or update is lost, and no two of them are given  *)
(* the same version of a demo.                                             *)
THEOREM AcknowledgedWritesKept ==
  ASSUME AppendOnly
  PROVE  Spec => []AcknowledgedKept
<1>1. TypeInv /\ HistoryInv => AcknowledgedKept
  BY DEF HistoryInv
<1>. QED  BY <1>1, HistoryInvariant, PTL

(* The condition on the version row alone makes update optimistic: its     *)
(* transaction takes effect, answered or not, only on top of the version   *)
(* it read.                                                                *)
THEOREM UpdatesAreOptimistic ==
  ASSUME AppendOnly
  PROVE  Spec => SavedOnTopOfLatest
<1>1. ASSUME TypeInv, HistoryInv, [Next]_vars, NEW p \in Procs,
             call[p].pc = "save", call[p].op = "update", call'[p] # call[p], table' # table
      PROVE  call[p].latest = Latest(call[p].id)
  <2>1. PICK q \in Procs : Begin(q) \/ Step(q) \/ Fault(q)
    BY <1>1 DEF Next, vars, Replicate
  <2>2. Save(q) \/ LostReply(q)
    <3>1. ~Begin(q)
      BY <1>1, Zenon DEF Begin, StartGet, StartCreate, RefuseCreate, StartUpdate,
         StartUpdateRevision, StartDelete, StartDeleteCompletely
    <3>2. Step(q) => Save(q)
      BY <1>1, AppendOnlySteps DEF Step, GetMissing, GetFound, ReadForUpdate, ReadForRevision,
         ReadForDeletion, RetryCreate, SaveRefused, Revise, ReviseRefused, DeleteRow,
         DeleteMissing
    <3>3. Fault(q) => LostReply(q)
      BY <1>1, AppendOnlySteps DEF Fault, Fail, LostDelete, Crash
    <3>. QED  BY <2>1, <3>1, <3>2, <3>3
  <2>3. q = p
    <3>1. \E result : Return(q, result)
      BY <2>2 DEF Save, LostReply
    <3>. QED  BY <1>1, <3>1 DEF Return, TypeInv, TypeOK
  <2>4. CanSave(call[p])
    BY <1>1, <2>2, <2>3 DEF Save, LostReply
  <2>. QED  BY <1>1, <2>4, SaveFollowsNewest
<1>2. TypeInv /\ HistoryInv /\ [Next]_vars =>
        [\A p \in Procs :
           call[p].pc = "save" /\ call[p].op = "update" /\ call'[p] # call[p] /\ table' # table
             => call[p].latest = Latest(call[p].id)]_vars
  BY <1>1
<1>. QED  BY <1>2, HistoryInvariant, PTL DEF SavedOnTopOfLatest, Spec

-----------------------------------------------------------------------------
(* What DemoModel does, in the terms of DemoHistory.                       *)
historyBar == [e \in VersionRows |-> table[e].body]
busyBar == {p \in Procs : call[p].pc \in Awaits}
answerBar == [p \in Procs |-> Answered(p)]

LEMMA AbstractVars ==
  /\ History!vars = <<historyBar, busyBar, answerBar>>
  /\ History!vars' = <<historyBar', busyBar', answerBar'>>
BY DEF History!vars, historyBar, busyBar, answerBar

(* What the step of one call does to the mapped variables.                 *)
LEMMA CallMapped ==
  ASSUME TypeInv, NEW p \in Procs, \A q \in Procs : q # p => call'[q] = call[q]
  PROVE  /\ busyBar' = IF call'[p].pc \in Awaits THEN busyBar \cup {p} ELSE busyBar \ {p}
         /\ answerBar' = [answerBar EXCEPT ![p] = Answered(p)']
<1>1. \A q \in Procs : q # p => Answered(q)' = Answered(q)
  BY DEF Answered, Saved, Created, Updated
<1>. QED  BY <1>1 DEF busyBar, answerBar

LEMMA HistoryUnchanged == UNCHANGED table => UNCHANGED historyBar
BY DEF historyBar, VersionRows

(* A call that starts is a request.                                        *)
LEMMA RequestMapped ==
  ASSUME TypeInv, NEW p \in Procs, Free(p), UNCHANGED table,
         \A q \in Procs : q # p => call'[q] = call[q], call'[p].pc \in Awaits
  PROVE  History!Next
<1>1. Answered(p)' = None
  BY DEF Answered, Awaits
<1>2. p \notin busyBar
  BY DEF Free, busyBar, Awaits
<1>3. /\ busyBar' = busyBar \cup {p}
      /\ answerBar' = [answerBar EXCEPT ![p] = None]
      /\ historyBar' = historyBar
  BY <1>1, CallMapped, HistoryUnchanged
<1>. QED  BY <1>2, <1>3 DEF History!Next, History!Request, historyBar, busyBar, answerBar

(* One that ends otherwise than with "ok" is a refusal.                    *)
LEMMA RefuseMapped ==
  ASSUME TypeInv, NEW p \in Procs, UNCHANGED table,
         \A q \in Procs : q # p => call'[q] = call[q],
         call'[p].pc \notin Awaits, call'[p].pc = "returned" => call'[p].result # "ok"
  PROVE  History!Next
<1>1. Answered(p)' = None
  BY DEF Answered
<1>2. /\ busyBar' = busyBar \ {p}
      /\ answerBar' = [answerBar EXCEPT ![p] = None]
      /\ historyBar' = historyBar
  BY <1>1, CallMapped, HistoryUnchanged
<1>. QED  BY <1>2 DEF History!Next, History!Refuse, historyBar, busyBar, answerBar

(* One that goes on with another request to DynamoDB is not seen.          *)
LEMMA StutterMapped ==
  ASSUME TypeInv, NEW p \in Procs, UNCHANGED table,
         \A q \in Procs : q # p => call'[q] = call[q],
         call[p].pc \in Awaits, call'[p].pc \in Awaits
  PROVE  UNCHANGED History!vars
<1>1. Answered(p)' = None /\ Answered(p) = None
  BY DEF Answered, Awaits
<1>2. p \in busyBar /\ answerBar = [answerBar EXCEPT ![p] = None]
  BY <1>1 DEF busyBar, answerBar
<1>3. historyBar' = historyBar
  BY HistoryUnchanged
<1>4. busyBar' = busyBar \cup {p} /\ answerBar' = [answerBar EXCEPT ![p] = None]
  BY <1>1, CallMapped
<1>5. busyBar' = busyBar /\ answerBar' = answerBar
  BY <1>2, <1>4
<1>. QED  BY <1>3, <1>5, AbstractVars

(* A get that finds an item, be it stale, reads a version of the history.  *)
LEMMA ReadMapped ==
  ASSUME TypeInv, HistoryInv, NEW p \in Procs, GetFound(p)
  PROVE  History!Next
<1>1. call[p] \in Call /\ call \in [Procs -> Call] /\ call[p].id \in Ids /\ p \in busyBar
  BY DEF GetFound, TypeInv, TypeOK, CallsOK, Suspended, Awaits, busyBar
<1>2. PICK item \in Visible(call[p].id) \ {None} :
        call' = [call EXCEPT ![p].pc = "returned", ![p].result = "ok", ![p].latest = item]
  BY DEF GetFound
<1>3. Stored(call[p].id, item)
  BY <1>1, <1>2 DEF Visible, HistoryInv, LatestHasVersion, Latest, ReadsAreHistory
<1> DEFINE e == EntityId(call[p].id, item.version)
<1>4. e \in VersionRows /\ e[1] = item.version /\ e[2] = call[p].id /\ table[e] = item
  <2>1. e \in DOMAIN table /\ table[e] = item
    BY <1>3 DEF Stored, Exists
  <2>2. item \in Item
    BY <2>1 DEF TypeInv, TypeOK
  <2>. QED  BY <2>1, <2>2 DEF VersionRows, EntityId, Item, Version
<1>5. /\ \A q \in Procs : q # p => call'[q] = call[q]
      /\ call'[p].pc = "returned" /\ call'[p].result = "ok" /\ call'[p].latest = item
      /\ call'[p].op = "get" /\ call'[p].id = call[p].id
  BY <1>1, <1>2 DEF Call, GetFound
<1>6. Answered(p)' = History!Answer(e[2], e[1], historyBar[e])
  BY <1>4, <1>5 DEF Answered, History!Answer, historyBar
<1>7. /\ busyBar' = busyBar \ {p} /\ historyBar' = historyBar
      /\ answerBar' = [answerBar EXCEPT ![p] = History!Answer(e[2], e[1], historyBar[e])]
  BY <1>5, <1>6, CallMapped, HistoryUnchanged DEF GetFound, Awaits
<1>8. e \in DOMAIN historyBar
  BY <1>4 DEF historyBar
<1> HIDE DEF e
<1>9. History!Read(p)
  BY <1>1, <1>7, <1>8 DEF History!Read, historyBar, busyBar, answerBar
<1>. QED  BY <1>9 DEF History!Next

(* A transaction of save that takes effect appends to the history.         *)
LEMMA PublishMapped ==
  ASSUME TypeInv, HistoryInv, NEW p \in Procs, NEW result \in {"ok", "Error"},
         Saves(p), Return(p, result)
  PROVE  History!Next
<1>1. call[p].pc = "save" /\ CanSave(call[p]) /\ WriteSaved(call[p])
  BY DEF Saves
<1>2. PICK id \in Ids, item \in Item : id = call[p].id /\ item = Saved(call[p])
  BY <1>1, SavedValues
<1> DEFINE n == item.version - 1
           new == EntityId(id, item.version)
<1>3. /\ call[p] \in Call /\ call \in [Procs -> Call] /\ p \in busyBar
      /\ call[p].op \in {"create", "update"}
  BY <1>1 DEF TypeInv, TypeOK, CallsOK, Suspended, Awaits, Awaiting, busyBar
<1>4. n \in Nat /\ item.version = n + 1 /\ item.body \in Body /\ item.version > 0
  BY DEF Item, Version
<1>5. new = <<n + 1, id>> /\ new[1] > 0
  BY <1>4 DEF EntityId
<1>6. /\ new \notin DOMAIN table
      /\ DOMAIN table' = DOMAIN table \cup {EntityId(id, 0), new}
      /\ table'[new] = item
      /\ \A e \in DOMAIN table : e # EntityId(id, 0) => table'[e] = table[e]
  BY <1>1, <1>2, SavedRows
<1>7. /\ \A e \in DOMAIN table : e[2] = id => e[1] < item.version
      /\ \A k \in 1..(item.version - 1) : EntityId(id, k) \in DOMAIN table
  BY <1>1, <1>2, SaveFollowsNewest
<1>8. VersionRows' = VersionRows \cup {new}
  BY <1>5, <1>6 DEF VersionRows, EntityId
<1>9. historyBar' = [e \in DOMAIN historyBar \cup {new} |->
                       IF e = new THEN item.body ELSE historyBar[e]]
  <2>1. \A e \in VersionRows : e # new /\ table'[e] = table[e]
    BY <1>6 DEF VersionRows, EntityId
  <2>. QED  BY <1>6, <1>8, <2>1 DEF historyBar
<1>10. n = 0 \/ <<n, id>> \in DOMAIN historyBar
  <2>1. n # 0 => n \in 1..(item.version - 1)
    BY <1>4
  <2>. QED  BY <1>4, <1>7, <2>1 DEF historyBar, VersionRows, EntityId
<1>11. \A e \in DOMAIN historyBar : e[2] = id => e[1] <= n
  <2>1. \A e \in DOMAIN historyBar : e \in DOMAIN table /\ e[1] \in Nat
    BY DEF historyBar, VersionRows, TypeInv, TypeOK, EntityIds
  <2>. QED  BY <1>4, <1>7, <2>1
<1>12. n \in {0} \cup {e[1] : e \in DOMAIN historyBar}
  <2>1. <<n, id>>[1] = n
    OBVIOUS
  <2>. QED  BY <1>10, <2>1
<1>13. /\ \A q \in Procs : q # p => call'[q] = call[q]
       /\ call'[p] = [call[p] EXCEPT !.pc = "returned", !.result = result]
  BY <1>3 DEF Return
<1>14. Answered(p)' = IF result = "ok" THEN History!Answer(id, n + 1, item.body) ELSE None
  <2>1. /\ call'[p].pc = "returned" /\ call'[p].result = result
        /\ call'[p].op = call[p].op /\ call'[p].id = id
        /\ call'[p].latest = call[p].latest /\ call'[p].body = call[p].body
    BY <1>2, <1>3, <1>13 DEF Call
  <2>2. Saved(call'[p]) = item
    BY <1>2, <2>1 DEF Saved, Created, Updated
  <2>. QED  BY <1>3, <1>4, <2>1, <2>2 DEF Answered, History!Answer
<1>15. answerBar' \in {[answerBar EXCEPT ![p] = History!Answer(id, n + 1, item.body)],
                       answerBar}
  <2>1. Answered(p) = None
    BY <1>1 DEF Answered
  <2>2. answerBar' = [answerBar EXCEPT ![p] = Answered(p)']
    BY <1>13, CallMapped
  <2>3. answerBar = [answerBar EXCEPT ![p] = None]
    BY <2>1 DEF answerBar
  <2>. QED  BY <1>14, <2>2, <2>3
<1>16. busyBar' = busyBar \ {p}
  <2>1. call'[p].pc \notin Awaits
    BY <1>3, <1>13 DEF Call, Awaits
  <2>. QED  BY <1>13, <2>1, CallMapped
<1>17. History!Newest(id, n) /\ History!Append1(id, n, item.body)
  BY <1>5, <1>9, <1>10, <1>11 DEF History!Newest, History!Append1, historyBar
<1> HIDE DEF n, new
<1>18. History!Publish(p)
  BY <1>3, <1>4, <1>12, <1>15, <1>16, <1>17
     DEF History!Publish, historyBar, busyBar, answerBar
<1>. QED  BY <1>18 DEF History!Next

-----------------------------------------------------------------------------
LEMMA BeginMapped ==
  ASSUME AppendOnly, TypeInv, NEW p \in Procs, Begin(p)
  PROVE  History!Next
<1>1. call \in [Procs -> Call]
  BY DEF TypeInv, TypeOK
<1>2. CASE StartGet(p) \/ StartCreate(p) \/ StartUpdate(p)
  <2>1. ASSUME NEW op, NEW pc, NEW id, NEW body, NEW version, NEW retry,
               Start(p, op, pc, id, body, version, retry)
        PROVE  Free(p) /\ (\A q \in Procs : q # p => call'[q] = call[q]) /\ call'[p].pc = pc
    BY <1>1, <2>1 DEF Start
  <2>2. /\ Free(p) /\ \A q \in Procs : q # p => call'[q] = call[q]
        /\ call'[p].pc \in Awaits
        /\ UNCHANGED table
    BY <1>2, <2>1 DEF StartGet, StartCreate, StartUpdate, Awaits
  <2>. QED  BY <2>2, RequestMapped
<1>3. CASE RefuseCreate(p)
  <2>1. /\ UNCHANGED table
        /\ \A q \in Procs : q # p => call'[q] = call[q]
        /\ call'[p].pc = "returned" /\ call'[p].result = "BadRequest"
    BY <1>1, <1>3 DEF RefuseCreate, Idle
  <2>. QED  BY <2>1, RefuseMapped DEF Awaits
<1>. QED  BY <1>2, <1>3, AppendOnlySteps DEF Begin

LEMMA StepMapped ==
  ASSUME AppendOnly, TypeInv, HistoryInv, NEW p \in Procs, Step(p) \/ Fault(p)
  PROVE  History!Next \/ UNCHANGED History!vars
<1>1. call \in [Procs -> Call] /\ call[p] \in Call
  BY DEF TypeInv, TypeOK
<1>2. ASSUME NEW result \in {"NotFound", "BadRequest", "Error"}, Return(p, result),
             UNCHANGED table
      PROVE  History!Next
  <2>1. /\ \A q \in Procs : q # p => call'[q] = call[q]
        /\ call'[p].pc = "returned" /\ call'[p].result = result
    BY <1>1, <1>2 DEF Return, Call
  <2>. QED  BY <1>2, <2>1, RefuseMapped DEF Awaits
<1>3. CASE GetMissing(p) \/ SaveRefused(p) \/ Fail(p)
  BY <1>2, <1>3 DEF GetMissing, SaveRefused, Fail
<1>4. CASE GetFound(p)
  BY <1>4, ReadMapped
<1>5. CASE ReadForUpdate(p)
  <2>1. CASE Return(p, "BadRequest")
    BY <1>2, <1>5, <2>1 DEF ReadForUpdate
  <2>2. CASE ~Return(p, "BadRequest")
    <3>1. PICK item : call' = [call EXCEPT ![p].pc = "save", ![p].latest = item]
      BY <1>5, <2>2 DEF ReadForUpdate
    <3>2. (\A q \in Procs : q # p => call'[q] = call[q]) /\ call'[p].pc = "save"
      BY <1>1, <3>1 DEF Call
    <3>. QED  BY <1>5, <3>2, StutterMapped DEF ReadForUpdate, Awaits
  <2>. QED  BY <2>1, <2>2
<1>6. CASE Save(p)
  BY <1>6, PublishMapped DEF Save, Saves
<1>7. CASE RetryCreate(p)
  <2>1. (\A q \in Procs : q # p => call'[q] = call[q]) /\ call'[p].pc = "save"
    BY <1>1, <1>7 DEF RetryCreate, Call
  <2>. QED  BY <1>7, <2>1, StutterMapped DEF RetryCreate, Awaits
<1>8. CASE LostReply(p)
  BY <1>8, AppendOnlySteps, PublishMapped DEF LostReply, Saves
<1>9. CASE Crash(p)
  <2>1. (\A q \in Procs : q # p => call'[q] = call[q]) /\ call'[p].pc = "idle"
    BY <1>1, <1>9 DEF Crash, Idle
  <2>. QED  BY <1>9, <2>1, RefuseMapped DEF Crash, Awaits
<1>10. ~ReadForRevision(p) /\ ~ReadForDeletion(p) /\ ~Revise(p) /\ ~ReviseRefused(p)
       /\ ~DeleteRow(p) /\ ~DeleteMissing(p) /\ ~LostDelete(p)
  BY AppendOnlySteps DEF Revise, ReviseRefused, DeleteRow, DeleteMissing, LostDelete
<1>. QED  BY <1>3, <1>4, <1>5, <1>6, <1>7, <1>8, <1>9, <1>10 DEF Step, Fault

LEMMA NextMapped ==
  ASSUME AppendOnly, TypeInv, HistoryInv, [Next]_vars
  PROVE  [History!Next]_(History!vars)
<1>1. CASE (\E id \in Ids : Replicate(id)) \/ UNCHANGED vars
  <2>1. UNCHANGED <<table, call>>
    BY <1>1 DEF Replicate, vars
  <2>2. UNCHANGED <<historyBar, busyBar, answerBar>>
    BY <2>1 DEF historyBar, VersionRows, busyBar, answerBar, Answered, Saved, Created, Updated
  <2>. QED  BY <2>2, AbstractVars
<1>. QED  BY <1>1, BeginMapped, StepMapped DEF Next

LEMMA InitMapped == Init => History!Init
<1>. SUFFICES ASSUME Init PROVE History!Init
  OBVIOUS
<1>1. VersionRows = {} /\ busyBar = {} /\ \A p \in Procs : Answered(p) = None
  BY DEF Init, Idle, VersionRows, busyBar, Awaits, Answered
<1>. QED  BY <1>1 DEF History!Init, busyBar

(* Whatever the interleaving of the invocations, stale reads, id           *)
(* collisions, lost answers and crashes included: callers that create,     *)
(* update and read see one append-only history per demo.                   *)
THEOREM ModelImplementsHistory ==
  ASSUME AppendOnly
  PROVE  Spec => ImplementsHistory
<1>1. TypeInv /\ HistoryInv /\ [Next]_vars => [History!Next]_(History!vars)
  BY NextMapped
<1>. QED  BY <1>1, InitMapped, HistoryInvariant, PTL DEF Spec, ImplementsHistory, History!Spec

=============================================================================
