--------------------------- MODULE ConsumerProofs ---------------------------
(***************************************************************************)
(* For any number of shards, streams and notifications: the consumer       *)
(* forgets no notification, wherever an invocation breaks off, as long as  *)
(* SQS does not accept a request and fail some of its entries; it sends    *)
(* none twice and keeps their order, as long as none is produced twice;    *)
(* and its requests have the sizes that SQS takes.                         *)
(***************************************************************************)
EXTENDS Consumer, TLAPS

LEMMA SliceType ==
  ASSUME NEW S, NEW seq \in Seq(S), NEW m \in Nat, NEW n \in m + 1..Len(seq)
  PROVE  LET slice == SubSeq(seq, m + 1, n)
         IN  /\ slice \in Seq(S) /\ Len(slice) = n - m
             /\ \A k \in 1..n - m : slice[k] = seq[m + k]
<1> DEFINE slice == SubSeq(seq, m + 1, n)
<1>1. /\ n \in Nat /\ m + 1 \in 1..Len(seq) /\ n <= Len(seq)
      /\ n - (m + 1) + 1 = n - m
  OBVIOUS
<1>2. slice = [k \in 1..n - m |-> seq[m + 1 + k - 1]]
  BY <1>1
<1>3. \A k \in 1..n - m : m + 1 + k - 1 = m + k /\ seq[m + k] \in S
  BY <1>1
<1>4. \A k \in 1..n - m : slice[k] = seq[m + k]
  <2> HIDE DEF slice
  <2>. QED  BY <1>2, <1>3
<1>5. slice \in Seq(S) /\ Len(slice) = n - m
  BY <1>1
<1>. QED  BY <1>4, <1>5

LEMMA BatchType ==
  ASSUME TypeOK, NEW s \in Shards, pc[s] # "idle", start[s] < Len(ToSend(s))
  PROVE  /\ ToSend(s) \in Seq(Intents)
         /\ BatchEnd(s) \in start[s] + 1..Len(ToSend(s))
         /\ Batch(s) \in Seq(Intents)
         /\ Len(Batch(s)) = BatchEnd(s) - start[s]
         /\ \A k \in 1..Len(Batch(s)) : Batch(s)[k] = ToSend(s)[start[s] + k]
<1>1. /\ pos[s] \in 1..Len(Stream[s]) /\ start[s] \in Nat
      /\ Stream[s] \in Seq(Events)
  BY ConsumerAssumption DEF TypeOK
<1>2. ToSend(s) \in Seq(Intents)
  BY <1>1, ConsumerAssumption DEF ToSend, Event
<1>3. BatchEnd(s) \in start[s] + 1..Len(ToSend(s))
  BY <1>1, <1>2, ConsumerAssumption DEF BatchEnd
<1>4. /\ Batch(s) \in Seq(Intents)
      /\ Len(Batch(s)) = BatchEnd(s) - start[s]
      /\ \A k \in 1..BatchEnd(s) - start[s] : Batch(s)[k] = ToSend(s)[start[s] + k]
  BY <1>1, <1>2, <1>3, SliceType DEF Batch
<1>. QED  BY <1>2, <1>3, <1>4

(* The queue only grows; an entry that may not be missed is in it.         *)
LEMMA Enqueued ==
  ASSUME NEW batch \in Seq(Intents), queue \in Seq(Intents), Enqueue(batch)
  PROVE  /\ queue' \in Seq(Intents)
         /\ Elements(queue) \subseteq Elements(queue')
         /\ \A i \in 1..Len(batch) : MayMiss(batch[i]) \/ batch[i] \in Elements(queue')
<1>1. PICK n \in 0..Len(batch) : \E kept \in [1..n -> 1..Len(batch)] :
        /\ \A i \in 1..Len(batch) : MayMiss(batch[i]) \/ \E k \in 1..n : kept[k] = i
        /\ queue' = queue \o [k \in 1..n |-> batch[kept[k]]]
  BY DEF Enqueue
<1>0. PICK kept \in [1..n -> 1..Len(batch)] :
        /\ \A i \in 1..Len(batch) : MayMiss(batch[i]) \/ \E k \in 1..n : kept[k] = i
        /\ queue' = queue \o [k \in 1..n |-> batch[kept[k]]]
  BY <1>1
<1>. DEFINE tail == [k \in 1..n |-> batch[kept[k]]]
<1>2. tail \in Seq(Intents) /\ Len(tail) = n
  BY <1>0
<1>3. /\ queue' \in Seq(Intents)
      /\ \A i \in 1..Len(queue) : i \in 1..Len(queue') /\ queue'[i] = queue[i]
      /\ \A k \in 1..n : Len(queue) + k \in 1..Len(queue') /\ queue'[Len(queue) + k] = tail[k]
  <2>. queue' = queue \o tail
    BY <1>0
  <2>. HIDE DEF tail
  <2>. QED  BY <1>2
<1>4. Elements(queue) \subseteq Elements(queue')
  BY <1>3 DEF Elements
<1>5. ASSUME NEW i \in 1..Len(batch), NEW k \in 1..n, kept[k] = i
      PROVE  batch[i] \in Elements(queue')
  BY <1>3, <1>5 DEF Elements
<1>. QED  BY <1>0, <1>3, <1>4, <1>5

-----------------------------------------------------------------------------
(* What an invocation that is under way has done: it has something left to *)
(* send, and what it has sent is in the queue.                             *)
SentIsQueued(s) ==
  /\ pc[s] \in {"idle", "process"} => start[s] = 0
  /\ pc[s] = "send" =>
       /\ start[s] < Len(ToSend(s))
       /\ "partial" \notin Faults => \A k \in 1..start[s] : ToSend(s)[k] \in Elements(queue)

ConsumerInv ==
  /\ TypeOK
  /\ "partial" \notin Faults => NothingLost
  /\ \A s \in Shards : SentIsQueued(s)

LEMMA InitInv == Init => ConsumerInv
BY ConsumerAssumption DEF Init, ConsumerInv, TypeOK, NothingLost, Handled, SentIsQueued

(* A step of a shard's invocation that does not end it.                    *)
LEMMA GoOn ==
  ASSUME ConsumerInv, NEW s \in Shards, TypeOK', pos' = pos,
         UNCHANGED <<parked, failed>>,
         Elements(queue) \subseteq Elements(queue'),
         \A r \in Shards \ {s} : pc'[r] = pc[r] /\ start'[r] = start[r],
         SentIsQueued(s)'
  PROVE  ConsumerInv'
<1>1. \A r \in Shards \ {s} : SentIsQueued(r)'
  BY DEF ConsumerInv, SentIsQueued, ToSend, Event
<1>2. "partial" \notin Faults => NothingLost'
  BY DEF ConsumerInv, NothingLost, Handled
<1>. QED  BY <1>1, <1>2 DEF ConsumerInv

(* The end of an invocation.                                               *)
LEMMA End ==
  ASSUME ConsumerInv, NEW s \in Shards, pc[s] # "idle", Return(s),
         queue' \in Seq(Intents), parked' \subseteq Events, failed' \subseteq Events,
         Elements(queue) \subseteq Elements(queue'),
         parked \cup failed \subseteq parked' \cup failed',
         \/ "partial" \in Faults
         \/ Elements(ToSend(s)) \subseteq Elements(queue')
         \/ Event(s) \in parked' \cup failed'
  PROVE  ConsumerInv'
<1>1. /\ pos \in [Shards -> Nat \ {0}] /\ start \in [Shards -> Nat]
      /\ pc \in [Shards -> {"idle", "process", "send", "park"}]
      /\ pos[s] \in 1..Len(Stream[s]) /\ Stream[s] \in Seq(Events)
  BY ConsumerAssumption DEF ConsumerInv, TypeOK
<1>2. /\ pos'[s] = pos[s] + 1 /\ pc'[s] = "idle" /\ start'[s] = 0
      /\ \A r \in Shards \ {s} : pos'[r] = pos[r] /\ pc'[r] = pc[r] /\ start'[r] = start[r]
  BY <1>1 DEF Return
<1>3. TypeOK'
  BY <1>1, <1>2 DEF ConsumerInv, TypeOK, Return, ToSend, Event
<1>4. \A r \in Shards : SentIsQueued(r)'
  BY <1>2 DEF ConsumerInv, SentIsQueued, ToSend, Event
<1>5. ASSUME "partial" \notin Faults, NEW r \in Shards, NEW e \in Events, Handled(r, e)'
      PROVE  \/ Elements(Notifications[e]) \subseteq Elements(queue')
             \/ e \in parked' \cup failed'
  <2>1. CASE Handled(r, e)
    BY <1>5, <2>1 DEF ConsumerInv, NothingLost
  <2>2. CASE r = s /\ e = Event(s)
    BY <1>5, <2>2 DEF ToSend
  <2>3. Handled(r, e) \/ (r = s /\ e = Event(s))
    BY <1>1, <1>2, <1>5 DEF Handled, Event
  <2>. QED  BY <2>1, <2>2, <2>3
<1>6. "partial" \notin Faults => NothingLost'
  BY <1>5 DEF NothingLost
<1>. QED  BY <1>3, <1>4, <1>6 DEF ConsumerInv

LEMMA SendBatchInv ==
  ASSUME ConsumerInv, NEW s \in Shards, SendBatch(s)
  PROVE  ConsumerInv'
<1>1. /\ pc[s] = "send" /\ start[s] < Len(ToSend(s)) /\ TypeOK
      /\ "partial" \notin Faults => \A k \in 1..start[s] : ToSend(s)[k] \in Elements(queue)
  BY DEF SendBatch, ConsumerInv, SentIsQueued
<1>2. /\ ToSend(s) \in Seq(Intents)
      /\ BatchEnd(s) \in start[s] + 1..Len(ToSend(s))
      /\ Batch(s) \in Seq(Intents)
      /\ Len(Batch(s)) = BatchEnd(s) - start[s]
      /\ \A k \in 1..Len(Batch(s)) : Batch(s)[k] = ToSend(s)[start[s] + k]
  BY <1>1, BatchType
<1>3. /\ queue' \in Seq(Intents)
      /\ Elements(queue) \subseteq Elements(queue')
      /\ "partial" \notin Faults => \A i \in 1..Len(Batch(s)) : Batch(s)[i] \in Elements(queue')
  BY <1>1, <1>2, Enqueued DEF SendBatch, TypeOK, MayMiss
<1>4. "partial" \notin Faults => \A k \in 1..BatchEnd(s) : ToSend(s)[k] \in Elements(queue')
  <2>1. SUFFICES ASSUME "partial" \notin Faults, NEW k \in 1..BatchEnd(s), k > start[s]
                 PROVE  ToSend(s)[k] \in Elements(queue')
    BY <1>1, <1>2, <1>3 DEF TypeOK
  <2>2. k - start[s] \in 1..Len(Batch(s)) /\ start[s] + (k - start[s]) = k
    BY <1>1, <1>2, <2>1 DEF TypeOK
  <2>. QED  BY <1>2, <1>3, <2>1, <2>2
<1>5. CASE LastBatch(s)
  <2>1. BatchEnd(s) = Len(ToSend(s))
    BY <1>1, <1>2, <1>5, ConsumerAssumption DEF LastBatch, BatchEnd, TypeOK
  <2>2. "partial" \notin Faults => Elements(ToSend(s)) \subseteq Elements(queue')
    BY <1>4, <2>1 DEF Elements
  <2>. QED  BY <1>1, <1>3, <1>5, <2>2, End DEF SendBatch, TypeOK
<1>6. CASE ~LastBatch(s)
  <2>1. /\ start' = [start EXCEPT ![s] = @ + MaxMessages] /\ pos' = pos /\ pc' = pc
        /\ UNCHANGED <<parked, failed>>
    BY <1>6 DEF SendBatch
  <2>2. /\ start'[s] = start[s] + MaxMessages /\ start'[s] \in Nat
        /\ start'[s] = BatchEnd(s) /\ start'[s] < Len(ToSend(s))
    BY <1>1, <1>2, <1>6, <2>1, ConsumerAssumption DEF LastBatch, BatchEnd, TypeOK
  <2>3. TypeOK'
    BY <1>1, <1>3, <2>1, <2>2 DEF TypeOK, ToSend, Event
  <2>4. SentIsQueued(s)'
    BY <1>1, <1>4, <2>1, <2>2 DEF SentIsQueued, ToSend, Event
  <2>5. \A r \in Shards \ {s} : pc'[r] = pc[r] /\ start'[r] = start[r]
    BY <1>1, <2>1 DEF TypeOK
  <2>. QED  BY <1>3, <2>1, <2>3, <2>4, <2>5, GoOn
<1>. QED  BY <1>5, <1>6

(* A step that changes nothing but the pc of one invocation and, when a    *)
(* request is left without an answer, the queue.                           *)
LEMMA MoveInv ==
  ASSUME ConsumerInv, NEW s \in Shards, NEW next \in {"process", "send", "park"},
         pc' = [pc EXCEPT ![s] = next], pos[s] \in 1..Len(Stream[s]),
         next = "send" => pc[s] = "process" /\ ToSend(s) # <<>>,
         next = "process" => pc[s] = "idle",
         UNCHANGED <<pos, start, parked, failed>>,
         queue' \in Seq(Intents), Elements(queue) \subseteq Elements(queue')
  PROVE  ConsumerInv'
<1>1. pc'[s] = next /\ \A r \in Shards \ {s} : pc'[r] = pc[r] /\ start'[r] = start[r]
  BY DEF ConsumerInv, TypeOK
<1>2. ToSend(s) \in Seq(Intents)
  BY ConsumerAssumption DEF ToSend, Event
<1>3. SentIsQueued(s)'
  BY <1>1, <1>2 DEF ConsumerInv, SentIsQueued, ToSend, Event
<1>4. TypeOK'
  BY <1>1, <1>3 DEF ConsumerInv, TypeOK, SentIsQueued, ToSend, Event
<1>. QED  BY <1>1, <1>3, <1>4, GoOn

LEMMA SendThrowsInv ==
  ASSUME ConsumerInv, NEW s \in Shards, SendThrows(s)
  PROVE  ConsumerInv'
<1>1. /\ pc[s] = "send" /\ start[s] < Len(ToSend(s)) /\ TypeOK
      /\ pos[s] \in 1..Len(Stream[s]) /\ queue \in Seq(Intents)
  BY DEF SendThrows, ConsumerInv, SentIsQueued, TypeOK
<1>2. queue' \in Seq(Intents) /\ Elements(queue) \subseteq Elements(queue')
  BY <1>1, BatchType, Enqueued DEF SendThrows
<1>. QED  BY <1>1, <1>2, MoveInv DEF SendThrows

LEMMA StepInv ==
  ASSUME ConsumerInv, NEW s \in Shards,
         Handle(s) \/ ProcessThrows(s) \/ Timeout(s)
  PROVE  ConsumerInv'
<1>0. /\ TypeOK /\ queue \in Seq(Intents) /\ pos[s] \in Nat \ {0}
      /\ pc[s] # "idle" => pos[s] \in 1..Len(Stream[s])
      /\ pc[s] # "idle" => Event(s) \in Events
      /\ parked \subseteq Events /\ failed \subseteq Events
  <2>1. /\ TypeOK /\ queue \in Seq(Intents) /\ pos[s] \in Nat \ {0}
        /\ pc[s] # "idle" => pos[s] \in 1..Len(Stream[s])
        /\ parked \subseteq Events /\ failed \subseteq Events
    BY DEF ConsumerInv, TypeOK
  <2>2. pos[s] \in 1..Len(Stream[s]) => Event(s) \in Events
    BY ConsumerAssumption DEF Event
  <2>. QED  BY <2>1, <2>2
<1>1. CASE Invoke(s)
  <2>1. pos[s] \in 1..Len(Stream[s])
    BY <1>0, <1>1, ConsumerAssumption DEF Invoke
  <2>2. /\ pc' = [pc EXCEPT ![s] = "process"] /\ pc[s] = "idle"
        /\ UNCHANGED <<pos, start, queue, parked, failed>>
    BY <1>1 DEF Invoke
  <2>. QED  BY <1>0, <2>1, <2>2, MoveInv
<1>2. CASE Process(s)
  <2>1. CASE ToSend(s) = <<>>
    <3>1. Elements(ToSend(s)) = {}
      BY <2>1 DEF Elements
    <3>. QED  BY <1>0, <1>2, <2>1, <3>1, End DEF Process
  <2>2. CASE ToSend(s) # <<>>
    BY <1>0, <1>2, <2>2, MoveInv DEF Process
  <2>. QED  BY <2>1, <2>2
<1>3. CASE SendBatch(s)
  BY <1>3, SendBatchInv
<1>4. CASE SendThrows(s)
  BY <1>4, SendThrowsInv
<1>5. CASE Park(s)
  BY <1>0, <1>5, End DEF Park
<1>6. CASE ParkThrows(s)
  BY <1>0, <1>6, End DEF ParkThrows
<1>7. CASE ProcessThrows(s)
  BY <1>0, <1>7, MoveInv DEF ProcessThrows
<1>8. CASE Timeout(s)
  BY <1>0, <1>8, End DEF Timeout
<1>. QED  BY <1>1, <1>2, <1>3, <1>4, <1>5, <1>6, <1>7, <1>8 DEF Handle

LEMMA ConsumerInductive ==
  ASSUME ConsumerInv, [Next]_vars
  PROVE  ConsumerInv'
<1>1. CASE UNCHANGED vars
  BY <1>1 DEF vars, ConsumerInv, TypeOK, NothingLost, Handled, SentIsQueued, ToSend, Event
<1>. QED  BY <1>1, StepInv DEF Next

(* The variables keep their types, whatever goes wrong.                    *)
THEOREM ConsumerTypes == Spec => []TypeOK
<1>1. ConsumerInv => TypeOK
  BY DEF ConsumerInv
<1>. QED  BY <1>1, InitInv, ConsumerInductive, PTL DEF Spec

(* Every event that the consumer is done with has its notifications in the *)
(* queue or is itself in a dead letter queue, wherever its invocation      *)
(* broke off and however often a request was left without an answer.       *)
THEOREM NoNotificationLost ==
  ASSUME "partial" \notin Faults
  PROVE  Spec => []NothingLost
<1>1. ConsumerInv => NothingLost
  BY DEF ConsumerInv
<1>. QED  BY <1>1, InitInv, ConsumerInductive, PTL DEF Spec

-----------------------------------------------------------------------------
(* No request has more entries than SQS takes, and none is empty: the cut   *)
(* at MAX_MESSAGES, the last request of an event included.                 *)
THEOREM RequestsAreCut ==
  ASSUME MaxMessages <= QueueLimit
  PROVE  Spec => []RequestsFit
<1>1. ASSUME ConsumerInv, NEW s \in Shards, pc[s] = "send"
      PROVE  Len(Batch(s)) \in 1..QueueLimit
  <2>1. TypeOK /\ start[s] \in Nat /\ start[s] < Len(ToSend(s))
    BY <1>1 DEF ConsumerInv, TypeOK
  <2>2. /\ ToSend(s) \in Seq(Intents)
        /\ BatchEnd(s) \in start[s] + 1..Len(ToSend(s))
        /\ Len(Batch(s)) = BatchEnd(s) - start[s]
    BY <1>1, <2>1, BatchType
  <2>. QED  BY <2>1, <2>2, ConsumerAssumption DEF BatchEnd
<1>2. ConsumerInv => RequestsFit
  BY <1>1 DEF RequestsFit
<1>. QED  BY <1>2, InitInv, ConsumerInductive, PTL DEF Spec

-----------------------------------------------------------------------------
(* The order of the messages, when no notification is produced twice.      *)

(* m is the k-th notification of the i-th event of shard s.                *)
IsFrom(m, s, i, k) ==
  /\ i \in 1..Len(Stream[s])
  /\ k \in 1..Len(Notifications[Stream[s][i]])
  /\ m = Notifications[Stream[s][i]][k]

ToldApart ==
  \A s, r \in Shards : \A i, j, k, l \in Nat, m \in Intents :
    IsFrom(m, s, i, k) /\ IsFrom(m, r, j, l) => s = r /\ i = j /\ k = l

MayBeSent(s, i, k) ==
  \/ i < pos[s]
  \/ i = pos[s] /\ pc[s] = "send" /\ k <= start[s]
  \/ i = pos[s] /\ pc[s] = "park"

(* Two positions of a list of messages are in order.                       *)
InOrder(m, n) == m # n /\ ~Before(n, m)

OrderInv ==
  /\ \A x \in 1..Len(queue) : \E s \in Shards : \E i, k \in Nat :
       IsFrom(queue[x], s, i, k) /\ MayBeSent(s, i, k)
  /\ \A x, y \in 1..Len(queue) : x < y => InOrder(queue[x], queue[y])

LEMMA OrderInvInit == Init => OrderInv
BY DEF Init, OrderInv

(* Of distinct notifications each has one place.                           *)
LEMMA OnePlace ==
  ASSUME ToldApart, NEW m \in Intents, NEW s \in Shards, NEW r \in Shards,
         NEW i \in Nat, NEW j \in Nat, NEW k \in Nat, NEW l \in Nat,
         IsFrom(m, s, i, k), IsFrom(m, r, j, l)
  PROVE  s = r /\ i = j /\ k = l
BY DEF ToldApart

(* A later notification of a shard is in order behind an earlier one.      *)
LEMMA LaterInOrder ==
  ASSUME ToldApart, NEW m \in Intents, NEW n \in Intents,
         NEW r \in Shards, NEW s \in Shards,
         NEW i \in Nat, NEW j \in Nat, NEW k \in Nat, NEW l \in Nat,
         IsFrom(m, r, i, k), IsFrom(n, s, j, l),
         r = s => i < j \/ (i = j /\ k < l)
  PROVE  InOrder(m, n)
<1>1. m # n
  BY DEF ToldApart
<1>2. SUFFICES ASSUME Before(n, m) PROVE FALSE
  BY <1>1 DEF InOrder
<1>3. PICK q \in Shards : \E x, y \in 1..Len(Stream[q]) :
        LET first == Notifications[Stream[q][x]]
            second == Notifications[Stream[q][y]]
        IN  \E u \in 1..Len(first), v \in 1..Len(second) :
              first[u] = n /\ second[v] = m /\ (x < y \/ (x = y /\ u < v))
  BY <1>2, Zenon DEF Before
<1>a. PICK x \in 1..Len(Stream[q]), y \in 1..Len(Stream[q]) :
        \E u \in 1..Len(Notifications[Stream[q][x]]),
           v \in 1..Len(Notifications[Stream[q][y]]) :
          /\ Notifications[Stream[q][x]][u] = n
          /\ Notifications[Stream[q][y]][v] = m
          /\ (x < y \/ (x = y /\ u < v))
  BY <1>3
<1>4. PICK u \in 1..Len(Notifications[Stream[q][x]]),
           v \in 1..Len(Notifications[Stream[q][y]]) :
          /\ Notifications[Stream[q][x]][u] = n
          /\ Notifications[Stream[q][y]][v] = m
          /\ (x < y \/ (x = y /\ u < v))
  BY <1>a
<1>5. IsFrom(n, q, x, u) /\ IsFrom(m, q, y, v)
      /\ x \in Nat /\ y \in Nat /\ u \in Nat /\ v \in Nat
  BY <1>4 DEF IsFrom
<1>6. q = s /\ x = j /\ u = l
  BY <1>5, OnePlace
<1>7. q = r /\ y = i /\ v = k
  BY <1>5, OnePlace
<1>. QED  BY <1>4, <1>6, <1>7

(* What was sent stays sent.                                               *)
LEMMA SentStaysSent ==
  ASSUME ConsumerInv, NEW s \in Shards, Handle(s) \/ ProcessThrows(s) \/ Timeout(s),
         NEW r \in Shards, NEW i \in Nat, NEW k \in Nat,
         MayBeSent(r, i, k), k \in Nat \ {0}
  PROVE  MayBeSent(r, i, k)'
<1>1. /\ pos \in [Shards -> Nat \ {0}] /\ start \in [Shards -> Nat]
      /\ pc \in [Shards -> {"idle", "process", "send", "park"}]
      /\ pc[s] \in {"idle", "process"} => start[s] = 0
      /\ MaxMessages \in Nat
  BY ConsumerAssumption DEF ConsumerInv, TypeOK, SentIsQueued
<1>2. CASE Return(s)
  BY <1>1, <1>2 DEF Return, MayBeSent
<1>3. CASE UNCHANGED pos /\ \E p \in {"process", "park"} : pc' = [pc EXCEPT ![s] = p]
           /\ (p = "process" => pc[s] = "idle") /\ UNCHANGED start
  BY <1>1, <1>3 DEF MayBeSent
<1>4. CASE UNCHANGED pos /\ pc[s] = "process" /\ pc' = [pc EXCEPT ![s] = "send"]
           /\ UNCHANGED start
  BY <1>1, <1>4 DEF MayBeSent
<1>5. CASE UNCHANGED <<pos, pc>> /\ start' = [start EXCEPT ![s] = @ + MaxMessages]
  BY <1>1, <1>5 DEF MayBeSent
<1>. QED  BY <1>2, <1>3, <1>4, <1>5 DEF Handle, Invoke, Process, ProcessThrows, SendBatch,
       SendThrows, Park, ParkThrows, Timeout

(* What a request puts in the queue.                                       *)
LEMMA Appended ==
  ASSUME ToldApart, ConsumerInv, OrderInv, NEW s \in Shards, pc[s] = "send",
         Enqueue(Batch(s)),
         \A r \in Shards : \A i, k \in Nat :
           MayBeSent(r, i, k) /\ k # 0 => MayBeSent(r, i, k)',
         \A i \in Nat, k \in 1..BatchEnd(s) : i = pos[s] => MayBeSent(s, i, k)'
  PROVE  OrderInv'
<1>1. /\ TypeOK /\ start[s] \in Nat /\ start[s] < Len(ToSend(s))
      /\ pos[s] \in 1..Len(Stream[s]) /\ queue \in Seq(Intents)
  BY DEF ConsumerInv, TypeOK, SentIsQueued
<1>2. /\ ToSend(s) \in Seq(Intents)
      /\ BatchEnd(s) \in start[s] + 1..Len(ToSend(s))
      /\ Batch(s) \in Seq(Intents)
      /\ Len(Batch(s)) = BatchEnd(s) - start[s]
      /\ \A k \in 1..Len(Batch(s)) : Batch(s)[k] = ToSend(s)[start[s] + k]
  BY <1>1, BatchType
<1>c. /\ start[s] \in Nat /\ BatchEnd(s) \in Nat /\ Len(ToSend(s)) \in Nat /\ pos[s] \in Nat
      /\ BatchEnd(s) <= Len(ToSend(s)) /\ Len(Batch(s)) = BatchEnd(s) - start[s]
  BY <1>1, <1>2
<1>3. PICK n \in 0..Len(Batch(s)) : \E kept \in [1..n -> 1..Len(Batch(s))] :
        /\ \A x, y \in 1..n : x < y => kept[x] < kept[y]
        /\ queue' = queue \o [k \in 1..n |-> Batch(s)[kept[k]]]
  BY DEF Enqueue
<1>4. PICK kept \in [1..n -> 1..Len(Batch(s))] :
        /\ \A x, y \in 1..n : x < y => kept[x] < kept[y]
        /\ queue' = queue \o [k \in 1..n |-> Batch(s)[kept[k]]]
  BY <1>3
<1>. DEFINE tail == [k \in 1..n |-> Batch(s)[kept[k]]]
            old == Len(queue)
            at(x) == start[s] + kept[x - old]
<1>5. tail \in Seq(Intents) /\ Len(tail) = n
  BY <1>2
<1>6. /\ Len(queue') = old + n /\ old \in Nat /\ n \in Nat /\ old = Len(queue)
      /\ \A x \in 1..old : queue'[x] = queue[x]
      /\ \A x \in old + 1..old + n : queue'[x] = tail[x - old]
  BY <1>1, <1>4, <1>5
<1>. HIDE DEF old, tail
<1>b. tail = [k \in 1..n |-> Batch(s)[kept[k]]]
  BY DEF tail
<1>d. old \in Nat /\ n \in Nat
  BY <1>6
<1>e. \A x \in old + 1..old + n : x - old \in 1..n
  BY <1>d
<1>f. 1..Len(queue') = 1..old \cup old + 1..old + n
  BY <1>d, <1>6
<1>g. ASSUME NEW k \in 1..n
      PROVE  /\ start[s] + kept[k] \in start[s] + 1..BatchEnd(s)
             /\ start[s] + kept[k] \in 1..Len(ToSend(s))
  <2>1. PICK m \in 1..Len(Batch(s)) : m = kept[k]
    BY <1>4
  <2>. QED  BY <1>c, <2>1
<1>7. ASSUME NEW x \in old + 1..old + n
      PROVE  /\ x - old \in 1..n /\ at(x) \in start[s] + 1..BatchEnd(s)
             /\ IsFrom(queue'[x], s, pos[s], at(x)) /\ queue'[x] \in Intents
  <2>1. x - old \in 1..n /\ kept[x - old] \in 1..Len(Batch(s))
    <3>1. x - old \in 1..n
      BY <1>e
    <3>. QED  BY <3>1
  <2>2. at(x) \in start[s] + 1..BatchEnd(s) /\ at(x) \in 1..Len(ToSend(s))
    BY <1>g, <2>1
  <2>3. queue'[x] = ToSend(s)[at(x)]
    BY <1>2, <1>6, <1>b, <2>1
  <2>4. /\ IsFrom(queue'[x], s, pos[s], at(x)) /\ queue'[x] \in Intents
    <3>. HIDE DEF at
    <3>. QED  BY <1>1, <1>2, <2>2, <2>3 DEF IsFrom, ToSend, Event
  <2>. QED  BY <2>1, <2>2, <2>4
<1>8. ASSUME NEW x \in 1..Len(queue')
      PROVE  \E r \in Shards : \E i, k \in Nat :
               IsFrom(queue'[x], r, i, k) /\ MayBeSent(r, i, k)'
  <2>1. CASE x \in 1..old
    <3>1. PICK r \in Shards, i \in Nat, k \in Nat :
            IsFrom(queue[x], r, i, k) /\ MayBeSent(r, i, k)
      BY <1>6, <2>1 DEF OrderInv
    <3>2. k # 0
      BY <3>1 DEF IsFrom
    <3>3. MayBeSent(r, i, k)'
      BY <3>1, <3>2
    <3>. QED  BY <1>6, <2>1, <3>1, <3>3
  <2>2. CASE x \in old + 1..old + n
    <3>1. at(x) \in 1..BatchEnd(s) /\ at(x) \in Nat /\ pos[s] \in Nat
      <4>1. at(x) \in start[s] + 1..BatchEnd(s)
        BY <1>7, <2>2
      <4>. HIDE DEF at
      <4>. QED  BY <1>c, <4>1
    <3>2. \A i, k \in Nat : i = pos[s] /\ k = at(x) => MayBeSent(s, i, k)'
      <4>. HIDE DEF at
      <4>. QED  BY <3>1
    <3>3. IsFrom(queue'[x], s, pos[s], at(x))
      BY <1>7, <2>2
    <3>. HIDE DEF at
    <3>. QED  BY <3>1, <3>2, <3>3
  <2>. QED  BY <1>f, <2>1, <2>2
<1>9. ASSUME NEW x \in 1..Len(queue'), NEW y \in 1..Len(queue'), x < y
      PROVE  InOrder(queue'[x], queue'[y])
  <2>1. CASE y \in 1..old
    <3>1. x \in 1..old /\ 1..old = 1..Len(queue)
      BY <1>d, <1>6, <1>9, <2>1
    <3>2. queue'[x] = queue[x] /\ queue'[y] = queue[y]
      BY <1>6, <2>1, <3>1
    <3>3. InOrder(queue[x], queue[y])
      BY <1>9, <2>1, <3>1 DEF OrderInv
    <3>. QED  BY <3>2, <3>3
  <2>2. CASE x \in 1..old /\ y \in old + 1..old + n
    <3>1. PICK r \in Shards, i \in Nat, k \in Nat :
            IsFrom(queue[x], r, i, k) /\ MayBeSent(r, i, k)
      BY <1>6, <2>2 DEF OrderInv
    <3>2. /\ IsFrom(queue'[y], s, pos[s], at(y)) /\ at(y) \in Nat /\ at(y) > start[s]
          /\ pos[s] \in Nat /\ queue'[y] \in Intents
      <4>1. /\ at(y) \in start[s] + 1..BatchEnd(s)
            /\ IsFrom(queue'[y], s, pos[s], at(y)) /\ queue'[y] \in Intents
        BY <1>7, <2>2
      <4>. HIDE DEF at
      <4>2. at(y) \in Nat /\ at(y) > start[s]
        BY <1>c, <4>1
      <4>. QED  BY <1>c, <4>1, <4>2
    <3>3. r = s => i < pos[s] \/ (i = pos[s] /\ k < at(y))
      BY <1>1, <3>1, <3>2 DEF MayBeSent
    <3>4. queue'[x] = queue[x] /\ queue[x] \in Intents
      <4>1. x \in 1..Len(queue)
        BY <1>6, <2>2
      <4>. QED  BY <1>1, <1>6, <2>2, <4>1
    <3>. QED  BY <3>1, <3>2, <3>3, <3>4, LaterInOrder
  <2>3. CASE x \in old + 1..old + n /\ y \in old + 1..old + n
    <3>1. at(x) < at(y) /\ at(x) \in Nat /\ at(y) \in Nat /\ pos[s] \in Nat
      <4>1. x - old < y - old /\ x - old \in 1..n /\ y - old \in 1..n
        BY <1>6, <1>9, <2>3
      <4>2. /\ kept[x - old] < kept[y - old]
            /\ kept[x - old] \in 1..Len(Batch(s)) /\ kept[y - old] \in 1..Len(Batch(s))
        BY <1>4, <4>1
      <4>3. at(x) \in Nat /\ at(y) \in Nat
        <5>1. /\ at(x) \in start[s] + 1..BatchEnd(s)
              /\ at(y) \in start[s] + 1..BatchEnd(s)
          BY <1>7, <2>3
        <5>. HIDE DEF at
        <5>. QED  BY <1>c, <5>1
      <4>4. at(x) < at(y)
        <5>0. 1..Len(Batch(s)) \subseteq Nat
          OBVIOUS
        <5>1. PICK a \in Nat, b \in Nat : a = kept[x - old] /\ b = kept[y - old] /\ a < b
          BY <4>2, <5>0, Zenon
        <5>2. at(x) = start[s] + a /\ at(y) = start[s] + b
          BY <5>1, Zenon
        <5>. HIDE DEF at
        <5>3. PICK c \in Nat : c = start[s]
          BY <1>c
        <5>4. c + a < c + b
          BY <5>1
        <5>. QED  BY <5>2, <5>3, <5>4
      <4>. QED  BY <1>c, <4>3, <4>4
    <3>. QED  BY <1>7, <2>3, <3>1, LaterInOrder
  <2>. QED  BY <1>6, <1>9, <2>1, <2>2, <2>3
<1>. QED  BY <1>8, <1>9 DEF OrderInv

LEMMA OrderInductive ==
  ASSUME ToldApart, ConsumerInv, OrderInv, [Next]_vars
  PROVE  OrderInv'
<1>1. ASSUME NEW s \in Shards, Handle(s) \/ ProcessThrows(s) \/ Timeout(s)
      PROVE  OrderInv'
  <2>1. \A r \in Shards : \A i, k \in Nat :
          MayBeSent(r, i, k) /\ k # 0 => MayBeSent(r, i, k)'
    BY <1>1, SentStaysSent
  <2>2. CASE UNCHANGED queue
    <3>1. ASSUME NEW x \in 1..Len(queue)
          PROVE  \E r \in Shards : \E i, k \in Nat :
                   IsFrom(queue[x], r, i, k) /\ MayBeSent(r, i, k)'
      <4>1. PICK r \in Shards, i \in Nat, k \in Nat :
              IsFrom(queue[x], r, i, k) /\ MayBeSent(r, i, k)
        BY DEF OrderInv
      <4>2. k # 0
        BY <4>1 DEF IsFrom
      <4>. QED  BY <2>1, <4>1, <4>2
    <3>. QED  BY <2>2, <3>1 DEF OrderInv
  <2>3. CASE SendBatch(s) \/ (SendThrows(s) /\ Enqueue(Batch(s)))
    <3>1. pc[s] = "send" /\ Enqueue(Batch(s))
      BY <2>3 DEF SendBatch, SendThrows
    <3>2. /\ TypeOK /\ start[s] \in Nat /\ start[s] < Len(ToSend(s)) /\ pos[s] \in Nat
          /\ MaxMessages \in Nat \ {0}
          /\ pos \in [Shards -> Nat \ {0}] /\ start \in [Shards -> Nat]
          /\ pc \in [Shards -> {"idle", "process", "send", "park"}]
      BY <3>1, ConsumerAssumption DEF ConsumerInv, TypeOK, SentIsQueued
    <3>3. ASSUME NEW i \in Nat, NEW k \in 1..BatchEnd(s), i = pos[s]
          PROVE  MayBeSent(s, i, k)'
      <4>1. BatchEnd(s) \in start[s] + 1..Len(ToSend(s)) /\ ToSend(s) \in Seq(Intents)
        BY <3>1, <3>2, BatchType
      <4>2. CASE Return(s)
        BY <3>2, <3>3, <4>2 DEF Return, MayBeSent
      <4>3. CASE ~LastBatch(s) /\ start' = [start EXCEPT ![s] = @ + MaxMessages]
                 /\ UNCHANGED <<pos, pc>>
        BY <3>1, <3>2, <3>3, <4>1, <4>3 DEF LastBatch, BatchEnd, MayBeSent
      <4>4. CASE SendThrows(s)
        BY <3>2, <3>3, <4>4 DEF SendThrows, MayBeSent
      <4>. QED  BY <2>3, <4>2, <4>3, <4>4 DEF SendBatch
    <3>. QED  BY <2>1, <3>1, <3>3, Appended
  <2>. QED  BY <1>1, <2>2, <2>3 DEF Handle, Invoke, Process, ProcessThrows, SendBatch,
         SendThrows, Park, ParkThrows, Timeout
<1>2. CASE UNCHANGED vars
  BY <1>2 DEF vars, OrderInv, MayBeSent
<1>. QED  BY <1>1, <1>2 DEF Next

LEMMA OrderAlways ==
  ASSUME ToldApart
  PROVE  Spec => [](ConsumerInv /\ OrderInv)
BY InitInv, OrderInvInit, ConsumerInductive, OrderInductive, PTL DEF Spec

(* Where no notification is produced twice, none is put in the queue       *)
(* twice: an invocation that breaks off is never started again.            *)
THEOREM NothingSentTwice ==
  ASSUME ToldApart
  PROVE  Spec => []NothingTwice
<1>1. ConsumerInv /\ OrderInv => NothingTwice
  BY DEF ConsumerInv, TypeOK, OrderInv, InOrder, NothingTwice
<1>. QED  BY <1>1, OrderAlways, PTL

(* And the messages of a shard, so those of a recipient, are in order,     *)
(* over any number of requests and events.                                 *)
THEOREM QueueInOrder ==
  ASSUME ToldApart
  PROVE  Spec => []OrderKept
<1>1. OrderInv => OrderKept
  BY DEF OrderInv, InOrder, OrderKept
<1>. QED  BY <1>1, OrderAlways, PTL

-----------------------------------------------------------------------------
(* What is behind a message of the queue, for what empties the queue.      *)

(* The notifications of an event are in the queue from the first on.       *)
PrefixQueued ==
  \A m \in Elements(queue) : \A s \in Shards : \A i, k \in Nat :
    IsFrom(m, s, i, k) =>
      \A l \in 1..k - 1 : Notifications[Stream[s][i]][l] \in Elements(queue)

(* A request adds messages of its batch at the end of the queue.           *)
LEMMA EnqueuedBehind ==
  ASSUME NEW batch \in Seq(Intents), queue \in Seq(Intents), Enqueue(batch)
  PROVE  /\ \E tail \in Seq(Intents) : queue' = queue \o tail
         /\ Elements(queue') \subseteq Elements(queue) \cup Elements(batch)
<1>1. PICK n \in 0..Len(batch) : \E kept \in [1..n -> 1..Len(batch)] :
        queue' = queue \o [k \in 1..n |-> batch[kept[k]]]
  BY DEF Enqueue
<1>2. PICK kept \in [1..n -> 1..Len(batch)] :
        queue' = queue \o [k \in 1..n |-> batch[kept[k]]]
  BY <1>1
<1>. DEFINE tail == [k \in 1..n |-> batch[kept[k]]]
<1>3. /\ tail \in Seq(Intents) /\ Len(tail) = n
      /\ \A k \in 1..n : tail[k] \in Elements(batch)
  BY DEF Elements
<1>4. queue' = queue \o tail
  BY <1>2
<1>. HIDE DEF tail
<1>5. ASSUME NEW x \in 1..Len(queue')
      PROVE  queue'[x] \in Elements(queue) \cup Elements(batch)
  <2>1. /\ Len(queue) \in Nat /\ n \in Nat /\ Len(queue') = Len(queue) + n
        /\ queue'[x] = IF x <= Len(queue) THEN queue[x] ELSE tail[x - Len(queue)]
    BY <1>3, <1>4
  <2>2. CASE x <= Len(queue)
    BY <2>1, <2>2 DEF Elements
  <2>3. CASE x > Len(queue)
    <3>1. x - Len(queue) \in 1..n
      BY <2>1, <2>3
    <3>. QED  BY <1>3, <2>1, <2>3, <3>1
  <2>. QED  BY <2>1, <2>2, <2>3
<1>. QED  BY <1>3, <1>4, <1>5 DEF Elements

LEMMA SendsOrKeeps ==
  ASSUME [Next]_vars
  PROVE  UNCHANGED queue \/ \E s \in Shards : pc[s] = "send" /\ Enqueue(Batch(s))
<1>1. ASSUME NEW s \in Shards, Handle(s) \/ ProcessThrows(s) \/ Timeout(s)
      PROVE  UNCHANGED queue \/ (pc[s] = "send" /\ Enqueue(Batch(s)))
  <2>1. CASE SendBatch(s) \/ SendThrows(s)
    BY <2>1 DEF SendBatch, SendThrows
  <2>2. CASE Invoke(s) \/ Process(s) \/ Park(s) \/ ParkThrows(s)
    BY <2>2 DEF Invoke, Process, Park, ParkThrows
  <2>3. CASE ProcessThrows(s) \/ Timeout(s)
    BY <2>3 DEF ProcessThrows, Timeout
  <2>. QED  BY <1>1, <2>1, <2>2, <2>3 DEF Handle
<1>. QED  BY <1>1 DEF Next, vars

LEMMA QueueGrows ==
  ASSUME ConsumerInv, [Next]_vars
  PROVE  \E tail \in Seq(Intents) : queue' = queue \o tail
<1>1. queue \in Seq(Intents) /\ TypeOK
  BY DEF ConsumerInv, TypeOK
<1>2. CASE UNCHANGED queue
  <2>1. <<>> \in Seq(Intents) /\ queue' = queue \o <<>>
    BY <1>1, <1>2
  <2>. QED  BY <2>1
<1>3. ASSUME NEW s \in Shards, pc[s] = "send", Enqueue(Batch(s))
      PROVE  \E tail \in Seq(Intents) : queue' = queue \o tail
  <2>1. Batch(s) \in Seq(Intents)
    BY <1>1, <1>3, BatchType DEF ConsumerInv, SentIsQueued
  <2>. QED  BY <1>1, <1>3, <2>1, EnqueuedBehind
<1>. QED  BY <1>2, <1>3, SendsOrKeeps

LEMMA PrefixInductive ==
  ASSUME ToldApart, "partial" \notin Faults, ConsumerInv, PrefixQueued, [Next]_vars
  PROVE  PrefixQueued'
<1>1. CASE UNCHANGED queue
  <2>1. Elements(queue') = Elements(queue)
    BY <1>1
  <2>2. PrefixQueued' = (\A m \in Elements(queue') : \A s \in Shards : \A i, k \in Nat :
          IsFrom(m, s, i, k) =>
            \A l \in 1..k - 1 : Notifications[Stream[s][i]][l] \in Elements(queue'))
    BY DEF PrefixQueued, IsFrom
  <2>. QED  BY <2>1, <2>2 DEF PrefixQueued
<1>2. ASSUME NEW s \in Shards, pc[s] = "send", Enqueue(Batch(s))
      PROVE  PrefixQueued'
  <2>1. /\ TypeOK /\ start[s] \in Nat /\ start[s] < Len(ToSend(s)) /\ pos[s] \in Nat
        /\ pos[s] \in 1..Len(Stream[s]) /\ queue \in Seq(Intents)
        /\ \A k \in 1..start[s] : ToSend(s)[k] \in Elements(queue)
    BY <1>2 DEF ConsumerInv, TypeOK, SentIsQueued
  <2>2. /\ ToSend(s) \in Seq(Intents)
        /\ BatchEnd(s) \in start[s] + 1..Len(ToSend(s))
        /\ Batch(s) \in Seq(Intents)
        /\ Len(Batch(s)) = BatchEnd(s) - start[s]
        /\ \A k \in 1..Len(Batch(s)) : Batch(s)[k] = ToSend(s)[start[s] + k]
    BY <1>2, <2>1, BatchType
  <2>3. /\ Elements(queue) \subseteq Elements(queue')
        /\ \A k \in 1..Len(Batch(s)) : Batch(s)[k] \in Elements(queue')
    BY <1>2, <2>1, <2>2, Enqueued DEF MayMiss
  <2>4. ASSUME NEW k \in 1..BatchEnd(s)
        PROVE  ToSend(s)[k] \in Elements(queue')
    <3>1. CASE k <= start[s]
      BY <2>1, <2>2, <2>3, <3>1
    <3>2. CASE k > start[s]
      <4>. DEFINE sent == start[s]
                  end == BatchEnd(s)
      <4>1. sent \in Nat /\ end \in Nat /\ Len(Batch(s)) = end - sent /\ k \in 1..end
            /\ k > sent
        BY <2>1, <2>2, <3>2
      <4>. HIDE DEF sent, end
      <4>2. k - sent \in 1..Len(Batch(s)) /\ sent + (k - sent) = k
        BY <4>1
      <4>3. Batch(s)[k - sent] = ToSend(s)[sent + (k - sent)]
        BY <2>2, <4>2 DEF sent
      <4>. QED  BY <2>3, <4>2, <4>3
    <3>. QED  BY <2>1, <2>2, <3>1, <3>2
  <2>5. SUFFICES ASSUME NEW m \in Elements(queue'), NEW r \in Shards,
                        NEW i \in Nat, NEW k \in Nat, IsFrom(m, r, i, k),
                        NEW l \in 1..k - 1
                 PROVE  Notifications[Stream[r][i]][l] \in Elements(queue')
    BY DEF PrefixQueued, IsFrom
  <2>6. CASE m \in Elements(queue)
    BY <2>3, <2>5, <2>6 DEF PrefixQueued
  <2>7. CASE m \in Elements(Batch(s))
    <3>1. PICK b \in 1..Len(Batch(s)) : m = Batch(s)[b]
      BY <2>7 DEF Elements
    <3>2. /\ m = ToSend(s)[start[s] + b] /\ start[s] + b \in 1..Len(ToSend(s))
          /\ start[s] + b \in Nat /\ start[s] + b <= BatchEnd(s) /\ m \in Intents
      <4>1. m = ToSend(s)[start[s] + b] /\ m \in Intents
        BY <2>2, <3>1
      <4>. DEFINE sent == start[s]
                  end == BatchEnd(s)
      <4>2. sent \in Nat /\ end \in Nat /\ Len(Batch(s)) = end - sent
            /\ Len(ToSend(s)) \in Nat /\ end <= Len(ToSend(s))
        BY <2>1, <2>2
      <4>. HIDE DEF sent, end
      <4>3. sent + b \in 1..Len(ToSend(s)) /\ sent + b \in Nat /\ sent + b <= end
        BY <4>2
      <4>. QED  BY <4>1, <4>3 DEF sent, end
    <3>3. IsFrom(m, s, pos[s], start[s] + b)
      BY <2>1, <3>2 DEF IsFrom, ToSend, Event
    <3>4. r = s /\ i = pos[s] /\ k = start[s] + b
      <4>. DEFINE place == start[s] + b
      <4>1. pos[s] \in Nat /\ place \in Nat /\ m \in Intents /\ IsFrom(m, s, pos[s], place)
        BY <2>1, <3>2, <3>3
      <4>. HIDE DEF place
      <4>2. \A j, n \in Nat, q \in Shards :
              IsFrom(m, q, j, n) => q = s /\ j = pos[s] /\ n = place
        BY <4>1, Zenon DEF ToldApart
      <4>3. r = s /\ i = pos[s] /\ k = place
        BY <2>5, <4>2, Zenon
      <4>. QED  BY <4>3 DEF place
    <3>5. l \in 1..BatchEnd(s)
      <4>1. BatchEnd(s) \in Nat /\ k <= BatchEnd(s)
        BY <2>1, <2>2, <3>2, <3>4
      <4>. QED  BY <4>1
    <3>6. Notifications[Stream[r][i]][l] = ToSend(s)[l]
      BY <3>4 DEF ToSend, Event
    <3>. QED  BY <2>4, <3>5, <3>6
  <2>. QED  BY <1>2, <2>1, <2>2, <2>6, <2>7, EnqueuedBehind
<1>. QED  BY <1>1, <1>2, SendsOrKeeps

(* A notification before one that is in the queue is ahead of it there, or *)
(* its event is in a dead letter queue.                                    *)
LEMMA EarlierIsAhead ==
  ASSUME ToldApart, "partial" \notin Faults, ConsumerInv, OrderInv, PrefixQueued,
         NEW x \in 1..Len(queue), NEW m \in Intents, Before(m, queue[x])
  PROVE  \/ \E j \in 1..x - 1 : queue[j] = m
         \/ \E e \in parked \cup failed : m \in Elements(Notifications[e])
<1>0. queue \in Seq(Intents) /\ queue[x] \in Intents /\ queue[x] \in Elements(queue)
      /\ pos \in [Shards -> Nat \ {0}]
  BY DEF ConsumerInv, TypeOK, Elements
<1>1. PICK s \in Shards, i \in Nat, k \in Nat : IsFrom(queue[x], s, i, k) /\ MayBeSent(s, i, k)
  BY DEF OrderInv
<1>2. PICK q \in Shards : \E a, b \in 1..Len(Stream[q]) :
        LET first == Notifications[Stream[q][a]]
            second == Notifications[Stream[q][b]]
        IN  \E u \in 1..Len(first), v \in 1..Len(second) :
              first[u] = m /\ second[v] = queue[x] /\ (a < b \/ (a = b /\ u < v))
  BY Zenon DEF Before
<1>3. PICK a \in 1..Len(Stream[q]), b \in 1..Len(Stream[q]) :
        \E u \in 1..Len(Notifications[Stream[q][a]]),
           v \in 1..Len(Notifications[Stream[q][b]]) :
          /\ Notifications[Stream[q][a]][u] = m
          /\ Notifications[Stream[q][b]][v] = queue[x]
          /\ (a < b \/ (a = b /\ u < v))
  BY <1>2
<1>4. PICK u \in 1..Len(Notifications[Stream[q][a]]),
           v \in 1..Len(Notifications[Stream[q][b]]) :
          /\ Notifications[Stream[q][a]][u] = m
          /\ Notifications[Stream[q][b]][v] = queue[x]
          /\ (a < b \/ (a = b /\ u < v))
  BY <1>3
<1>5. /\ IsFrom(m, q, a, u) /\ IsFrom(queue[x], q, b, v)
      /\ a \in Nat /\ b \in Nat /\ u \in Nat /\ v \in Nat
  BY <1>4 DEF IsFrom
<1>6. q = s /\ b = i /\ v = k
  <2>1. \A j, l \in Nat, r \in Shards :
          IsFrom(queue[x], r, j, l) => r = s /\ j = i /\ l = k
    BY <1>0, <1>1 DEF ToldApart
  <2>. QED  BY <1>5, <2>1
<1>7. \/ m \in Elements(queue)
      \/ \E e \in parked \cup failed : m \in Elements(Notifications[e])
  <2>1. CASE a = b
    <3>1. u \in 1..k - 1
      BY <1>4, <1>5, <1>6, <2>1
    <3>. QED  BY <1>0, <1>1, <1>4, <1>6, <2>1, <3>1 DEF PrefixQueued
  <2>2. CASE a < b
    <3>1. a \in 1..pos[s] - 1
      <4>1. i <= pos[s] /\ pos[s] \in Nat
        BY <1>0, <1>1 DEF MayBeSent
      <4>. QED  BY <1>5, <1>6, <2>2, <4>1
    <3>2. Handled(s, Stream[s][a]) /\ Stream[s][a] \in Events
      BY <1>6, <3>1 DEF Handled, Events
    <3>3. m \in Elements(Notifications[Stream[s][a]])
      BY <1>4, <1>6 DEF Elements
    <3>. QED  BY <3>2, <3>3 DEF ConsumerInv, NothingLost
  <2>. QED  BY <1>4, <2>1, <2>2
<1>8. ASSUME NEW j \in 1..Len(queue), queue[j] = m
      PROVE  j \in 1..x - 1
  <2>1. j # x
    <3>1. ASSUME j = x PROVE FALSE
      <4>1. q = q /\ a = b /\ u = v
        BY <1>0, <1>5, <1>8, <3>1, OnePlace
      <4>. QED  BY <1>4, <1>5, <4>1
    <3>. QED  BY <3>1
  <2>2. ~(x < j)
    BY <1>8 DEF OrderInv, InOrder
  <2>3. Len(queue) \in Nat
    BY <1>0
  <2>. QED  BY <2>1, <2>2, <2>3
<1>. QED  BY <1>7, <1>8 DEF Elements

=============================================================================
