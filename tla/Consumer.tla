------------------------------ MODULE Consumer ------------------------------
(***************************************************************************)
(* The consumer of the demo table's stream                                 *)
(* (rest-api/src/consumers/consumer.controller.ts) and what it leaves in   *)
(* the notification queue.                                                 *)
(*                                                                         *)
(* The event source invokes the consumer with one event of a shard after   *)
(* the other (rest-api-stack.ts 275-280: batchSize 1, retryAttempts 0).    *)
(* The processor of an event is a function; its notifications are sent in  *)
(* batches, one request after the other, and the event of an invocation    *)
(* that throws is parked in a dead letter queue.                           *)
(*                                                                         *)
(* A definition under the heading "Mistake" is a wrong form of the one     *)
(* that follows it: no specification uses it.                              *)
(***************************************************************************)
EXTENDS Naturals, Sequences

CONSTANTS
  Shards,        \* the shards of the stream
  Stream,        \* Stream[s]: the events of shard s, in their order
  Notifications, \* Notifications[e]: what the processor returns for event e
  MaxMessages,   \* MAX_MESSAGES, the entries the consumer puts in a request
  QueueLimit,    \* the entries SQS accepts in a request
  Faults         \* what may go wrong: "process", "send", "partial", "park",
                 \* "timeout"

Events == UNION {{Stream[s][i] : i \in 1..Len(Stream[s])} : s \in Shards}
Intents == UNION {{Notifications[e][i] : i \in 1..Len(Notifications[e])} : e \in Events}

ASSUME ConsumerAssumption ==
  /\ MaxMessages \in Nat \ {0} /\ QueueLimit \in Nat
  /\ \A s \in Shards : Stream[s] \in Seq(Events)
  /\ \A e \in Events : Notifications[e] \in Seq(Intents)
  /\ \A n \in Intents : {"recipient", "subject"} \subseteq DOMAIN n
  /\ Faults \subseteq {"process", "send", "partial", "park", "timeout"}

VARIABLES
  pos,       \* pos[s]: the event of shard s that is handled now or next
  pc,        \* pc[s]: where the invocation for shard s is
  start,     \* start[s]: startPosition, the notifications sent so far
  queue,     \* all the messages that were ever put in the notification queue
  parked,    \* events the consumer has put in the dead letter queue
  failed     \* events the event source has put there: the invocation failed

vars == <<pos, pc, start, queue, parked, failed>>

Event(s) == Stream[s][pos[s]]
ToSend(s) == Notifications[Event(s)]

TypeOK ==
  /\ pos \in [Shards -> Nat \ {0}]
  /\ pc \in [Shards -> {"idle", "process", "send", "park"}]
  /\ start \in [Shards -> Nat]
  /\ queue \in Seq(Intents)
  /\ parked \subseteq Events /\ failed \subseteq Events
  /\ \A s \in Shards :
       /\ pc[s] # "idle" => pos[s] \in 1..Len(Stream[s])
       /\ pc[s] = "send" => start[s] < Len(ToSend(s))

Init ==
  /\ pos = [s \in Shards |-> 1]
  /\ pc = [s \in Shards |-> "idle"]
  /\ start = [s \in Shards |-> 0]
  /\ queue = <<>>
  /\ parked = {} /\ failed = {}

Elements(seq) == {seq[i] : i \in 1..Len(seq)}

-----------------------------------------------------------------------------
(* The event source hands the next event of a shard to the consumer.       *)
Invoke(s) ==
  /\ pc[s] = "idle"
  /\ pos[s] <= Len(Stream[s])
  /\ pc' = [pc EXCEPT ![s] = "process"]
  /\ UNCHANGED <<pos, start, queue, parked, failed>>

(* The invocation ends, and the event source goes on to the next event.    *)
Return(s) ==
  /\ pc' = [pc EXCEPT ![s] = "idle"]
  /\ pos' = [pos EXCEPT ![s] = @ + 1]
  /\ start' = [start EXCEPT ![s] = 0]

(* parseRecord and the processor.                                          *)
Process(s) ==
  /\ pc[s] = "process"
  /\ IF ToSend(s) = <<>>
       THEN Return(s)
       ELSE /\ pc' = [pc EXCEPT ![s] = "send"]
            /\ UNCHANGED <<pos, start>>
  /\ UNCHANGED <<queue, parked, failed>>

(* Either of them throws.                                                  *)
ProcessThrows(s) ==
  /\ "process" \in Faults
  /\ pc[s] = "process"
  /\ pc' = [pc EXCEPT ![s] = "park"]
  /\ UNCHANGED <<pos, start, queue, parked, failed>>

-----------------------------------------------------------------------------
(* The entries of the next request.                                        *)

(* Mistake: slice's end is taken for an index that is included.            *)
BatchEndIncluded(s) ==
  IF start[s] + MaxMessages + 1 < Len(ToSend(s))
    THEN start[s] + MaxMessages + 1 ELSE Len(ToSend(s))

BatchEnd(s) ==
  IF start[s] + MaxMessages < Len(ToSend(s))
    THEN start[s] + MaxMessages ELSE Len(ToSend(s))

(* Mistake: the notifications are taken from the end of the list.          *)
BatchFromEnd(s) ==
  SubSeq(ToSend(s), Len(ToSend(s)) - BatchEnd(s) + 1, Len(ToSend(s)) - start[s])

Batch(s) == SubSeq(ToSend(s), start[s] + 1, BatchEnd(s))

(* SQS refuses a request with no or too many entries or with an Id twice.  *)
(* The Id is the hash of the subject and the recipient.                    *)
EntryId(n) == <<n.subject, n.recipient>>

Accepted(batch) ==
  /\ Len(batch) \in 1..QueueLimit
  /\ \A i, j \in 1..Len(batch) : EntryId(batch[i]) = EntryId(batch[j]) => i = j

(* The queue drops an entry equal to one that it took a few minutes ago    *)
(* (contentBasedDeduplication), and some entries of a request may fail.    *)
MayMiss(n) == n \in Elements(queue) \/ "partial" \in Faults

Enqueue(batch) ==
  \E n \in 0..Len(batch) : \E kept \in [1..n -> 1..Len(batch)] :
    /\ \A i, j \in 1..n : i < j => kept[i] < kept[j]
    /\ \A i \in 1..Len(batch) : MayMiss(batch[i]) \/ \E k \in 1..n : kept[k] = i
    /\ queue' = queue \o [k \in 1..n |-> batch[kept[k]]]

(* Mistake: the last request is left out, or one more is sent when the last *)
(* one is full.                                                            *)
LastBatchLate(s) == start[s] + MaxMessages > Len(ToSend(s))
LastBatchEarly(s) == start[s] + 2 * MaxMessages >= Len(ToSend(s))

LastBatch(s) == start[s] + MaxMessages >= Len(ToSend(s))

(* The response's Failed entries are not looked at.                        *)
SendBatch(s) ==
  /\ pc[s] = "send"
  /\ Accepted(Batch(s))
  /\ Enqueue(Batch(s))
  /\ IF LastBatch(s)
       THEN Return(s)
       ELSE /\ start' = [start EXCEPT ![s] = @ + MaxMessages]
            /\ UNCHANGED <<pos, pc>>
  /\ UNCHANGED <<parked, failed>>

(* The request is refused, or left without an answer, in which case it may *)
(* have taken effect.                                                      *)
SendThrows(s) ==
  /\ pc[s] = "send"
  /\ \/ /\ ~Accepted(Batch(s)) \/ "send" \in Faults
        /\ UNCHANGED queue
     \/ /\ Accepted(Batch(s)) /\ "send" \in Faults
        /\ Enqueue(Batch(s))
  /\ pc' = [pc EXCEPT ![s] = "park"]
  /\ UNCHANGED <<pos, start, parked, failed>>

-----------------------------------------------------------------------------
(* The catch block sends the event to the dead letter queue.               *)
Park(s) ==
  /\ pc[s] = "park"
  /\ parked' = parked \cup {Event(s)}
  /\ Return(s)
  /\ UNCHANGED <<queue, failed>>

(* Mistake: the event source tries the event again.                        *)
ParkThrowsRetried(s) ==
  /\ pc[s] = "park"
  /\ "park" \in Faults
  /\ pc' = [pc EXCEPT ![s] = "process"]
  /\ start' = [start EXCEPT ![s] = 0]
  /\ UNCHANGED <<pos, queue, parked, failed>>

(* That fails too, and so does the invocation; it is not tried again, and  *)
(* the event source records the event at its onFailure destination.        *)
ParkThrows(s) ==
  /\ pc[s] = "park"
  /\ "park" \in Faults
  /\ failed' = failed \cup {Event(s)}
  /\ Return(s)
  /\ UNCHANGED <<queue, parked>>

(* Mistake: the event source tries the event again.                        *)
TimeoutRetried(s) ==
  /\ "timeout" \in Faults
  /\ pc[s] # "idle"
  /\ pc' = [pc EXCEPT ![s] = "process"]
  /\ start' = [start EXCEPT ![s] = 0]
  /\ UNCHANGED <<pos, queue, parked, failed>>

(* The invocation takes too long or dies.                                  *)
Timeout(s) ==
  /\ "timeout" \in Faults
  /\ pc[s] # "idle"
  /\ failed' = failed \cup {Event(s)}
  /\ Return(s)
  /\ UNCHANGED <<queue, parked>>

-----------------------------------------------------------------------------
Handle(s) ==
  \/ Invoke(s) \/ Process(s) \/ SendBatch(s) \/ SendThrows(s)
  \/ Park(s) \/ ParkThrows(s)

Next ==
  \E s \in Shards : Handle(s) \/ ProcessThrows(s) \/ Timeout(s)

Spec == Init /\ [][Next]_vars

(* The event source invokes the consumer while there are events, and every *)
(* request of an invocation is answered.                                   *)
FairSpec == Spec /\ \A s \in Shards : WF_vars(Handle(s))

-----------------------------------------------------------------------------
(* Correctness.                                                            *)

Handled(s, e) == \E i \in 1..pos[s] - 1 : Stream[s][i] = e

(* "Notifications that need to be dispatched by the controller"            *)
(* (consumer.controller.ts 92): once an event is dealt with, its           *)
(* notifications have reached the queue, or the event itself is in a dead  *)
(* letter queue.                                                           *)
NothingLost ==
  \A s \in Shards : \A e \in Events : Handled(s, e) =>
    Elements(Notifications[e]) \subseteq Elements(queue) \/ e \in parked \cup failed

(* The messages of one recipient are in the queue in the order of the      *)
(* events of a shard and of the notifications of an event.                 *)
Before(m, n) ==
  \E s \in Shards : \E i, j \in 1..Len(Stream[s]) :
    LET first == Notifications[Stream[s][i]]
        second == Notifications[Stream[s][j]]
    IN  \E k \in 1..Len(first), l \in 1..Len(second) :
          first[k] = m /\ second[l] = n /\ (i < j \/ (i = j /\ k < l))

OrderKept ==
  \A i, j \in 1..Len(queue) :
    i < j /\ queue[i].recipient = queue[j].recipient => ~Before(queue[j], queue[i])

(* No notification is put in the queue twice: nothing is tried again.      *)
NothingTwice ==
  \A i, j \in 1..Len(queue) : queue[i] = queue[j] => i = j

(* The cut into requests fits what SQS takes: none has more entries than   *)
(* the limit, and none is empty (consumer.controller.ts 62-65).            *)
RequestsFit == \A s \in Shards : pc[s] = "send" => Len(Batch(s)) \in 1..QueueLimit

(* Every event of the stream is dealt with: an event that fails does not   *)
(* hold up its shard.                                                      *)
EveryEventHandled == \A s \in Shards : <>(pos[s] > Len(Stream[s]))

=============================================================================
