------------------------------ MODULE Pipeline ------------------------------
(***************************************************************************)
(* The way of a notification from the table's stream to its recipient: the *)
(* consumer of module Consumer fills the queue that the notifier of module *)
(* Notifier empties.  They share nothing else.                             *)
(***************************************************************************)
EXTENDS Notifier

CONSTANTS
  Shards, Stream, Notifications, MaxMessages, QueueLimit, Faults

VARIABLES pos, pc, start, parked, failed

C == INSTANCE Consumer

ASSUME PipelineAssumption == C!ConsumerAssumption

consumerVars == <<pos, pc, start, parked, failed>>
pipelineVars == <<queue, deliveryVars, consumerVars>>

PipelineInit == C!Init /\ DeliveryInit

PipelineNext ==
  \/ C!Next /\ UNCHANGED deliveryVars
  \/ Deliver /\ UNCHANGED consumerVars

PipelineSpec == PipelineInit /\ [][PipelineNext]_pipelineVars

FairPipelineSpec ==
  /\ PipelineSpec
  /\ \A s \in Shards : WF_<<queue, consumerVars>>(C!Handle(s))
  /\ Fairness

-----------------------------------------------------------------------------
(* Correctness.                                                            *)

(* A recipient's emails and instant messages come in the order of the      *)
(* events and of the notifications of an event: when one of them was sent, *)
(* every earlier one has left the queue, or was never put there because    *)
(* its event failed (consumer.controller.ts 62-70, infra-stack.ts 60-69).  *)
DeliveredInOrder ==
  \A i \in 1..Len(queue) : trace[i] \cap {"texted", "emailed"} # {} =>
    \A m \in C!Intents :
      m.recipient = queue[i].recipient /\ C!Before(m, queue[i]) =>
        \/ \E j \in 1..Len(queue) : queue[j] = m /\ place[j] # "waiting"
        \/ \E e \in parked \cup failed : m \in C!Elements(Notifications[e])

=============================================================================
