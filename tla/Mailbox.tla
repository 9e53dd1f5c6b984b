------------------------------ MODULE Mailbox ------------------------------
(***************************************************************************)
(* What the notification pipeline promises to a recipient, without queues, *)
(* instances, attempts or the services behind them: notifications arrive   *)
(* in one list, and each is settled once, that is delivered or given up,   *)
(* in the order of the list as far as it is about one recipient.  A        *)
(* recipient has seen a notification only if it is settled or next.        *)
(***************************************************************************)
EXTENDS Naturals, Sequences

VARIABLES
  inbox,     \* the notifications so far
  settled,   \* the positions in inbox that are settled
  seen       \* the positions that reached their recipient, once or more

vars == <<inbox, settled, seen>>

Init == inbox = <<>> /\ settled = {} /\ seen = {}

IsNext(i) ==
  /\ i \in 1..Len(inbox) \ settled
  /\ \A j \in 1..i - 1 : inbox[j].recipient = inbox[i].recipient => j \in settled

Arrive ==
  /\ Len(inbox') > Len(inbox)
  /\ SubSeq(inbox', 1, Len(inbox)) = inbox
  /\ UNCHANGED <<settled, seen>>

Reach ==
  /\ \E i \in 1..Len(inbox) : IsNext(i) /\ seen' = seen \cup {i}
  /\ UNCHANGED <<inbox, settled>>

Settle ==
  /\ \E i \in 1..Len(inbox) : IsNext(i) /\ settled' = settled \cup {i}
  /\ UNCHANGED <<inbox, seen>>

Next == Arrive \/ Reach \/ Settle

Spec == Init /\ [][Next]_vars

=============================================================================
