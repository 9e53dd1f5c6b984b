------------------------------ MODULE Notifier ------------------------------
(***************************************************************************)
(* The notifier (rest-api/src/notifications) behind its FIFO queue         *)
(* (infra-stack.ts 55-69, rest-api-stack.ts 242-263).                      *)
(*                                                                         *)
(* Several instances of the function notify work at the same time, each on *)
(* one message (batchSize 1).  A message whose invocation fails becomes    *)
(* visible again, and while it is there no later message of its group is   *)
(* handed out; after MaxReceive receives it goes to the dead letter queue. *)
(* The function is cut off after 4 seconds, long before the queue hides a  *)
(* message no more (30 seconds), so a message is never handled twice at    *)
(* the same time.                                                          *)
(*                                                                         *)
(* A definition under the heading "Mistake" is a wrong form of the one     *)
(* that follows it: no specification uses it.                              *)
(***************************************************************************)
EXTENDS Naturals, Sequences

CONSTANTS
  Workers,     \* instances of the function
  Capacity,    \* bound: the messages that are ever put in the queue
  MaxReceive,  \* maxReceiveCount
  MaxSecret,   \* bound: the values that the web hook's secret takes, numbered from 1
  Ignore,      \* is IGNORE_NOTIFICATIONS set?
  Mishaps      \* what may go wrong: the requests that may fail, by the pc that
               \* awaits them, and "noAccount", "noSlackUser", "sandbox", "rotate",
               \* "crash"

Positions == 1..Capacity
NoHook == 0    \* the empty string
Requests == {"cognito", "secret", "post", "email", "delete"}

ASSUME NotifierAssumption ==
  /\ Capacity \in Nat /\ MaxReceive \in Nat \ {0} /\ MaxSecret \in Nat \ {0}
  /\ Ignore \in BOOLEAN
  /\ Mishaps \subseteq 
       Requests \cup {"noAccount", "noSlackUser", "sandbox", "rotate", "crash"}

VARIABLES
  queue,       \* all the messages that were ever put in the queue
  place,       \* place[i]: where message i is
  receives,    \* receives[i]: how often message i was handed out
  worker,      \* worker[w]: what instance w does
  secret,      \* the web hook that the secret holds and Slack accepts
  trace        \* trace[i], a history variable: what became of message i

deliveryVars == <<place, receives, worker, secret, trace>>
vars == <<queue, deliveryVars>>

(* An instance: the request it awaits, its message, whether emailRecipient *)
(* is an address or '', and instantMessageWebHook.                         *)
Worker == [pc : Requests \cup {"idle"},
           msg : Positions \cup {0},
           address : BOOLEAN,
           hook : 0..MaxSecret]

Fresh == [pc |-> "idle", msg |-> 0, address |-> TRUE, hook |-> NoHook]

(* "hindered": something outside the code made an attempt fail;            *)
(* "excused": processError swallowed an error that it knows.               *)
Marks == {"texted", "emailed", "excused", "hindered"}

TypeOK ==
  /\ Len(queue) <= Capacity
  /\ place \in [Positions -> {"waiting", "deleted", "dead"}]
  /\ receives \in [Positions -> 0..MaxReceive]
  /\ worker \in [Workers -> Worker]
  /\ secret \in 1..MaxSecret
  /\ trace \in [Positions -> SUBSET Marks]
  /\ \A w \in Workers : worker[w].pc # "idle" =>
       worker[w].msg \in 1..Len(queue) /\ place[worker[w].msg] = "waiting"

DeliveryInit ==
  /\ place = [i \in Positions |-> "waiting"]
  /\ receives = [i \in Positions |-> 0]
  /\ worker = [w \in Workers |-> Fresh]
  /\ secret = 1
  /\ trace = [i \in Positions |-> {}]

Init == queue = <<>> /\ DeliveryInit

Message(w) == queue[worker[w].msg]

-----------------------------------------------------------------------------
(* What the code asks of a message.                                        *)

(* validateBody.                                                           *)
ValidBody(m) == {"type", "userId", "subject", "content"} \subseteq DOMAIN m

IsUser(m) == m.recipient.type = "User"

(* Mistake: the action is not looked at.                                   *)
TextedWithoutAction(m) == IsUser(m)

Texted(m) == IsUser(m) /\ "action" \in DOMAIN m

(* Mistake: one group for each entry of a request.                         *)
GroupByEntry(m) == <<m.subject, m.recipient>>

(* The consumer's MessageGroupId.                                          *)
Group(m) == m.recipient

InFlight(i) == \E w \in Workers : worker[w].pc # "idle" /\ worker[w].msg = i

(* Mistake: messages under way are visible, as when the function may run   *)
(* longer than the queue hides them.                                       *)
FirstThoughInFlight(i) ==
  /\ place[i] = "waiting"
  /\ \A j \in 1..i - 1 : Group(queue[j]) = Group(queue[i]) => place[j] # "waiting"

(* The queue may hand out a message: it is the first of its group.         *)
First(i) ==
  /\ place[i] = "waiting" /\ ~InFlight(i)
  /\ \A j \in 1..i - 1 : Group(queue[j]) = Group(queue[i]) => place[j] # "waiting"

-----------------------------------------------------------------------------
(* Steps of an instance.                                                   *)
Await(w, pc) == worker' = [worker EXCEPT ![w].pc = pc]
Mark(w, mark) == trace' = [trace EXCEPT ![worker[w].msg] = @ \cup mark]

(* The exception leaves notify: the message stays in the queue, the        *)
(* instance lives on with its hook.                                        *)
Throws(w) == worker' = [worker EXCEPT ![w] = [Fresh EXCEPT !.hook = worker[w].hook]]

Hindered(w) == Throws(w) /\ Mark(w, {"hindered"})

(* A message is handed out and parsed; for a mailing list nothing is       *)
(* looked up.                                                              *)
Receive(w) ==
  /\ worker[w].pc = "idle"
  /\ \E i \in 1..Len(queue) :
       /\ First(i) /\ receives[i] < MaxReceive
       /\ receives' = [receives EXCEPT ![i] = @ + 1]
       /\ LET pc == IF Ignore THEN "delete"
                    ELSE IF ~ValidBody(queue[i]) THEN "idle"
                    ELSE IF IsUser(queue[i]) THEN "cognito" ELSE "email"
          IN  worker' = [worker EXCEPT ![w].pc = pc, ![w].address = TRUE,
                           ![w].msg = IF pc = "idle" THEN 0 ELSE i]
  /\ UNCHANGED <<queue, place, secret, trace>>

(* What is awaited once the address is known.                              *)
AfterLookUp(w) ==
  IF ~Texted(Message(w)) THEN "email"
  ELSE IF worker[w].hook = NoHook THEN "secret" ELSE "post"

(* getUserEmail: a user that Cognito does not know, or no more, has the    *)
(* address ''.                                                             *)
LookUp(w) ==
  /\ worker[w].pc = "cognito"
  /\ \E address \in {TRUE} \cup {"noAccount" \notin Mishaps} :
       worker' = [worker EXCEPT ![w].pc = AfterLookUp(w), ![w].address = address]
  /\ UNCHANGED <<queue, place, receives, secret, trace>>

FetchHook(w) ==
  /\ worker[w].pc = "secret"
  /\ worker' = [worker EXCEPT ![w].pc = "post", ![w].hook = secret]
  /\ UNCHANGED <<queue, place, receives, secret, trace>>

HookWorks(w) == worker[w].hook = secret

Post(w) ==
  /\ worker[w].pc = "post"
  /\ HookWorks(w) /\ worker[w].address
  /\ Await(w, "email")
  /\ Mark(w, {"texted"})
  /\ UNCHANGED <<queue, place, receives, secret>>

(* Slack does not know the address: processError swallows that, and the    *)
(* email is not sent either.                                               *)
PostExcused(w) ==
  /\ worker[w].pc = "post"
  /\ HookWorks(w) /\ (~worker[w].address \/ "noSlackUser" \in Mishaps)
  /\ Await(w, "delete")
  /\ Mark(w, {"excused"})
  /\ UNCHANGED <<queue, place, receives, secret>>

(* Any other answer of Slack: to a hook that has been replaced, or to an   *)
(* empty address.                                                          *)
PostRefused(w) ==
  /\ worker[w].pc = "post"
  /\ ~HookWorks(w) \/ ~worker[w].address
  /\ Hindered(w)
  /\ UNCHANGED <<queue, place, receives, secret>>

SendEmail(w) ==
  /\ worker[w].pc = "email"
  /\ worker[w].address
  /\ Await(w, "delete")
  /\ Mark(w, {"emailed"})
  /\ UNCHANGED <<queue, place, receives, secret>>

(* SES only sends to verified addresses: processError swallows that.       *)
EmailExcused(w) ==
  /\ worker[w].pc = "email" /\ "sandbox" \in Mishaps
  /\ Await(w, "delete")
  /\ Mark(w, {"excused"})
  /\ UNCHANGED <<queue, place, receives, secret>>

(* Mistake: processError swallows everything.                              *)
EmailRefusedSilently(w) ==
  /\ worker[w].pc = "email"
  /\ ~worker[w].address
  /\ Await(w, "delete")
  /\ Mark(w, {"hindered"})
  /\ UNCHANGED <<queue, place, receives, secret>>

(* SES rejects the address ''.                                             *)
EmailRefused(w) ==
  /\ worker[w].pc = "email"
  /\ ~worker[w].address
  /\ Hindered(w)
  /\ UNCHANGED <<queue, place, receives, secret>>

(* notify has returned: the event source deletes the message.              *)
Delete(w) ==
  /\ worker[w].pc = "delete"
  /\ place' = [place EXCEPT ![worker[w].msg] = "deleted"]
  /\ Throws(w)
  /\ UNCHANGED <<queue, receives, secret, trace>>

-----------------------------------------------------------------------------
(* A request is rejected.  An answer that is lost is the same as the       *)
(* request's effect and a rejection of the next request, and a secret      *)
(* without a SecretString, whose hook '' no post can use, the same as one  *)
(* that cannot be fetched.                                                 *)
Fails(w) ==
  /\ worker[w].pc \in Requests \cap Mishaps
  /\ Hindered(w)
  /\ UNCHANGED <<queue, place, receives, secret>>

(* The function is cut off, or its instance dies, and a new one takes its  *)
(* place.                                                                  *)
Crash(w) ==
  /\ worker[w].pc # "idle" /\ "crash" \in Mishaps
  /\ worker' = [worker EXCEPT ![w] = Fresh]
  /\ Mark(w, {"hindered"})
  /\ UNCHANGED <<queue, place, receives, secret>>

(* The secret is given another web hook, which Slack accepts from then on. *)
(* Bound: right before an instance uses the one that it has fetched; if    *)
(* the secret changed earlier, nobody would notice earlier.                *)
Rotate ==
  /\ "rotate" \in Mishaps
  /\ \E w \in Workers : worker[w].pc = "post" /\ worker[w].hook = secret
  /\ secret < MaxSecret /\ secret' = secret + 1
  /\ UNCHANGED <<queue, place, receives, worker, trace>>

(* Mistake: the queue has no dead letter queue.                            *)
GiveUpNever(i) == FALSE /\ UNCHANGED vars

GiveUp(i) ==
  /\ First(i) /\ receives[i] = MaxReceive
  /\ place' = [place EXCEPT ![i] = "dead"]
  /\ UNCHANGED <<queue, receives, worker, secret, trace>>

-----------------------------------------------------------------------------
(* notify, from the receipt of a message to its deletion.                  *)
Notify(w) ==
  \/ Receive(w) \/ LookUp(w) \/ FetchHook(w)
  \/ Post(w) \/ PostExcused(w) \/ PostRefused(w)
  \/ SendEmail(w) \/ EmailExcused(w) \/ EmailRefused(w) \/ Delete(w)

Deliver ==
  \/ \E w \in Workers : Notify(w) \/ Fails(w) \/ Crash(w)
  \/ \E i \in 1..Len(queue) : GiveUp(i)
  \/ Rotate

(* Whoever fills the queue adds messages at its end.                       *)
Put ==
  /\ Len(queue') \in Len(queue) + 1..Capacity
  /\ SubSeq(queue', 1, Len(queue)) = queue
  /\ UNCHANGED deliveryVars

Next == Deliver \/ Put

Spec == Init /\ [][Next]_vars

(* SQS hands out what can be received while an instance is free, and every *)
(* request of an instance is answered.                                     *)
Fairness ==
  /\ \A w \in Workers : WF_vars(Notify(w))
  /\ \A i \in Positions : WF_vars(i <= Len(queue) /\ GiveUp(i))

-----------------------------------------------------------------------------
(* Correctness.                                                            *)

(* A message is deleted only when its email was sent, or for an error that *)
(* processError knows (notifier.ts 32-43, 111-113).                        *)
NothingVanishes ==
  \A i \in Positions : place[i] = "deleted" /\ ~Ignore =>
    trace[i] \cap {"emailed", "excused"} # {}

(* Mailing lists get no instant message, and a user whose message has an   *)
(* action gets the instant message before the email (notifier.ts 99-110),  *)
(* whatever attempts were made.                                            *)
TextedFirst ==
  \A i \in 1..Len(queue) :
    LET due == IsUser(queue[i]) /\ "action" \in DOMAIN queue[i]
    IN  /\ "texted" \in trace[i] => due
        /\ "emailed" \in trace[i] /\ due => "texted" \in trace[i]

(* A message is given up only if something outside the code was in the     *)
(* way: "Parse the input, validate it and return the values that are       *)
(* useful" (notifier.ts 46) refuses nothing that the consumer sends.       *)
DeadHasCause ==
  \A i \in Positions : place[i] = "dead" => "hindered" \in trace[i]

(* The notifier implements Mailbox: the attempts for a message, however    *)
(* many and wherever they break off, come after every earlier message of   *)
(* its recipient has left the queue.                                       *)
Promise == INSTANCE Mailbox WITH
  inbox <- queue,
  settled <- {i \in Positions : place[i] # "waiting"},
  seen <- {i \in Positions : trace[i] \cap {"texted", "emailed"} # {}}

ImplementsMailbox == Promise!Spec

(* Every message leaves the queue.                                         *)
EveryMessageLeaves ==
  \A i \in Positions : i <= Len(queue) ~> place[i] # "waiting"

=============================================================================
