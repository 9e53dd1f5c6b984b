--------------------------- MODULE PipelineProofs ---------------------------
(***************************************************************************)
(* For any streams and any number of instances and messages: the notifier  *)
(* deletes no message that was not dealt with, texts before it emails, and *)
(* implements Mailbox, whatever requests fail and wherever an instance is  *)
(* cut off; and what ConsumerProofs says of the order in the queue and the *)
(* notifier's invariant of the order out of it make the order that a       *)
(* recipient sees.                                                         *)
(***************************************************************************)
EXTENDS Pipeline, SequenceTheorems, TLAPS

-----------------------------------------------------------------------------
(* The notifier.                                                           *)
Busy(w) == worker[w].pc # "idle"
Due(i) == IsUser(queue[i]) /\ "action" \in DOMAIN queue[i]

(* What the attempt of an instance at its message has behind it: the       *)
(* message is the first of its group, and its trace has what led to pc.    *)
Attempt(w) ==
  LET i == worker[w].msg IN
  /\ \A j \in 1..i - 1 : Group(queue[j]) = Group(queue[i]) => place[j] # "waiting"
  /\ worker[w].pc = "delete" /\ ~Ignore => trace[i] \cap {"emailed", "excused"} # {}
  /\ worker[w].pc \in {"secret", "post"} => Due(i)
  /\ worker[w].pc = "email" /\ Due(i) => "texted" \in trace[i]

NotifierInv ==
  /\ TypeOK /\ Len(queue) \in 0..Capacity
  /\ \A i \in Positions : i > Len(queue) => trace[i] = {} /\ place[i] = "waiting"
  /\ \A v, w \in Workers :
       Busy(v) /\ Busy(w) /\ worker[v].msg = worker[w].msg => v = w
  /\ \A w \in Workers : Busy(w) => Attempt(w)
  /\ NothingVanishes /\ TextedFirst

LEMMA FreshInstance == Fresh \in Worker /\ \A h \in 0..MaxSecret : [Fresh EXCEPT !.hook = h] \in Worker
<1>1. Fresh \in Worker
  BY NotifierAssumption DEF Fresh, NoHook, Worker
<1>2. ASSUME NEW h \in 0..MaxSecret
      PROVE  [Fresh EXCEPT !.hook = h] \in Worker
  BY <1>1 DEF Worker
<1>. QED  BY <1>1, <1>2

LEMMA InitInv == Init => NotifierInv
<1>. SUFFICES ASSUME Init PROVE NotifierInv
  OBVIOUS
<1>1. Len(queue) = 0 /\ \A w \in Workers : worker[w].pc = "idle"
  BY DEF Init, DeliveryInit, Fresh
<1>2. TypeOK
  BY <1>1, FreshInstance, NotifierAssumption DEF Init, DeliveryInit, TypeOK, Positions
<1>. QED  BY <1>1, <1>2, NotifierAssumption DEF Init, DeliveryInit, NotifierInv, Busy,
       NothingVanishes, TextedFirst, Positions

-----------------------------------------------------------------------------
(* An instance goes on with its message, which gets marks, or stops.       *)
LEMMA WorkStep ==
  ASSUME NotifierInv, NEW w \in Workers, Busy(w),
         NEW next \in Worker, NEW marks \in SUBSET Marks,
         worker' = [worker EXCEPT ![w] = next],
         trace' = [trace EXCEPT ![worker[w].msg] = @ \cup marks],
         UNCHANGED <<queue, place, receives, secret>>,
         next.pc # "idle" => next.msg = worker[w].msg,
         next.pc = "delete" /\ ~Ignore =>
           (trace[worker[w].msg] \cup marks) \cap {"emailed", "excused"} # {},
         next.pc \in {"secret", "post"} => Due(worker[w].msg),
         next.pc = "email" /\ Due(worker[w].msg) =>
           "texted" \in trace[worker[w].msg] \cup marks,
         "texted" \in marks => Due(worker[w].msg),
         "emailed" \in marks /\ Due(worker[w].msg) =>
           "texted" \in trace[worker[w].msg] \cup marks
  PROVE  NotifierInv'
<1>. DEFINE m == worker[w].msg
<1>1. /\ worker \in [Workers -> Worker] /\ trace \in [Positions -> SUBSET Marks]
      /\ Len(queue) \in 0..Capacity /\ m \in 1..Len(queue) /\ m \in Positions
      /\ place[m] = "waiting"
  BY NotifierAssumption DEF NotifierInv, TypeOK, Busy, Positions
<1>2. /\ worker'[w] = next /\ \A v \in Workers \ {w} : worker'[v] = worker[v]
      /\ worker' \in [Workers -> Worker]
  BY <1>1
<1>3. /\ trace'[m] = trace[m] \cup marks
      /\ \A i \in Positions \ {m} : trace'[i] = trace[i]
      /\ trace' \in [Positions -> SUBSET Marks]
  BY <1>1
<1>. HIDE DEF m
<1>4. TypeOK'
  BY <1>1, <1>2, <1>3 DEF NotifierInv, TypeOK, Busy, m
<1>5. \A i \in Positions : i > Len(queue') => trace'[i] = {} /\ place'[i] = "waiting"
  BY <1>1, <1>3, NotifierAssumption DEF NotifierInv, Positions
<1>6. ASSUME NEW u \in Workers, NEW v \in Workers,
             Busy(u)', Busy(v)', worker'[u].msg = worker'[v].msg
      PROVE  u = v
  BY <1>2, <1>6 DEF NotifierInv, Busy, m
<1>7. ASSUME NEW v \in Workers, Busy(v)'
      PROVE  Attempt(v)'
  <2>1. CASE v = w
    BY <1>1, <1>2, <1>3, <1>7, <2>1 DEF NotifierInv, Attempt, Busy, Due, m
  <2>2. CASE v # w
    <3>1. Busy(v) /\ worker'[v] = worker[v] /\ worker[v].msg # m
      BY <1>2, <1>7, <2>2 DEF NotifierInv, Busy, m
    <3>2. worker[v].msg \in Positions /\ trace'[worker[v].msg] = trace[worker[v].msg]
      <4>1. worker[v].msg \in 1..Len(queue)
        BY <3>1 DEF NotifierInv, TypeOK, Busy
      <4>2. worker[v].msg \in Positions
        BY <1>1, <4>1, NotifierAssumption DEF Positions
      <4>. QED  BY <1>3, <3>1, <4>2
    <3>3. Attempt(v)
      BY <3>1 DEF NotifierInv
    <3>. QED  BY <3>1, <3>2, <3>3 DEF Attempt, Due
  <2>. QED  BY <2>1, <2>2
<1>8. NothingVanishes'
  BY <1>1, <1>3 DEF NotifierInv, NothingVanishes
<1>9. TextedFirst'
  <2>1. ASSUME NEW i \in 1..Len(queue)
        PROVE  /\ "texted" \in trace'[i] => Due(i)
               /\ "emailed" \in trace'[i] /\ Due(i) => "texted" \in trace'[i]
    <3>1. i \in Positions
      BY <1>1, NotifierAssumption DEF Positions
    <3>2. /\ "texted" \in trace[i] => Due(i)
          /\ "emailed" \in trace[i] /\ Due(i) => "texted" \in trace[i]
      BY DEF NotifierInv, TextedFirst, Due
    <3>. QED  BY <1>3, <3>1, <3>2 DEF m
  <2>. QED  BY <2>1 DEF TextedFirst, Due
<1>. QED  BY <1>1, <1>4, <1>5, <1>6, <1>7, <1>8, <1>9 DEF NotifierInv

(* The steps of a busy instance that keep its message in the queue.        *)
LEMMA Works ==
  ASSUME NotifierInv, NEW w \in Workers,
         \/ LookUp(w) \/ FetchHook(w) \/ Post(w) \/ PostExcused(w) \/ PostRefused(w)
         \/ SendEmail(w) \/ EmailExcused(w) \/ EmailRefused(w) \/ Fails(w) \/ Crash(w)
  PROVE  NotifierInv'
<1>. DEFINE m == worker[w].msg
<1>1. /\ worker \in [Workers -> Worker] /\ trace \in [Positions -> SUBSET Marks]
      /\ worker[w] \in Worker /\ secret \in 1..MaxSecret /\ MaxSecret \in Nat
      /\ worker[w].hook \in 0..MaxSecret
  BY NotifierAssumption DEF NotifierInv, TypeOK, Worker
<1>2. Busy(w)
  BY DEF LookUp, FetchHook, Post, PostExcused, PostRefused, SendEmail, EmailExcused,
         EmailRefused, Fails, Crash, Busy, Requests
<1>3. Attempt(w) /\ m \in Positions
  BY <1>2, NotifierAssumption DEF NotifierInv, TypeOK, Busy, Positions
<1>4. trace = [trace EXCEPT ![m] = @ \cup {}]
  BY <1>1, <1>3
<1>5. {"texted"} \in SUBSET Marks /\ {"emailed"} \in SUBSET Marks /\ {} \in SUBSET Marks
      /\ {"excused"} \in SUBSET Marks /\ {"hindered"} \in SUBSET Marks
  BY DEF Marks
<1>a. CASE LookUp(w)
  <2>1. PICK address \in BOOLEAN :
          worker' = [worker EXCEPT ![w].pc = AfterLookUp(w), ![w].address = address]
    BY <1>a DEF LookUp
  <2>. DEFINE next == [worker[w] EXCEPT !.pc = AfterLookUp(w), !.address = address]
  <2>2. /\ next \in Worker /\ next.pc = AfterLookUp(w) /\ next.msg = m
        /\ worker' = [worker EXCEPT ![w] = next]
    BY <1>1, <2>1 DEF Worker, AfterLookUp, Requests
  <2>3. /\ next.pc \in {"secret", "post"} => Due(m)
        /\ next.pc = "email" => ~Due(m)
        /\ next.pc \in {"secret", "post", "email"}
    BY <2>2 DEF AfterLookUp, Texted, Due, Message
  <2>. HIDE DEF next
  <2>. QED  BY <1>2, <1>4, <1>5, <1>a, <2>2, <2>3, WorkStep DEF LookUp
<1>b. CASE FetchHook(w)
  <2>. DEFINE next == [worker[w] EXCEPT !.pc = "post", !.hook = secret]
  <2>1. /\ next \in Worker /\ next.pc = "post" /\ next.msg = m
        /\ worker' = [worker EXCEPT ![w] = next]
    <3>1. secret \in 0..MaxSecret
      BY <1>1
    <3>. QED  BY <1>1, <1>b, <3>1 DEF FetchHook, Worker, Requests
  <2>2. Due(m)
    BY <1>3, <1>b DEF FetchHook, Attempt
  <2>. HIDE DEF next
  <2>. QED  BY <1>2, <1>4, <1>5, <1>b, <2>1, <2>2, WorkStep DEF FetchHook
<1>c. ASSUME NEW request \in {"email", "delete"}, Await(w, request)
      PROVE  \E next \in Worker : /\ worker' = [worker EXCEPT ![w] = next]
                                  /\ next.pc = request /\ next.msg = m
  <2>1. [worker[w] EXCEPT !.pc = request] \in Worker
    BY <1>1 DEF Worker, Requests
  <2>. QED  BY <1>1, <1>c, <2>1 DEF Await, Worker
<1>d. CASE Post(w)
  <2>1. PICK next \in Worker :
          worker' = [worker EXCEPT ![w] = next] /\ next.pc = "email" /\ next.msg = m
    BY <1>c, <1>d DEF Post
  <2>2. Due(m) /\ trace' = [trace EXCEPT ![m] = @ \cup {"texted"}]
    BY <1>3, <1>d DEF Post, Mark, Attempt
  <2>. QED  BY <1>2, <1>5, <1>d, <2>1, <2>2, WorkStep DEF Post
<1>e. CASE PostExcused(w) \/ EmailExcused(w)
  <2>1. PICK next \in Worker :
          worker' = [worker EXCEPT ![w] = next] /\ next.pc = "delete" /\ next.msg = m
    BY <1>c, <1>e DEF PostExcused, EmailExcused
  <2>2. trace' = [trace EXCEPT ![m] = @ \cup {"excused"}]
    BY <1>e DEF PostExcused, EmailExcused, Mark
  <2>. QED  BY <1>2, <1>5, <1>e, <2>1, <2>2, WorkStep DEF PostExcused, EmailExcused
<1>f. CASE SendEmail(w)
  <2>1. PICK next \in Worker :
          worker' = [worker EXCEPT ![w] = next] /\ next.pc = "delete" /\ next.msg = m
    BY <1>c, <1>f DEF SendEmail
  <2>2. /\ Due(m) => "texted" \in trace[m]
        /\ trace' = [trace EXCEPT ![m] = @ \cup {"emailed"}]
    BY <1>3, <1>f DEF SendEmail, Mark, Attempt
  <2>. QED  BY <1>2, <1>5, <1>f, <2>1, <2>2, WorkStep DEF SendEmail
<1>g. CASE PostRefused(w) \/ EmailRefused(w) \/ Fails(w) \/ Crash(w)
  <2>1. PICK next \in Worker : worker' = [worker EXCEPT ![w] = next] /\ next.pc = "idle"
    <3>1. /\ Fresh \in Worker /\ Fresh.pc = "idle"
          /\ [Fresh EXCEPT !.hook = worker[w].hook] \in Worker
          /\ [Fresh EXCEPT !.hook = worker[w].hook].pc = "idle"
      BY <1>1, FreshInstance DEF Fresh
    <3>. QED  BY <1>g, <3>1 DEF PostRefused, EmailRefused, Fails, Crash, Hindered, Throws
  <2>2. trace' = [trace EXCEPT ![m] = @ \cup {"hindered"}]
    BY <1>g DEF PostRefused, EmailRefused, Fails, Crash, Hindered, Mark
  <2>. QED  BY <1>2, <1>5, <1>g, <2>1, <2>2, WorkStep DEF PostRefused, EmailRefused, Fails,
         Crash
<1>. QED  BY <1>a, <1>b, <1>d, <1>e, <1>f, <1>g

-----------------------------------------------------------------------------
(* The queue hands out a message and takes it back.                        *)
LEMMA ReceiveInv ==
  ASSUME NotifierInv, NEW w \in Workers, Receive(w)
  PROVE  NotifierInv'
<1>1. PICK i \in 1..Len(queue) :
        /\ First(i) /\ receives[i] < MaxReceive
        /\ receives' = [receives EXCEPT ![i] = @ + 1]
        /\ LET request == IF Ignore THEN "delete"
                          ELSE IF ~ValidBody(queue[i]) THEN "idle"
                          ELSE IF IsUser(queue[i]) THEN "cognito" ELSE "email"
           IN  worker' = [worker EXCEPT ![w].pc = request, ![w].address = TRUE,
                            ![w].msg = IF request = "idle" THEN 0 ELSE i]
  BY DEF Receive
<1>. DEFINE request == IF Ignore THEN "delete"
                       ELSE IF ~ValidBody(queue[i]) THEN "idle"
                       ELSE IF IsUser(queue[i]) THEN "cognito" ELSE "email"
            next == [worker[w] EXCEPT !.pc = request, !.address = TRUE,
                                      !.msg = IF request = "idle" THEN 0 ELSE i]
<1>2. /\ worker \in [Workers -> Worker] /\ receives \in [Positions -> 0..MaxReceive]
      /\ Len(queue) \in 0..Capacity /\ TypeOK
      /\ UNCHANGED <<queue, place, secret, trace>> /\ ~Busy(w)
  BY DEF NotifierInv, TypeOK, Receive, Busy
<1>3. i \in Positions
  BY <1>2, NotifierAssumption DEF Positions
<1>4. /\ worker' = [worker EXCEPT ![w] = next] /\ next \in Worker /\ next.pc = request
      /\ request # "idle" => next.msg = i
  <2>1. request \in Requests \cup {"idle"}
    BY DEF Requests
  <2>. HIDE DEF request
  <2>2. worker' = [worker EXCEPT ![w].pc = request, ![w].address = TRUE,
                     ![w].msg = IF request = "idle" THEN 0 ELSE i]
    BY <1>1 DEF request
  <2>3. worker[w] \in Worker
    BY <1>2
  <2>. QED  BY <1>2, <1>3, <2>1, <2>2, <2>3 DEF Worker
<1>5. /\ request \notin {"secret", "post"}
      /\ request = "delete" => Ignore
      /\ request = "email" => ~Due(i)
  BY DEF Due
<1>. HIDE DEF next, request
<1>6. /\ worker'[w] = next /\ worker' \in [Workers -> Worker]
      /\ \A v \in Workers \ {w} : worker'[v] = worker[v]
  BY <1>2, <1>4
<1>7. receives' \in [Positions -> 0..MaxReceive]
  BY <1>1, <1>2, <1>3, NotifierAssumption
<1>8. First(i)
  BY <1>1
<1>9. TypeOK'
  BY <1>2, <1>4, <1>6, <1>7, <1>8 DEF TypeOK, First
<1>10. ASSUME NEW u \in Workers, NEW v \in Workers,
             Busy(u)', Busy(v)', worker'[u].msg = worker'[v].msg
       PROVE  u = v
  BY <1>4, <1>6, <1>8, <1>10 DEF NotifierInv, First, InFlight, Busy
<1>11. ASSUME NEW v \in Workers, Busy(v)'
       PROVE  Attempt(v)'
  <2>1. CASE v = w
    BY <1>2, <1>4, <1>5, <1>6, <1>8, <1>11, <2>1 DEF First, Attempt, Busy, Due
  <2>2. CASE v # w
    BY <1>2, <1>6, <1>11, <2>2 DEF NotifierInv, Attempt, Busy, Due
  <2>. QED  BY <2>1, <2>2
<1>12. NothingVanishes' /\ TextedFirst'
  BY <1>2 DEF NotifierInv, NothingVanishes, TextedFirst
<1>. QED  BY <1>2, <1>9, <1>10, <1>11, <1>12 DEF NotifierInv

(* A message leaves the queue: only the places are different, and an       *)
(* instance may have stopped.                                              *)
LEMMA Leaves ==
  ASSUME NotifierInv, NEW i \in 1..Len(queue), NEW where \in {"deleted", "dead"},
         place' = [place EXCEPT ![i] = where],
         where = "deleted" /\ ~Ignore => trace[i] \cap {"emailed", "excused"} # {},
         UNCHANGED <<queue, receives, secret, trace>>,
         worker' \in [Workers -> Worker],
         \A w \in Workers : worker'[w].pc # "idle" =>
           worker'[w] = worker[w] /\ worker[w].msg # i
  PROVE  NotifierInv'
<1>1. /\ place \in [Positions -> {"waiting", "deleted", "dead"}]
      /\ Len(queue) \in 0..Capacity /\ TypeOK /\ i \in Positions
  BY NotifierAssumption DEF NotifierInv, TypeOK, Positions
<1>2. /\ place'[i] = where /\ \A j \in Positions \ {i} : place'[j] = place[j]
      /\ place' \in [Positions -> {"waiting", "deleted", "dead"}]
  BY <1>1
<1>3. 1..Len(queue) \subseteq Positions
  BY <1>1, NotifierAssumption DEF Positions
<1>4. TypeOK'
  BY <1>1, <1>2, <1>3 DEF TypeOK
<1>5. \A j \in Positions : j > Len(queue) => trace'[j] = {} /\ place'[j] = "waiting"
  BY <1>1, <1>2, NotifierAssumption DEF NotifierInv, Positions
<1>6. ASSUME NEW w \in Workers, Busy(w)'
      PROVE  Attempt(w)'
  <2>1. Attempt(w) /\ worker'[w] = worker[w] /\ worker[w].msg \in 1..Len(queue)
    BY <1>1, <1>6 DEF NotifierInv, TypeOK, Busy
  <2>2. \A j \in 1..worker[w].msg - 1 : place[j] # "waiting" => place'[j] # "waiting"
    <3>1. \A j \in 1..worker[w].msg - 1 : j \in Positions
      BY <1>1, <2>1, NotifierAssumption DEF Positions
    <3>. QED  BY <1>2, <3>1
  <2>. QED  BY <2>1, <2>2 DEF Attempt, Due
<1>7. \A u, v \in Workers : Busy(u)' /\ Busy(v)' /\ worker'[u].msg = worker'[v].msg => u = v
  BY DEF NotifierInv, Busy
<1>8. NothingVanishes'
  BY <1>1, <1>2 DEF NotifierInv, NothingVanishes
<1>9. TextedFirst'
  BY DEF NotifierInv, TextedFirst
<1>. QED  BY <1>1, <1>4, <1>5, <1>6, <1>7, <1>8, <1>9 DEF NotifierInv

LEMMA DeleteInv ==
  ASSUME NotifierInv, NEW w \in Workers, Delete(w)
  PROVE  NotifierInv'
<1>. DEFINE m == worker[w].msg
            stopped == [Fresh EXCEPT !.hook = worker[w].hook]
<1>1. /\ worker \in [Workers -> Worker] /\ worker[w].hook \in 0..MaxSecret
      /\ Busy(w) /\ m \in 1..Len(queue)
  BY DEF NotifierInv, TypeOK, Worker, Delete, Busy
<1>2. stopped \in Worker /\ stopped.pc = "idle" /\ worker' = [worker EXCEPT ![w] = stopped]
  BY <1>1, FreshInstance DEF Delete, Throws, Fresh
<1>. HIDE DEF stopped
<1>3. /\ worker' \in [Workers -> Worker]
      /\ \A v \in Workers : worker'[v].pc # "idle" => worker'[v] = worker[v] /\ v # w
  BY <1>1, <1>2
<1>4. ASSUME NEW v \in Workers, worker'[v].pc # "idle"
      PROVE  worker'[v] = worker[v] /\ worker[v].msg # m
  BY <1>1, <1>3, <1>4 DEF NotifierInv, Busy
<1>5. ~Ignore => trace[m] \cap {"emailed", "excused"} # {}
  BY <1>1 DEF Delete, NotifierInv, Attempt
<1>. QED  BY <1>1, <1>3, <1>4, <1>5, Leaves DEF Delete

LEMMA GiveUpInv ==
  ASSUME NotifierInv, NEW i \in 1..Len(queue), GiveUp(i)
  PROVE  NotifierInv'
<1>1. \A w \in Workers : worker[w].pc # "idle" => worker[w].msg # i
  BY DEF GiveUp, First, InFlight
<1>2. worker \in [Workers -> Worker]
  BY DEF NotifierInv, TypeOK
<1>. QED  BY <1>1, <1>2, Leaves DEF GiveUp

-----------------------------------------------------------------------------
(* The queue grows; what was there stays where it was.                     *)
LEMMA PutKeeps ==
  ASSUME Len(queue) \in Nat, Put
  PROVE  /\ Len(queue') \in Len(queue) + 1..Capacity
         /\ \A i \in 1..Len(queue) : queue'[i] = queue[i]
<1>. DEFINE S == {queue'[i] : i \in 1..Len(queue)}
<1>1. \A i \in 1..Len(queue) : queue'[i] \in S
  OBVIOUS
<1>. HIDE DEF S
<1>2. \A i \in 1..Len(queue) - 1 + 1 : SubSeq(queue', 1, Len(queue))[i] = queue'[1 + i - 1]
  BY <1>1, SubSeqProperties
<1>3. ASSUME NEW i \in 1..Len(queue)
      PROVE  queue'[i] = queue[i]
  <2>1. i \in 1..Len(queue) - 1 + 1 /\ 1 + i - 1 = i
    OBVIOUS
  <2>. QED  BY <1>2, <2>1 DEF Put
<1>. QED  BY <1>3 DEF Put

LEMMA PutInv ==
  ASSUME NotifierInv, Put
  PROVE  NotifierInv'
<1>1. /\ Len(queue) \in 0..Capacity /\ Len(queue) \in Nat /\ TypeOK
      /\ UNCHANGED deliveryVars /\ Capacity \in Nat
  BY NotifierAssumption DEF NotifierInv, Put
<1>2. /\ Len(queue') \in Len(queue) + 1..Capacity
      /\ \A i \in 1..Len(queue) : queue'[i] = queue[i]
  BY <1>1, PutKeeps
<1>3. /\ Len(queue') \in 0..Capacity
      /\ \A i \in 1..Len(queue) : i \in 1..Len(queue')
      /\ \A i \in 1..Len(queue') : i \in Positions /\ (i \in 1..Len(queue) \/ i > Len(queue))
  BY <1>1, <1>2 DEF Positions
<1>4. TypeOK'
  BY <1>1, <1>3 DEF TypeOK, deliveryVars
<1>5. \A i \in 1..Len(queue) : Due(i)' <=> Due(i)
  BY <1>2 DEF Due
<1>6. ASSUME NEW w \in Workers, Busy(w)'
      PROVE  Attempt(w)'
  <2>1. Attempt(w) /\ worker[w].msg \in 1..Len(queue)
    BY <1>1, <1>6 DEF NotifierInv, TypeOK, Busy, deliveryVars
  <2>2. \A j \in 1..worker[w].msg - 1 : queue'[j] = queue[j]
    BY <1>1, <1>2, <2>1
  <2>. QED  BY <1>1, <1>2, <1>5, <2>1, <2>2 DEF Attempt, deliveryVars
<1>7. TextedFirst'
  <2>1. ASSUME NEW i \in 1..Len(queue')
        PROVE  /\ "texted" \in trace[i] => Due(i)'
               /\ "emailed" \in trace[i] /\ Due(i)' => "texted" \in trace[i]
    BY <1>3, <1>5 DEF NotifierInv, TextedFirst, Due
  <2>. QED  BY <1>1, <2>1 DEF TextedFirst, Due, deliveryVars
<1>8. /\ NothingVanishes'
      /\ \A u, v \in Workers : Busy(u)' /\ Busy(v)' /\ worker'[u].msg = worker'[v].msg => u = v
  BY <1>1 DEF NotifierInv, NothingVanishes, Busy, deliveryVars
<1>9. \A i \in Positions : i > Len(queue') => trace'[i] = {} /\ place'[i] = "waiting"
  BY <1>1, <1>2 DEF NotifierInv, Positions, deliveryVars
<1>. QED  BY <1>3, <1>4, <1>6, <1>7, <1>8, <1>9 DEF NotifierInv

LEMMA Keeps ==
  ASSUME NotifierInv, Rotate \/ UNCHANGED vars
  PROVE  NotifierInv'
<1>1. UNCHANGED <<queue, place, receives, worker, trace>>
  BY DEF Rotate, vars, deliveryVars
<1>2. secret' \in 1..MaxSecret
  BY NotifierAssumption DEF NotifierInv, TypeOK, Rotate, vars, deliveryVars
<1>3. TypeOK'
  BY <1>1, <1>2 DEF NotifierInv, TypeOK
<1>. QED  BY <1>1, <1>3 DEF NotifierInv, Busy, Attempt, Due, NothingVanishes, TextedFirst

LEMMA NotifierInductive == NotifierInv /\ [Next]_vars => NotifierInv'
<1>. SUFFICES ASSUME NotifierInv, [Next]_vars PROVE NotifierInv'
  OBVIOUS
<1>1. ASSUME NEW w \in Workers, Notify(w) \/ Fails(w) \/ Crash(w)
      PROVE  NotifierInv'
  BY <1>1, ReceiveInv, Works, DeleteInv DEF Notify
<1>2. ASSUME NEW i \in 1..Len(queue), GiveUp(i)
      PROVE  NotifierInv'
  BY <1>2, GiveUpInv
<1>. QED  BY <1>1, <1>2, PutInv, Keeps DEF Next, Deliver

LEMMA NotifierAlways == Spec => []NotifierInv
BY InitInv, NotifierInductive, PTL DEF Spec

(* The variables keep their types, and an instance that is at work has a   *)
(* message that is still in the queue.                                     *)
THEOREM NotifierTypes == Spec => []TypeOK
<1>1. NotifierInv => TypeOK
  BY DEF NotifierInv
<1>. QED  BY <1>1, NotifierAlways, PTL

(* No message is deleted unless its email was sent or an error was         *)
(* swallowed that processError knows.                                      *)
THEOREM NoMessageVanishes == Spec => []NothingVanishes
<1>1. NotifierInv => NothingVanishes
  BY DEF NotifierInv
<1>. QED  BY <1>1, NotifierAlways, PTL

(* The instant message goes out before the email, over any number of       *)
(* attempts, and only when the message has an action and a user.           *)
THEOREM InstantMessageFirst == Spec => []TextedFirst
<1>1. NotifierInv => TextedFirst
  BY DEF NotifierInv
<1>. QED  BY <1>1, NotifierAlways, PTL

-----------------------------------------------------------------------------
(* The notifier implements Mailbox.                                        *)

settledBar == {i \in Positions : place[i] # "waiting"}
seenBar == {i \in Positions : trace[i] \cap {"texted", "emailed"} # {}}

(* A message is next in Mailbox when everything before it in its group has *)
(* left the queue.                                                         *)
LEMMA NextInMailbox ==
  ASSUME NotifierInv, NEW i \in 1..Len(queue), place[i] = "waiting",
         \A j \in 1..i - 1 : Group(queue[j]) = Group(queue[i]) => place[j] # "waiting"
  PROVE  Promise!IsNext(i)
<1>1. Len(queue) \in 0..Capacity /\ Capacity \in Nat
  BY NotifierAssumption DEF NotifierInv
<1>2. i \in 1..Len(queue) \ settledBar
  BY DEF settledBar
<1>3. \A j \in 1..i - 1 : queue[j].recipient = queue[i].recipient => j \in settledBar
  BY <1>1 DEF settledBar, Group, Positions
<1>. QED  BY <1>2, <1>3 DEF Promise!IsNext, settledBar

LEMMA BusyIsNext ==
  ASSUME NotifierInv, NEW w \in Workers, Busy(w)
  PROVE  Promise!IsNext(worker[w].msg) /\ worker[w].msg \in 1..Len(queue)
<1>1. /\ worker[w].msg \in 1..Len(queue) /\ place[worker[w].msg] = "waiting" /\ Attempt(w)
  BY DEF NotifierInv, TypeOK, Busy
<1>. QED  BY <1>1, NextInMailbox DEF Attempt

(* What a mark does to what recipients have seen.                          *)
LEMMA MarkSeen ==
  ASSUME NotifierInv, NEW w \in Workers, Busy(w), NEW marks \in SUBSET Marks, Mark(w, marks)
  PROVE  seenBar' = IF marks \cap {"texted", "emailed"} # {}
                      THEN seenBar \cup {worker[w].msg} ELSE seenBar
<1>1. trace \in [Positions -> SUBSET Marks] /\ worker[w].msg \in Positions
  BY NotifierAssumption DEF NotifierInv, TypeOK, Busy, Positions
<1>. QED  BY <1>1 DEF Mark, seenBar

LEMMA MailboxStep ==
  ASSUME NotifierInv, [Next]_vars
  PROVE  [Promise!Next]_(Promise!vars)
<1>0. /\ Promise!vars = <<queue, settledBar, seenBar>>
      /\ Promise!vars' = <<queue', settledBar', seenBar'>>
  BY DEF Promise!vars, settledBar, seenBar
<1>1. ASSUME NEW w \in Workers, Post(w) \/ SendEmail(w)
      PROVE  Promise!Next
  <2>1. Busy(w) /\ \E mark \in {"texted", "emailed"} : Mark(w, {mark})
    BY <1>1 DEF Post, SendEmail, Busy
  <2>2. seenBar' = seenBar \cup {worker[w].msg}
    BY <2>1, MarkSeen DEF Marks
  <2>3. Promise!IsNext(worker[w].msg) /\ worker[w].msg \in 1..Len(queue)
    BY <2>1, BusyIsNext
  <2>4. UNCHANGED <<queue, settledBar>>
    BY <1>1 DEF Post, SendEmail, settledBar
  <2>. QED  BY <2>2, <2>3, <2>4 DEF Promise!Next, Promise!Reach, settledBar, seenBar
<1>2. ASSUME NEW i \in 1..Len(queue), place' = [place EXCEPT ![i] = "deleted"]
                 \/ place' = [place EXCEPT ![i] = "dead"],
             UNCHANGED <<queue, trace>>, Promise!IsNext(i)
      PROVE  Promise!Next
  <2>1. place \in [Positions -> {"waiting", "deleted", "dead"}] /\ i \in Positions
    BY NotifierAssumption DEF NotifierInv, TypeOK, Positions
  <2>2. settledBar' = settledBar \cup {i}
    BY <1>2, <2>1 DEF settledBar
  <2>3. seenBar' = seenBar
    BY <1>2 DEF seenBar
  <2>. QED  BY <1>2, <2>2, <2>3 DEF Promise!Next, Promise!Settle, settledBar, seenBar
<1>3. ASSUME NEW w \in Workers, Delete(w)
      PROVE  Promise!Next
  BY <1>2, <1>3, BusyIsNext DEF Delete, Busy
<1>4. ASSUME NEW i \in 1..Len(queue), GiveUp(i)
      PROVE  Promise!Next
  BY <1>2, <1>4, NextInMailbox DEF GiveUp, First
<1>5. CASE Put
  <2>1. Len(queue) \in Nat
    BY DEF NotifierInv
  <2>2. Len(queue') > Len(queue) /\ SubSeq(queue', 1, Len(queue)) = queue
    BY <1>5, <2>1, NotifierAssumption DEF Put
  <2>3. UNCHANGED <<settledBar, seenBar>>
    BY <1>5 DEF Put, deliveryVars, settledBar, seenBar
  <2>. QED  BY <2>2, <2>3 DEF Promise!Next, Promise!Arrive, settledBar, seenBar
<1>6. ASSUME NEW w \in Workers,
             \/ PostExcused(w) \/ PostRefused(w) \/ EmailExcused(w) \/ EmailRefused(w)
             \/ Fails(w) \/ Crash(w)
      PROVE  UNCHANGED Promise!vars
  <2>1. Busy(w) /\ \E mark \in {"excused", "hindered"} : Mark(w, {mark})
    BY <1>6 DEF PostExcused, PostRefused, EmailExcused, EmailRefused, Fails, Crash,
         Hindered, Busy, Requests
  <2>2. seenBar' = seenBar
    BY <2>1, MarkSeen DEF Marks
  <2>3. UNCHANGED <<queue, settledBar>>
    BY <1>6 DEF PostExcused, PostRefused, EmailExcused, EmailRefused, Fails, Crash, settledBar
  <2>. QED  BY <1>0, <2>2, <2>3
<1>7. ASSUME \/ \E w \in Workers : Receive(w) \/ LookUp(w) \/ FetchHook(w)
             \/ Rotate \/ UNCHANGED vars
      PROVE  UNCHANGED Promise!vars
  <2>1. UNCHANGED <<queue, place, trace>>
    BY <1>7 DEF Receive, LookUp, FetchHook, Rotate, vars, deliveryVars
  <2>. QED  BY <1>0, <2>1 DEF settledBar, seenBar
<1>. QED  BY <1>1, <1>3, <1>4, <1>5, <1>6, <1>7 DEF Next, Deliver, Notify

LEMMA MailboxInit == Init => Promise!Init
<1>. SUFFICES ASSUME Init PROVE Promise!Init
  OBVIOUS
<1>1. settledBar = {} /\ seenBar = {} /\ queue = <<>>
  BY DEF Init, DeliveryInit, settledBar, seenBar
<1>. QED  BY <1>1 DEF Promise!Init, settledBar, seenBar

(* However many instances there are, whatever fails and however often a    *)
(* message is handed out: a recipient's messages leave the queue, whether  *)
(* delivered or given up, one after the other, and none reaches it before  *)
(* every earlier one has left.                                             *)
THEOREM NotifierImplementsMailbox == Spec => ImplementsMailbox
BY MailboxInit, MailboxStep, NotifierAlways, PTL DEF Spec, ImplementsMailbox, Promise!Spec

-----------------------------------------------------------------------------
(* The notifier behind the consumer.                                       *)
CP == INSTANCE ConsumerProofs

-----------------------------------------------------------------------------
(* The consumer of Pipeline is the one of ConsumerProofs.                  *)
LEMMA SameConsumer ==
  /\ C!Init <=> CP!Init
  /\ C!Next <=> CP!Next
  /\ C!vars = CP!vars
  /\ C!Intents = CP!Intents
  /\ CP!ConsumerAssumption
  /\ \A m, n : C!Before(m, n) <=> CP!Before(m, n)
  /\ \A seq : C!Elements(seq) = CP!Elements(seq)
<1>1. C!Intents = CP!Intents /\ C!Events = CP!Events
  BY DEF C!Intents, CP!Intents, C!Events, CP!Events
<1>2. CP!ConsumerAssumption
  BY <1>1, PipelineAssumption DEF C!ConsumerAssumption, CP!ConsumerAssumption
<1>3. C!Next <=> CP!Next
  <2>1. ASSUME NEW s
        PROVE  /\ C!Invoke(s) <=> CP!Invoke(s)
               /\ C!Process(s) <=> CP!Process(s)
               /\ C!ProcessThrows(s) <=> CP!ProcessThrows(s)
               /\ C!Park(s) <=> CP!Park(s)
               /\ C!ParkThrows(s) <=> CP!ParkThrows(s)
               /\ C!Timeout(s) <=> CP!Timeout(s)
    BY DEF C!Invoke, CP!Invoke, C!Process, CP!Process, C!ProcessThrows, CP!ProcessThrows,
         C!Park, CP!Park, C!ParkThrows, CP!ParkThrows, C!Timeout, CP!Timeout,
         C!Return, CP!Return, C!Event, CP!Event, C!ToSend, CP!ToSend
  <2>2. ASSUME NEW batch
        PROVE  (C!Enqueue(batch) <=> CP!Enqueue(batch))
               /\ (C!Accepted(batch) <=> CP!Accepted(batch))
    BY DEF C!Enqueue, CP!Enqueue, C!Accepted, CP!Accepted, C!MayMiss, CP!MayMiss,
         C!Elements, CP!Elements, C!EntryId, CP!EntryId
  <2>3. ASSUME NEW s
        PROVE  /\ C!Batch(s) = CP!Batch(s)
               /\ C!LastBatch(s) <=> CP!LastBatch(s)
               /\ C!Return(s) <=> CP!Return(s)
    BY DEF C!Batch, CP!Batch, C!BatchEnd, CP!BatchEnd, C!LastBatch, CP!LastBatch,
         C!Return, CP!Return, C!Event, CP!Event, C!ToSend, CP!ToSend
  <2>4. ASSUME NEW s
        PROVE  (C!SendBatch(s) <=> CP!SendBatch(s)) /\ (C!SendThrows(s) <=> CP!SendThrows(s))
    BY <2>2, <2>3 DEF C!SendBatch, CP!SendBatch, C!SendThrows, CP!SendThrows
  <2>. QED  BY <2>1, <2>4 DEF C!Next, CP!Next, C!Handle, CP!Handle
<1>4. (C!Init <=> CP!Init) /\ C!vars = CP!vars
  BY DEF C!Init, CP!Init, C!vars, CP!vars
<1>5. /\ \A m, n : C!Before(m, n) <=> CP!Before(m, n)
      /\ \A seq : C!Elements(seq) = CP!Elements(seq)
  BY DEF C!Before, CP!Before, C!Elements, CP!Elements
<1>. QED  BY <1>1, <1>2, <1>3, <1>4, <1>5

(* What the order in the queue rests on, put together.                     *)
OrderedQueue == CP!ConsumerInv /\ CP!OrderInv /\ CP!PrefixQueued

LEMMA OrderedInit == C!Init => OrderedQueue
<1>. SUFFICES ASSUME C!Init PROVE OrderedQueue
  OBVIOUS
<1>1. CP!ConsumerInv /\ CP!OrderInv
  BY SameConsumer, CP!InitInv, CP!OrderInvInit
<1>2. CP!Elements(queue) = {}
  BY DEF C!Init, CP!Elements
<1>. QED  BY <1>1, <1>2 DEF OrderedQueue, CP!PrefixQueued

LEMMA OrderedInductive ==
  ASSUME CP!ToldApart, "partial" \notin Faults, OrderedQueue, [C!Next]_(C!vars)
  PROVE  OrderedQueue'
<1>1. [CP!Next]_(CP!vars)
  BY SameConsumer DEF C!vars, CP!vars
<1>2. CP!ConsumerInv'
  BY <1>1, SameConsumer, CP!ConsumerInductive DEF OrderedQueue
<1>3. CP!OrderInv'
  BY <1>1, SameConsumer, CP!OrderInductive DEF OrderedQueue
<1>4. CP!PrefixQueued'
  BY <1>1, SameConsumer, CP!PrefixInductive DEF OrderedQueue
<1>. QED  BY <1>2, <1>3, <1>4 DEF OrderedQueue

-----------------------------------------------------------------------------
(* To the notifier the consumer is whoever fills the queue.                *)
LEMMA PipelineStep ==
  ASSUME CP!ConsumerInv, NotifierInv, Len(queue') <= Capacity,
         [PipelineNext]_pipelineVars
  PROVE  /\ [C!Next]_(C!vars)
         /\ [Next]_vars
         /\ \A i \in 1..Len(queue) : i \in 1..Len(queue') /\ queue'[i] = queue[i]
<1>1. CASE C!Next /\ UNCHANGED deliveryVars
  <2>1. PICK tail \in Seq(CP!Intents) : queue' = queue \o tail
    BY <1>1, SameConsumer, CP!QueueGrows
  <2>2. queue \in Seq(CP!Intents) /\ Len(queue) \in Nat /\ Capacity \in Nat
    BY NotifierAssumption DEF CP!ConsumerInv, CP!TypeOK
  <2>3. /\ Len(queue') = Len(queue) + Len(tail) /\ Len(tail) \in Nat
        /\ \A i \in 1..Len(queue) : i \in 1..Len(queue') /\ queue'[i] = queue[i]
        /\ SubSeq(queue', 1, Len(queue)) = queue
    BY <2>1, <2>2
  <2>4. CASE Len(tail) = 0
    <3>1. queue' = queue
      BY <2>1, <2>2, <2>4
    <3>. QED  BY <1>1, <2>3, <3>1 DEF vars
  <2>5. CASE Len(tail) # 0
    <3>1. Len(queue') \in Len(queue) + 1..Capacity
      BY <2>2, <2>3, <2>5
    <3>. QED  BY <1>1, <2>3, <3>1 DEF Put, Next
  <2>. QED  BY <2>4, <2>5
<1>2. CASE Deliver /\ UNCHANGED consumerVars
  <2>1. UNCHANGED queue
    BY <1>2 DEF Deliver, Notify, Receive, LookUp, FetchHook, Post, PostExcused, PostRefused,
         SendEmail, EmailExcused, EmailRefused, Delete, Fails, Crash, GiveUp, Rotate
  <2>2. Len(queue) \in Nat
    BY DEF NotifierInv
  <2>. QED  BY <1>2, <2>1, <2>2 DEF Next, consumerVars, C!vars
<1>3. CASE UNCHANGED pipelineVars
  <2>1. UNCHANGED <<queue, deliveryVars, consumerVars>>
    BY <1>3 DEF pipelineVars
  <2>2. Len(queue) \in Nat
    BY DEF NotifierInv
  <2>. QED  BY <2>1, <2>2 DEF vars, consumerVars, C!vars
<1>. QED  BY <1>1, <1>2, <1>3 DEF PipelineNext

-----------------------------------------------------------------------------
(* What a recipient has seen came after what is before it in the queue.    *)
SeenInOrder ==
  \A i \in seenBar : i \in 1..Len(queue) /\
    \A j \in 1..i - 1 : queue[j].recipient = queue[i].recipient => j \in settledBar

LEMMA SeenInductive ==
  ASSUME NotifierInv, SeenInOrder, [Next]_vars,
         \A i \in 1..Len(queue) : i \in 1..Len(queue') /\ queue'[i] = queue[i]
  PROVE  SeenInOrder'
<1>1. \/ Promise!Arrive \/ Promise!Reach \/ Promise!Settle
      \/ UNCHANGED <<queue, settledBar, seenBar>>
  BY MailboxStep DEF Promise!Next, Promise!vars, settledBar, seenBar
<1>2. CASE UNCHANGED <<settledBar, seenBar>>
  <2>1. ASSUME NEW i \in seenBar
        PROVE  /\ i \in 1..Len(queue') /\ queue'[i] = queue[i]
               /\ \A j \in 1..i - 1 : queue'[j] = queue[j]
    <3>1. i \in 1..Len(queue)
      BY <2>1 DEF SeenInOrder
    <3>2. Len(queue) \in Nat
      BY DEF NotifierInv
    <3>3. \A j \in 1..i - 1 : j \in 1..Len(queue)
      BY <3>1, <3>2
    <3>. QED  BY <3>1, <3>3
  <2>. QED  BY <1>2, <2>1 DEF SeenInOrder
<1>3. CASE Promise!Reach
  <2>1. PICK i \in 1..Len(queue) : Promise!IsNext(i) /\ seenBar' = seenBar \cup {i}
    BY <1>3 DEF Promise!Reach, seenBar
  <2>2. UNCHANGED <<queue, settledBar>>
    BY <1>3 DEF Promise!Reach, settledBar
  <2>3. \A j \in 1..i - 1 : queue[j].recipient = queue[i].recipient => j \in settledBar
    BY <2>1 DEF Promise!IsNext, settledBar
  <2>. QED  BY <2>1, <2>2, <2>3 DEF SeenInOrder
<1>4. CASE Promise!Settle
  <2>1. UNCHANGED <<queue, seenBar>> /\ settledBar \subseteq settledBar'
    BY <1>4 DEF Promise!Settle, settledBar, seenBar
  <2>. QED  BY <2>1 DEF SeenInOrder
<1>5. Promise!Arrive => UNCHANGED <<settledBar, seenBar>>
  BY DEF Promise!Arrive, settledBar, seenBar
<1>. QED  BY <1>1, <1>2, <1>3, <1>4, <1>5

-----------------------------------------------------------------------------
(* The two halves, and what they make together.                            *)
PipelineInv == OrderedQueue /\ NotifierInv /\ SeenInOrder

LEMMA PipelineStarts == PipelineInit => PipelineInv
<1>. SUFFICES ASSUME PipelineInit PROVE PipelineInv
  OBVIOUS
<1>1. OrderedQueue
  BY OrderedInit DEF PipelineInit
<1>2. Init
  BY DEF PipelineInit, Init, C!Init
<1>3. seenBar = {}
  BY <1>2 DEF Init, DeliveryInit, seenBar
<1>. QED  BY <1>1, <1>2, <1>3, InitInv DEF PipelineInv, SeenInOrder

LEMMA PipelineInductive ==
  ASSUME CP!ToldApart, "partial" \notin Faults,
         PipelineInv, Len(queue') <= Capacity, [PipelineNext]_pipelineVars
  PROVE  PipelineInv'
<1>1. /\ [C!Next]_(C!vars)
      /\ [Next]_vars
      /\ \A i \in 1..Len(queue) : i \in 1..Len(queue') /\ queue'[i] = queue[i]
  BY PipelineStep DEF PipelineInv, OrderedQueue
<1>2. OrderedQueue'
  BY <1>1, OrderedInductive DEF PipelineInv
<1>3. NotifierInv'
  BY <1>1, NotifierInductive DEF PipelineInv
<1>4. SeenInOrder'
  BY <1>1, SeenInductive DEF PipelineInv
<1>. QED  BY <1>2, <1>3, <1>4 DEF PipelineInv

LEMMA InvDelivers ==
  ASSUME CP!ToldApart, "partial" \notin Faults, PipelineInv
  PROVE  DeliveredInOrder
<1>1. SUFFICES ASSUME NEW i \in 1..Len(queue), trace[i] \cap {"texted", "emailed"} # {},
                      NEW m \in C!Intents, m.recipient = queue[i].recipient,
                      C!Before(m, queue[i])
               PROVE  \/ \E j \in 1..Len(queue) : queue[j] = m /\ place[j] # "waiting"
                      \/ \E e \in parked \cup failed : m \in C!Elements(Notifications[e])
  BY DEF DeliveredInOrder
<1>2. \/ \E j \in 1..i - 1 : queue[j] = m
      \/ \E e \in parked \cup failed : m \in CP!Elements(Notifications[e])
  BY <1>1, SameConsumer, CP!EarlierIsAhead DEF PipelineInv, OrderedQueue
<1>3. ASSUME NEW j \in 1..i - 1, queue[j] = m
      PROVE  j \in 1..Len(queue) /\ place[j] # "waiting"
  <2>1. Len(queue) \in 0..Capacity /\ Capacity \in Nat
    BY NotifierAssumption DEF PipelineInv, NotifierInv
  <2>2. i \in seenBar
    BY <1>1, <2>1 DEF seenBar, Positions
  <2>3. j \in settledBar
    BY <1>1, <1>3, <2>2 DEF PipelineInv, SeenInOrder
  <2>. QED  BY <2>1, <2>3 DEF settledBar
<1>. QED  BY <1>2, <1>3, SameConsumer

(* A recipient's messages come in the order of the events, from the table  *)
(* to the recipient: over any number of shards, requests, instances and    *)
(* attempts, and wherever an invocation breaks off on either side.  No     *)
(* notification is produced twice, SQS fails no single entry of a request, *)
(* and Capacity, a bound of the model only, is never exceeded.             *)
THEOREM RecipientsSeeOrder ==
  ASSUME CP!ToldApart, "partial" \notin Faults
  PROVE  PipelineSpec /\ [](Len(queue) <= Capacity) => []DeliveredInOrder
<1>1. PipelineInit => PipelineInv
  BY PipelineStarts
<1>2. PipelineInv /\ (Len(queue) <= Capacity)' /\ [PipelineNext]_pipelineVars => PipelineInv'
  BY PipelineInductive
<1>3. PipelineInv => DeliveredInOrder
  BY InvDelivers
<1>. QED  BY <1>1, <1>2, <1>3, PTL DEF PipelineSpec

-----------------------------------------------------------------------------
(* Either half of the pipeline is the component that the theorems above    *)
(* are about: the consumer does what ConsumerProofs says of it, and all    *)
(* that the notifier needs to know of it is that it fills the queue.       *)
THEOREM PipelineImplementsItsParts ==
  PipelineSpec /\ [](Len(queue) <= Capacity) => Spec /\ CP!Spec
<1>1. PipelineInit => Init /\ CP!Init
  BY SameConsumer DEF PipelineInit, Init, C!Init
<1>2. Init /\ CP!Init => CP!ConsumerInv /\ NotifierInv
  BY SameConsumer, InitInv, CP!InitInv
<1>3. ASSUME CP!ConsumerInv, NotifierInv, (Len(queue) <= Capacity)',
             [PipelineNext]_pipelineVars
      PROVE  [Next]_vars /\ [CP!Next]_(CP!vars) /\ CP!ConsumerInv' /\ NotifierInv'
  <2>1. [Next]_vars /\ [C!Next]_(C!vars)
    BY <1>3, PipelineStep
  <2>2. [CP!Next]_(CP!vars)
    BY <2>1, SameConsumer DEF C!vars, CP!vars
  <2>. QED  BY <1>3, <2>1, <2>2, SameConsumer, CP!ConsumerInductive, NotifierInductive
<1>. QED  BY <1>1, <1>2, <1>3, PTL DEF PipelineSpec, Spec, CP!Spec

(* What the pipeline promises whatever fails on its way: no message is     *)
(* deleted that was not dealt with, a user is texted before the email, and *)
(* the order of the queue is kept by the notifier as by a mailbox.         *)
COROLLARY PipelineDelivers ==
  PipelineSpec /\ [](Len(queue) <= Capacity)
    => []TypeOK /\ []NothingVanishes /\ []TextedFirst /\ ImplementsMailbox
BY PipelineImplementsItsParts, NotifierTypes, NoMessageVanishes, InstantMessageFirst,
   NotifierImplementsMailbox, PTL

(* No notification is lost between the stream and a recipient's mailbox:   *)
(* once its event is dealt with it is in the queue or its event is in a    *)
(* dead letter queue, and it leaves the queue only as above.               *)
COROLLARY NothingLostOnTheWay ==
  ASSUME "partial" \notin Faults
  PROVE  PipelineSpec /\ [](Len(queue) <= Capacity) => [](CP!NothingLost /\ NothingVanishes)
<1>1. CP!ConsumerInv => CP!NothingLost
  BY DEF CP!ConsumerInv
<1>2. CP!Spec => []CP!ConsumerInv
  BY SameConsumer, CP!InitInv, CP!ConsumerInductive, PTL DEF CP!Spec
<1>. QED  BY <1>1, <1>2, PipelineImplementsItsParts, NoMessageVanishes, PTL

=============================================================================
