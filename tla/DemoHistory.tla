---------------------------- MODULE DemoHistory ----------------------------
(***************************************************************************)
(* What the demo model promises to callers that create, update and read    *)
(* demos: each demo is an append-only history of bodies, every successful  *)
(* create or update appends one body to it in a single step and learns the *)
(* version it was given, and a read answers with some version of the       *)
(* history, not always the newest one.  A request may also be refused or   *)
(* go without an answer, in which case its body may still be appended.     *)
(***************************************************************************)
EXTENDS Naturals

CONSTANTS Procs, Ids, Bodies, None

VARIABLES
  history,   \* history[<<k, id>>]: the body of version k of demo id
  busy,      \* the processes whose request is being executed
  answer     \* answer[p]: the version and body p was answered last, or None

vars == <<history, busy, answer>>

Answer(id, version, body) == [id |-> id, version |-> version, body |-> body]

(* Version n is the newest of a demo; 0 when it has none.                  *)
Newest(id, n) ==
  /\ n = 0 \/ <<n, id>> \in DOMAIN history
  /\ \A e \in DOMAIN history : e[2] = id => e[1] <= n

Append1(id, n, body) ==
  history' = [e \in DOMAIN history \cup {<<n + 1, id>>} |->
                IF e = <<n + 1, id>> THEN body ELSE history[e]]

Init ==
  /\ history = [e \in {} |-> None]
  /\ busy = {}
  /\ answer = [p \in Procs |-> None]

Request(p) ==
  /\ p \notin busy
  /\ busy' = busy \cup {p}
  /\ answer' = [answer EXCEPT ![p] = None]
  /\ UNCHANGED history

Publish(p) ==
  /\ p \in busy
  /\ \E id \in Ids, body \in Bodies :
       \E n \in {0} \cup {e[1] : e \in DOMAIN history} :
         /\ Newest(id, n)
         /\ Append1(id, n, body)
         /\ answer' \in {[answer EXCEPT ![p] = Answer(id, n + 1, body)], answer}
  /\ busy' = busy \ {p}

Read(p) ==
  /\ p \in busy
  /\ \E e \in DOMAIN history :
       answer' = [answer EXCEPT ![p] = Answer(e[2], e[1], history[e])]
  /\ busy' = busy \ {p}
  /\ UNCHANGED history

Refuse(p) ==
  /\ busy' = busy \ {p}
  /\ answer' = [answer EXCEPT ![p] = None]
  /\ UNCHANGED history

Next == \E p \in Procs : Request(p) \/ Publish(p) \/ Read(p) \/ Refuse(p)

Spec == Init /\ [][Next]_vars

=============================================================================
