----------------------------- MODULE MCPipeline -----------------------------
(* Instances of Pipeline for TLC: streams and what their events produce.   *)
EXTENDS Pipeline, TLC

CONSTANTS s1, e1, e2, u1, a, b, c, w1, w2

User(u) == [type |-> "User", userId |-> u]
List == [type |-> "MailingList", email |-> a]

(* A NotificationIntent, as the consumer puts it in the queue.             *)
Intent(recipient, subject) ==
  [recipient |-> recipient, subject |-> subject, content |-> a]

(* With the fields that validateBody asks for, which no NotificationIntent *)
(* has: what a sender would have to write that wants to be heard.  One     *)
(* with an action.                                                         *)
Notice(recipient, subject) ==
  [type |-> "INSTANT_MESSAGE", userId |-> u1] @@ Intent(recipient, subject)
Request(recipient, subject) ==
  [action |-> a] @@ Notice(recipient, subject)

(* One shard: an event whose notifications take two requests, one message  *)
(* for a user with an instant message and one for a list, and an event     *)
(* with another message for the user.                                      *)
OneShard == {s1}
Streams == s1 :> <<e1, e2>>
Produced ==
  (e1 :> <<Intent(User(u1), c), Request(User(u1), a), Notice(List, a)>>)
  @@ (e2 :> <<Notice(User(u1), b)>>)

(* Only notifications as NotificationIntent declares them.                 *)
Declared == (e1 :> <<Intent(User(u1), a), Intent(List, a)>>) @@ (e2 :> <<>>)

=============================================================================
