----------------------------- MODULE MCConsumer -----------------------------
(* Instances of Consumer for TLC: streams and what their events produce.   *)
EXTENDS Consumer, TLC

CONSTANTS s1, s2, e1, e2, e3, e4, e5, r1, r2, a, b

Intent(recipient, subject, content) ==
  [recipient |-> recipient, subject |-> subject, content |-> content]

TwoShards == {s1, s2}

(* Two shards; an event takes two requests, one, none or three, and the    *)
(* notifications of e5 are alike, as those that consumer.controller.test.ts *)
(* (72-110) dispatches: SQS refuses the request that holds both.           *)
Streams == (s1 :> <<e1, e2>>) @@ (s2 :> <<e3, e5, e4>>)
Produced ==
  (e1 :> <<Intent(r1, a, 1), Intent(r1, b, 1), Intent(r2, a, 1)>>)
  @@ (e2 :> <<Intent(r1, a, 2), Intent(r2, a, 2)>>)
  @@ (e3 :> <<>>)
  @@ (e4 :> <<Intent(r1, a, 3), Intent(r2, a, 3), Intent(r2, b, 3), Intent(r1, b, 3),
            Intent(r1, a, 4)>>)
  @@ (e5 :> <<Intent(r2, a, 5), Intent(r2, a, 5)>>)

=============================================================================
