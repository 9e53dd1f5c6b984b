---------------------------- MODULE MCScenarios ----------------------------
(* Instances of Scenarios for TLC: two test runs and two functions.        *)
EXTENDS Scenarios, TLC

CONSTANTS t1, t2, a1, a2, b1, l1, l2, i1, i2, absent, d1

DemoTemplate == [data |-> d1, status |-> "Created"]
TheBodies == {DemoTemplate, [data |-> d1, status |-> "Deleted"]}

(* A run deletes up to two demos at a time.                                *)
Hands == t1 :> {a1, a2} @@ t2 :> {b1}

Symmetry ==
  Permutations({i1, i2}) \cup Permutations({l1, l2}) \cup Permutations({a1, a2})

(* What a state has of a process: all of a call that is under way or whose *)
(* answer is awaited; of the others the demo and the outcome, as long as   *)
(* the scenario they belong to is played.                                  *)
Relevant ==
  <<table, replica, used, world, misread,
    [p \in Procs |->
       IF call[p].pc \in Awaits \/ \E r \in Runners : world[r].awaits = p
         THEN <<call[p], http[p]>>
       ELSE IF \E r \in Runners : p \in Own[r] /\ world[r].step # "idle"
         THEN <<call[p].id, call[p].op, call[p].result>>
       ELSE <<>>]>>
=============================================================================
