---------------------------- MODULE MCDemoHandler ----------------------------
(* Instances of DemoHandler for TLC: the bodies callers send.              *)
EXTENDS DemoHandler, TLC

CONSTANTS p1, p2, i1, i2, d1, Submitted

OneBody == {[data |-> d1, status |-> Submitted]}
BodyAndInvalid == {[data |-> d1, status |-> "Created"],
                   [data |-> Invalid, status |-> "Created"]}

Symmetry == Permutations({p1, p2})

(* What a state has of an answered request: the call that served it and    *)
(* the demo in it play no further part in any step.                        *)
Relevant ==
  <<table, replica, used,
    [p \in Procs |-> IF Serving(p) THEN <<call[p], http[p]>>
                     ELSE <<http[p].method, http[p].status, http[p].wrote>>]>>

=============================================================================
