---------------------------- MODULE MCDemoModel ----------------------------
(* Instances of DemoModel for TLC: the bodies callers send.                *)
EXTENDS DemoModelHistory, TLC

CONSTANTS p1, p2, p3, i1, i2, d1, d2, Submitted

Pair(data, status) == [data |-> data, status |-> status]

OneBody == {Pair(d1, Submitted)}
BodyAndInvalid == {Pair(d1, "Created"), Pair(Invalid, "Created")}
TwoBodies == {Pair(d1, "Created"), Pair(d2, Submitted)}

Symmetry2 == Permutations({p1, p2})
Symmetry3 == Permutations({p1, p2, p3})
=============================================================================
