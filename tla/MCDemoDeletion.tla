--------------------------- MODULE MCDemoDeletion ---------------------------
(* Instances of DemoModelDeletion for TLC: the bodies callers send.        *)
EXTENDS DemoModelDeletion, TLC

CONSTANTS p1, p2, p3, i1, d1, Submitted

OneBody == {[data |-> d1, status |-> Submitted]}

Symmetry == Permutations({p1, p2, p3})
=============================================================================
