------------------------------- MODULE MCTdd -------------------------------
(* Instances of TddCycle.                                                    *)
EXTENDS TddCycle
CONSTANTS p1, p2, t1, r1
TwoProcs == {p1, p2}
OneTest == {<<t1, r1>>}
Symmetry == Permutations({p1, p2})
=============================================================================
