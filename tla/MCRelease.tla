------------------------------ MODULE MCRelease ------------------------------
(* Instance of ReleaseGate: one domain matches both features, so that one    *)
(* may be added to it, or leave it, after it was approved.                   *)
EXTENDS ReleaseGate

CONSTANTS f1, f2, d1

OneOwner == [f \in {f1, f2} |-> {d1}]
=============================================================================
