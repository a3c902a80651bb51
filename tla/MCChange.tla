------------------------------ MODULE MCChange ------------------------------
(* Instances of ChangeLifecycle.                                             *)
EXTENDS ChangeLifecycle
CONSTANTS p1, r1, r2, u1, u2
OneProc == {p1}
OneImplements == r1 :> {u1}
SharedImplements == (r1 :> {u1} @@ r2 :> {u1})
OneImport == {<<u2, u1>>}
NoImports == {}
\* Two requirements that share their unit can be exchanged.
Symmetry == Permutations({r1, r2})
=============================================================================
