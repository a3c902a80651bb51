------------------------------ MODULE MCWorkflow ------------------------------
(* Instance of WorkflowEvidence: sessions with named Skills.                 *)
EXTENDS WorkflowEvidence, TLC
CONSTANTS s1, s2, k1, k2
Symmetric == Permutations(Sessions) \union Permutations(Skills)
=============================================================================
