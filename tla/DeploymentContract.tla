------------------------- MODULE DeploymentContract -------------------------
(***************************************************************************)
(* What a deployment transaction of musubix4 promises, whatever crashes in *)
(* between: it is decided once; it is decided "deployed" only if no        *)
(* rollback was ever begun; and it is decided "recovered" or               *)
(* "rollback-failed" only after the one rollback it is entitled to.        *)
(***************************************************************************)

Outcome == {"deployed", "recovered", "rollback-failed"}

VARIABLES outcome,     \* "pending" until the transaction is decided
          rollback     \* whether the single rollback was begun

vars == <<outcome, rollback>>

Init == outcome = "pending" /\ rollback = FALSE

\* Deploy and verify both passed.
Commit ==
  /\ outcome = "pending" /\ ~rollback
  /\ outcome' = "deployed"
  /\ UNCHANGED rollback

BeginRollback ==
  /\ outcome = "pending" /\ ~rollback
  /\ rollback' = TRUE
  /\ UNCHANGED outcome

EndRollback ==
  /\ outcome = "pending" /\ rollback
  /\ outcome' \in {"recovered", "rollback-failed"}
  /\ UNCHANGED rollback

Next == Commit \/ BeginRollback \/ EndRollback

Spec == Init /\ [][Next]_vars
=============================================================================
