----------------------------- MODULE Deployment -----------------------------
(***************************************************************************)
(* One deployment transaction of a run, packages/analysis/src/hoh.ts.      *)
(*                                                                         *)
(* A ready run is moved to "deploying" by resume(), which then calls       *)
(* deployCandidate(): deploy, verify and, when either fails, one rollback. *)
(* Each phase is journalled in deployment.json by an atomic rename before  *)
(* and after the command it stands for, so that recoverDeployment() can    *)
(* settle the transaction after a crash.  A command that cannot even be    *)
(* spawned makes runBoundedProcess reject: the exception leaves            *)
(* deployCandidate and resume() turns it into a failed run.                *)
(*                                                                         *)
(* The command records kept in the journal are left out: no property tells *)
(* them apart.  "target" is the environment the commands act on.           *)
(***************************************************************************)
EXTENDS Naturals

CONSTANTS MaxCrashes,     \* how often the process may die
          SpawnMayFail,   \* whether a command may be missing or not executable
          RecoveryRuns    \* whether somebody calls recoverDeployment

ASSUME ConstantsAssumption ==
  /\ MaxCrashes \in Nat
  /\ SpawnMayFail \in BOOLEAN
  /\ RecoveryRuns \in BOOLEAN

Terminal == {"deployed", "recovered", "rollback-failed"}
Phase == {"deploy-started", "deploy-completed", "deploy-failed",
          "verify-started", "verify-failed", "rollback-started"} \cup Terminal

NoJournal == [phase |-> "none", rollbackAttempts |-> 0]

VARIABLES runState,   \* state of the run record on disk
          journal,    \* deployment.json
          pc,         \* where the live process is; "none": no process
          caller,     \* who drives it: "resume" or "recovery"
          passed,     \* result of the last command, in memory
          target,     \* what the commands left: "old", "new" or "partial"
          rollbacks,  \* how many rollback commands were spawned (history)
          crashes

vars == <<runState, journal, pc, caller, passed, target, rollbacks, crashes>>

TypeOK ==
  /\ runState \in {"ready", "deploying", "failed"} \cup Terminal
  /\ journal \in [phase : Phase \cup {"none"}, rollbackAttempts : 0..1]
  /\ pc \in {"none", "start", "deploy", "deployRan", "verifyNext", "verify",
             "verifyRan", "rollbackNext", "rollback", "rollbackRan",
             "settled"}
  /\ caller \in {"resume", "recovery"}
  /\ passed \in BOOLEAN
  /\ target \in {"old", "new", "partial"}
  /\ rollbacks \in Nat
  /\ crashes \in 0..MaxCrashes

Init ==
  /\ runState = "ready"
  /\ journal = NoJournal
  /\ pc = "none"
  /\ caller = "resume"
  /\ passed = FALSE
  /\ target = "old"
  /\ rollbacks = 0
  /\ crashes = 0

-----------------------------------------------------------------------------
Persist(phase, attempts) ==
  journal' = [phase |-> phase, rollbackAttempts |-> attempts]

\* resume() of a ready run: the state is saved before deployCandidate runs.
EnterDeploying ==
  /\ pc = "none" /\ runState = "ready"
  /\ runState' = "deploying"
  /\ pc' = "start"
  /\ caller' = "resume"
  /\ UNCHANGED <<journal, passed, target, rollbacks, crashes>>

\* The preconditions of deployCandidate, an empty command among them, throw
\* before anything is journalled: resume() ends the run.
StartRefused ==
  /\ pc = "start"
  /\ pc' = "none" /\ runState' = "failed"
  /\ UNCHANGED <<journal, caller, passed, target, rollbacks, crashes>>

StartDeploy ==
  /\ pc = "start"
  /\ Persist("deploy-started", 0)
  /\ pc' = "deploy"
  /\ UNCHANGED <<runState, caller, passed, target, rollbacks, crashes>>

\* Exit code 0 without a timeout passes, anything else fails.
RunDeploy ==
  /\ pc = "deploy"
  /\ passed' \in BOOLEAN
  /\ target' = IF passed' THEN "new" ELSE "partial"
  /\ pc' = "deployRan"
  /\ UNCHANGED <<runState, journal, caller, rollbacks, crashes>>

RecordDeploy ==
  /\ pc = "deployRan"
  /\ Persist(IF passed THEN "deploy-completed" ELSE "deploy-failed", 0)
  /\ pc' = IF passed THEN "verifyNext" ELSE "rollbackNext"
  /\ UNCHANGED <<runState, caller, passed, target, rollbacks, crashes>>

StartVerify ==
  /\ pc = "verifyNext"
  /\ Persist("verify-started", 0)
  /\ pc' = "verify"
  /\ UNCHANGED <<runState, caller, passed, target, rollbacks, crashes>>

\* Verification may find that what was deployed does not work.
RunVerify ==
  /\ pc = "verify"
  /\ passed' \in BOOLEAN
  /\ pc' = "verifyRan"
  /\ UNCHANGED <<runState, journal, caller, target, rollbacks, crashes>>

AfterVerify == IF passed THEN "deployed" ELSE "verify-failed"

\* Mutant: a failed verification is taken for the end of the transaction.
RecordVerifyMutant ==
  /\ pc = "verifyRan"
  /\ Persist(AfterVerify, 0)
  /\ pc' = "settled"
  /\ UNCHANGED <<runState, caller, passed, target, rollbacks, crashes>>

RecordVerify ==
  /\ pc = "verifyRan"
  /\ Persist(AfterVerify, 0)
  /\ pc' = IF AfterVerify \in Terminal THEN "settled" ELSE "rollbackNext"
  /\ UNCHANGED <<runState, caller, passed, target, rollbacks, crashes>>

\* Mutant: the attempt is counted only when the command has ended.
StartRollbackMutant ==
  /\ pc = "rollbackNext"
  /\ Persist("rollback-started", 0)
  /\ pc' = "rollback"
  /\ UNCHANGED <<runState, caller, passed, target, rollbacks, crashes>>

\* The one attempt is counted on disk before the command is spawned.
StartRollback ==
  /\ pc = "rollbackNext"
  /\ Persist("rollback-started", 1)
  /\ pc' = "rollback"
  /\ UNCHANGED <<runState, caller, passed, target, rollbacks, crashes>>

RunRollback ==
  /\ pc = "rollback"
  /\ passed' \in BOOLEAN
  /\ target' = IF passed' THEN "old" ELSE "partial"
  /\ rollbacks' = rollbacks + 1
  /\ pc' = "rollbackRan"
  /\ UNCHANGED <<runState, journal, caller, crashes>>

\* Mutant: the exit code of the rollback is not looked at.
RecordRollbackMutant ==
  /\ pc = "rollbackRan"
  /\ Persist("recovered", 1)
  /\ pc' = "settled"
  /\ UNCHANGED <<runState, caller, passed, target, rollbacks, crashes>>

RecordRollback ==
  /\ pc = "rollbackRan"
  /\ Persist(IF passed THEN "recovered" ELSE "rollback-failed", 1)
  /\ pc' = "settled"
  /\ UNCHANGED <<runState, caller, passed, target, rollbacks, crashes>>

\* Mutant: the run takes the result of the last command, not the journal's.
RecordResultMutant ==
  /\ pc = "settled"
  /\ runState' = IF caller = "resume" /\ passed THEN "deployed" ELSE runState
  /\ pc' = "none"
  /\ UNCHANGED <<journal, caller, passed, target, rollbacks, crashes>>

\* resume() copies the result into the run record; recoverDeployment only
\* returns it and leaves the run record alone.
RecordResult ==
  /\ pc = "settled"
  /\ runState' = IF caller = "resume" THEN journal.phase ELSE runState
  /\ pc' = "none"
  /\ UNCHANGED <<journal, caller, passed, target, rollbacks, crashes>>

\* runBoundedProcess rejects: nothing more is journalled, and resume() ends
\* the run with "unrecoverable-failure".
SpawnFails ==
  /\ SpawnMayFail
  /\ pc \in {"deploy", "verify", "rollback"}
  /\ pc' = "none"
  /\ runState' = IF caller = "resume" THEN "failed" ELSE runState
  /\ UNCHANGED <<journal, caller, passed, target, rollbacks, crashes>>

-----------------------------------------------------------------------------
\* Mutant: a rollback that was begun before the crash is begun again.
RecoverByRollbackMutant ==
  /\ RecoveryRuns /\ pc = "none"
  /\ journal.phase \in Phase \ Terminal
  /\ Persist("rollback-started", 1)
  /\ pc' = "rollback"
  /\ caller' = "recovery"
  /\ UNCHANGED <<runState, passed, target, rollbacks, crashes>>

\* recoverDeployment() on an unsettled journal whose rollback was not begun.
RecoverByRollback ==
  /\ RecoveryRuns /\ pc = "none"
  /\ journal.phase \in Phase \ (Terminal \cup {"rollback-started"})
  /\ journal.rollbackAttempts = 0
  /\ Persist("rollback-started", 1)
  /\ pc' = "rollback"
  /\ caller' = "recovery"
  /\ UNCHANGED <<runState, passed, target, rollbacks, crashes>>

\* The one attempt was begun before the crash: it is never repeated.
RecoverWithoutRollback ==
  /\ RecoveryRuns /\ pc = "none"
  /\ journal.phase \in Phase \ Terminal
  /\ journal.rollbackAttempts > 0 \/ journal.phase = "rollback-started"
  /\ Persist("rollback-failed", 1)
  /\ UNCHANGED <<runState, pc, caller, passed, target, rollbacks, crashes>>

\* The process dies; a command in flight may have done nothing, a part or
\* the whole of its work.
Crash ==
  /\ pc # "none" /\ crashes < MaxCrashes
  /\ crashes' = crashes + 1
  /\ pc' = "none"
  /\ target' \in IF pc \in {"deploy", "rollback"}
                 THEN {"old", "new", "partial"} ELSE {target}
  /\ rollbacks' \in IF pc = "rollback"
                    THEN {rollbacks, rollbacks + 1} ELSE {rollbacks}
  /\ UNCHANGED <<runState, journal, caller, passed>>

Step == \/ StartRefused \/ StartDeploy \/ RunDeploy \/ RecordDeploy
        \/ StartVerify \/ RunVerify \/ RecordVerify
        \/ StartRollback \/ RunRollback \/ RecordRollback
        \/ RecordResult

Recover == RecoverByRollback \/ RecoverWithoutRollback

Next == EnterDeploying \/ Step \/ SpawnFails \/ Recover \/ Crash

Spec == Init /\ [][Next]_vars

\* A ready run is resumed, and a live process executes its next statement.
\* Nobody is obliged to call recoverDeployment: no command of the CLI does.
FairSpec == Spec /\ WF_vars(EnterDeploying) /\ WF_vars(Step)

-----------------------------------------------------------------------------
(* Properties *)

\* The rollback command is spawned at most once in a transaction, whatever
\* crashes and recoveries happen around it (REQ-017: "rollback exactly once").
AtMostOneRollback == rollbacks <= 1

\* What the journal finally says is true of the environment: "deployed" names
\* a deployed and verified target that no rollback touched, "recovered" one
\* that the rollback put back, and no journal means nothing was started.
JournalTellsTheTarget ==
  /\ journal.phase = "deployed" => target = "new" /\ rollbacks = 0
  /\ journal.phase = "recovered" => target = "old" /\ rollbacks = 1
  /\ journal.phase = "none" => target = "old" /\ rollbacks = 0

\* A run never claims a result that the durable journal does not support.
RunTellsTheJournal ==
  runState \in Terminal => runState = journal.phase

\* A ready run that is resumed ends, with the result the journal has or, when
\* the deployment was refused or a command could not be spawned, as failed;
\* unless the process dies: then nothing takes the transaction up again.
Settles ==
  <>(\/ crashes > 0
     \/ runState = "failed"
     \/ runState \in Terminal /\ runState = journal.phase)

\* How the live process, the journal and the target go together at each
\* step; inductive, and strong enough for the safety properties above.
Inv ==
  /\ TypeOK
  /\ AtMostOneRollback /\ JournalTellsTheTarget /\ RunTellsTheJournal
  /\ journal.rollbackAttempts = 1 <=>
       journal.phase \in {"rollback-started", "recovered", "rollback-failed"}
  /\ journal.rollbackAttempts = 0 => rollbacks = 0
  /\ runState = "ready" => journal = NoJournal /\ pc = "none"
  /\ pc = "start" => journal = NoJournal
  /\ pc \in {"deploy", "deployRan", "verifyNext", "verify", "verifyRan",
             "rollbackNext"} =>
       journal.phase \notin Terminal \cup {"none"} /\ journal.rollbackAttempts = 0
  /\ pc = "deployRan" => (passed => target = "new")
  /\ pc \in {"verifyNext", "verify", "verifyRan"} => target = "new"
  /\ pc \in {"rollback", "rollbackRan"} => journal.phase = "rollback-started"
  /\ pc = "rollback" => rollbacks = 0
  /\ pc = "rollbackRan" => rollbacks = 1 /\ (passed => target = "old")
  /\ pc = "settled" => journal.phase \in Terminal
  /\ journal.phase = "none" => pc \in {"none", "start"}

\* REQ-011: a run interrupted after any persisted transition can be resumed,
\* so a deploying run reaches a terminal state.  resume() has no branch for it:
\* the code does not keep this; see the README, "Known divergences".
RunSettles == (runState = "deploying") ~> (runState \in Terminal \cup {"failed"})

\* The transaction, seen through its journal only, keeps the contract.
Contract == INSTANCE DeploymentContract WITH
  outcome  <- IF journal.phase \in Terminal THEN journal.phase ELSE "pending",
  rollback <- journal.rollbackAttempts > 0

\* The journalled transaction implements the contract: decided once, deployed
\* only without a rollback, rolled back once.
ImplementsContract == Contract!Spec
=============================================================================
