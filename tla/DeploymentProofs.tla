-------------------------- MODULE DeploymentProofs --------------------------
(***************************************************************************)
(* The journalled deployment keeps its promises for every number of        *)
(* crashes, with or without commands that cannot be spawned, and whether   *)
(* or not recoverDeployment is ever called.                                *)
(***************************************************************************)
EXTENDS Deployment, TLAPS

LEMMA InitEstablishesInv == Init => Inv
<1> SUFFICES ASSUME Init PROVE Inv
  OBVIOUS
<1> USE ConstantsAssumption DEF Init, NoJournal, Phase, Terminal
<1>1. TypeOK
  <2>1. journal \in [phase : Phase \cup {"none"}, rollbackAttempts : 0..1]
    OBVIOUS
  <2>2. crashes \in 0..MaxCrashes
    BY DEF ConstantsAssumption
  <2> QED
    BY <2>1, <2>2 DEF TypeOK
<1>2. AtMostOneRollback /\ JournalTellsTheTarget /\ RunTellsTheJournal
  BY DEF AtMostOneRollback, JournalTellsTheTarget, RunTellsTheJournal
<1> QED
  BY <1>1, <1>2 DEF Inv

LEMMA StepKeepsInv == Inv /\ [Next]_vars => Inv'
<1> SUFFICES ASSUME Inv, [Next]_vars PROVE Inv'
  OBVIOUS
<1> USE ConstantsAssumption
        DEF Inv, TypeOK, NoJournal, Phase, Terminal, AtMostOneRollback,
            JournalTellsTheTarget, RunTellsTheJournal, Persist
<1>1. CASE EnterDeploying
  BY <1>1 DEF EnterDeploying
<1>0. CASE StartRefused
  BY <1>0 DEF StartRefused
<1>2. CASE StartDeploy
  BY <1>2 DEF StartDeploy
<1>3. CASE RunDeploy
  BY <1>3 DEF RunDeploy
<1>4. CASE RecordDeploy
  BY <1>4 DEF RecordDeploy
<1>5. CASE StartVerify
  BY <1>5 DEF StartVerify
<1>6. CASE RunVerify
  BY <1>6 DEF RunVerify
<1>7. CASE RecordVerify
  BY <1>7 DEF RecordVerify, AfterVerify
<1>8. CASE StartRollback
  BY <1>8 DEF StartRollback
<1>9. CASE RunRollback
  BY <1>9 DEF RunRollback
<1>10. CASE RecordRollback
  BY <1>10 DEF RecordRollback
<1>11. CASE RecordResult
  BY <1>11 DEF RecordResult
<1>12. CASE SpawnFails
  BY <1>12 DEF SpawnFails
<1>13. CASE RecoverByRollback
  BY <1>13 DEF RecoverByRollback
<1>14. CASE RecoverWithoutRollback
  BY <1>14 DEF RecoverWithoutRollback
<1>15. CASE Crash
  BY <1>15 DEF Crash
<1>16. CASE UNCHANGED vars
  BY <1>16 DEF vars
<1> QED
  BY <1>1, <1>2, <1>3, <1>4, <1>5, <1>6, <1>7, <1>8, <1>9, <1>10, <1>11,
     <1>12, <1>13, <1>14, <1>15, <1>16, <1>0 DEF Next, Step, Recover

\* Inv holds in every reachable state of every instance.
THEOREM DeploymentInvariant == Spec => []Inv
  BY InitEstablishesInv, StepKeepsInv, PTL DEF Spec

\* The rollback command is spawned at most once per transaction (REQ-017),
\* for any number of crashes and calls of recoverDeployment.
THEOREM RollbackRunsAtMostOnce == Spec => []AtMostOneRollback
<1>1. Inv => AtMostOneRollback
  BY DEF Inv
<1> QED
  BY <1>1, DeploymentInvariant, PTL

\* A terminal journal is true of the deployed target.
THEOREM JournalIsTruthful == Spec => []JournalTellsTheTarget
<1>1. Inv => JournalTellsTheTarget
  BY DEF Inv
<1> QED
  BY <1>1, DeploymentInvariant, PTL

\* A terminal run state is the one the journal settled on.
THEOREM RunMatchesJournal == Spec => []RunTellsTheJournal
<1>1. Inv => RunTellsTheJournal
  BY DEF Inv
<1> QED
  BY <1>1, DeploymentInvariant, PTL

-----------------------------------------------------------------------------
(* The transaction implements DeploymentContract. *)

LEMMA InitRefines == Init => Contract!Init
  BY DEF Init, Contract!Init, NoJournal, Terminal

LEMMA StepRefines == Inv /\ [Next]_vars => [Contract!Next]_Contract!vars
<1> SUFFICES ASSUME Inv, [Next]_vars PROVE [Contract!Next]_Contract!vars
  OBVIOUS
<1> USE DEF Contract!Next, Contract!vars, Inv, TypeOK, NoJournal, Phase,
            Terminal, Persist
\* The journal says nothing new until a decision is journalled.
<1>1. CASE UNCHANGED journal
  BY <1>1
<1>2. CASE StartDeploy
  BY <1>2 DEF StartDeploy
<1>3. CASE RecordDeploy
  BY <1>3 DEF RecordDeploy
<1>4. CASE StartVerify
  BY <1>4 DEF StartVerify
<1>5. CASE RecordVerify
  BY <1>5 DEF RecordVerify, AfterVerify, Contract!Commit
<1>6. CASE StartRollback
  BY <1>6 DEF StartRollback, Contract!BeginRollback
<1>7. CASE RecordRollback
  BY <1>7 DEF RecordRollback, Contract!EndRollback
<1>8. CASE RecoverByRollback
  BY <1>8 DEF RecoverByRollback, Contract!BeginRollback
<1>9. CASE RecoverWithoutRollback
  BY <1>9 DEF RecoverWithoutRollback, Contract!EndRollback
<1> QED
  BY <1>1, <1>2, <1>3, <1>4, <1>5, <1>6, <1>7, <1>8, <1>9
     DEF Next, Step, Recover, vars, EnterDeploying, RunDeploy, RunVerify,
         RunRollback, RecordResult, SpawnFails, StartRefused, Crash

\* Whatever crashes, the journal decides once, "deployed" only if no rollback
\* was begun, and otherwise only after the one rollback it may begin.
THEOREM DeploymentImplementsContract == Spec => ImplementsContract
  BY InitRefines, StepRefines, DeploymentInvariant, PTL
     DEF Spec, ImplementsContract, Contract!Spec
=============================================================================
