---------------------------- MODULE HohRunProofs -----------------------------
(***************************************************************************)
(* What holds of a run for any limits, roles, conflicts and any number of  *)
(* crashes: rejected refs are immutable, every counted rejection has its   *)
(* candidate retained, a failure is counted once, a run that has ended     *)
(* does not change again, accepted claims are not given up and what is     *)
(* released was reviewed (IInv, ReleaseInv).  What holds of a run that was *)
(* not interrupted: the preserved candidate is intact, the Developer       *)
(* starts from it, and what is deployed is what was approved (CalmInv).    *)
(***************************************************************************)
EXTENDS HohRun, TLAPS

-----------------------------------------------------------------------------
\* What each operation of FileRunStore returns and what it leaves alone, for
\* every record.  The proofs below cite these lemmas instead of the operations'
\* definitions.

\* The record is of its type and no attempt or failure was added to it.
KeepsJournal(q, r) ==
  q \in RunRecord /\ q.opened = r.opened /\ q.failures = r.failures

LEMMA FieldTypes ==
  ASSUME NEW r \in RunRecord
  PROVE  /\ r.state \in RunState /\ r.iteration \in 0..MaxIterations
         /\ {r.candidate, r.preservation, r.restoreTarget} \subseteq CandidateSnapshot
         /\ r.claims \in SUBSET Claims
         /\ r.stagnant \in Nat /\ r.reviews \in Nat /\ r.charged \in Nat
         /\ r.opened \in Seq(SnapshotAttempt) /\ r.completed \in SUBSET Ordinal
         /\ r.failures \in SUBSET Failure /\ r.repairs \in Nat
  BY DEF RunRecord

LEMMA CreatedType ==
  Created \in RunRecord /\ Created.state \notin Terminal /\ Created.opened = <<>>
    /\ Created.failures = {}
<1>1. NoCandidate \in CandidateSnapshot /\ Absent \in Content \cup {Absent}
  BY DEF CandidateSnapshot
<1>2. <<>> \in Seq(SnapshotAttempt) /\ "created" \in RunState /\ "created" \notin Terminal
  BY DEF RunState, Terminal
<1>3. 0 \in 0..MaxIterations
  BY StoreAssumption DEF StoreAssumption
<1> QED
  BY <1>1, <1>2, <1>3 DEF Created, RunRecord

LEMMA CandidateTypes ==
  /\ NoCandidate \in CandidateSnapshot /\ BaseCandidate \in CandidateSnapshot
  /\ \A i \in 0..MaxIterations, c \in Content : [ref |-> i, tree |-> c] \in CandidateSnapshot
  /\ \A c \in CandidateSnapshot : c.tree \in Content
  BY DEF CandidateSnapshot, NoCandidate, BaseCandidate, Content

LEMMA TransitionType ==
  ASSUME NEW r \in RunRecord, NEW s \in RunState
  PROVE  /\ KeepsJournal(Transition(r, s), r) /\ Transition(r, s).state = s
         /\ Transition(r, s).restoreTarget = r.restoreTarget
  BY DEF RunRecord, Transition, KeepsJournal

LEMMA EndType ==
  ASSUME NEW r \in RunRecord, NEW s \in RunState,
         NEW reason \in {"none", "iteration-limit", "stagnation-limit",
                         "budget-exhausted", "release-rejected", "approval-blocked",
                         "deployment-configuration-invalid", "unrecoverable-failure"}
  PROVE  KeepsJournal(End(r, s, reason), r) /\ End(r, s, reason).state = s
  BY ZenonT(40) DEF RunRecord, End, KeepsJournal

LEMMA ChargeType ==
  ASSUME NEW r \in RunRecord
  PROVE  /\ KeepsJournal(Charge(r), r) /\ Charge(r).state = r.state
         /\ Charge(r).iteration = r.iteration
  BY DEF RunRecord, Charge, KeepsJournal

LEMMA CompleteType ==
  ASSUME NEW r \in RunRecord, NEW o \in Ordinal
  PROVE  KeepsJournal(CompleteAttempt(r, o), r) /\ CompleteAttempt(r, o).state = r.state
  BY DEF RunRecord, CompleteAttempt, KeepsJournal

LEMMA CloseType ==
  ASSUME NEW r \in RunRecord
  PROVE  KeepsJournal(CloseRepairEpisode(r), r) /\ CloseRepairEpisode(r).state = r.state
  BY DEF RunRecord, CloseRepairEpisode, KeepsJournal

\* The last ordinal is bound to the commit, earlier ones stay as they are.
LEMMA OpenType ==
  ASSUME NEW r \in RunRecord, NEW i \in 0..MaxIterations, NEW c \in Content
  PROVE  LET q == OpenAttempt(r, i, c)
         IN  /\ q \in RunRecord /\ q.state = r.state /\ q.failures = r.failures
             /\ Len(q.opened) \in Ordinal
             /\ q.opened[Len(q.opened)] = [iteration |-> i, commit |-> c]
             /\ Len(r.opened) <= Len(q.opened)
             /\ \A o \in 1..Len(r.opened) : q.opened[o] = r.opened[o]
<1>1. r.opened \in Seq(SnapshotAttempt)
  BY FieldTypes
<1>2. CASE ResumesAttempt(r, i, c)
  BY <1>1, <1>2 DEF OpenAttempt, ResumesAttempt, Ordinal
<1>3. CASE ~ResumesAttempt(r, i, c)
  <2> DEFINE e == [iteration |-> i, commit |-> c]
             s == Append(r.opened, e)
  <2>1. e \in SnapshotAttempt
    BY DEF SnapshotAttempt
  <2>2. /\ s \in Seq(SnapshotAttempt) /\ Len(s) \in Ordinal /\ s[Len(s)] = e
        /\ Len(r.opened) <= Len(s) /\ \A o \in 1..Len(r.opened) : s[o] = r.opened[o]
    <3> HIDE DEF e
    <3> QED
      BY <1>1, <2>1 DEF Ordinal
  <2>3. OpenAttempt(r, i, c) = [r EXCEPT !.opened = s]
    BY <1>3 DEF OpenAttempt
  <2> HIDE DEF s
  <2>4. /\ OpenAttempt(r, i, c) \in RunRecord
        /\ OpenAttempt(r, i, c).state = r.state
        /\ OpenAttempt(r, i, c).failures = r.failures
        /\ OpenAttempt(r, i, c).opened = s
    BY <2>2, <2>3, ZenonT(40) DEF RunRecord
  <2> QED
    BY <2>2, <2>4
<1> QED
  BY <1>2, <1>3

LEMMA FailureType ==
  ASSUME NEW r \in RunRecord, NEW f \in Failure
  PROVE  LET q == RecordFailure(r, f)
         IN  /\ q \in RunRecord /\ q.state = r.state /\ q.opened = r.opened
             /\ q.failures = r.failures \cup {f}
<1>1. r.repairs + 1 \in Nat /\ r.failures \cup {f} \in SUBSET Failure
  BY DEF RunRecord
<1> QED
  BY <1>1, ZenonT(40) DEF RunRecord, RecordFailure, RecordsTwice

LEMMA AssessType ==
  ASSUME NEW r \in RunRecord, NEW c \in CandidateSnapshot, NEW v \in SUBSET Claims
  PROVE  KeepsJournal(Assess(r, c, v), r) /\ Assess(r, c, v).state = r.state
<1> DEFINE n == IF Improves(r, v) THEN 0 ELSE r.stagnant + 1
           p == IF Regresses(r, v) THEN r.preservation ELSE c
           r1 == [r EXCEPT !.assessed = TRUE, !.claims = v]
           r2 == [r1 EXCEPT !.stagnant = n]
           r3 == [r2 EXCEPT !.preservation = p]
<1>1. n \in Nat /\ p \in CandidateSnapshot
  BY DEF RunRecord
<1>2. Assess(r, c, v) = r3
  BY DEF Assess
<1> HIDE DEF n, p
<1>3. KeepsJournal(r1, r) /\ r1.state = r.state
  BY DEF RunRecord, KeepsJournal
<1> HIDE DEF r1
<1>4. KeepsJournal(r2, r1) /\ r2.state = r1.state
  BY <1>1, <1>3 DEF RunRecord, KeepsJournal
<1> HIDE DEF r2
<1>5. KeepsJournal(r3, r2) /\ r3.state = r2.state
  BY <1>1, <1>4 DEF RunRecord, KeepsJournal
<1> QED
  BY <1>2, <1>3, <1>4, <1>5 DEF KeepsJournal

-----------------------------------------------------------------------------
(* Which fields an operation may change *)

Field == {"state", "reason", "iteration", "candidate", "preservation",
          "restoreTarget", "assessed", "claims", "stagnant", "opened",
          "completed", "failures", "repairs", "decision", "manifest",
          "reviewed", "reviews", "charged"}

Keeps(q, r, changed) == \A f \in Field \ changed : q[f] = r[f]

LEMMA FieldsOfRecord == ASSUME NEW r \in RunRecord PROVE DOMAIN r = Field
  BY DEF RunRecord, Field

LEMMA TransitionKeeps ==
  ASSUME NEW r \in RunRecord, NEW s
  PROVE  Keeps(Transition(r, s), r, {"state"}) /\ Transition(r, s).state = s
  BY FieldsOfRecord DEF Transition, Keeps, Field

LEMMA EndKeeps ==
  ASSUME NEW r \in RunRecord, NEW s, NEW reason
  PROVE  Keeps(End(r, s, reason), r, {"state", "reason"}) /\ End(r, s, reason).state = s
  BY FieldsOfRecord DEF End, Keeps, Field

LEMMA ChargeKeeps ==
  ASSUME NEW r \in RunRecord
  PROVE  Keeps(Charge(r), r, {"charged"})
  BY FieldsOfRecord DEF Charge, Keeps

LEMMA OpenKeeps ==
  ASSUME NEW r \in RunRecord, NEW i, NEW c
  PROVE  Keeps(OpenAttempt(r, i, c), r, {"opened"})
  BY FieldsOfRecord DEF OpenAttempt, Keeps

LEMMA CompleteKeeps ==
  ASSUME NEW r \in RunRecord, NEW o
  PROVE  /\ Keeps(CompleteAttempt(r, o), r, {"completed"})
         /\ CompleteAttempt(r, o).completed = r.completed \cup {o}
  BY FieldsOfRecord DEF CompleteAttempt, Keeps, Field

LEMMA CloseKeeps ==
  ASSUME NEW r \in RunRecord
  PROVE  Keeps(CloseRepairEpisode(r), r, {"repairs"}) /\ CloseRepairEpisode(r).repairs = 0
  BY FieldsOfRecord DEF CloseRepairEpisode, Keeps, Field

LEMMA FailureKeeps ==
  ASSUME NEW r \in RunRecord, NEW f
  PROVE  /\ Keeps(RecordFailure(r, f), r, {"failures", "repairs"})
         /\ RecordFailure(r, f).failures = r.failures \cup {f}
         /\ RecordFailure(r, f).repairs =
              IF RecordsTwice(r, f) THEN r.repairs ELSE r.repairs + 1
  BY FieldsOfRecord DEF RecordFailure, RecordsTwice, Keeps, Field

LEMMA AssessKeeps ==
  ASSUME NEW r \in RunRecord, NEW c, NEW v
  PROVE  /\ Keeps(Assess(r, c, v), r, {"assessed", "claims", "stagnant", "preservation"})
         /\ Assess(r, c, v).assessed /\ Assess(r, c, v).claims = v
         /\ ~Regresses(r, v) => Assess(r, c, v).preservation = c
  BY FieldsOfRecord DEF Assess, Keeps, Field

-----------------------------------------------------------------------------
\* Only retainRejectedCandidate() writes a rejected ref, and never another
\* commit than the one it holds.
LEMMA OnlyRetainRejects ==
  ASSUME [Next]_vars, ~Retain PROVE rejected' = rejected
<1> USE DEF Write, WriteTransition, Fail, Throws, Reject, disk
<1>2. CASE Planning
  BY <1>2 DEF Planning, CallPlanner, CallRole, Plan, RoleFails, Stop, SaveNext
<1>3. CASE Developing
  BY <1>3 DEF Developing, CallDeveloper, CallRole, RoleFails, Snapshot, SnapshotConflicts,
              Open, OpenFails, ChecksFail, SurfaceDiverges, ChecksPass,
              AcceptDeveloped, CloseEpisode
<1>4. CASE Assuring
  BY <1>4 DEF Assuring, ReopenCandidate, CallQa, RoleFails, TreeModified, QaReports,
              SaveGate, ReviewIsKnown, ConsumeAttempt, ReviewerApproves,
              ReviewerObjects, ReviewIsBlocked, RepairRelease, Decide,
              DecideRegression, CompleteQa, SaveQa
<1>5. CASE Recovering
  BY <1>5 DEF Recovering, Unstage, RecordBlockerFailure, RecoveryThrows,
              Rollback, RollbackFails, CompleteIsolated, CompleteRejected, Exhaust, Replan
<1>6. CASE Ending
  BY <1>6 DEF Ending, ResolveIsolation, Deploy, DeployRefused
<1>7. CASE OperatorRestores \/ RecordApproval \/ Crash
  BY <1>7 DEF OperatorRestores, RecordApproval, Crash
<1>8. CASE UNCHANGED vars
  BY <1>8 DEF vars
<1> QED
  BY <1>2, <1>3, <1>4, <1>5, <1>6, <1>7, <1>8 DEF Next, Step

LEMMA StepKeepsRejectedRefs ==
  [Next]_vars => \A o \in DOMAIN rejected :
                   o \in DOMAIN rejected' /\ rejected'[o] = rejected[o]
  BY OnlyRetainRejects DEF Retain, CanRetain, Retained

\* No crash, retry or rejection ever moves or removes a rejected ref.
THEOREM RejectedRefsStay == Spec => RejectedRefsAreImmutable
<1>1. [Next]_vars =>
        [\A o \in DOMAIN rejected :
           o \in DOMAIN rejected' /\ rejected'[o] = rejected[o]]_vars
  BY StepKeepsRejectedRefs
<1> QED
  BY <1>1, PTL DEF Spec, RejectedRefsAreImmutable

-----------------------------------------------------------------------------
IInv == WorkInv /\ RejectionInv

LEMMA InitEstablishesIInv == Init => IInv
<1> SUFFICES ASSUME Init PROVE IInv
  OBVIOUS
<1> USE DEF Init
<1>1. TypeOK
  <2>1. /\ rec \in RunRecord /\ run \in RunRecord /\ next \in RunRecord
        /\ cand \in CandidateSnapshot
    BY CreatedType, CandidateTypes
  <2>2. refs \in [-1..MaxIterations -> Content \cup {Absent}]
    BY DEF Content
  <2>3. crashes \in 0..MaxCrashes /\ attempt \in [ordinal : Nat, commit : Content]
    BY RunAssumption DEF RunAssumption, Content
  <2> QED
    BY <2>1, <2>2, <2>3 DEF TypeOK, NoVerdict, Content
<1>2. WorkInv
  BY <1>1, CreatedType DEF WorkInv, Live, AttemptAtHand, BeingRejected, Continuation
<1>3. RejectionInv
  BY CreatedType DEF RejectionInv, RejectionsAreRetained, Continuation
<1> QED
  BY <1>2, <1>3 DEF IInv

\* Writing a record ends the call, and is safe whatever becomes of the state.
LEMMA WriteAndReturn ==
  ASSUME IInv, NEW from, NEW record, Write(from, record, "idle"),
         KeepsJournal(record, rec)
  PROVE  IInv'
<1> USE DEF IInv, Write, KeepsJournal, memory
<1>1. TypeOK'
  BY DEF WorkInv, TypeOK
<1>2. WorkInv'
  BY <1>1 DEF WorkInv, Goto, Live, AttemptAtHand, BeingRejected, Continuation
<1>3. RejectionInv'
  BY DEF RejectionInv, RejectionsAreRetained, Retained, Goto, Continuation
<1> QED
  BY <1>2, <1>3

\* Writing a record and going on to the next step of the same branch.
Flow == {<<"assure", "qa">>, <<"check", "accept">>, <<"review", "decide">>,
         <<"review", "answer">>, <<"answer", "decide">>, <<"answer", "repair">>,
         <<"completeQa", "saveQa">>, <<"completeRejected", "exhaust">>,
         <<"completeRejected", "replan">>}

LEMMA WriteAndGoOn ==
  ASSUME IInv, NEW from, NEW to, NEW record, Write(from, record, to),
         <<from, to>> \in Flow,
         KeepsJournal(record, rec), record.state \notin Terminal
  PROVE  IInv'
<1> USE DEF IInv, Write, KeepsJournal, memory
<1>1. TypeOK'
  BY DEF WorkInv, TypeOK
<1>2. WorkInv'
  BY <1>1 DEF WorkInv, Goto, Live, AttemptAtHand, BeingRejected, Continuation, Flow
<1>3. RejectionInv'
  BY DEF RejectionInv, RejectionsAreRetained, Retained, Bound, RunIsPrefix, Goto,
         Continuation, Flow
<1> QED
  BY <1>2, <1>3

\* A transition whose record is still to be completed by save(next).
LEMMA TransitionAndSave ==
  ASSUME IInv, NEW from, NEW state \in RunState \ Terminal, NEW changed,
         NEW to \in DOMAIN Continuation, WriteTransition(from, state, changed, to),
         KeepsJournal(changed, rec),
         to = "saveIsolation" /\ changed.restoreTarget # NoCandidate =>
           attempt.ordinal \in Ordinal
  PROVE  IInv'
<1> USE DEF IInv, WriteTransition
<1>1. /\ KeepsJournal(rec', rec) /\ rec'.state = state
      /\ KeepsJournal(next', rec) /\ next'.state = state
      /\ next'.restoreTarget = changed.restoreTarget
  BY TransitionType DEF KeepsJournal, WorkInv, TypeOK
<1>2. TypeOK'
  BY <1>1 DEF WorkInv, TypeOK, KeepsJournal
<1>3. WorkInv'
  BY <1>1, <1>2 DEF WorkInv, Goto, Live, AttemptAtHand, BeingRejected, Continuation
<1>4. RejectionInv'
  BY <1>1 DEF RejectionInv, RejectionsAreRetained, Retained, KeepsJournal, Goto,
              Continuation
<1> QED
  BY <1>3, <1>4

LEMMA FailKeepsIInv ==
  ASSUME IInv, NEW from,
         NEW reason \in {"unrecoverable-failure", "approval-blocked",
                         "deployment-configuration-invalid"},
         Fail(from, reason)
  PROVE  IInv'
<1>1. rec \in RunRecord /\ "failed" \in RunState
  BY DEF IInv, WorkInv, TypeOK, RunState, Terminal
<1> QED
  BY <1>1, EndType, WriteAndReturn DEF Fail

\* save(next) writes a record of the same journal.
LEMMA SaveNextKeepsIInv == IInv /\ SaveNext => IInv'
<1> SUFFICES ASSUME IInv, SaveNext PROVE IInv'
  OBVIOUS
<1> USE DEF IInv, SaveNext, Write, memory
<1>1. next \in RunRecord /\ next.opened = rec.opened /\ next.failures = rec.failures
      /\ next.state \notin Terminal
  BY DEF WorkInv, TypeOK, RejectionInv
<1>2. pc' \in {"closeEpisode", "idle", "completeIsolated"}
      /\ (pc' = "completeIsolated" => pc = "saveIsolation")
  BY DEF Goto, Continuation
<1>3. WorkInv'
  <2>1. TypeOK'
    BY <1>1 DEF WorkInv, TypeOK
  <2> QED
    BY <1>1, <1>2, <2>1 DEF WorkInv, Live, AttemptAtHand, BeingRejected, Continuation
<1>4. RejectionInv'
  BY <1>1, <1>2 DEF RejectionInv, RejectionsAreRetained, Retained, Continuation
<1> QED
  BY <1>3, <1>4

\* A role is called with the record that was just read.
LEMMA CallRoleKeepsIInv ==
  ASSUME IInv, NEW state \in RunState \ Terminal, NEW to \in {"plan", "snapshot"},
         CallRole(state, to),
         worktree' \in Content, edits' \in Nat, cand' = cand
  PROVE  IInv'
<1> USE DEF IInv, CallRole, Begins
<1>1. /\ rec \in RunRecord /\ KeepsJournal(rec', rec) /\ rec'.state = state
      /\ rec'.iteration = rec.iteration /\ run' = rec /\ rec.state = state
  BY ChargeType DEF WorkInv, TypeOK
<1>2. rec.iteration < MaxIterations
  BY <1>1, FieldTypes, StoreAssumption DEF StopReason, StoreAssumption
<1>3. TypeOK'
  BY <1>1 DEF WorkInv, TypeOK, KeepsJournal
<1>4. WorkInv'
  BY <1>1, <1>2, <1>3 DEF WorkInv, Live, AttemptAtHand, BeingRejected, Continuation
<1>5. RejectionInv'
  <2>1. pc' \in {"plan", "snapshot"} /\ rejected' = rejected
        /\ rec'.opened = rec.opened /\ rec'.failures = rec.failures /\ run' = rec
    BY <1>1 DEF KeepsJournal
  <2>2. RejectionsAreRetained'
    BY <2>1 DEF RejectionInv, RejectionsAreRetained, Retained
  <2>3. \A f \in run'.failures : f.ordinal <= Len(run'.opened)
    BY <2>1 DEF RejectionInv, RejectionsAreRetained
  <2>4. RunIsPrefix'
    BY <2>1 DEF RunIsPrefix
  <2> QED
    BY <2>1, <2>2, <2>3, <2>4 DEF RejectionInv, Continuation
<1> QED
  BY <1>4, <1>5

-----------------------------------------------------------------------------
LEMMA PlanningKeepsIInv == IInv /\ Planning => IInv'
<1> SUFFICES ASSUME IInv, Planning PROVE IInv'
  OBVIOUS
<1>a. TypeOK /\ rec \in RunRecord
  BY DEF IInv, WorkInv, TypeOK
<1>1. CASE CallPlanner
  <2>1. PICK state \in {"created", "qa"} : CallRole(state, "plan")
    BY <1>1 DEF CallPlanner
  <2>2. state \in RunState \ Terminal
    BY <2>1 DEF RunState, Terminal
  <2>3. worktree' \in Content /\ edits' \in Nat /\ cand' = cand
    BY <1>1, <1>a DEF CallPlanner, TypeOK
  <2> QED
    BY <2>1, <2>2, <2>3, CallRoleKeepsIInv
<1>2. CASE Plan
  <2>1. rec.iteration + 1 \in 0..MaxIterations
    BY <1>2, <1>a, FieldTypes, StoreAssumption
       DEF Plan, WriteTransition, Goto, IInv, WorkInv, StoreAssumption
  <2>2. KeepsJournal([rec EXCEPT !.iteration = @ + 1], rec)
    BY <1>a, <2>1 DEF KeepsJournal, RunRecord
  <2>3. "planned" \in RunState \ Terminal /\ "savePlan" \in DOMAIN Continuation
    BY DEF RunState, Terminal, Continuation
  <2> QED
    BY <1>2, <2>2, <2>3, TransitionAndSave DEF Plan
<1>3. CASE RoleFails("plan")
  BY <1>3, FailKeepsIInv DEF RoleFails
<1>4. CASE Stop
  BY <1>4, <1>a, EndType, WriteAndReturn DEF Stop, StopReason, RunState, Terminal
<1>5. CASE SaveNext
  BY <1>5, SaveNextKeepsIInv
<1> QED
  BY <1>1, <1>2, <1>3, <1>4, <1>5 DEF Planning

-----------------------------------------------------------------------------
LEMMA RejectKeepsIInv ==
  ASSUME IInv, NEW from \in {"check", "assure", "qa"}, NEW kind \in Kind,
         Reject(from, kind)
  PROVE  IInv'
<1> USE DEF IInv, Reject, Goto, disk
<1>1. TypeOK'
  BY DEF WorkInv, TypeOK
<1>2. WorkInv'
  BY <1>1 DEF WorkInv, Live, AttemptAtHand, BeingRejected, Continuation
<1>3. RejectionInv'
  BY DEF RejectionInv, RejectionsAreRetained, Retained, Bound, Continuation
<1> QED
  BY <1>2, <1>3

\* A ref that resolves holds a commit.
LEMMA ResolvedCommit ==
  ASSUME TypeOK, NEW c \in CandidateSnapshot, Resolves(c)
  PROVE  refs[c.ref] \in Content /\ c.ref \in -1..MaxIterations
  BY DEF TypeOK, Resolves

LEMMA SnapshotKeepsIInv == IInv /\ Snapshot => IInv'
<1> SUFFICES ASSUME IInv, Snapshot PROVE IInv'
  OBVIOUS
<1> USE DEF IInv, Snapshot, Goto
<1>1. TypeOK'
  <2>1. run.iteration \in 0..MaxIterations /\ worktree \in Content
    BY FieldTypes DEF WorkInv, TypeOK
  <2>2. cand' \in CandidateSnapshot
    BY <2>1, CandidateTypes
  <2>3. refs' \in [-1..MaxIterations -> Content \cup {Absent}]
    BY <2>1 DEF WorkInv, TypeOK
  <2> QED
    BY <2>2, <2>3 DEF WorkInv, TypeOK
<1>2. WorkInv'
  BY <1>1 DEF WorkInv, Live, AttemptAtHand, BeingRejected, Continuation
<1>3. RejectionInv'
  BY DEF RejectionInv, RejectionsAreRetained, Retained, RunIsPrefix, Continuation
<1> QED
  BY <1>2, <1>3

\* An ordinal is bound to the commit, and no earlier one is bound anew.
LEMMA OpenKeepsIInv == IInv /\ Open => IInv'
<1> SUFFICES ASSUME IInv, Open PROVE IInv'
  OBVIOUS
<1> USE DEF IInv, Open, Goto
<1>a. TypeOK /\ rec \in RunRecord /\ run \in RunRecord /\ cand \in CandidateSnapshot
  BY DEF WorkInv, TypeOK
<1>1. run.iteration \in 0..MaxIterations /\ refs[cand.ref] \in Content
  BY <1>a, FieldTypes, ResolvedCommit
<1>2. /\ rec' \in RunRecord /\ rec'.state = rec.state /\ rec'.failures = rec.failures
      /\ Len(rec'.opened) \in Ordinal
      /\ rec'.opened[Len(rec'.opened)] =
           [iteration |-> run.iteration, commit |-> refs[cand.ref]]
      /\ Len(rec.opened) <= Len(rec'.opened)
      /\ \A o \in 1..Len(rec.opened) : rec'.opened[o] = rec.opened[o]
  BY <1>a, <1>1, OpenType
<1>3. attempt' = [ordinal |-> Len(rec'.opened), commit |-> refs[cand.ref]]
      /\ pc = "open" /\ pc' \in {"check", "assure"} /\ rejected' = rejected
      /\ run' = run
  OBVIOUS
<1>4. TypeOK'
  BY <1>1, <1>2, <1>3 DEF WorkInv, TypeOK, Ordinal
<1>5. WorkInv'
  BY <1>2, <1>3, <1>4 DEF WorkInv, Live, AttemptAtHand, BeingRejected, Continuation
<1>6. RejectionInv'
  <2>1. Bound'
    BY <1>2, <1>3 DEF Bound, Ordinal
  <2>a. /\ Len(rec.opened) \in Nat /\ Len(rec'.opened) \in Nat /\ Len(run.opened) \in Nat
        /\ \A f \in rec.failures : f.ordinal \in Nat \ {0}
    <3>1. rec.opened \in Seq(SnapshotAttempt) /\ run.opened \in Seq(SnapshotAttempt)
      BY <1>a, FieldTypes
    <3>2. rec.failures \in SUBSET Failure
      BY <1>a, FieldTypes
    <3>3. \A f \in Failure : f.ordinal \in Nat \ {0}
      BY DEF Failure, Ordinal
    <3> QED
      BY <1>2, <3>1, <3>2, <3>3 DEF Ordinal
  <2>2. \A f \in rec.failures :
          f.ordinal \in 1..Len(rec.opened) /\ f.ordinal <= Len(rec'.opened)
    <3>1. \A f \in rec.failures : f.ordinal <= Len(rec.opened)
      BY DEF RejectionInv, RejectionsAreRetained
    <3>2. Len(rec.opened) <= Len(rec'.opened)
      BY <1>2
    <3> HIDE DEF IInv, Open
    <3> QED
      BY <2>a, <3>1, <3>2
  <2>3. RejectionsAreRetained'
    <3>1. RejectionsAreRetained
      BY DEF RejectionInv
    <3>2. rec'.failures = rec.failures /\ rejected' = rejected
      BY <1>2, <1>3
    <3>3. \A f \in rec.failures : rec'.opened[f.ordinal] = rec.opened[f.ordinal]
      BY <1>2, <2>2
    <3> HIDE DEF IInv, Open
    <3> QED
      BY <2>2, <3>1, <3>2, <3>3 DEF RejectionsAreRetained, Retained
  <2>4. RunIsPrefix'
    <3>1. RunIsPrefix
      BY DEF RejectionInv
    <3>2. \A o \in 1..Len(run.opened) : o \in 1..Len(rec.opened)
      BY <2>a, <3>1 DEF RunIsPrefix
    <3> QED
      BY <1>2, <1>3, <2>a, <3>1, <3>2 DEF RunIsPrefix
  <2> QED
    BY <1>3, <2>1, <2>3, <2>4 DEF RejectionInv, Continuation
<1> QED
  BY <1>5, <1>6

LEMMA DevelopingKeepsIInv == IInv /\ Developing => IInv'
<1> SUFFICES ASSUME IInv, Developing PROVE IInv'
  OBVIOUS
<1>a. TypeOK /\ rec \in RunRecord /\ cand \in CandidateSnapshot
  BY DEF IInv, WorkInv, TypeOK
<1>b. "planned" \in RunState \ Terminal /\ "candidate" \in RunState \ Terminal
      /\ "candidate-isolation-required" \in RunState \ Terminal
      /\ DOMAIN Continuation = {"saveAccepted", "savePlan", "saveReplan", "saveRepair",
                                "saveResolved", "saveIsolation"}
  BY DEF RunState, Terminal, Continuation
<1>1. CASE CallDeveloper
  <2>1. worktree' \in Content /\ edits' \in Nat /\ cand' = cand
    BY <1>1, <1>a DEF CallDeveloper, TypeOK, Content
  <2> QED
    BY <1>1, <1>b, <2>1, CallRoleKeepsIInv DEF CallDeveloper
<1>2. CASE RoleFails("snapshot")
  BY <1>2, FailKeepsIInv DEF RoleFails
<1>3. CASE Snapshot
  BY <1>3, SnapshotKeepsIInv
<1>4. CASE SnapshotConflicts
  <2> DEFINE changed == [rec EXCEPT !.restoreTarget = NoCandidate]
  <2>1. KeepsJournal(changed, rec) /\ changed.restoreTarget = NoCandidate
    BY <1>a, CandidateTypes DEF KeepsJournal, RunRecord
  <2> QED
    BY <1>4, <1>b, <2>1, TransitionAndSave DEF SnapshotConflicts
<1>5. CASE Open
  BY <1>5, OpenKeepsIInv
<1>6. CASE OpenFails
  BY <1>6, FailKeepsIInv DEF OpenFails
<1>7. CASE ChecksFail \/ SurfaceDiverges
  BY <1>7, RejectKeepsIInv DEF ChecksFail, SurfaceDiverges, Kind
<1>8. CASE ChecksPass
  <2>1. attempt.ordinal \in Ordinal /\ rec.state \notin Terminal
    BY <1>8 DEF ChecksPass, Write, Goto, IInv, WorkInv, AttemptAtHand, Live
  <2> QED
    BY <1>8, <1>a, <2>1, CompleteType, WriteAndGoOn DEF ChecksPass, Flow
<1>9. CASE AcceptDeveloped
  <2>1. KeepsJournal([rec EXCEPT !.candidate = cand], rec)
    BY <1>a DEF KeepsJournal, RunRecord
  <2> QED
    BY <1>9, <1>b, <2>1, TransitionAndSave DEF AcceptDeveloped
<1>10. CASE CloseEpisode
  BY <1>10, <1>a, CloseType, WriteAndReturn DEF CloseEpisode
<1> QED
  BY <1>1, <1>2, <1>3, <1>4, <1>5, <1>6, <1>7, <1>8, <1>9, <1>10 DEF Developing

-----------------------------------------------------------------------------
LEMMA ReopenKeepsIInv == IInv /\ ReopenCandidate => IInv'
<1> SUFFICES ASSUME IInv, ReopenCandidate PROVE IInv'
  OBVIOUS
<1> USE DEF IInv, ReopenCandidate, Begins, disk
<1>a. rec \in RunRecord /\ rec.candidate \in CandidateSnapshot
      /\ Len(rec.opened) \in Nat
  BY FieldTypes DEF WorkInv, TypeOK
<1>1. TypeOK'
  BY <1>a DEF WorkInv, TypeOK
<1>2. WorkInv'
  BY <1>1 DEF WorkInv, Live, AttemptAtHand, BeingRejected, Continuation, Terminal
<1>3. RejectionInv'
  <2>1. RejectionsAreRetained'
    BY DEF RejectionInv, RejectionsAreRetained, Retained
  <2>2. \A f \in run'.failures : f.ordinal <= Len(run'.opened)
    BY DEF RejectionInv, RejectionsAreRetained
  <2>3. RunIsPrefix'
    BY <1>a DEF RunIsPrefix
  <2> QED
    BY <2>1, <2>2, <2>3 DEF RejectionInv, Continuation
<1> QED
  BY <1>2, <1>3

LEMMA QaReportsKeepsIInv == IInv /\ QaReports => IInv'
<1> SUFFICES ASSUME IInv, QaReports PROVE IInv'
  OBVIOUS
<1> USE DEF IInv, QaReports, Goto, disk
<1>1. TypeOK'
  BY DEF WorkInv, TypeOK
<1>2. WorkInv'
  BY <1>1 DEF WorkInv, Live, AttemptAtHand, BeingRejected, Continuation
<1>3. RejectionInv'
  BY DEF RejectionInv, RejectionsAreRetained, Retained, Bound, RunIsPrefix, Continuation
<1> QED
  BY <1>2, <1>3

\* The record read before QA lacks no failure, and every attempt that failed.
LEMMA SaveGateKeepsIInv == IInv /\ SaveGate => IInv'
<1> SUFFICES ASSUME IInv, SaveGate PROVE IInv'
  OBVIOUS
<1> USE DEF IInv, SaveGate, Write, Goto, memory
<1>1. TypeOK'
  BY DEF WorkInv, TypeOK
<1>2. WorkInv'
  BY <1>1 DEF WorkInv, Live, AttemptAtHand, BeingRejected, Continuation
<1>3. RejectionInv'
  <2>1. RunIsPrefix /\ rec' = run /\ rejected' = rejected
        /\ \A f \in run.failures : f.ordinal <= Len(run.opened)
    BY DEF RejectionInv
  <2>2. \A f \in run.failures : f.ordinal \in 1..Len(run.opened)
    <3>1. run.failures \in SUBSET Failure /\ Len(run.opened) \in Nat
      BY FieldTypes DEF WorkInv, TypeOK
    <3>2. \A f \in Failure : f.ordinal \in Nat \ {0}
      BY DEF Failure, Ordinal
    <3> HIDE DEF IInv, SaveGate
    <3> QED
      BY <2>1, <3>1, <3>2
  <2>3. RejectionsAreRetained'
    BY <2>1, <2>2 DEF RejectionInv, RejectionsAreRetained, Retained, RunIsPrefix
  <2> QED
    BY <2>1, <2>3 DEF RejectionInv, Continuation
<1> QED
  BY <1>2, <1>3

LEMMA DecisionType ==
  ASSUME TypeOK
  PROVE  /\ KeepsJournal(Accepted, rec)
         /\ AcceptedState \in RunState \ Terminal
<1>1. /\ rec \in RunRecord /\ cand \in CandidateSnapshot /\ cand.tree \in Content
      /\ verdict.verified \in SUBSET Claims
  BY CandidateTypes DEF TypeOK
<1>2. KeepsJournal(Decided, rec)
  BY <1>1, AssessType DEF Decided
<1>3. KeepsJournal(Accepted, rec)
  <2> DEFINE d == Decided
             t == IF Reviewer THEN "approved" ELSE "pending"
             q == [d EXCEPT !.decision = t, !.manifest = cand.tree]
  <2>1. KeepsJournal(d, rec) /\ t \in {"none", "pending", "approved", "rejected"}
    BY <1>2
  <2>2. Accepted = q \/ Accepted = d
    BY DEF Accepted
  <2> HIDE DEF d, t
  <2>3. KeepsJournal(q, rec)
    BY <1>1, <2>1, ZenonT(40) DEF KeepsJournal, RunRecord
  <2> QED
    BY <2>1, <2>2, <2>3
<1>4. AcceptedState \in RunState \ Terminal
  BY DEF AcceptedState, RunState, Terminal
<1> QED
  BY <1>3, <1>4

LEMMA DecideKeepsIInv == IInv /\ (Decide \/ DecideRegression) => IInv'
<1> SUFFICES ASSUME IInv, Decide \/ DecideRegression PROVE IInv'
  OBVIOUS
<1> USE DEF IInv, Goto
<1>a. TypeOK /\ rec \in RunRecord
  BY DEF WorkInv, TypeOK
<1>b. /\ rec' = Transition(rec, AcceptedState)
      /\ rejected' = rejected /\ refs' = refs /\ run' = run /\ attempt' = attempt
      /\ cand' = cand /\ pc = "decide"
  BY DEF Decide, DecideRegression
<1>c. KeepsJournal(rec', rec) /\ rec'.state \notin Terminal
  BY <1>a, <1>b, DecisionType, TransitionType
<1>d. RejectionsAreRetained'
  BY <1>b, <1>c, ZenonT(40) DEF RejectionInv, RejectionsAreRetained, Retained, KeepsJournal
<1>1. CASE Decide
  <2>1. KeepsJournal(next', rec)
    <3>1. "stopped" \in RunState
      BY DEF RunState, Terminal
    <3>2. KeepsJournal(Accepted, rec) /\ AcceptedState \in RunState
      BY <1>a, DecisionType
    <3>3. next' = End(Accepted, "stopped", "stagnation-limit")
          \/ next' = Transition(Accepted, AcceptedState)
      BY <1>1 DEF Decide
    <3>4. /\ KeepsJournal(End(Accepted, "stopped", "stagnation-limit"), Accepted)
          /\ KeepsJournal(Transition(Accepted, AcceptedState), Accepted)
      BY <3>1, <3>2, EndType, TransitionType DEF KeepsJournal
    <3> QED
      BY <3>2, <3>3, <3>4 DEF KeepsJournal
  <2>2. TypeOK'
    BY <1>1, <1>c, <2>1 DEF Decide, TypeOK, KeepsJournal, WorkInv
  <2>3. WorkInv'
    BY <1>1, <1>c, <2>2
       DEF Decide, WorkInv, Live, AttemptAtHand, BeingRejected, Continuation
  <2>4. RejectionInv'
    BY <1>1, <1>b, <1>c, <1>d, <2>1 DEF Decide, RejectionInv, KeepsJournal, Continuation
  <2> QED
    BY <2>3, <2>4
<1>2. CASE DecideRegression
  <2>1. Bound
    <3>1. verdict.verified # Claims
      <4>1. run.claims \in SUBSET Claims
        BY <1>a, FieldTypes DEF TypeOK
      <4> QED
        BY <1>2, <4>1 DEF DecideRegression, Regresses
    <3> QED
      BY <1>b, <3>1 DEF RejectionInv
  <2>2. TypeOK'
    BY <1>2, <1>c DEF DecideRegression, TypeOK, KeepsJournal, WorkInv, Kind
  <2>3. WorkInv'
    BY <1>2, <1>c, <2>2
       DEF DecideRegression, WorkInv, Live, AttemptAtHand, BeingRejected,
           Continuation, Kind, TypeOK
  <2>4. RejectionInv'
    BY <1>2, <1>b, <1>c, <1>d, <2>1
       DEF DecideRegression, RejectionInv, Bound, KeepsJournal, Continuation
  <2> QED
    BY <2>3, <2>4
<1> QED
  BY <1>1, <1>2

LEMMA SaveQaKeepsIInv == IInv /\ SaveQa => IInv'
<1> SUFFICES ASSUME IInv, SaveQa PROVE IInv'
  OBVIOUS
<1> USE DEF IInv, SaveQa, Write, Goto, memory
<1>1. next \in RunRecord /\ next.claims \in SUBSET Claims
      /\ next.opened = rec.opened /\ next.failures = rec.failures
  BY FieldTypes DEF WorkInv, TypeOK, RejectionInv, Continuation
<1>2. TypeOK'
  BY <1>1 DEF WorkInv, TypeOK
<1>3. WorkInv'
  BY <1>2 DEF WorkInv, Live, AttemptAtHand, BeingRejected, Continuation
<1>4. RejectionInv'
  BY <1>1 DEF RejectionInv, RejectionsAreRetained, Retained, Continuation
<1> QED
  BY <1>3, <1>4

LEMMA AssuringKeepsIInv == IInv /\ Assuring => IInv'
<1> SUFFICES ASSUME IInv, Assuring PROVE IInv'
  OBVIOUS
<1>a. TypeOK /\ rec \in RunRecord /\ cand \in CandidateSnapshot /\ cand.tree \in Content
  BY CandidateTypes DEF IInv, WorkInv, TypeOK
<1>b. pc # "idle" => rec.state \notin Terminal
  BY DEF IInv, WorkInv, Live
<1>c. KeepsJournal(rec, rec)
  BY <1>a DEF KeepsJournal
<1>1. CASE ReopenCandidate \/ QaReports \/ SaveGate \/ Decide \/ DecideRegression \/ SaveQa
  BY <1>1, ReopenKeepsIInv, QaReportsKeepsIInv, SaveGateKeepsIInv, DecideKeepsIInv,
     SaveQaKeepsIInv
<1>2. CASE CallQa
  BY <1>2, <1>a, <1>b, ChargeType, WriteAndGoOn DEF CallQa, Write, Goto, Flow
<1>3. CASE RoleFails("qa") \/ RoleFails("answer") \/ ReviewIsBlocked
  BY <1>3, FailKeepsIInv DEF RoleFails, ReviewIsBlocked
<1>4. CASE TreeModified
  BY <1>4, RejectKeepsIInv DEF TreeModified, Kind
<1>5. CASE ReviewIsKnown
  BY <1>5, <1>b, <1>c, WriteAndGoOn DEF ReviewIsKnown, Write, Goto, Flow
<1>6. CASE ConsumeAttempt
  <2> DEFINE c == Charge(rec)
             q == [c EXCEPT !.reviews = @ + 1]
  <2>1. KeepsJournal(c, rec) /\ c.state = rec.state
    BY <1>a, ChargeType
  <2>2. c.reviews + 1 \in Nat
    BY <2>1, FieldTypes DEF KeepsJournal
  <2> HIDE DEF c
  <2>3. KeepsJournal(q, rec) /\ q.state = rec.state
    BY <2>1, <2>2 DEF KeepsJournal, RunRecord
  <2>4. Write("review", q, "answer")
    BY <1>6 DEF ConsumeAttempt, c
  <2>5. rec.state \notin Terminal
    BY <1>b, <2>4 DEF Write, Goto
  <2> HIDE DEF q
  <2> QED
    BY <2>3, <2>4, <2>5, WriteAndGoOn DEF Flow
<1>7. CASE ReviewerApproves
  <2> DEFINE q == [rec EXCEPT !.reviewed = cand.tree]
  <2>1. KeepsJournal(q, rec) /\ q.state = rec.state
    BY <1>a DEF KeepsJournal, RunRecord
  <2>2. rec.state \notin Terminal
    BY <1>7, <1>b DEF ReviewerApproves, Write, Goto
  <2> QED
    BY <1>7, <2>1, <2>2, WriteAndGoOn DEF ReviewerApproves, Flow
<1>8. CASE ReviewerObjects
  <2>1. CASE Fail("answer", "approval-blocked")
    BY <2>1, FailKeepsIInv
  <2>2. CASE Write("answer", rec, "repair")
    BY <2>2, <1>b, <1>c, WriteAndGoOn DEF Write, Goto, Flow
  <2>3. CASE Write("answer", rec, "idle")
    BY <2>3, <1>c, WriteAndReturn
  <2> QED
    BY <1>8, <2>1, <2>2, <2>3 DEF ReviewerObjects
<1>9. CASE RepairRelease
  <2> DEFINE q == [rec EXCEPT !.assessed = FALSE, !.claims = {}, !.stagnant = 0]
  <2>1. KeepsJournal(q, rec)
    BY <1>a DEF KeepsJournal, RunRecord
  <2>2. "qa" \in RunState \ Terminal /\ "saveRepair" \in DOMAIN Continuation
    BY DEF RunState, Terminal, Continuation
  <2> QED
    BY <1>9, <2>1, <2>2, TransitionAndSave DEF RepairRelease
<1>10. CASE CompleteQa
  <2>1. attempt.ordinal \in Ordinal /\ rec.state \notin Terminal
    BY <1>10 DEF CompleteQa, Write, Goto, IInv, WorkInv, AttemptAtHand, Live
  <2> QED
    BY <1>10, <1>a, <2>1, CompleteType, WriteAndGoOn DEF CompleteQa, Flow
<1> QED
  BY <1>1, <1>2, <1>3, <1>4, <1>5, <1>6, <1>7, <1>8, <1>9, <1>10 DEF Assuring

-----------------------------------------------------------------------------
LEMMA RollbackTargetType == TypeOK => RollbackTarget \in CandidateSnapshot
  BY CandidateTypes, FieldTypes DEF TypeOK, RollbackTarget

\* The rejected ref of the ordinal at hand holds the commit at hand.
LEMMA RetainKeepsIInv == IInv /\ (Retain \/ Unstage) => IInv'
<1> SUFFICES ASSUME IInv, Retain \/ Unstage PROVE IInv'
  OBVIOUS
<1> USE DEF IInv, Goto, memory
<1>a. TypeOK /\ attempt.ordinal \in Ordinal /\ attempt.commit \in Content
  BY DEF Retain, Unstage, WorkInv, TypeOK, AttemptAtHand
<1>b. rec' = rec /\ run' = run /\ attempt' = attempt /\ verdict' = verdict /\ next' = next
  BY DEF Retain, Unstage
<1>1. CASE Retain
  <2>1. DOMAIN rejected' = DOMAIN rejected \cup {attempt.ordinal}
        /\ rejected'[attempt.ordinal] = attempt.commit
    BY <1>1 DEF Retain
  <2>2. \A o \in DOMAIN rejected : o \in DOMAIN rejected' /\ rejected'[o] = rejected[o]
    BY <1>1 DEF Retain, CanRetain, Retained
  <2>3. TypeOK'
    BY <1>1, <1>a, <2>1, <2>2 DEF Retain, TypeOK
  <2>4. WorkInv'
    BY <1>1, <2>3 DEF Retain, WorkInv, Live, AttemptAtHand, BeingRejected, Continuation
  <2>5. RejectionInv'
    BY <1>1, <1>b, <2>1, <2>2
       DEF Retain, RejectionInv, RejectionsAreRetained, Retained, Bound, Continuation
  <2> QED
    BY <2>4, <2>5
<1>2. CASE Unstage
  <2>1. TypeOK'
    BY <1>2, <1>a DEF Unstage, TypeOK
  <2>2. WorkInv'
    BY <1>2, <2>1 DEF Unstage, WorkInv, Live, AttemptAtHand, BeingRejected, Continuation
  <2>3. RejectionInv'
    BY <1>2, <1>b
       DEF Unstage, RejectionInv, RejectionsAreRetained, Retained, Bound, Continuation
  <2> QED
    BY <2>2, <2>3
<1> QED
  BY <1>1, <1>2

\* A failure is recorded for an ordinal that is bound and retained, and that
\* no other failure has.
LEMMA RecordBlockerFailureKeepsIInv == IInv /\ RecordBlockerFailure => IInv'
<1> SUFFICES ASSUME IInv, RecordBlockerFailure PROVE IInv'
  OBVIOUS
<1> USE DEF IInv, RecordBlockerFailure, Write, Goto, memory
<1> DEFINE f == ThisFailure
<1>1. f \in Failure
  <2>1. /\ attempt.ordinal \in Ordinal /\ attempt.commit \in Content
        /\ verdict.kind \in Kind /\ run.iteration \in 0..MaxIterations
    BY FieldTypes DEF WorkInv, TypeOK, AttemptAtHand, BeingRejected
  <2> QED
    BY <2>1 DEF ThisFailure, Failure
<1>2. /\ rec' \in RunRecord /\ rec'.state = rec.state /\ rec'.opened = rec.opened
      /\ rec'.failures = rec.failures \cup {f}
  BY <1>1, FailureType DEF WorkInv, TypeOK
<1>3. TypeOK'
  BY <1>2 DEF WorkInv, TypeOK
<1>4. WorkInv'
  BY <1>2, <1>3 DEF WorkInv, Live, AttemptAtHand, BeingRejected, Continuation
<1>5. RejectionsAreRetained'
  <2>1. /\ rejected' = rejected
        /\ f.ordinal = attempt.ordinal /\ f.commit = attempt.commit
        /\ f.iteration = run.iteration
    BY DEF ThisFailure
  <2>2. /\ Retained(f.ordinal) /\ rejected[f.ordinal] = f.commit
        /\ f.ordinal <= Len(rec.opened)
        /\ rec.opened[f.ordinal] = [iteration |-> f.iteration, commit |-> f.commit]
    BY <2>1 DEF RejectionInv, Bound
  <2>3. \A g \in rec.failures : g.ordinal = f.ordinal => g = f
    <3>1. CASE f \in rec.failures
      BY <3>1 DEF RejectionInv, RejectionsAreRetained
    <3>2. CASE f \notin rec.failures
      BY <3>2 DEF Contradicts, RecordsTwice
    <3> QED
      BY <3>1, <3>2
  <2>4. RejectionsAreRetained
    BY DEF RejectionInv
  <2> HIDE DEF f, IInv, RecordBlockerFailure
  <2> QED
    BY <1>2, <2>1, <2>2, <2>3, <2>4 DEF RejectionsAreRetained, Retained
<1>6. RejectionInv'
  BY <1>5 DEF RejectionInv, Continuation
<1> QED
  BY <1>4, <1>6

LEMMA RecoveringKeepsIInv == IInv /\ Recovering => IInv'
<1> SUFFICES ASSUME IInv, Recovering PROVE IInv'
  OBVIOUS
<1>a. TypeOK /\ rec \in RunRecord /\ cand \in CandidateSnapshot
      /\ KeepsJournal(rec, rec)
  BY DEF IInv, WorkInv, TypeOK, KeepsJournal
<1>b. "planned" \in RunState \ Terminal
      /\ "candidate-isolation-required" \in RunState \ Terminal
      /\ "saveReplan" \in DOMAIN Continuation /\ "saveIsolation" \in DOMAIN Continuation
  BY DEF RunState, Terminal, Continuation
<1>c. RollbackTarget \in CandidateSnapshot
  BY <1>a, RollbackTargetType
<1>1. CASE Retain \/ Unstage
  BY <1>1, RetainKeepsIInv
<1>2. CASE RecordBlockerFailure
  BY <1>2, RecordBlockerFailureKeepsIInv
<1>3. CASE RecoveryThrows
  BY <1>3, <1>a, WriteAndReturn DEF RecoveryThrows, Throws
<1>4. CASE Rollback
  <2>1. worktree' \in Content
    BY <1>4, <1>a, <1>c, ResolvedCommit DEF Rollback
  <2>2. TypeOK'
    BY <1>4, <1>a, <2>1 DEF Rollback, TypeOK, memory
  <2>3. WorkInv'
    BY <1>4, <2>2 DEF IInv, WorkInv, Rollback, Goto, memory, Live, AttemptAtHand,
                      BeingRejected, Continuation
  <2>4. RejectionInv'
    BY <1>4 DEF IInv, RejectionInv, RejectionsAreRetained, Retained, Rollback, Goto,
                memory, Continuation
  <2> QED
    BY <2>3, <2>4 DEF IInv
<1>5. CASE RollbackFails
  <2> DEFINE changed == [rec EXCEPT !.restoreTarget = RollbackTarget]
  <2>1. KeepsJournal(changed, rec)
    BY <1>a, <1>c DEF KeepsJournal, RunRecord
  <2>2. attempt.ordinal \in Ordinal
    BY <1>5 DEF RollbackFails, WriteTransition, Goto, IInv, WorkInv, AttemptAtHand
  <2> QED
    BY <1>5, <1>b, <2>1, <2>2, TransitionAndSave DEF RollbackFails
<1>6. CASE CompleteIsolated
  <2>1. rec.restoreTarget # NoCandidate => attempt.ordinal \in Ordinal
    BY <1>6 DEF CompleteIsolated, Write, Goto, IInv, WorkInv
  <2>2. CASE rec.restoreTarget = NoCandidate
    BY <1>6, <1>a, <2>2, WriteAndReturn DEF CompleteIsolated
  <2>3. CASE rec.restoreTarget # NoCandidate
    BY <1>6, <1>a, <2>1, <2>3, CompleteType, WriteAndReturn DEF CompleteIsolated
  <2> QED
    BY <2>2, <2>3
<1>7. CASE CompleteRejected
  <2>1. attempt.ordinal \in Ordinal /\ rec.state \notin Terminal
    BY <1>7 DEF CompleteRejected, Write, Goto, IInv, WorkInv, AttemptAtHand, Live
  <2>2. <<"completeRejected", "exhaust">> \in Flow /\ <<"completeRejected", "replan">> \in Flow
    BY DEF Flow
  <2>3. PICK to \in {"exhaust", "replan"} :
          Write("completeRejected", CompleteAttempt(rec, attempt.ordinal), to)
    BY <1>7 DEF CompleteRejected
  <2> QED
    BY <1>a, <2>1, <2>2, <2>3, CompleteType, WriteAndGoOn
<1>8. CASE Exhaust
  <2>1. KeepsJournal(rec', rec) /\ rec'.state = rec.state
    BY <1>8, <1>a, CloseType DEF Exhaust
  <2>2. TypeOK'
    BY <1>8, <1>a, <1>c, <2>1 DEF Exhaust, TypeOK, KeepsJournal, NoVerdict
  <2>3. WorkInv'
    BY <1>8, <2>1, <2>2 DEF IInv, WorkInv, Exhaust, Goto, Live, AttemptAtHand,
                            BeingRejected, Continuation
  <2>4. RejectionInv'
    BY <1>8, <2>1 DEF IInv, RejectionInv, RejectionsAreRetained, Retained, Exhaust, Goto,
                      KeepsJournal, Continuation
  <2> QED
    BY <2>3, <2>4 DEF IInv
<1>9. CASE Replan
  <2> DEFINE q == [rec EXCEPT !.candidate = cand]
  <2>1. KeepsJournal(q, rec)
    BY <1>a DEF KeepsJournal, RunRecord
  <2>2. PICK changed \in {q, rec} :
          WriteTransition("replan", "planned", changed, "saveReplan")
    BY <1>9 DEF Replan
  <2>3. KeepsJournal(changed, rec)
    BY <1>a, <2>1
  <2> QED
    BY <1>b, <2>2, <2>3, TransitionAndSave
<1> QED
  BY <1>1, <1>2, <1>3, <1>4, <1>5, <1>6, <1>7, <1>8, <1>9 DEF Recovering

-----------------------------------------------------------------------------
LEMMA OthersKeepIInv ==
  IInv /\ (Ending \/ OperatorRestores \/ RecordApproval \/ Crash) => IInv'
<1> SUFFICES ASSUME IInv, Ending \/ OperatorRestores \/ RecordApproval \/ Crash
             PROVE  IInv'
  OBVIOUS
<1>a. TypeOK /\ rec \in RunRecord /\ KeepsJournal(rec, rec)
  BY DEF IInv, WorkInv, TypeOK, KeepsJournal
<1>1. CASE ResolveIsolation
  <2>1. KeepsJournal([rec EXCEPT !.restoreTarget = NoCandidate], rec)
    BY <1>a, CandidateTypes DEF KeepsJournal, RunRecord
  <2>2. "planned" \in RunState \ Terminal /\ "saveResolved" \in DOMAIN Continuation
    BY DEF RunState, Terminal, Continuation
  <2> QED
    BY <1>1, <2>1, <2>2, TransitionAndSave DEF ResolveIsolation
<1>2. CASE Deploy
  <2>1. KeepsJournal(rec', rec)
    BY <1>2, <1>a, TransitionType DEF Deploy, RunState
  <2>2. TypeOK'
    BY <1>2, <1>a, <2>1 DEF Deploy, TypeOK, KeepsJournal, memory
  <2>3. WorkInv'
    BY <1>2, <2>2 DEF IInv, WorkInv, Deploy, Begins, memory, Live, AttemptAtHand,
                      BeingRejected, Continuation
  <2>4. RejectionInv'
    BY <1>2, <2>1 DEF IInv, RejectionInv, RejectionsAreRetained, Retained, Deploy, Begins,
                      memory, KeepsJournal, Continuation
  <2> QED
    BY <2>3, <2>4 DEF IInv
<1>3. CASE DeployRefused
  BY <1>3, FailKeepsIInv DEF DeployRefused
<1>4. CASE OperatorRestores
  <2>1. worktree' \in Content
    BY <1>4, <1>a, FieldTypes, ResolvedCommit DEF OperatorRestores
  <2>2. TypeOK'
    BY <1>4, <1>a, <2>1 DEF OperatorRestores, TypeOK, memory
  <2>3. WorkInv'
    BY <1>4, <2>2 DEF IInv, WorkInv, OperatorRestores, memory, Live
  <2>4. RejectionInv'
    BY <1>4 DEF IInv, RejectionInv, RejectionsAreRetained, Retained, OperatorRestores,
                memory, Continuation
  <2> QED
    BY <2>3, <2>4 DEF IInv
<1>5. CASE RecordApproval
  <2> DEFINE e == End(rec, "stopped", "release-rejected")
             q1 == [rec EXCEPT !.decision = "approved", !.state = "ready"]
             q2 == [e EXCEPT !.decision = "rejected"]
  <2>1. KeepsJournal(q1, rec)
    <3>1. "ready" \in RunState
      BY DEF RunState
    <3> QED
      BY <1>a, <3>1 DEF KeepsJournal, RunRecord
  <2>2. KeepsJournal(e, rec)
    BY <1>a, EndType DEF RunState, Terminal
  <2> HIDE DEF e
  <2>3. KeepsJournal(q2, rec)
    BY <2>2 DEF KeepsJournal, RunRecord
  <2>4. Write("idle", q1, "idle") \/ Write("idle", q2, "idle")
    BY <1>5 DEF RecordApproval, e
  <2> HIDE DEF q1, q2
  <2> QED
    BY <2>1, <2>3, <2>4, WriteAndReturn
<1>6. CASE Crash
  <2>1. TypeOK'
    <3>1. crashes' \in 0..MaxCrashes
      BY <1>6, <1>a, RunAssumption DEF Crash, TypeOK, RunAssumption
    <3> QED
      BY <1>6, <1>a, <3>1 DEF Crash, TypeOK, disk, memory
  <2>2. WorkInv'
    BY <1>6, <2>1 DEF IInv, WorkInv, Crash, disk, memory, Live, AttemptAtHand,
                      BeingRejected, Continuation
  <2>3. RejectionInv'
    BY <1>6 DEF IInv, RejectionInv, RejectionsAreRetained, Retained, Crash, disk, memory,
                Continuation
  <2> QED
    BY <2>2, <2>3 DEF IInv
<1> QED
  BY <1>1, <1>2, <1>3, <1>4, <1>5, <1>6 DEF Ending

LEMMA StepKeepsIInv == IInv /\ [Next]_vars => IInv'
<1> SUFFICES ASSUME IInv, [Next]_vars PROVE IInv'
  OBVIOUS
<1>1. CASE Next
  BY <1>1, PlanningKeepsIInv, DevelopingKeepsIInv, AssuringKeepsIInv,
     RecoveringKeepsIInv, OthersKeepIInv DEF Next, Step
<1>2. CASE UNCHANGED vars
  <2> USE <1>2 DEF vars, disk, memory
  <2>1. TypeOK'
    BY DEF IInv, WorkInv, TypeOK
  <2>2. WorkInv'
    BY <2>1 DEF IInv, WorkInv, Live
  <2>3. RejectionInv'
    BY DEF IInv, RejectionInv, RejectionsAreRetained, Retained, Bound, RunIsPrefix
  <2> QED
    BY <2>2, <2>3 DEF IInv
<1> QED
  BY <1>1, <1>2

LEMMA RunInvariant == Spec => []IInv
  BY InitEstablishesIInv, StepKeepsIInv, PTL DEF Spec

\* Type correctness for every bound, and what a process has at hand.
THEOREM RunIsTyped == Spec => []TypeOK
<1>1. IInv => TypeOK
  BY DEF IInv, WorkInv
<1> QED
  BY <1>1, RunInvariant, PTL

\* Every rejection that was counted keeps its candidate, bound to its ordinal.
THEOREM CountedRejectionsAreRetained == Spec => []RejectionsAreRetained
<1>1. IInv => RejectionsAreRetained
  BY DEF IInv, RejectionInv
<1> QED
  BY <1>1, RunInvariant, PTL

-----------------------------------------------------------------------------
\* Nobody works on a run that has ended, and no call begins to.
LEMMA StepKeepsEnded ==
  IInv /\ rec.state \in Terminal /\ [Next]_vars => rec' = rec
<1> SUFFICES ASSUME IInv, rec.state \in Terminal, [Next]_vars PROVE rec' = rec
  OBVIOUS
<1>a. pc = "idle"
  BY DEF IInv, WorkInv, Live
<1>b. rec.state \notin {"created", "qa", "planned", "candidate", "ready",
                        "candidate-isolation-required", "approval-paused"}
  BY DEF Terminal
<1> USE <1>a, <1>b DEF Write, WriteTransition, Goto, Fail, Throws, Reject, Begins, CallRole
<1>1. CASE Planning
  BY <1>1 DEF Planning, CallPlanner, Plan, RoleFails, Stop, SaveNext, Continuation
<1>2. CASE Developing
  BY <1>2 DEF Developing, CallDeveloper, RoleFails, Snapshot, SnapshotConflicts,
              Open, OpenFails, ChecksFail, SurfaceDiverges, ChecksPass,
              AcceptDeveloped, CloseEpisode
<1>3. CASE Assuring
  BY <1>3 DEF Assuring, ReopenCandidate, CallQa, RoleFails, TreeModified, QaReports,
              SaveGate, ReviewIsKnown, ConsumeAttempt, ReviewerApproves,
              ReviewerObjects, ReviewIsBlocked, RepairRelease, Decide,
              DecideRegression, CompleteQa, SaveQa
<1>4. CASE Recovering
  BY <1>4 DEF Recovering, Retain, Unstage, RecordBlockerFailure, RecoveryThrows,
              Rollback, RollbackFails, CompleteIsolated, CompleteRejected, Exhaust, Replan
<1>5. CASE Ending
  BY <1>5 DEF Ending, ResolveIsolation, Deploy, DeployRefused
<1>6. CASE OperatorRestores \/ RecordApproval \/ Crash \/ UNCHANGED vars
  BY <1>6 DEF OperatorRestores, RecordApproval, Crash, vars, disk
<1> QED
  BY <1>1, <1>2, <1>3, <1>4, <1>5, <1>6 DEF Next, Step

\* A run that has ended does not change again, whoever resumes it.
THEOREM EndedRunsStay == Spec => EndedStaysEnded
<1>1. IInv /\ [Next]_vars => [rec.state \in Terminal => rec' = rec]_vars
  BY StepKeepsEnded
<1> QED
  BY <1>1, RunInvariant, PTL DEF Spec, EndedStaysEnded

-----------------------------------------------------------------------------
(* What is decided, saved and forgotten: for any number of crashes *)

Developed == {"snapshot", "open", "check", "accept"}
Assured == {"assure", "qa", "gate", "review", "answer", "decide"}
Rejected == {"retain", "unstage", "record", "rollback", "completeRejected",
             "exhaust", "replan"}
Saving == DOMAIN Continuation \cup {"completeQa", "saveQa"}

\* What the record keeps of what resume() read, until it decides.
Fetched(r, q) ==
  /\ r.state = q.state /\ r.iteration = q.iteration
  /\ r.candidate = q.candidate /\ r.preservation = q.preservation
  /\ r.assessed = q.assessed /\ r.claims = q.claims
  /\ r.repairs = q.repairs

Moved == [saveAccepted |-> "candidate", savePlan |-> "planned",
          saveReplan |-> "planned", saveRepair |-> "qa",
          saveResolved |-> "planned",
          saveIsolation |-> "candidate-isolation-required"]

\* In which state of the run each step is taken, and which copies agree.
MemoryInv ==
  /\ pc \in Developed \cup Assured => Fetched(run, rec)
  /\ pc = "plan" => rec.state \in {"created", "qa"}
  /\ pc \in Developed \ {"open"} => rec.state = "planned"
  /\ pc = "open" => rec.state \in {"planned", "candidate"}
  /\ pc \in Assured \cup {"repair"} => rec.state = "candidate"
  /\ pc \in Assured \cup {"repair"} \/ (pc = "open" /\ rec.state = "candidate") =>
       cand = rec.candidate
  /\ pc \in Rejected => rec.state \in {"planned", "candidate", "qa"}
  /\ pc = "closeEpisode" => rec.state = "candidate"
  /\ pc = "completeIsolated" => rec.state = "candidate-isolation-required"
  /\ pc \in DOMAIN Moved => rec.state = Moved[pc] /\ next.state = Moved[pc]
  /\ pc \in {"completeQa", "saveQa"} =>
       next.state \in {"qa", "ready", "approval-paused", "stopped"}
  /\ pc \in Saving => next.repairs = rec.repairs
  /\ pc \in {"gate", "review", "answer", "repair", "saveRepair"} => Reviewer
  /\ pc \in {"answer", "repair", "saveRepair"} => rec.reviews > 0

\* What is about to be saved gives up no claim, but after a release repair.
ClaimsInv ==
  /\ pc \in DOMAIN Moved \ {"saveRepair"} =>
       next.assessed = rec.assessed /\ next.claims = rec.claims
  /\ pc = "saveRepair" => ~next.assessed
  /\ pc \in {"completeQa", "saveQa"} =>
       next.assessed /\ (rec.assessed => rec.claims \subseteq next.claims)

\* What a record that names a decision was decided on.
Decision(r) ==
  /\ r.decision # "none" =>
       r.state \in {"ready", "approval-paused", "deploying"} \cup Terminal
  /\ r.decision \in {"approved", "pending"} =>
       r.assessed /\ r.claims = Claims /\ r.manifest = r.candidate.tree
  /\ Reviewer /\ r.decision = "approved" => r.reviewed = r.manifest
  /\ r.state = "deploying" => r.decision = "approved"

DecisionInv ==
  /\ Decision(rec)
  /\ pc \in Saving => Decision(next)
  /\ Live => rec.decision = "none"
  /\ run.decision = "none"
  /\ pc \in DOMAIN Moved => next.decision = "none"
  /\ pc = "decide" /\ verdict.verified = Claims /\ Reviewer => rec.reviewed = cand.tree

ReleaseInv == MemoryInv /\ ClaimsInv /\ DecisionInv

LEMMA InitEstablishesReleaseInv == Init => ReleaseInv
  BY DEF Init, ReleaseInv, MemoryInv, ClaimsInv, DecisionInv, Decision, Created, Live,
         Developed, Assured, Rejected, Saving, Continuation, Moved

LEMMA EndKeepsReleaseInv ==
  ASSUME TypeOK, ReleaseInv, NEW from, NEW state \in Terminal, NEW reason,
         Write(from, End(rec, state, reason), "idle")
  PROVE  ReleaseInv'
<1>1. Keeps(rec', rec, {"state", "reason"}) /\ rec'.state \in Terminal /\ pc' = "idle"
      /\ UNCHANGED <<next, run, cand, verdict>>
  BY EndKeeps DEF TypeOK, Write, Goto, memory
<1> QED
  BY <1>1 DEF ReleaseInv, MemoryInv, ClaimsInv, DecisionInv, Decision, Live, Keeps, Field,
              Developed, Assured, Rejected, Saving, Continuation, Moved, Terminal

LEMMA PlanningKeepsReleaseInv == TypeOK /\ ReleaseInv /\ Planning => ReleaseInv'
<1> SUFFICES ASSUME TypeOK, ReleaseInv, Planning PROVE ReleaseInv'
  OBVIOUS
<1>a. rec \in RunRecord
  BY DEF TypeOK
<1> USE DEF ReleaseInv, MemoryInv, ClaimsInv, DecisionInv, Decision, Live, Keeps, Field,
            Developed, Assured, Rejected, Saving, Continuation, Moved, Terminal
<1>1. CASE CallPlanner
  <2>1. Keeps(rec', rec, {"charged"}) /\ run' = rec /\ next' = next
        /\ pc' = "plan" /\ rec.state \in {"created", "qa"}
    BY <1>1, <1>a, ChargeKeeps DEF CallPlanner, CallRole, Begins
  <2> QED
    BY <2>1
<1>2. CASE Plan
  <2>1. Keeps(rec', rec, {"state"}) /\ rec'.state = "planned"
        /\ Keeps(next', rec, {"state", "iteration"}) /\ next'.state = "planned"
        /\ pc' = "savePlan" /\ pc = "plan" /\ run' = run
    BY <1>2, <1>a, FieldsOfRecord DEF Plan, WriteTransition, Goto, Transition
  <2> QED
    BY <2>1
<1>3. CASE RoleFails("plan")
  BY <1>3, EndKeepsReleaseInv DEF RoleFails, Fail
<1>4. CASE Stop
  BY <1>4, EndKeepsReleaseInv DEF Stop
<1>5. CASE SaveNext
  <2>1. rec' = next /\ pc \in DOMAIN Continuation /\ pc' = Continuation[pc]
        /\ UNCHANGED memory
    BY <1>5 DEF SaveNext, Write, Goto
  <2> QED
    BY <2>1 DEF memory
<1> QED
  BY <1>1, <1>2, <1>3, <1>4, <1>5 DEF Planning

\* What Decide leaves in memory to be saved.
LEMMA DecideEffect ==
  ASSUME TypeOK, Decide
  PROVE  /\ Keeps(rec', rec, {"state"}) /\ rec'.state = AcceptedState
         /\ Keeps(next', rec, {"state", "reason", "assessed", "claims", "stagnant",
                               "preservation", "decision", "manifest"})
         /\ next'.state \in {AcceptedState, "stopped"}
         /\ next'.assessed /\ next'.claims = verdict.verified
         /\ ~Regresses(rec, verdict.verified) => next'.preservation = cand
         /\ IF Ready
            THEN /\ next'.state = AcceptedState /\ next'.manifest = cand.tree
                 /\ next'.decision = IF Reviewer THEN "approved" ELSE "pending"
            ELSE next'.decision = rec.decision
<1> DEFINE d == Decided
           t == IF Reviewer THEN "approved" ELSE "pending"
           q == [d EXCEPT !.decision = t, !.manifest = cand.tree]
<1>a. /\ rec \in RunRecord /\ cand \in CandidateSnapshot
      /\ verdict.verified \in SUBSET Claims
  BY DEF TypeOK
<1>1. /\ Keeps(d, rec, {"assessed", "claims", "stagnant", "preservation"})
      /\ d.assessed /\ d.claims = verdict.verified
      /\ ~Regresses(rec, verdict.verified) => d.preservation = cand
  BY <1>a, AssessKeeps DEF Decided
<1>2. d \in RunRecord
  BY <1>a, AssessType DEF Decided, KeepsJournal
<1>3. Accepted = IF Ready THEN q ELSE d
  BY DEF Accepted
<1> HIDE DEF d
<1>4. Keeps(q, d, {"decision", "manifest"}) /\ q.decision = t /\ q.manifest = cand.tree
  BY <1>2, FieldsOfRecord DEF Keeps, Field
<1> HIDE DEF q
<1>5. /\ Keeps(Accepted, rec, {"assessed", "claims", "stagnant", "preservation",
                               "decision", "manifest"})
      /\ Accepted.assessed /\ Accepted.claims = verdict.verified
      /\ ~Regresses(rec, verdict.verified) => Accepted.preservation = cand
      /\ IF Ready THEN Accepted.decision = t /\ Accepted.manifest = cand.tree
         ELSE Accepted.decision = rec.decision
  <2>1. CASE Ready
    BY <1>1, <1>3, <1>4, <2>1 DEF Keeps, Field
  <2>2. CASE ~Ready
    BY <1>1, <1>3, <2>2 DEF Keeps, Field
  <2> QED
    BY <2>1, <2>2
<1>6. Accepted \in RunRecord
  BY DecisionType DEF KeepsJournal
<1>7. /\ Keeps(next', Accepted, {"state", "reason"})
      /\ next'.state \in {AcceptedState, "stopped"}
      /\ Ready => next'.state = AcceptedState
  BY <1>6, EndKeeps, TransitionKeeps DEF Decide, Stagnates, Keeps, Field
<1>8. Keeps(rec', rec, {"state"}) /\ rec'.state = AcceptedState
  BY <1>a, TransitionKeeps DEF Decide
<1> QED
  BY <1>5, <1>7, <1>8 DEF Keeps, Field

LEMMA AcceptedStates ==
  AcceptedState = IF Ready THEN IF Reviewer THEN "ready" ELSE "approval-paused" ELSE "qa"
  BY DEF AcceptedState, Ready

LEMMA RejectKeepsReleaseInv ==
  ASSUME ReleaseInv, NEW from \in {"check", "assure", "qa"}, NEW kind, Reject(from, kind)
  PROVE  ReleaseInv'
<1>1. pc = from /\ pc' = "retain" /\ UNCHANGED <<rec, run, next, cand>>
  BY DEF Reject, Goto, disk
<1> QED
  BY <1>1 DEF ReleaseInv, MemoryInv, ClaimsInv, DecisionInv, Decision, Live,
              Developed, Assured, Rejected, Saving, Continuation, Moved

LEMMA DevelopingKeepsReleaseInv == TypeOK /\ ReleaseInv /\ Developing => ReleaseInv'
<1> SUFFICES ASSUME TypeOK, ReleaseInv, Developing PROVE ReleaseInv'
  OBVIOUS
<1>a. rec \in RunRecord
  BY DEF TypeOK
<1> USE DEF ReleaseInv, MemoryInv, ClaimsInv, DecisionInv, Decision, Fetched, Live, Keeps,
            Field, Developed, Assured, Rejected, Saving, Continuation, Moved, Terminal
<1>1. CASE CallDeveloper
  <2>1. Keeps(rec', rec, {"charged"}) /\ run' = rec /\ next' = next
        /\ pc' = "snapshot" /\ rec.state = "planned"
    BY <1>1, <1>a, ChargeKeeps DEF CallDeveloper, CallRole, Begins
  <2> QED
    BY <2>1
<1>2. CASE RoleFails("snapshot") \/ OpenFails
  BY <1>2, EndKeepsReleaseInv DEF RoleFails, OpenFails, Fail
<1>3. CASE Snapshot
  BY <1>3 DEF Snapshot, Goto
<1>4. CASE SnapshotConflicts
  <2>1. Keeps(rec', rec, {"state"}) /\ Keeps(next', rec, {"state", "restoreTarget"})
        /\ rec'.state = "candidate-isolation-required" /\ next'.state = rec'.state
        /\ pc' = "saveIsolation" /\ pc = "snapshot" /\ run' = run
    BY <1>4, <1>a, FieldsOfRecord DEF SnapshotConflicts, WriteTransition, Goto, Transition
  <2> QED
    BY <2>1
<1>5. CASE Open
  <2>1. Keeps(rec', rec, {"opened"}) /\ pc = "open" /\ run' = run /\ next' = next
        /\ cand' = cand /\ pc' = IF rec.state = "planned" THEN "check" ELSE "assure"
    BY <1>5, <1>a, OpenKeeps DEF Open, Goto
  <2> QED
    BY <2>1
<1>6. CASE ChecksFail \/ SurfaceDiverges
  BY <1>6, RejectKeepsReleaseInv DEF ChecksFail, SurfaceDiverges
<1>7. CASE ChecksPass
  <2>1. Keeps(rec', rec, {"completed"}) /\ pc = "check" /\ pc' = "accept" /\ run' = run
        /\ next' = next
    BY <1>7, <1>a, CompleteKeeps DEF ChecksPass, Write, Goto, memory
  <2> QED
    BY <2>1
<1>8. CASE AcceptDeveloped
  <2>1. Keeps(rec', rec, {"state"}) /\ Keeps(next', rec, {"state", "candidate"})
        /\ rec'.state = "candidate" /\ next'.state = rec'.state
        /\ pc' = "saveAccepted" /\ pc = "accept" /\ run' = run
    BY <1>8, <1>a, FieldsOfRecord DEF AcceptDeveloped, WriteTransition, Goto, Transition
  <2> QED
    BY <2>1
<1>9. CASE CloseEpisode
  <2>1. Keeps(rec', rec, {"repairs"}) /\ pc = "closeEpisode" /\ pc' = "idle"
        /\ run' = run /\ next' = next
    BY <1>9, <1>a, CloseKeeps DEF CloseEpisode, Write, Goto, memory
  <2> QED
    BY <2>1
<1> QED
  BY <1>1, <1>2, <1>3, <1>4, <1>5, <1>6, <1>7, <1>8, <1>9 DEF Developing

LEMMA AssuringKeepsReleaseInv == TypeOK /\ ReleaseInv /\ Assuring => ReleaseInv'
<1> SUFFICES ASSUME TypeOK, ReleaseInv, Assuring PROVE ReleaseInv'
  OBVIOUS
<1>a. rec \in RunRecord /\ rec.reviews \in Nat
  BY FieldTypes DEF TypeOK
<1>b. run.claims \subseteq Claims
  BY FieldTypes DEF TypeOK
<1> USE DEF ReleaseInv, MemoryInv, ClaimsInv, DecisionInv, Decision, Fetched, Live, Keeps,
            Field, Developed, Assured, Rejected, Saving, Continuation, Moved, Terminal
<1>1. CASE ReopenCandidate
  BY <1>1 DEF ReopenCandidate, Begins, disk
<1>2. CASE CallQa
  <2>1. Keeps(rec', rec, {"charged"}) /\ pc = "assure" /\ pc' = "qa"
        /\ UNCHANGED <<run, next, cand, verdict>>
    BY <1>2, <1>a, ChargeKeeps DEF CallQa, Write, Goto, memory
  <2> QED
    BY <2>1
<1>3. CASE RoleFails("qa") \/ RoleFails("answer") \/ ReviewIsBlocked
  BY <1>3, EndKeepsReleaseInv DEF RoleFails, ReviewIsBlocked, Fail
<1>4. CASE TreeModified
  BY <1>4, RejectKeepsReleaseInv DEF TreeModified
<1>5. CASE QaReports
  BY <1>5 DEF QaReports, Goto, disk
<1>6. CASE SaveGate
  BY <1>6 DEF SaveGate, Write, Goto, memory
<1>7. CASE ReviewIsKnown
  BY <1>7 DEF ReviewIsKnown, AlreadyReviewed, Write, Goto, memory
<1>8. CASE ConsumeAttempt
  <2>1. Keeps(rec', rec, {"charged", "reviews"}) /\ rec'.reviews = rec.reviews + 1
        /\ pc = "review" /\ pc' = "answer" /\ UNCHANGED <<run, next, cand, verdict>>
    BY <1>8, <1>a, FieldsOfRecord DEF ConsumeAttempt, Charge, Write, Goto, memory
  <2> QED
    BY <2>1, <1>a
<1>9. CASE ReviewerApproves
  <2>1. Keeps(rec', rec, {"reviewed"}) /\ rec'.reviewed = cand.tree
        /\ pc = "answer" /\ pc' = "decide" /\ UNCHANGED <<run, next, cand, verdict>>
    BY <1>9, <1>a, FieldsOfRecord DEF ReviewerApproves, Write, Goto, memory
  <2> QED
    BY <2>1
<1>10. CASE ReviewerObjects
  <2>1. CASE rec.reviews = BoundaryLimit
    BY <1>10, <2>1, EndKeepsReleaseInv DEF ReviewerObjects, Fail
  <2>2. CASE rec.reviews # BoundaryLimit
    BY <1>10, <2>2 DEF ReviewerObjects, Write, Goto, memory
  <2> QED
    BY <2>1, <2>2
<1>11. CASE RepairRelease
  <2>1. /\ Keeps(rec', rec, {"state"})
        /\ Keeps(next', rec, {"state", "assessed", "claims", "stagnant"})
        /\ rec'.state = "qa" /\ next'.state = rec'.state
        /\ ~next'.assessed /\ pc' = "saveRepair" /\ pc = "repair" /\ run' = run
    BY <1>11, <1>a, FieldsOfRecord DEF RepairRelease, WriteTransition, Goto, Transition
  <2> QED
    BY <2>1
<1>12. CASE Decide
  <2>1. pc = "decide" /\ pc' = "completeQa" /\ run' = run
    BY <1>12 DEF Decide, Goto
  <2>2. rec.assessed => rec.claims \subseteq verdict.verified
    BY <1>12, <2>1 DEF Decide, Regresses
  <2>3. MemoryInv'
    BY <1>12, <2>1, DecideEffect, AcceptedStates
  <2>4. ClaimsInv'
    BY <1>12, <2>1, <2>2, DecideEffect
  <2>5. DecisionInv'
    BY <1>12, <2>1, DecideEffect, AcceptedStates DEF Ready
  <2> QED
    BY <2>3, <2>4, <2>5
<1>13. CASE DecideRegression
  <2>1. Keeps(rec', rec, {"state"}) /\ rec'.state = AcceptedState
        /\ pc = "decide" /\ pc' = "retain" /\ run' = run /\ next' = next
    BY <1>13, <1>a, TransitionKeeps DEF DecideRegression, Goto
  <2>2. ~Ready
    BY <1>13, <1>b DEF DecideRegression, Regresses, Ready
  <2> QED
    BY <2>1, <2>2, AcceptedStates
<1>14. CASE CompleteQa
  <2>1. Keeps(rec', rec, {"completed"}) /\ pc = "completeQa" /\ pc' = "saveQa"
        /\ run' = run /\ next' = next
    BY <1>14, <1>a, CompleteKeeps DEF CompleteQa, Write, Goto, memory
  <2> QED
    BY <2>1
<1>15. CASE SaveQa
  BY <1>15 DEF SaveQa, Write, Goto, memory
<1> QED
  BY <1>1, <1>2, <1>3, <1>4, <1>5, <1>6, <1>7, <1>8, <1>9, <1>10, <1>11, <1>12, <1>13,
     <1>14, <1>15 DEF Assuring

LEMMA RecoveringKeepsReleaseInv == TypeOK /\ ReleaseInv /\ Recovering => ReleaseInv'
<1> SUFFICES ASSUME TypeOK, ReleaseInv, Recovering PROVE ReleaseInv'
  OBVIOUS
<1>a. rec \in RunRecord
  BY DEF TypeOK
<1> USE DEF ReleaseInv, MemoryInv, ClaimsInv, DecisionInv, Decision, Live, Keeps, Field,
            Developed, Assured, Rejected, Saving, Continuation, Moved
<1>1. CASE Retain \/ Unstage
  BY <1>1 DEF Retain, Unstage, Goto, memory
<1>2. CASE RecordBlockerFailure
  <2>1. Keeps(rec', rec, {"failures", "repairs"}) /\ pc = "record" /\ pc' = "rollback"
        /\ UNCHANGED <<run, next, cand, verdict>>
    BY <1>2, <1>a, FailureKeeps DEF RecordBlockerFailure, Write, Goto, memory
  <2> QED
    BY <2>1
<1>3. CASE RecoveryThrows
  BY <1>3 DEF RecoveryThrows, Throws, Write, Goto, memory
<1>4. CASE Rollback
  BY <1>4 DEF Rollback, Goto, memory
<1>5. CASE RollbackFails
  <2>1. Keeps(rec', rec, {"state"}) /\ Keeps(next', rec, {"state", "restoreTarget"})
        /\ rec'.state = "candidate-isolation-required" /\ next'.state = rec'.state
        /\ pc' = "saveIsolation" /\ pc = "rollback" /\ run' = run
    BY <1>5, <1>a, FieldsOfRecord DEF RollbackFails, WriteTransition, Goto, Transition
  <2> QED
    BY <2>1
<1>6. CASE CompleteIsolated
  <2>1. Keeps(rec', rec, {"completed"}) /\ pc = "completeIsolated" /\ pc' = "idle"
        /\ UNCHANGED <<run, next>>
    BY <1>6, <1>a, CompleteKeeps DEF CompleteIsolated, Write, Goto, memory
  <2> QED
    BY <2>1
<1>7. CASE CompleteRejected
  <2>1. Keeps(rec', rec, {"completed"}) /\ pc = "completeRejected"
        /\ pc' \in {"exhaust", "replan"} /\ UNCHANGED <<run, next>>
    BY <1>7, <1>a, CompleteKeeps DEF CompleteRejected, Write, Goto, memory
  <2> QED
    BY <2>1
<1>8. CASE Exhaust
  <2>1. Keeps(rec', rec, {"repairs"}) /\ pc = "exhaust" /\ pc' = "replan"
        /\ UNCHANGED <<run, next>>
    BY <1>8, <1>a, CloseKeeps DEF Exhaust, Goto
  <2> QED
    BY <2>1
<1>9. CASE Replan
  <2>1. Keeps(rec', rec, {"state"}) /\ Keeps(next', rec, {"state", "candidate"})
        /\ rec'.state = "planned" /\ next'.state = rec'.state
        /\ pc' = "saveReplan" /\ pc = "replan" /\ run' = run
    BY <1>9, <1>a, FieldsOfRecord DEF Replan, WriteTransition, Goto, Transition
  <2> QED
    BY <2>1
<1> QED
  BY <1>1, <1>2, <1>3, <1>4, <1>5, <1>6, <1>7, <1>8, <1>9 DEF Recovering

LEMMA OthersKeepReleaseInv ==
  TypeOK /\ ReleaseInv /\ (Ending \/ OperatorRestores \/ RecordApproval \/ Crash) => ReleaseInv'
<1> SUFFICES ASSUME TypeOK, ReleaseInv, Ending \/ OperatorRestores \/ RecordApproval \/ Crash
             PROVE  ReleaseInv'
  OBVIOUS
<1>a. rec \in RunRecord
  BY DEF TypeOK
<1> USE DEF ReleaseInv, MemoryInv, ClaimsInv, DecisionInv, Decision, Live, Keeps, Field,
            Developed, Assured, Rejected, Saving, Continuation, Moved, Terminal
<1>1. CASE ResolveIsolation
  <2>1. Keeps(rec', rec, {"state"}) /\ Keeps(next', rec, {"state", "restoreTarget"})
        /\ rec'.state = "planned" /\ next'.state = rec'.state
        /\ pc' = "saveResolved" /\ pc = "idle" /\ run' = run
        /\ rec.state = "candidate-isolation-required"
    BY <1>1, <1>a, FieldsOfRecord DEF ResolveIsolation, WriteTransition, Goto, Transition
  <2> QED
    BY <2>1
<1>2. CASE Deploy
  <2>1. Keeps(rec', rec, {"state"}) /\ rec'.state = "deploying" /\ rec.decision = "approved"
        /\ pc = "idle" /\ pc' = "idle" /\ run' = run
    BY <1>2, <1>a, TransitionKeeps DEF Deploy, Begins, Deployable, memory
  <2> QED
    BY <2>1
<1>3. CASE DeployRefused
  BY <1>3, EndKeepsReleaseInv DEF DeployRefused, Fail
<1>4. CASE OperatorRestores
  BY <1>4 DEF OperatorRestores, memory
<1>5. CASE RecordApproval
  <2>1. rec.decision = "pending" /\ ~Reviewer /\ pc = "idle" /\ pc' = "idle" /\ run' = run
    BY <1>5 DEF RecordApproval, Write, Goto, memory
  <2>2. /\ Keeps(rec', rec, {"state", "reason", "decision"})
        /\ \/ rec'.decision = "approved" /\ rec'.state = "ready"
           \/ rec'.decision = "rejected" /\ rec'.state = "stopped"
    BY <1>5, <1>a, FieldsOfRecord DEF RecordApproval, Write, End
  <2> QED
    BY <2>1, <2>2
<1>6. CASE Crash
  BY <1>6 DEF Crash, disk, memory
<1> QED
  BY <1>1, <1>2, <1>3, <1>4, <1>5, <1>6 DEF Ending

LEMMA StepKeepsReleaseInv == TypeOK /\ ReleaseInv /\ [Next]_vars => ReleaseInv'
<1> SUFFICES ASSUME TypeOK, ReleaseInv, [Next]_vars PROVE ReleaseInv'
  OBVIOUS
<1>1. CASE UNCHANGED vars
  BY <1>1 DEF vars, disk, memory, ReleaseInv, MemoryInv, ClaimsInv, DecisionInv, Live
<1> QED
  BY <1>1, PlanningKeepsReleaseInv, DevelopingKeepsReleaseInv, AssuringKeepsReleaseInv,
     RecoveringKeepsReleaseInv, OthersKeepReleaseInv DEF Next, Step

LEMMA ReleaseInvariant == Spec => []ReleaseInv
  BY InitEstablishesReleaseInv, StepKeepsReleaseInv, RunIsTyped, PTL DEF Spec

\* However often a run is interrupted: no release is approved automatically
\* but on a review of the very candidate it names.
THEOREM ApprovedReleaseIsReviewed == Spec => []ReleaseIsReviewed
<1>1. ReleaseInv => ReleaseIsReviewed
  BY DEF ReleaseInv, DecisionInv, Decision, ReleaseIsReviewed
<1> QED
  BY <1>1, ReleaseInvariant, PTL

\* But for the saves of a copy, a rejection and a new attempt, a step changes
\* neither claims nor journal, and repairs are only set back.
Noted == {"state", "reason", "charged", "completed", "decision", "reviewed", "reviews",
          "repairs"}
Quiet == /\ Keeps(rec', rec, Noted)
         /\ rec'.repairs \in {rec.repairs, 0}

LEMMA EndIsQuiet ==
  ASSUME TypeOK, NEW from, NEW state, NEW reason, Write(from, End(rec, state, reason), "idle")
  PROVE  Quiet
  BY EndKeeps DEF Write, Quiet, Noted, Keeps, Field, TypeOK

LEMMA TransitionIsQuiet ==
  ASSUME TypeOK, NEW state, rec' = Transition(rec, state)
  PROVE  Quiet
  BY TransitionKeeps DEF Quiet, Noted, Keeps, Field, TypeOK

LEMMA ChargeIsQuiet == ASSUME TypeOK, rec' = Charge(rec) PROVE Quiet
  BY ChargeKeeps DEF Quiet, Noted, Keeps, Field, TypeOK

LEMMA CompleteIsQuiet ==
  ASSUME TypeOK, NEW o, rec' = CompleteAttempt(rec, o)
  PROVE  Quiet
  BY CompleteKeeps DEF Quiet, Noted, Keeps, Field, TypeOK

LEMMA CloseIsQuiet == ASSUME TypeOK, rec' = CloseRepairEpisode(rec) PROVE Quiet
  BY CloseKeeps DEF Quiet, Noted, Keeps, Field, TypeOK

LEMMA SameIsQuiet == ASSUME rec' = rec PROVE Quiet
  BY DEF Quiet, Noted, Keeps, Field

LEMMA QuietSteps ==
  ASSUME TypeOK, [Next]_vars,
         ~SaveNext, ~SaveQa, ~SaveGate, ~RecordBlockerFailure, ~Open
  PROVE  Quiet
<1>a. rec \in RunRecord
  BY DEF TypeOK
<1>1. CASE Planning
  BY <1>1, ChargeIsQuiet, TransitionIsQuiet, EndIsQuiet
     DEF Planning, CallPlanner, CallRole, Plan, WriteTransition, RoleFails, Fail, Stop
<1>2. CASE Developing
  BY <1>2, ChargeIsQuiet, TransitionIsQuiet, EndIsQuiet, CompleteIsQuiet, CloseIsQuiet,
     SameIsQuiet
     DEF Developing, CallDeveloper, CallRole, RoleFails, Fail, Snapshot, SnapshotConflicts,
         WriteTransition, OpenFails, ChecksFail, SurfaceDiverges, Reject, disk, ChecksPass,
         Write, AcceptDeveloped, CloseEpisode
<1>3. CASE Assuring
  <2>1. CASE ReopenCandidate \/ TreeModified \/ QaReports \/ ReviewIsKnown
    BY <2>1, SameIsQuiet DEF ReopenCandidate, TreeModified, Reject, QaReports, ReviewIsKnown,
                             Write, disk
  <2>2. CASE CallQa \/ CompleteQa
    BY <2>2, ChargeIsQuiet, CompleteIsQuiet DEF CallQa, CompleteQa, Write
  <2>3. CASE RoleFails("qa") \/ RoleFails("answer") \/ ReviewIsBlocked
    BY <2>3, EndIsQuiet DEF RoleFails, ReviewIsBlocked, Fail
  <2>4. CASE ConsumeAttempt \/ ReviewerApproves
    BY <2>4, <1>a, FieldsOfRecord
       DEF ConsumeAttempt, ReviewerApproves, Write, Charge, Quiet, Noted, Keeps, Field
  <2>5. CASE ReviewerObjects
    BY <2>5, EndIsQuiet, SameIsQuiet DEF ReviewerObjects, Fail, Write
  <2>6. CASE RepairRelease \/ Decide \/ DecideRegression
    BY <2>6, TransitionIsQuiet DEF RepairRelease, WriteTransition, Decide, DecideRegression
  <2> QED
    BY <1>3, <2>1, <2>2, <2>3, <2>4, <2>5, <2>6 DEF Assuring
<1>4. CASE Recovering
  BY <1>4, SameIsQuiet, TransitionIsQuiet, CompleteIsQuiet, CloseIsQuiet
     DEF Recovering, Retain, Unstage, RecoveryThrows, Throws, Write, Rollback,
         RollbackFails, WriteTransition, CompleteIsolated, CompleteRejected, Exhaust, Replan
<1>5. CASE Ending \/ OperatorRestores \/ Crash
  BY <1>5, SameIsQuiet, TransitionIsQuiet, EndIsQuiet
     DEF Ending, ResolveIsolation, WriteTransition, Deploy, DeployRefused, Fail,
         OperatorRestores, Crash, disk
<1>6. CASE RecordApproval
  BY <1>6, <1>a, FieldsOfRecord
     DEF RecordApproval, Write, End, Quiet, Noted, Keeps, Field
<1>7. CASE UNCHANGED vars
  BY <1>7, SameIsQuiet DEF vars, disk
<1> QED
  BY <1>1, <1>2, <1>3, <1>4, <1>5, <1>6, <1>7 DEF Next, Step

LEMMA StepKeepsClaims ==
  ASSUME TypeOK, ReleaseInv, [Next]_vars, rec.assessed
  PROVE  IF rec'.assessed THEN rec.claims \subseteq rec'.claims
         ELSE Reviewer /\ rec.reviews > 0
<1> USE DEF ReleaseInv, MemoryInv, ClaimsInv, Saving, Moved, Continuation
<1>1. CASE SaveNext
  BY <1>1 DEF SaveNext, Write, Goto
<1>2. CASE SaveQa
  BY <1>2 DEF SaveQa, Write, Goto
<1>3. CASE SaveGate
  BY <1>3 DEF SaveGate, Write, Goto, Fetched, Assured
<1>4. CASE RecordBlockerFailure
  BY <1>4, FailureKeeps DEF RecordBlockerFailure, Write, Keeps, Field, TypeOK
<1>5. CASE Open
  BY <1>5, OpenKeeps DEF Open, Keeps, Field, TypeOK
<1>6. CASE Quiet
  BY <1>6 DEF Quiet, Noted, Keeps, Field
<1> QED
  BY <1>1, <1>2, <1>3, <1>4, <1>5, <1>6, QuietSteps

\* No accepted candidate gives up a verified claim, whatever was rejected,
\* repaired or interrupted before; only a release repair starts afresh.
THEOREM ClaimsAreNeverGivenUp == Spec => AcceptedClaimsNeverRegress
<1>1. TypeOK /\ ReleaseInv /\ [Next]_vars =>
        [rec.assessed =>
           IF rec'.assessed THEN rec.claims \subseteq rec'.claims
           ELSE Reviewer /\ rec.reviews > 0]_vars
  BY StepKeepsClaims
<1> QED
  BY <1>1, RunIsTyped, ReleaseInvariant, PTL DEF Spec, AcceptedClaimsNeverRegress

LEMMA StepCountsRepairs ==
  ASSUME TypeOK, ReleaseInv, [Next]_vars, rec'.repairs > rec.repairs
  PROVE  /\ rec'.repairs = rec.repairs + 1
         /\ \E f \in rec'.failures \ rec.failures :
              \A g \in rec.failures : g.ordinal # f.ordinal
<1> USE DEF ReleaseInv, MemoryInv, Saving, Continuation
<1>a. rec.repairs \in Nat
  BY FieldTypes DEF TypeOK
<1>1. CASE SaveNext
  BY <1>1, <1>a DEF SaveNext, Write, Goto
<1>2. CASE SaveQa
  BY <1>2, <1>a DEF SaveQa, Write, Goto
<1>3. CASE SaveGate
  BY <1>3, <1>a DEF SaveGate, Write, Goto, Fetched, Assured
<1>4. CASE RecordBlockerFailure
  <2>1. /\ rec'.failures = rec.failures \cup {ThisFailure}
        /\ rec'.repairs = IF RecordsTwice(rec, ThisFailure) THEN rec.repairs ELSE rec.repairs + 1
    BY <1>4, FailureKeeps DEF RecordBlockerFailure, Write, TypeOK
  <2>2. ~RecordsTwice(rec, ThisFailure)
    BY <1>a, <2>1
  <2>3. \A g \in rec.failures : g.ordinal # ThisFailure.ordinal
    BY <1>4, <2>2 DEF RecordBlockerFailure, Contradicts
  <2> QED
    BY <2>1, <2>2, <2>3 DEF RecordsTwice
<1>5. CASE Open
  BY <1>5, <1>a, OpenKeeps DEF Open, Keeps, Field, TypeOK
<1>6. CASE Quiet
  BY <1>6, <1>a DEF Quiet
<1> QED
  BY <1>1, <1>2, <1>3, <1>4, <1>5, <1>6, QuietSteps

\* A recovery taken up again, after any number of crashes, counts the failure
\* it answers no second time: each repair has an ordinal of its own.
THEOREM EachRepairAnswersOneFailure == Spec => RepairsCountFailures
<1>1. TypeOK /\ ReleaseInv /\ [Next]_vars =>
        [rec'.repairs > rec.repairs =>
           /\ rec'.repairs = rec.repairs + 1
           /\ \E f \in rec'.failures \ rec.failures :
                \A g \in rec.failures : g.ordinal # f.ordinal]_vars
  BY StepCountsRepairs
<1> QED
  BY <1>1, RunIsTyped, ReleaseInvariant, PTL DEF Spec, RepairsCountFailures

-----------------------------------------------------------------------------
(* What the save of the gate evidence can unbind *)

\* From the reading of the record to the save of the gate evidence at most
\* one ordinal is bound that the copy lacks, and no rejected ref is created.
Early == {"snapshot", "open", "assure", "qa", "gate"}

NamesInv ==
  /\ \A o \in DOMAIN rejected : o <= Len(rec.opened)
  /\ pc \in {"snapshot", "open"} => run.opened = rec.opened
  /\ pc \in Early =>
       /\ Len(rec.opened) <= Len(run.opened) + 1
       /\ \A o \in DOMAIN rejected : o <= Len(run.opened)

LEMMA EarlySteps ==
  ASSUME [Next]_vars, pc' \in Early
  PROVE  \/ pc = "idle" /\ run' = rec
         \/ pc \in Early /\ run' = run /\ (pc' \in {"snapshot", "open"} => pc \in {"snapshot", "open"})
<1> USE DEF Write, WriteTransition, Fail, Throws, Reject, Goto, memory, Early
<1>1. CASE Planning
  BY <1>1 DEF Planning, CallPlanner, CallRole, Begins, Plan, RoleFails, Stop, SaveNext, Continuation
<1>2. CASE Developing
  BY <1>2 DEF Developing, CallDeveloper, CallRole, Begins, RoleFails, Snapshot,
              SnapshotConflicts, Open, OpenFails, ChecksFail, SurfaceDiverges, ChecksPass,
              AcceptDeveloped, CloseEpisode
<1>3. CASE Assuring
  BY <1>3 DEF Assuring, ReopenCandidate, Begins, CallQa, RoleFails, TreeModified, QaReports,
              SaveGate, ReviewIsKnown, ConsumeAttempt, ReviewerApproves,
              ReviewerObjects, ReviewIsBlocked, RepairRelease, Decide,
              DecideRegression, CompleteQa, SaveQa
<1>4. CASE Recovering
  BY <1>4 DEF Recovering, Retain, Unstage, RecordBlockerFailure, RecoveryThrows,
              Rollback, RollbackFails, CompleteIsolated, CompleteRejected, Exhaust, Replan
<1>5. CASE Ending
  BY <1>5 DEF Ending, ResolveIsolation, Deploy, DeployRefused, Begins
<1>6. CASE OperatorRestores \/ RecordApproval \/ Crash
  BY <1>6 DEF OperatorRestores, RecordApproval, Crash
<1>7. CASE UNCHANGED vars
  BY <1>7 DEF vars
<1> QED
  BY <1>1, <1>2, <1>3, <1>4, <1>5, <1>6, <1>7 DEF Next, Step

\* What becomes of the bindings in a step.
LEMMA OpenedAfter ==
  ASSUME IInv, [Next]_vars
  PROVE  \/ rec'.opened = rec.opened
         \/ Open /\ \E e \in SnapshotAttempt : rec'.opened = Append(rec.opened, e)
         \/ SaveGate /\ rec' = run
<1>a. TypeOK /\ rec.opened \in Seq(SnapshotAttempt)
  BY FieldTypes DEF IInv, WorkInv, TypeOK
<1>1. CASE SaveNext \/ SaveQa
  BY <1>1 DEF SaveNext, SaveQa, Write, Goto, IInv, RejectionInv
<1>2. CASE RecordBlockerFailure
  BY <1>2, <1>a, FailureKeeps DEF RecordBlockerFailure, Write, Keeps, Field, TypeOK
<1>3. CASE Open
  <2> DEFINE e == [iteration |-> run.iteration, commit |-> refs[cand.ref]]
  <2>1. rec' = rec \/ rec' = [rec EXCEPT !.opened = Append(rec.opened, e)]
    BY <1>3 DEF Open, OpenAttempt
  <2>2. rec'.opened \in {rec.opened, Append(rec.opened, e)}
    BY <2>1, <1>a, FieldsOfRecord DEF TypeOK, Field
  <2>3. e \in SnapshotAttempt
    BY <1>3, <1>a, FieldTypes, ResolvedCommit DEF Open, SnapshotAttempt, TypeOK
  <2> QED
    BY <1>3, <2>2, <2>3
<1>4. CASE SaveGate
  BY <1>4 DEF SaveGate, Write
<1>5. CASE Quiet
  BY <1>5 DEF Quiet, Noted, Keeps, Field
<1> QED
  BY <1>a, <1>1, <1>2, <1>3, <1>4, <1>5, QuietSteps

LEMMA StepKeepsNamesInv == IInv /\ NamesInv /\ [Next]_vars => NamesInv'
<1> SUFFICES ASSUME IInv, NamesInv, [Next]_vars PROVE NamesInv'
  OBVIOUS
<1>a. /\ rec.opened \in Seq(SnapshotAttempt) /\ run.opened \in Seq(SnapshotAttempt)
      /\ DOMAIN rejected \subseteq Nat
  BY FieldTypes DEF IInv, WorkInv, TypeOK, Ordinal
<1>1. CASE Retain
  <2>1. attempt.ordinal <= Len(rec.opened)
    BY <1>1 DEF Retain, Goto, IInv, RejectionInv, Bound
  <2>2. pc' \notin Early /\ rec' = rec
    BY <1>1 DEF Retain, Goto, Early
  <2>3. DOMAIN rejected' = DOMAIN rejected \cup {attempt.ordinal}
    BY <1>1 DEF Retain
  <2> QED
    BY <2>1, <2>2, <2>3 DEF NamesInv, Early
<1>2. CASE SaveGate
  <2>1. pc \in Early /\ pc' \notin Early /\ rec' = run
    BY <1>2 DEF SaveGate, Write, Goto, Early
  <2> QED
    BY <1>2, <2>1 DEF NamesInv, SaveGate, Write, Early
<1>3. CASE Open
  <2>1. pc = "open" /\ pc' \in {"check", "assure"} /\ UNCHANGED <<run, rejected>>
    BY <1>3 DEF Open, Goto
  <2>2. PICK n \in {Len(rec.opened), Len(rec.opened) + 1} : Len(rec'.opened) = n
    BY <1>3, <1>a, OpenedAfter DEF Open, SaveGate, Write, Goto
  <2> QED
    BY <1>a, <2>1, <2>2 DEF NamesInv, Early
<1>4. CASE ~Retain /\ ~SaveGate /\ ~Open
  <2>1. rec'.opened = rec.opened /\ rejected' = rejected
    BY <1>4, OpenedAfter, OnlyRetainRejects
  <2>2. CASE pc' \in Early
    BY <1>a, <2>1, <2>2, EarlySteps DEF NamesInv, Early
  <2>3. CASE pc' \notin Early
    BY <2>1, <2>3 DEF NamesInv, Early
  <2> QED
    BY <2>2, <2>3
<1> QED
  BY <1>1, <1>2, <1>3, <1>4

LEMMA NamesInvariant == Spec => []NamesInv
<1>1. Init => NamesInv
  BY CreatedType DEF Init, NamesInv, Early
<1> QED
  BY <1>1, StepKeepsNamesInv, RunInvariant, PTL DEF Spec

LEMMA StepUnbindsVerified ==
  ASSUME IInv, NamesInv, [Next]_vars, NEW o \in 1..Len(rec.opened)
  PROVE  \/ o <= Len(rec'.opened) /\ rec'.opened[o] = rec.opened[o]
         \/ /\ o = Len(rec.opened) /\ ~Retained(o)
            /\ pc = "gate" /\ verdict.verified = Claims
<1>a. rec.opened \in Seq(SnapshotAttempt) /\ run.opened \in Seq(SnapshotAttempt)
  BY FieldTypes DEF IInv, WorkInv, TypeOK
<1>1. CASE rec'.opened = rec.opened
  BY <1>a, <1>1
<1>2. ASSUME NEW e \in SnapshotAttempt, rec'.opened = Append(rec.opened, e)
      PROVE  o <= Len(rec'.opened) /\ rec'.opened[o] = rec.opened[o]
  BY <1>a, <1>2
<1>3. CASE SaveGate /\ rec' = run
  <2>1. pc = "gate" /\ verdict.verified = Claims /\ RunIsPrefix
    BY <1>3 DEF SaveGate, Write, Goto, IInv, RejectionInv
  <2>2. Len(rec.opened) <= Len(run.opened) + 1 /\ \A r \in DOMAIN rejected : r <= Len(run.opened)
    BY <2>1 DEF NamesInv, Early
  <2> QED
    BY <1>a, <1>3, <2>1, <2>2 DEF RunIsPrefix, Retained
<1> QED
  BY <1>1, <1>2, <1>3, OpenedAfter

\* With any roles, limits and crashes only the ordinal bound last can be
\* forgotten, of a candidate verified on every claim and rejected under no
\* ref; whatever a rejected ref is named by stays bound to its commit.
THEOREM RejectedOrdinalsStayBound == Spec => OnlyVerifiedIsUnbound
<1>1. IInv /\ NamesInv /\ [Next]_vars =>
        [\A o \in 1..Len(rec.opened) :
           \/ o <= Len(rec'.opened) /\ rec'.opened[o] = rec.opened[o]
           \/ /\ o = Len(rec.opened) /\ ~Retained(o)
              /\ pc = "gate" /\ verdict.verified = Claims]_vars
  BY StepUnbindsVerified
<1> QED
  BY <1>1, RunInvariant, NamesInvariant, PTL DEF Spec, OnlyVerifiedIsUnbound

-----------------------------------------------------------------------------
(* Refs, worktree and journal of a run that is not interrupted *)

AtHand == {"check", "accept", "retain"} \cup Assured
Iterating == {"planned", "candidate", "candidate-isolation-required"}
Releasing == {"candidate", "ready", "approval-paused", "deploying"}

Target(r) == IF r.preservation = NoCandidate THEN BaseCandidate ELSE r.preservation

\* The preserved candidate is intact, and its iteration is over.
Kept(r) ==
  r.preservation # NoCandidate => refs[r.preservation.ref] = r.preservation.tree
Past(r) == r.preservation.ref <= r.iteration
Before(r) == r.preservation.ref < r.iteration

\* Only the stage ref of the current iteration moves; what is preserved was
\* stored under the ref of an earlier one.
RefsInv ==
  /\ refs[-1] = 0
  /\ Kept(rec) /\ Past(rec)
  /\ pc \in Saving => Kept(next) /\ Past(next)
  /\ pc \in Developed \cup Assured \cup Rejected => Before(rec)
  /\ pc # "savePlan" /\ rec.state \in Iterating => Before(rec)
  /\ pc \in DOMAIN Moved \ {"saveRepair"} => Before(next)
  /\ pc \in AtHand \cup {"open", "unstage"} => cand.ref = rec.iteration
  /\ pc \in {"gate", "review", "answer", "decide"} => refs[cand.ref] = cand.tree
  /\ pc \in {"idle", "closeEpisode"} /\ rec.state = "candidate" =>
       rec.candidate.ref = rec.iteration
  /\ pc = "saveAccepted" => next.candidate.ref = next.iteration

\* From its snapshot on a candidate is what the worktree holds.
WorktreeInv ==
  /\ pc \in AtHand \cup {"open", "repair"} => cand.tree = worktree
  /\ pc \in {"saveAccepted", "saveRepair", "completeQa", "saveQa"} =>
       next.candidate.tree = worktree
  /\ pc \in {"idle", "closeEpisode"} /\ rec.state \in Releasing =>
       rec.candidate.tree = worktree

\* The ordinal whose rejection is not completed yet.
Unfinished ==
  IF \/ pc \in {"unstage", "record", "rollback", "completeRejected"}
     \/ pc = "saveIsolation" /\ next.restoreTarget # NoCandidate
     \/ pc = "completeIsolated" /\ rec.restoreTarget # NoCandidate
  THEN {attempt.ordinal} ELSE {}

\* A rejected ordinal is completed and never opened again, so a rejection
\* meets neither a rejected ref nor a counted failure of its own.
RetainInv ==
  /\ DOMAIN rejected \subseteq 1..Len(rec.opened)
  /\ DOMAIN rejected \subseteq rec.completed \cup Unfinished
  /\ pc \in Saving => DOMAIN rejected \subseteq next.completed \cup Unfinished
  /\ pc \in {"snapshot", "open", "assure", "qa", "gate"} =>
       DOMAIN rejected \subseteq (1..Len(run.opened)) \cap run.completed
  /\ pc \in AtHand =>
       /\ attempt.ordinal \notin DOMAIN rejected
       /\ Resolves(cand) /\ refs[cand.ref] = attempt.commit
  /\ pc \in {"unstage", "record"} => \A f \in rec.failures : f.ordinal # attempt.ordinal

\* What the next Developer may find.
Good(r) ==
  \/ worktree = Target(r).tree
  \/ ~r.assessed /\ r.reviews > 0 /\ worktree = r.candidate.tree
  \/ Conflicts /\ NeverSnapshot

Isolated(r) ==
  /\ r.restoreTarget \in {NoCandidate, Target(r)}
  /\ r.restoreTarget = NoCandidate => Conflicts /\ NeverSnapshot

StartInv ==
  /\ pc = "idle" /\ rec.state \in {"created", "qa", "planned"} => Good(rec)
  /\ pc = "plan" => Good(rec)
  /\ pc \in Saving /\ next.state \in {"qa", "planned"} => Good(next)
  /\ pc \in {"completeRejected", "exhaust", "replan"} => worktree = Target(rec).tree
  /\ pc \in {"idle", "completeIsolated"} /\ rec.state = "candidate-isolation-required" =>
       Isolated(rec)
  /\ pc = "saveIsolation" => Isolated(next)
  /\ pc = "snapshot" => NeverSnapshot
  /\ worktree <= edits
  /\ \A r \in DOMAIN refs : refs[r] <= edits
  /\ \A o \in DOMAIN rejected : rejected[o] <= edits

CalmInv == RefsInv /\ WorktreeInv /\ RetainInv /\ StartInv

LEMMA InitEstablishesCalmInv == Init => CalmInv
<1> SUFFICES ASSUME Init PROVE CalmInv
  OBVIOUS
<1>a. -1 \in -1..MaxIterations /\ refs[-1] = 0
  BY StoreAssumption DEF Init, StoreAssumption
<1> USE DEF Init, Created, NoCandidate, BaseCandidate, Developed, Assured, Rejected, Saving,
            Continuation, Moved, AtHand, Iterating, Releasing
<1>1. RefsInv
  BY <1>a DEF RefsInv, Kept, Past
<1>2. WorktreeInv /\ RetainInv
  BY DEF WorktreeInv, RetainInv, Unfinished
<1>3. StartInv
  BY DEF StartInv, Good, Target, Absent
<1> QED
  BY <1>1, <1>2, <1>3 DEF CalmInv

\* Types the steps below rely on.
LEMMA CandidateFields ==
  /\ \A c \in CandidateSnapshot : c.ref \in Int /\ c.tree \in Nat
  /\ \A c \in CandidateSnapshot : c.ref >= 0 => c.ref \in -1..MaxIterations /\ c # NoCandidate
  /\ \A c \in CandidateSnapshot : c # NoCandidate => c.ref \in -1..MaxIterations
  /\ -1 \in -1..MaxIterations
  BY StoreAssumption
     DEF CandidateSnapshot, NoCandidate, BaseCandidate, Content, StoreAssumption

LEMMA RecordFields ==
  ASSUME NEW r \in RunRecord
  PROVE  /\ r.iteration \in Nat /\ r.iteration <= MaxIterations
         /\ r.candidate \in CandidateSnapshot /\ r.preservation \in CandidateSnapshot
         /\ r.restoreTarget \in CandidateSnapshot
         /\ r.candidate.ref \in Int /\ r.preservation.ref \in Int
         /\ r.opened \in Seq(SnapshotAttempt) /\ Len(r.opened) \in Nat /\ r.reviews \in Nat
         /\ Target(r) \in CandidateSnapshot /\ Target(r) # NoCandidate
<1>1. r.iteration \in 0..MaxIterations
  BY FieldTypes
<1>2. /\ r.candidate \in CandidateSnapshot /\ r.preservation \in CandidateSnapshot
      /\ r.restoreTarget \in CandidateSnapshot
      /\ r.opened \in Seq(SnapshotAttempt) /\ r.reviews \in Nat
  BY FieldTypes
<1>3. BaseCandidate \in CandidateSnapshot /\ BaseCandidate # NoCandidate
  BY DEF CandidateSnapshot, BaseCandidate, NoCandidate
<1>4. Target(r) \in CandidateSnapshot /\ Target(r) # NoCandidate
  BY <1>2, <1>3 DEF Target
<1> QED
  BY <1>1, <1>2, <1>4, CandidateFields, StoreAssumption DEF StoreAssumption

\* What is preserved can be restored.
LEMMA TargetIsIntact ==
  ASSUME TypeOK, RefsInv, NEW r \in RunRecord, Kept(r)
  PROVE  refs[Target(r).ref] = Target(r).tree
  BY DEF RefsInv, Kept, Target, BaseCandidate

LEMMA EndKeepsCalmInv ==
  ASSUME TypeOK, CalmInv, pc \in {"idle"} \cup Developed \cup Assured \cup {"plan"},
         NEW from, NEW state \in Terminal, NEW reason,
         Write(from, End(rec, state, reason), "idle")
  PROVE  CalmInv'
<1>1. Keeps(rec', rec, {"state", "reason"}) /\ rec'.state \in Terminal /\ pc' = "idle"
      /\ UNCHANGED <<refs, rejected, worktree, next, run, cand, attempt, edits>>
  BY EndKeeps DEF TypeOK, Write, Goto, memory
<1> USE <1>1 DEF CalmInv, Keeps, Field, Developed, Assured, Rejected, Saving, Continuation,
                 Moved, Terminal, AtHand, Iterating, Releasing
<1>2. RefsInv'
  BY DEF RefsInv, Kept, Past
<1>3. WorktreeInv' /\ RetainInv'
  BY DEF WorktreeInv, RetainInv, Unfinished
<1>4. StartInv'
  BY DEF StartInv
<1> QED
  BY <1>2, <1>3, <1>4

LEMMA PlanningKeepsCalmInv ==
  IInv /\ ReleaseInv /\ CalmInv /\ Planning => CalmInv'
<1> SUFFICES ASSUME IInv, ReleaseInv, CalmInv, Planning PROVE CalmInv'
  OBVIOUS
<1>a. TypeOK /\ rec \in RunRecord /\ rec.iteration \in Nat /\ rec.preservation.ref \in Int
  BY RecordFields DEF IInv, WorkInv, TypeOK
<1> USE DEF CalmInv, Keeps, Field, Developed, Assured, Rejected, Saving, Continuation,
            Moved, Terminal, AtHand, Iterating, Releasing
<1>1. CASE CallPlanner
  <2>1. /\ Keeps(rec', rec, {"charged"}) /\ run' = rec
        /\ pc = "idle" /\ pc' = "plan" /\ rec.state \in {"created", "qa"}
        /\ UNCHANGED <<refs, rejected, worktree, next, cand, attempt, edits>>
    BY <1>1, <1>a, ChargeKeeps DEF CallPlanner, CallRole, Begins
  <2>2. RefsInv'
    BY <2>1 DEF RefsInv, Kept, Past
  <2>3. WorktreeInv' /\ RetainInv'
    BY <2>1 DEF WorktreeInv, RetainInv, Unfinished
  <2>4. StartInv'
    BY <2>1 DEF StartInv, Good, Target, NeverSnapshot
  <2> QED
    BY <2>2, <2>3, <2>4
<1>2. CASE Plan
  <2>1. /\ Keeps(rec', rec, {"state"}) /\ rec'.state = "planned"
        /\ Keeps(next', rec, {"state", "iteration"}) /\ next'.state = "planned"
        /\ next'.iteration = rec.iteration + 1
        /\ pc = "plan" /\ pc' = "savePlan"
        /\ UNCHANGED <<refs, rejected, worktree, run, cand, attempt, edits>>
    BY <1>2, <1>a, FieldsOfRecord DEF Plan, WriteTransition, Goto, Transition
  <2>2. RefsInv'
    BY <1>a, <2>1 DEF RefsInv, Kept, Past, Before
  <2>3. WorktreeInv' /\ RetainInv'
    BY <2>1 DEF WorktreeInv, RetainInv, Unfinished
  <2>4. StartInv'
    BY <2>1 DEF StartInv, Good, Target, NeverSnapshot
  <2> QED
    BY <2>2, <2>3, <2>4
<1>3. CASE RoleFails("plan")
  BY <1>3, <1>a, EndKeepsCalmInv DEF RoleFails, Fail, Write, Goto
<1>4. CASE Stop
  BY <1>4, <1>a, EndKeepsCalmInv DEF Stop, Write, Goto
<1>5. CASE SaveNext
  <2>1. /\ rec' = next /\ pc \in DOMAIN Continuation /\ pc' = Continuation[pc]
        /\ UNCHANGED <<refs, rejected, worktree, next, run, cand, attempt, edits>>
    BY <1>5 DEF SaveNext, Write, Goto, memory
  <2>2. next.state = Moved[pc] /\ next.opened = rec.opened
    BY <2>1 DEF ReleaseInv, MemoryInv, IInv, RejectionInv
  <2>3. RefsInv'
    BY <2>1, <2>2 DEF RefsInv, Kept, Past, Before
  <2>4. WorktreeInv'
    BY <2>1, <2>2 DEF WorktreeInv
  <2>5. RetainInv'
    BY <2>1, <2>2 DEF RetainInv, Unfinished
  <2>6. StartInv'
    BY <2>1, <2>2 DEF StartInv, Good, Target, NeverSnapshot, Isolated
  <2> QED
    BY <2>3, <2>4, <2>5, <2>6
<1> QED
  BY <1>1, <1>2, <1>3, <1>4, <1>5 DEF Planning

LEMMA RejectKeepsCalmInv ==
  ASSUME TypeOK, ReleaseInv, CalmInv, NEW from \in {"check", "assure", "qa"}, NEW kind,
         Reject(from, kind)
  PROVE  CalmInv'
<1>1. pc = from /\ pc' = "retain"
      /\ UNCHANGED <<rec, refs, rejected, worktree, next, run, cand, attempt, edits>>
  BY DEF Reject, Goto, disk
<1> USE <1>1 DEF CalmInv, Developed, Assured, Rejected, Saving, Continuation, Moved,
                 AtHand, Iterating, Releasing
<1>2. RefsInv'
  BY DEF RefsInv, Kept, Past, Before
<1>3. WorktreeInv' /\ RetainInv'
  BY DEF WorktreeInv, RetainInv, Unfinished, Resolves
<1>4. StartInv'
  BY DEF StartInv
<1> QED
  BY <1>2, <1>3, <1>4

\* A snapshot moves the ref of the current iteration and no other.
LEMMA SnapshotKeepsCalmInv ==
  IInv /\ ReleaseInv /\ CalmInv /\ Snapshot => CalmInv'
<1> SUFFICES ASSUME IInv, ReleaseInv, CalmInv, Snapshot PROVE CalmInv'
  OBVIOUS
<1> USE DEF CalmInv, Developed, Assured, Rejected, Saving, Continuation, Moved,
            AtHand, Iterating, Releasing
<1>a. /\ TypeOK /\ rec \in RunRecord /\ rec.preservation \in CandidateSnapshot
      /\ rec.iteration \in Nat /\ rec.iteration <= MaxIterations
      /\ refs \in [-1..MaxIterations -> Content \cup {Absent}]
  BY RecordFields DEF IInv, WorkInv, TypeOK
<1>b. rec.iteration \in -1..MaxIterations /\ MaxIterations \in Nat
  BY <1>a, StoreAssumption DEF StoreAssumption
<1>1. /\ pc = "snapshot" /\ pc' = "open" /\ run.iteration = rec.iteration
      /\ rec.state = "planned"
      /\ refs' = [refs EXCEPT ![rec.iteration] = worktree]
      /\ cand' = [ref |-> rec.iteration, tree |-> worktree]
      /\ UNCHANGED <<rec, rejected, worktree, next, run, attempt, edits>>
  BY DEF Snapshot, Goto, ReleaseInv, MemoryInv, Fetched
<1>2. Before(rec)
  BY <1>1 DEF RefsInv
<1>3. RefsInv'
  <2>1. refs'[-1] = 0
    BY <1>1, <1>a, <1>b, CandidateFields DEF RefsInv
  <2>2. Kept(rec)'
    BY <1>1, <1>2, <1>a, CandidateFields DEF RefsInv, Kept, Before
  <2> QED
    BY <1>1, <1>2, <2>1, <2>2 DEF RefsInv, Past, Before
<1>4. WorktreeInv' /\ RetainInv'
  BY <1>1 DEF WorktreeInv, RetainInv, Unfinished
<1>5. StartInv'
  BY <1>1, <1>a DEF StartInv
<1> QED
  BY <1>3, <1>4, <1>5

\* An ordinal that is opened, or resumed, was never rejected.
LEMMA OpenKeepsCalmInv ==
  IInv /\ ReleaseInv /\ CalmInv /\ Open => CalmInv'
<1> SUFFICES ASSUME IInv, ReleaseInv, CalmInv, Open PROVE CalmInv'
  OBVIOUS
<1> USE DEF CalmInv, Developed, Assured, Rejected, Saving, Continuation, Moved,
            AtHand, Iterating, Releasing
<1>a. /\ TypeOK /\ rec \in RunRecord /\ run.iteration \in 0..MaxIterations
      /\ cand \in CandidateSnapshot /\ rec.opened \in Seq(SnapshotAttempt)
  BY RecordFields, FieldTypes DEF IInv, WorkInv, TypeOK
<1>1. /\ Keeps(rec', rec, {"opened"}) /\ pc = "open"
      /\ pc' = IF rec.state = "planned" THEN "check" ELSE "assure"
      /\ Resolves(cand) /\ attempt'.commit = refs[cand.ref]
      /\ attempt'.ordinal = Len(rec'.opened)
      /\ UNCHANGED <<refs, rejected, worktree, next, run, cand, edits>>
  BY <1>a, OpenKeeps DEF Open, Goto, ReleaseInv, MemoryInv, Fetched
<1>2. refs[cand.ref] \in Content
  BY <1>a, <1>1, ResolvedCommit
<1>3. RefsInv'
  BY <1>1 DEF RefsInv, Kept, Past, Before, Keeps, Field
<1>4. WorktreeInv'
  BY <1>1 DEF WorktreeInv, Keeps, Field
<1>5. DOMAIN rejected \subseteq rec.completed /\ DOMAIN rejected \subseteq 1..Len(rec.opened)
  BY <1>1 DEF RetainInv, Unfinished
<1>6. Len(rec'.opened) \notin DOMAIN rejected /\ Len(rec.opened) <= Len(rec'.opened)
  <2> DEFINE e == [iteration |-> run.iteration, commit |-> refs[cand.ref]]
  <2>1. CASE ResumesAttempt(rec, run.iteration, refs[cand.ref])
    BY <1>a, <1>5, <2>1 DEF Open, OpenAttempt, ResumesAttempt
  <2>2. CASE ~ResumesAttempt(rec, run.iteration, refs[cand.ref])
    <3>1. rec' = [rec EXCEPT !.opened = Append(rec.opened, e)]
      BY <2>2 DEF Open, OpenAttempt
    <3>2. e \in SnapshotAttempt
      BY <1>a, <1>2 DEF SnapshotAttempt
    <3> HIDE DEF e
    <3>3. rec'.opened = Append(rec.opened, e)
      BY <1>a, <3>1, FieldsOfRecord DEF Field
    <3>4. Len(rec'.opened) = Len(rec.opened) + 1 /\ Len(rec.opened) \in Nat
      BY <1>a, <3>2, <3>3
    <3> QED
      BY <1>5, <3>4
  <2> QED
    BY <2>1, <2>2
<1>7. RetainInv'
  <2>1. Len(rec.opened) \in Nat /\ Len(rec'.opened) \in Nat
    BY <1>a, OpenType, <1>2 DEF Open, Ordinal
  <2>2. DOMAIN rejected \subseteq 1..Len(rec'.opened)
    BY <1>5, <1>6, <2>1
  <2>3. rec'.completed = rec.completed /\ pc' \in {"check", "assure"}
    BY <1>1 DEF Keeps, Field
  <2>4. DOMAIN rejected \subseteq (1..Len(run.opened)) \cap run.completed
    BY <1>1 DEF RetainInv
  <2> QED
    BY <1>1, <1>5, <1>6, <2>2, <2>3, <2>4 DEF RetainInv, Unfinished, Resolves
<1>8. StartInv'
  BY <1>1 DEF StartInv, Keeps, Field
<1> QED
  BY <1>3, <1>4, <1>7, <1>8

LEMMA DevelopingKeepsCalmInv ==
  IInv /\ ReleaseInv /\ CalmInv /\ Developing => CalmInv'
<1> SUFFICES ASSUME IInv, ReleaseInv, CalmInv, Developing PROVE CalmInv'
  OBVIOUS
<1>a. TypeOK /\ rec \in RunRecord /\ worktree \in Nat /\ edits \in Nat
  BY DEF IInv, WorkInv, TypeOK, Content
<1> USE DEF CalmInv, Keeps, Field, Developed, Assured, Rejected, Saving, Continuation,
            Moved, Terminal, AtHand, Iterating, Releasing
<1>1. CASE CallDeveloper
  <2>1. /\ Keeps(rec', rec, {"charged"}) /\ run' = rec
        /\ pc = "idle" /\ pc' = "snapshot" /\ rec.state = "planned"
        /\ edits' = edits + 1 /\ worktree' = edits'
        /\ UNCHANGED <<refs, rejected, next, cand, attempt>>
    BY <1>1, <1>a, ChargeKeeps DEF CallDeveloper, CallRole, Begins
  <2>2. RefsInv'
    BY <2>1 DEF RefsInv, Kept, Past, Before
  <2>3. WorktreeInv' /\ RetainInv'
    BY <2>1 DEF WorktreeInv, RetainInv, Unfinished
  <2>4. StartInv'
    <3>1. /\ \A r \in DOMAIN refs : refs[r] \in Int
          /\ \A o \in DOMAIN rejected : rejected[o] \in Int
      BY <1>a DEF TypeOK, Content, Absent
    <3> QED
      BY <1>a, <2>1, <3>1 DEF StartInv, NeverSnapshot
  <2> QED
    BY <2>2, <2>3, <2>4
<1>2. CASE RoleFails("snapshot") \/ OpenFails
  BY <1>2, <1>a, EndKeepsCalmInv DEF RoleFails, OpenFails, Fail, Write, Goto
<1>3. CASE Snapshot
  BY <1>3, SnapshotKeepsCalmInv
<1>4. CASE SnapshotConflicts
  <2>1. /\ Keeps(rec', rec, {"state"}) /\ Keeps(next', rec, {"state", "restoreTarget"})
        /\ rec'.state = "candidate-isolation-required" /\ next'.state = rec'.state
        /\ next'.restoreTarget = NoCandidate /\ Conflicts
        /\ pc = "snapshot" /\ pc' = "saveIsolation"
        /\ UNCHANGED <<refs, rejected, worktree, run, cand, attempt, edits>>
    BY <1>4, <1>a, FieldsOfRecord DEF SnapshotConflicts, WriteTransition, Goto, Transition
  <2>2. RefsInv'
    BY <2>1 DEF RefsInv, Kept, Past, Before
  <2>3. WorktreeInv' /\ RetainInv'
    BY <2>1 DEF WorktreeInv, RetainInv, Unfinished
  <2>4. StartInv'
    BY <2>1 DEF StartInv, Isolated, NeverSnapshot
  <2> QED
    BY <2>2, <2>3, <2>4
<1>5. CASE Open
  BY <1>5, OpenKeepsCalmInv
<1>6. CASE ChecksFail \/ SurfaceDiverges
  BY <1>6, <1>a, RejectKeepsCalmInv DEF ChecksFail, SurfaceDiverges
<1>7. CASE ChecksPass
  <2>1. /\ Keeps(rec', rec, {"completed"}) /\ rec.completed \subseteq rec'.completed
        /\ pc = "check" /\ pc' = "accept"
        /\ UNCHANGED <<refs, rejected, worktree, next, run, cand, attempt, edits>>
    BY <1>7, <1>a, CompleteKeeps DEF ChecksPass, Write, Goto, memory
  <2>2. RefsInv'
    BY <2>1 DEF RefsInv, Kept, Past, Before
  <2>3. WorktreeInv' /\ RetainInv'
    BY <2>1 DEF WorktreeInv, RetainInv, Unfinished, Resolves
  <2>4. StartInv'
    BY <2>1 DEF StartInv
  <2> QED
    BY <2>2, <2>3, <2>4
<1>8. CASE AcceptDeveloped
  <2>1. /\ Keeps(rec', rec, {"state"}) /\ Keeps(next', rec, {"state", "candidate"})
        /\ rec'.state = "candidate" /\ next'.state = rec'.state /\ next'.candidate = cand
        /\ pc = "accept" /\ pc' = "saveAccepted"
        /\ UNCHANGED <<refs, rejected, worktree, run, cand, attempt, edits>>
    BY <1>8, <1>a, FieldsOfRecord DEF AcceptDeveloped, WriteTransition, Goto, Transition
  <2>2. RefsInv'
    BY <2>1 DEF RefsInv, Kept, Past, Before
  <2>3. WorktreeInv' /\ RetainInv'
    BY <2>1 DEF WorktreeInv, RetainInv, Unfinished
  <2>4. StartInv'
    BY <2>1 DEF StartInv
  <2> QED
    BY <2>2, <2>3, <2>4
<1>9. CASE CloseEpisode
  <2>1. /\ Keeps(rec', rec, {"repairs"}) /\ pc = "closeEpisode" /\ pc' = "idle"
        /\ rec.state = "candidate"
        /\ UNCHANGED <<refs, rejected, worktree, next, run, cand, attempt, edits>>
    BY <1>9, <1>a, CloseKeeps
       DEF CloseEpisode, Write, Goto, memory, ReleaseInv, MemoryInv
  <2>2. RefsInv'
    BY <2>1 DEF RefsInv, Kept, Past, Before
  <2>3. WorktreeInv' /\ RetainInv'
    BY <2>1 DEF WorktreeInv, RetainInv, Unfinished
  <2>4. StartInv'
    BY <2>1 DEF StartInv
  <2> QED
    BY <2>2, <2>3, <2>4
<1> QED
  BY <1>1, <1>2, <1>3, <1>4, <1>5, <1>6, <1>7, <1>8, <1>9 DEF Developing

LEMMA DecideKeepsCalmInv ==
  IInv /\ ReleaseInv /\ CalmInv /\ (Decide \/ DecideRegression) => CalmInv'
<1> SUFFICES ASSUME IInv, ReleaseInv, CalmInv, Decide \/ DecideRegression PROVE CalmInv'
  OBVIOUS
<1> USE DEF CalmInv, Keeps, Field, Developed, Assured, Rejected, Saving, Continuation,
            Moved, AtHand, Iterating, Releasing
<1>a. /\ TypeOK /\ rec \in RunRecord /\ cand \in CandidateSnapshot /\ run.claims \subseteq Claims
      /\ rec.iteration \in Nat
  BY RecordFields, FieldTypes DEF IInv, WorkInv, TypeOK
<1>b. /\ pc = "decide" /\ rec.candidate = cand /\ rec.state = "candidate"
      /\ run.assessed = rec.assessed /\ run.claims = rec.claims
  BY DEF Decide, DecideRegression, Goto, ReleaseInv, MemoryInv, Fetched
<1>c. AcceptedState \in {"qa", "ready", "approval-paused"}
  BY AcceptedStates
<1>1. CASE Decide
  <2>1. /\ Keeps(rec', rec, {"state"}) /\ rec'.state = AcceptedState
        /\ Keeps(next', rec, {"state", "reason", "assessed", "claims", "stagnant",
                              "preservation", "decision", "manifest"})
        /\ next'.preservation = cand
    BY <1>1, <1>a, <1>b, DecideEffect DEF Decide, Regresses
  <2>2. /\ pc' = "completeQa"
        /\ UNCHANGED <<refs, rejected, worktree, run, cand, attempt, edits>>
    BY <1>1 DEF Decide, Goto
  <2>3. cand.ref = rec.iteration /\ refs[cand.ref] = cand.tree /\ cand.tree = worktree
    BY <1>b DEF RefsInv, WorktreeInv
  <2>4. cand # NoCandidate
    BY <1>a, <2>3 DEF NoCandidate
  <2>5. RefsInv'
    BY <1>a, <1>b, <1>c, <2>1, <2>2, <2>3 DEF RefsInv, Kept, Past, Before
  <2>6. WorktreeInv' /\ RetainInv'
    BY <1>b, <2>1, <2>2, <2>3 DEF WorktreeInv, RetainInv, Unfinished
  <2>7. StartInv'
    BY <1>b, <2>1, <2>2, <2>3, <2>4 DEF StartInv, Good, Target
  <2> QED
    BY <2>5, <2>6, <2>7
<1>2. CASE DecideRegression
  <2>1. ~Ready
    BY <1>2, <1>a DEF DecideRegression, Regresses, Ready
  <2>2. /\ Keeps(rec', rec, {"state"}) /\ rec'.state = "qa" /\ pc' = "retain"
        /\ UNCHANGED <<refs, rejected, worktree, next, run, cand, attempt, edits>>
    BY <1>2, <1>a, <2>1, TransitionKeeps, AcceptedStates DEF DecideRegression, Goto
  <2>3. RefsInv'
    BY <1>b, <2>2 DEF RefsInv, Kept, Past, Before
  <2>4. WorktreeInv' /\ RetainInv'
    BY <1>b, <2>2 DEF WorktreeInv, RetainInv, Unfinished, Resolves
  <2>5. StartInv'
    BY <1>b, <2>2 DEF StartInv
  <2> QED
    BY <2>3, <2>4, <2>5
<1> QED
  BY <1>1, <1>2

LEMMA AssuringKeepsCalmInv ==
  IInv /\ ReleaseInv /\ CalmInv /\ Assuring => CalmInv'
<1> SUFFICES ASSUME IInv, ReleaseInv, CalmInv, Assuring PROVE CalmInv'
  OBVIOUS
<1>a. TypeOK /\ rec \in RunRecord
  BY DEF IInv, WorkInv, TypeOK
<1> USE DEF CalmInv, Keeps, Field, Developed, Assured, Rejected, Saving, Continuation,
            Moved, AtHand, Iterating, Releasing
<1>1. CASE ReopenCandidate
  <2>1. /\ pc = "idle" /\ pc' = "open" /\ rec.state = "candidate" /\ rec' = rec
        /\ run' = rec /\ cand' = rec.candidate
        /\ UNCHANGED <<refs, rejected, worktree, next, attempt, edits>>
    BY <1>1 DEF ReopenCandidate, Begins, disk
  <2>2. RefsInv'
    BY <2>1 DEF RefsInv, Kept, Past, Before
  <2>3. WorktreeInv' /\ RetainInv'
    BY <2>1 DEF WorktreeInv, RetainInv, Unfinished
  <2>4. StartInv'
    BY <2>1 DEF StartInv
  <2> QED
    BY <2>2, <2>3, <2>4
<1>2. CASE CallQa
  <2>1. /\ Keeps(rec', rec, {"charged"}) /\ pc = "assure" /\ pc' = "qa"
        /\ UNCHANGED <<refs, rejected, worktree, next, run, cand, attempt, edits>>
    BY <1>2, <1>a, ChargeKeeps DEF CallQa, Write, Goto, memory
  <2>2. RefsInv'
    BY <2>1 DEF RefsInv, Kept, Past, Before
  <2>3. WorktreeInv' /\ RetainInv'
    BY <2>1 DEF WorktreeInv, RetainInv, Unfinished, Resolves
  <2>4. StartInv'
    BY <2>1 DEF StartInv
  <2> QED
    BY <2>2, <2>3, <2>4
<1>3. CASE RoleFails("qa") \/ RoleFails("answer") \/ ReviewIsBlocked
  BY <1>3, <1>a, EndKeepsCalmInv DEF RoleFails, ReviewIsBlocked, Fail, Write, Goto, Terminal
<1>4. CASE TreeModified
  BY <1>4, <1>a, RejectKeepsCalmInv DEF TreeModified
<1>5. CASE QaReports
  <2>1. /\ pc = "qa" /\ pc' \in {"gate", "decide"} /\ refs[cand.ref] = cand.tree
        /\ UNCHANGED <<rec, refs, rejected, worktree, next, run, cand, attempt, edits>>
    BY <1>5 DEF QaReports, Goto, disk
  <2>2. RefsInv'
    BY <2>1 DEF RefsInv, Kept, Past, Before
  <2>3. WorktreeInv' /\ RetainInv'
    BY <2>1 DEF WorktreeInv, RetainInv, Unfinished, Resolves
  <2>4. StartInv'
    BY <2>1 DEF StartInv
  <2> QED
    BY <2>2, <2>3, <2>4
<1>6. CASE SaveGate
  <2>1. /\ pc = "gate" /\ pc' = "review" /\ rec' = run /\ Fetched(run, rec)
        /\ UNCHANGED <<refs, rejected, worktree, next, run, cand, attempt, edits>>
    BY <1>6 DEF SaveGate, Write, Goto, memory, ReleaseInv, MemoryInv
  <2>2. RefsInv'
    BY <2>1 DEF RefsInv, Kept, Past, Before, Fetched
  <2>3. WorktreeInv' /\ RetainInv'
    BY <2>1 DEF WorktreeInv, RetainInv, Unfinished, Resolves
  <2>4. StartInv'
    BY <2>1 DEF StartInv, Fetched
  <2> QED
    BY <2>2, <2>3, <2>4
<1>7. CASE ReviewIsKnown \/ ConsumeAttempt \/ ReviewerApproves
  <2>1. /\ Keeps(rec', rec, {"charged", "reviews", "reviewed"})
        /\ pc \in {"review", "answer"} /\ pc' \in {"answer", "decide"}
        /\ UNCHANGED <<refs, rejected, worktree, next, run, cand, attempt, edits>>
    BY <1>7, <1>a, FieldsOfRecord
       DEF ReviewIsKnown, ConsumeAttempt, ReviewerApproves, Charge, Write, Goto, memory
  <2>2. RefsInv'
    BY <2>1 DEF RefsInv, Kept, Past, Before
  <2>3. WorktreeInv' /\ RetainInv'
    BY <2>1 DEF WorktreeInv, RetainInv, Unfinished, Resolves
  <2>4. StartInv'
    BY <2>1 DEF StartInv
  <2> QED
    BY <2>2, <2>3, <2>4
<1>8. CASE ReviewerObjects
  <2>1. CASE rec.reviews = BoundaryLimit
    BY <1>8, <1>a, <2>1, EndKeepsCalmInv DEF ReviewerObjects, Fail, Write, Goto, Terminal
  <2>2. CASE rec.reviews # BoundaryLimit
    <3>1. /\ pc = "answer" /\ pc' \in {"repair", "idle"} /\ rec' = rec
          /\ rec.candidate = cand /\ rec.state = "candidate"
          /\ UNCHANGED <<refs, rejected, worktree, next, run, cand, attempt, edits>>
      BY <1>8, <2>2 DEF ReviewerObjects, Write, Goto, memory, ReleaseInv, MemoryInv
    <3>2. RefsInv'
      BY <3>1 DEF RefsInv, Kept, Past, Before
    <3>3. WorktreeInv' /\ RetainInv'
      BY <3>1 DEF WorktreeInv, RetainInv, Unfinished
    <3>4. StartInv'
      BY <3>1 DEF StartInv
    <3> QED
      BY <3>2, <3>3, <3>4
  <2> QED
    BY <2>1, <2>2
<1>9. CASE RepairRelease
  <2>1. /\ Keeps(rec', rec, {"state"})
        /\ Keeps(next', rec, {"state", "assessed", "claims", "stagnant"})
        /\ rec'.state = "qa" /\ next'.state = rec'.state /\ ~next'.assessed
        /\ pc = "repair" /\ pc' = "saveRepair"
        /\ UNCHANGED <<refs, rejected, worktree, run, cand, attempt, edits>>
    BY <1>9, <1>a, FieldsOfRecord DEF RepairRelease, WriteTransition, Goto, Transition
  <2>2. rec.candidate = cand /\ rec.reviews > 0
    BY <2>1 DEF ReleaseInv, MemoryInv
  <2>3. RefsInv'
    BY <2>1 DEF RefsInv, Kept, Past, Before
  <2>4. WorktreeInv' /\ RetainInv'
    BY <2>1, <2>2 DEF WorktreeInv, RetainInv, Unfinished
  <2>5. StartInv'
    BY <2>1, <2>2 DEF StartInv, Good, WorktreeInv
  <2> QED
    BY <2>3, <2>4, <2>5
<1>10. CASE Decide \/ DecideRegression
  BY <1>10, DecideKeepsCalmInv
<1>11. CASE CompleteQa
  <2>1. /\ Keeps(rec', rec, {"completed"}) /\ rec.completed \subseteq rec'.completed
        /\ pc = "completeQa" /\ pc' = "saveQa"
        /\ UNCHANGED <<refs, rejected, worktree, next, run, cand, attempt, edits>>
    BY <1>11, <1>a, CompleteKeeps DEF CompleteQa, Write, Goto, memory
  <2>2. RefsInv'
    BY <2>1 DEF RefsInv, Kept, Past, Before
  <2>3. WorktreeInv' /\ RetainInv'
    BY <2>1 DEF WorktreeInv, RetainInv, Unfinished
  <2>4. StartInv'
    BY <2>1 DEF StartInv, Good, Target, NeverSnapshot
  <2> QED
    BY <2>2, <2>3, <2>4
<1>12. CASE SaveQa
  <2>1. /\ pc = "saveQa" /\ pc' = "idle" /\ rec' = next
        /\ next.opened = rec.opened
        /\ next.state \in {"qa", "ready", "approval-paused", "stopped"}
        /\ UNCHANGED <<refs, rejected, worktree, next, run, cand, attempt, edits>>
    BY <1>12 DEF SaveQa, Write, Goto, memory, ReleaseInv, MemoryInv, IInv, RejectionInv
  <2>2. RefsInv'
    BY <2>1 DEF RefsInv, Kept, Past, Before
  <2>3. WorktreeInv' /\ RetainInv'
    BY <2>1 DEF WorktreeInv, RetainInv, Unfinished
  <2>4. StartInv'
    BY <2>1 DEF StartInv, Good, Target, NeverSnapshot
  <2> QED
    BY <2>2, <2>3, <2>4
<1> QED
  BY <1>1, <1>2, <1>3, <1>4, <1>5, <1>6, <1>7, <1>8, <1>9, <1>10, <1>11, <1>12
     DEF Assuring

\* A rejection of an uninterrupted run is never refused.
LEMMA RecoveryNeverThrows ==
  IInv /\ CalmInv => ~RecoveryThrows
<1> SUFFICES ASSUME IInv, CalmInv, RecoveryThrows PROVE FALSE
  OBVIOUS
<1>1. CASE pc = "retain"
  BY <1>1 DEF RecoveryThrows, CanRetain, Retained, CalmInv, RetainInv, AtHand
<1>2. CASE pc = "record"
  <2>1. \A f \in rec.failures : f.ordinal # attempt.ordinal
    BY <1>2 DEF CalmInv, RetainInv
  <2> QED
    BY <1>2, <2>1 DEF RecoveryThrows, Contradicts, ThisFailure
<1> QED
  BY <1>1, <1>2 DEF RecoveryThrows

LEMMA RetainKeepsCalmInv ==
  IInv /\ ReleaseInv /\ CalmInv /\ (Retain \/ Unstage) => CalmInv'
<1> SUFFICES ASSUME IInv, ReleaseInv, CalmInv, Retain \/ Unstage PROVE CalmInv'
  OBVIOUS
<1> USE DEF CalmInv, Developed, Assured, Rejected, Saving, Continuation, Moved,
            AtHand, Iterating, Releasing
<1>a. /\ TypeOK /\ rec.preservation \in CandidateSnapshot /\ cand \in CandidateSnapshot
      /\ rec.iteration \in Nat /\ rec.iteration <= MaxIterations
      /\ attempt.ordinal \in Nat /\ refs \in [-1..MaxIterations -> Content \cup {Absent}]
  BY RecordFields DEF IInv, WorkInv, TypeOK
<1>1. CASE Retain
  <2>1. /\ pc = "retain" /\ pc' = "unstage"
        /\ rejected' = [o \in DOMAIN rejected \cup {attempt.ordinal} |->
                          IF o = attempt.ordinal THEN attempt.commit ELSE rejected[o]]
        /\ UNCHANGED <<rec, refs, worktree, next, run, cand, attempt, edits>>
    BY <1>1 DEF Retain, Goto, memory
  <2>2. /\ attempt.ordinal \notin DOMAIN rejected
        /\ refs[cand.ref] = attempt.commit /\ cand.ref \in DOMAIN refs
    BY <2>1 DEF RetainInv, Resolves
  <2>3. attempt.ordinal \in 1..Len(rec.opened)
    BY <2>1, <1>a DEF IInv, RejectionInv, Bound, WorkInv, AttemptAtHand, Ordinal
  <2>4. \A f \in rec.failures : f.ordinal # attempt.ordinal
    BY <2>2 DEF IInv, RejectionInv, RejectionsAreRetained, Retained
  <2>5. DOMAIN rejected' = DOMAIN rejected \cup {attempt.ordinal}
    BY <2>1
  <2>6. RefsInv' /\ WorktreeInv'
    BY <2>1 DEF RefsInv, WorktreeInv, Kept, Past, Before
  <2>7. RetainInv'
    BY <2>1, <2>3, <2>4, <2>5 DEF RetainInv, Unfinished
  <2>8. StartInv'
    BY <2>1, <2>2, <2>5 DEF StartInv
  <2> QED
    BY <2>6, <2>7, <2>8
<1>2. CASE Unstage
  <2>1. /\ pc = "unstage" /\ pc' = "record"
        /\ UNCHANGED <<rec, rejected, worktree, next, run, cand, attempt, edits>>
    BY <1>2 DEF Unstage, Goto, memory
  <2>2. cand.ref = rec.iteration /\ Before(rec)
    BY <2>1 DEF RefsInv
  <2>3. refs' = [refs EXCEPT ![rec.iteration] = Absent]
    BY <1>2, <1>a, <2>2, StoreAssumption DEF Unstage, StoreAssumption
  <2>4. refs'[-1] = 0
    BY <1>a, <2>3, CandidateFields DEF RefsInv
  <2>5. Kept(rec)'
    BY <1>a, <2>1, <2>2, <2>3, CandidateFields DEF RefsInv, Kept, Before
  <2>6. RefsInv' /\ WorktreeInv'
    BY <2>1, <2>2, <2>4, <2>5 DEF RefsInv, WorktreeInv, Past, Before
  <2>7. RetainInv'
    BY <2>1 DEF RetainInv, Unfinished
  <2>8. StartInv'
    <3>1. \A r \in DOMAIN refs' : refs'[r] <= edits
      BY <1>a, <2>3 DEF StartInv, Absent, TypeOK
    <3> QED
      BY <2>1, <3>1 DEF StartInv
  <2> QED
    BY <2>6, <2>7, <2>8
<1> QED
  BY <1>1, <1>2

LEMMA RecoveringKeepsCalmInv ==
  IInv /\ ReleaseInv /\ CalmInv /\ Recovering => CalmInv'
<1> SUFFICES ASSUME IInv, ReleaseInv, CalmInv, Recovering PROVE CalmInv'
  OBVIOUS
<1>a. /\ TypeOK /\ rec \in RunRecord
      /\ Target(rec) \in CandidateSnapshot /\ Target(rec) # NoCandidate
  BY RecordFields DEF IInv, WorkInv, TypeOK
<1>b. RollbackTarget = Target(rec)
  BY DEF RollbackTarget, Target
<1> USE DEF CalmInv, Keeps, Field, Developed, Assured, Rejected, Saving, Continuation,
            Moved, AtHand, Iterating, Releasing
<1>1. CASE Retain \/ Unstage
  BY <1>1, RetainKeepsCalmInv
<1>2. CASE RecordBlockerFailure
  <2>1. /\ Keeps(rec', rec, {"failures", "repairs"}) /\ pc = "record" /\ pc' = "rollback"
        /\ UNCHANGED <<refs, rejected, worktree, next, run, cand, attempt, edits>>
    BY <1>2, <1>a, FailureKeeps DEF RecordBlockerFailure, Write, Goto, memory
  <2>2. RefsInv'
    BY <2>1 DEF RefsInv, Kept, Past, Before
  <2>3. WorktreeInv' /\ RetainInv'
    BY <2>1 DEF WorktreeInv, RetainInv, Unfinished
  <2>4. StartInv'
    BY <2>1 DEF StartInv
  <2> QED
    BY <2>2, <2>3, <2>4
<1>3. CASE RecoveryThrows
  BY <1>3, RecoveryNeverThrows
<1>4. CASE Rollback
  <2>1. /\ pc = "rollback" /\ pc' = "completeRejected"
        /\ Resolves(Target(rec)) /\ worktree' = refs[Target(rec).ref]
        /\ UNCHANGED <<rec, refs, rejected, next, run, cand, attempt, edits>>
    BY <1>4, <1>b DEF Rollback, Goto, memory
  <2>2. worktree' = Target(rec).tree
    BY <1>a, <2>1, TargetIsIntact DEF RefsInv
  <2>3. RefsInv'
    BY <2>1 DEF RefsInv, Kept, Past, Before
  <2>4. WorktreeInv' /\ RetainInv'
    BY <2>1 DEF WorktreeInv, RetainInv, Unfinished
  <2>5. StartInv'
    BY <2>1, <2>2 DEF StartInv, Resolves, Target
  <2> QED
    BY <2>3, <2>4, <2>5
<1>5. CASE RollbackFails
  <2>1. /\ Keeps(rec', rec, {"state"}) /\ Keeps(next', rec, {"state", "restoreTarget"})
        /\ rec'.state = "candidate-isolation-required" /\ next'.state = rec'.state
        /\ next'.restoreTarget = Target(rec)
        /\ pc = "rollback" /\ pc' = "saveIsolation"
        /\ UNCHANGED <<refs, rejected, worktree, run, cand, attempt, edits>>
    BY <1>5, <1>a, <1>b, FieldsOfRecord DEF RollbackFails, WriteTransition, Goto, Transition
  <2>2. RefsInv'
    BY <2>1 DEF RefsInv, Kept, Past, Before
  <2>3. WorktreeInv' /\ RetainInv'
    BY <1>a, <2>1 DEF WorktreeInv, RetainInv, Unfinished
  <2>4. StartInv'
    BY <1>a, <2>1 DEF StartInv, Isolated, Target
  <2> QED
    BY <2>2, <2>3, <2>4
<1>6. CASE CompleteIsolated
  <2>a. /\ pc = "completeIsolated" /\ pc' = "idle"
        /\ rec.state = "candidate-isolation-required"
        /\ UNCHANGED <<refs, rejected, worktree, next, run, cand, attempt, edits>>
    BY <1>6 DEF CompleteIsolated, Write, Goto, memory, ReleaseInv, MemoryInv
  <2>1. /\ Keeps(rec', rec, {"completed"})
        /\ rec'.completed = IF rec.restoreTarget = NoCandidate THEN rec.completed
                            ELSE rec.completed \cup {attempt.ordinal}
    <3>1. CASE rec.restoreTarget = NoCandidate
      BY <1>6, <3>1 DEF CompleteIsolated, Write
    <3>2. CASE rec.restoreTarget # NoCandidate
      <4>1. rec' = CompleteAttempt(rec, attempt.ordinal)
        BY <1>6, <3>2 DEF CompleteIsolated, Write
      <4> QED
        BY <1>a, <3>2, <4>1, CompleteKeeps
    <3> QED
      BY <3>1, <3>2
  <2>2. RefsInv'
    BY <2>a, <2>1 DEF RefsInv, Kept, Past, Before
  <2>3. WorktreeInv' /\ RetainInv'
    BY <2>a, <2>1 DEF WorktreeInv, RetainInv, Unfinished
  <2>4. StartInv'
    BY <2>a, <2>1 DEF StartInv, Isolated, Target, NeverSnapshot
  <2> QED
    BY <2>2, <2>3, <2>4
<1>7. CASE CompleteRejected
  <2>1. /\ Keeps(rec', rec, {"completed"})
        /\ rec'.completed = rec.completed \cup {attempt.ordinal}
        /\ pc = "completeRejected" /\ pc' \in {"exhaust", "replan"}
        /\ UNCHANGED <<refs, rejected, worktree, next, run, cand, attempt, edits>>
    BY <1>7, <1>a, CompleteKeeps DEF CompleteRejected, Write, Goto, memory
  <2>2. RefsInv'
    BY <2>1 DEF RefsInv, Kept, Past, Before
  <2>3. WorktreeInv' /\ RetainInv'
    BY <2>1 DEF WorktreeInv, RetainInv, Unfinished
  <2>4. StartInv'
    BY <2>1 DEF StartInv, Target
  <2> QED
    BY <2>2, <2>3, <2>4
<1>8. CASE Exhaust
  <2>1. /\ Keeps(rec', rec, {"repairs"}) /\ pc = "exhaust" /\ pc' = "replan"
        /\ UNCHANGED <<refs, rejected, worktree, next, run, attempt, edits>>
    BY <1>8, <1>a, CloseKeeps DEF Exhaust, Goto
  <2>2. RefsInv'
    BY <2>1 DEF RefsInv, Kept, Past, Before
  <2>3. WorktreeInv' /\ RetainInv'
    BY <2>1 DEF WorktreeInv, RetainInv, Unfinished
  <2>4. StartInv'
    BY <2>1 DEF StartInv, Target
  <2> QED
    BY <2>2, <2>3, <2>4
<1>9. CASE Replan
  <2>1. /\ Keeps(rec', rec, {"state"}) /\ Keeps(next', rec, {"state", "candidate"})
        /\ rec'.state = "planned" /\ next'.state = rec'.state
        /\ pc = "replan" /\ pc' = "saveReplan"
        /\ UNCHANGED <<refs, rejected, worktree, run, cand, attempt, edits>>
    BY <1>9, <1>a, FieldsOfRecord DEF Replan, WriteTransition, Goto, Transition
  <2>2. RefsInv'
    BY <2>1 DEF RefsInv, Kept, Past, Before
  <2>3. WorktreeInv' /\ RetainInv'
    BY <2>1 DEF WorktreeInv, RetainInv, Unfinished
  <2>4. StartInv'
    BY <2>1 DEF StartInv, Good, Target
  <2> QED
    BY <2>2, <2>3, <2>4
<1> QED
  BY <1>1, <1>2, <1>3, <1>4, <1>5, <1>6, <1>7, <1>8, <1>9 DEF Recovering

LEMMA OthersKeepCalmInv ==
  IInv /\ ReleaseInv /\ CalmInv /\ (Ending \/ OperatorRestores \/ RecordApproval) => CalmInv'
<1> SUFFICES ASSUME IInv, ReleaseInv, CalmInv, Ending \/ OperatorRestores \/ RecordApproval
             PROVE  CalmInv'
  OBVIOUS
<1>a. /\ TypeOK /\ rec \in RunRecord
      /\ Target(rec) \in CandidateSnapshot /\ Target(rec) # NoCandidate
      /\ refs \in [-1..MaxIterations -> Content \cup {Absent}]
  BY RecordFields DEF IInv, WorkInv, TypeOK
<1>b. refs[Target(rec).ref] = Target(rec).tree
  BY <1>a, TargetIsIntact DEF CalmInv, RefsInv
<1> USE DEF CalmInv, Keeps, Field, Developed, Assured, Rejected, Saving, Continuation,
            Moved, Terminal, AtHand, Iterating, Releasing
<1>1. CASE ResolveIsolation
  <2>1. /\ Keeps(rec', rec, {"state"}) /\ Keeps(next', rec, {"state", "restoreTarget"})
        /\ rec.state = "candidate-isolation-required" /\ IsolationVerified
        /\ rec'.state = "planned" /\ next'.state = "planned"
        /\ pc = "idle" /\ pc' = "saveResolved"
        /\ UNCHANGED <<refs, rejected, worktree, run, cand, attempt, edits>>
    BY <1>1, <1>a, FieldsOfRecord DEF ResolveIsolation, WriteTransition, Goto, Transition
  <2>2. RefsInv'
    BY <2>1 DEF RefsInv, Kept, Past, Before
  <2>3. WorktreeInv' /\ RetainInv'
    BY <2>1 DEF WorktreeInv, RetainInv, Unfinished
  <2>4. Isolated(rec)
    BY <2>1 DEF StartInv
  <2>5. worktree = Target(rec).tree \/ (Conflicts /\ NeverSnapshot)
    BY <1>b, <2>1, <2>4 DEF Isolated, IsolationVerified
  <2>6. StartInv'
    BY <2>1, <2>5 DEF StartInv, Good, Target, NeverSnapshot
  <2> QED
    BY <2>2, <2>3, <2>6
<1>2. CASE Deploy
  <2>1. /\ Keeps(rec', rec, {"state"}) /\ rec.state = "ready" /\ rec'.state = "deploying"
        /\ pc = "idle"
        /\ UNCHANGED <<refs, rejected, worktree, pc, next, run, cand, attempt, edits>>
    BY <1>2, <1>a, TransitionKeeps DEF Deploy, Begins, memory
  <2>2. RefsInv'
    BY <2>1 DEF RefsInv, Kept, Past, Before
  <2>3. WorktreeInv' /\ RetainInv'
    BY <2>1 DEF WorktreeInv, RetainInv, Unfinished
  <2>4. StartInv'
    BY <2>1 DEF StartInv
  <2> QED
    BY <2>2, <2>3, <2>4
<1>3. CASE DeployRefused
  BY <1>3, <1>a, EndKeepsCalmInv DEF DeployRefused, Fail, Write, Goto
<1>4. CASE OperatorRestores
  <2>1. /\ pc = "idle" /\ rec.state = "candidate-isolation-required"
        /\ Resolves(rec.restoreTarget) /\ worktree' = refs[rec.restoreTarget.ref]
        /\ UNCHANGED <<rec, refs, rejected, pc, next, run, cand, attempt, edits>>
    BY <1>4 DEF OperatorRestores, memory
  <2>2. rec.restoreTarget = Target(rec)
    <3>1. rec.restoreTarget # NoCandidate
      BY <1>a, <2>1, StoreAssumption DEF Resolves, NoCandidate, StoreAssumption
    <3> QED
      BY <2>1, <3>1 DEF StartInv, Isolated
  <2>3. worktree' = Target(rec).tree /\ refs[Target(rec).ref] <= edits
    BY <1>b, <2>1, <2>2 DEF StartInv, Resolves
  <2>4. RefsInv'
    BY <2>1 DEF RefsInv, Kept, Past, Before
  <2>5. WorktreeInv' /\ RetainInv'
    BY <2>1 DEF WorktreeInv, RetainInv, Unfinished
  <2>6. StartInv'
    BY <1>a, <1>b, <2>1, <2>2, <2>3 DEF StartInv, Isolated, Target
  <2> QED
    BY <2>4, <2>5, <2>6
<1>5. CASE RecordApproval
  <2>1. /\ Keeps(rec', rec, {"state", "reason", "decision"})
        /\ rec.state = "approval-paused" /\ rec'.state \in {"ready", "stopped"}
        /\ pc = "idle" /\ pc' = "idle"
        /\ UNCHANGED <<refs, rejected, worktree, next, run, cand, attempt, edits>>
    BY <1>5, <1>a, FieldsOfRecord DEF RecordApproval, End, Write, Goto, memory
  <2>2. RefsInv'
    BY <2>1 DEF RefsInv, Kept, Past, Before
  <2>3. WorktreeInv' /\ RetainInv'
    BY <2>1 DEF WorktreeInv, RetainInv, Unfinished
  <2>4. StartInv'
    BY <2>1 DEF StartInv
  <2> QED
    BY <2>2, <2>3, <2>4
<1> QED
  BY <1>1, <1>2, <1>3, <1>4, <1>5 DEF Ending

LEMMA StepKeepsCrashes ==
  TypeOK /\ [Next]_vars => crashes' = crashes \/ (Crash /\ crashes' # 0)
<1> SUFFICES ASSUME TypeOK, [Next]_vars
             PROVE  crashes' = crashes \/ (Crash /\ crashes' # 0)
  OBVIOUS
<1> USE DEF Write, WriteTransition, Fail, Throws, Reject, disk
<1>1. CASE Crash
  BY <1>1, RunAssumption DEF Crash, TypeOK, RunAssumption
<1>2. CASE Planning
  BY <1>2 DEF Planning, CallPlanner, CallRole, Plan, RoleFails, Stop, SaveNext
<1>3. CASE Developing
  BY <1>3 DEF Developing, CallDeveloper, CallRole, RoleFails, Snapshot, SnapshotConflicts,
              Open, OpenFails, ChecksFail, SurfaceDiverges, ChecksPass,
              AcceptDeveloped, CloseEpisode
<1>4. CASE Assuring
  BY <1>4 DEF Assuring, ReopenCandidate, CallQa, RoleFails, TreeModified, QaReports,
              SaveGate, ReviewIsKnown, ConsumeAttempt, ReviewerApproves,
              ReviewerObjects, ReviewIsBlocked, RepairRelease, Decide,
              DecideRegression, CompleteQa, SaveQa
<1>5. CASE Recovering
  BY <1>5 DEF Recovering, Retain, Unstage, RecordBlockerFailure, RecoveryThrows,
              Rollback, RollbackFails, CompleteIsolated, CompleteRejected, Exhaust, Replan
<1>6. CASE Ending \/ OperatorRestores \/ RecordApproval
  BY <1>6 DEF Ending, ResolveIsolation, Deploy, DeployRefused, OperatorRestores, RecordApproval
<1>7. CASE UNCHANGED vars
  BY <1>7 DEF vars
<1> QED
  BY <1>1, <1>2, <1>3, <1>4, <1>5, <1>6, <1>7 DEF Next, Step

UninterruptedInv == crashes = 0 => CalmInv

LEMMA UnchangedKeepsCalmInv == CalmInv /\ UNCHANGED vars => CalmInv'
<1> SUFFICES ASSUME CalmInv, UNCHANGED vars PROVE CalmInv'
  OBVIOUS
<1> USE DEF vars, disk, memory, CalmInv
<1>1. RefsInv'
  BY DEF RefsInv, Kept, Past, Before
<1>2. WorktreeInv' /\ RetainInv'
  BY DEF WorktreeInv, RetainInv, Unfinished, Resolves
<1>3. StartInv'
  BY DEF StartInv, Good, Target, NeverSnapshot, Isolated
<1> QED
  BY <1>1, <1>2, <1>3

LEMMA CalmInvariant == Spec => []UninterruptedInv
<1>1. Init => UninterruptedInv
  BY InitEstablishesCalmInv DEF UninterruptedInv
<1>2. IInv /\ ReleaseInv /\ UninterruptedInv /\ [Next]_vars => UninterruptedInv'
  <2> SUFFICES ASSUME IInv, ReleaseInv, UninterruptedInv, [Next]_vars, crashes' = 0
               PROVE  CalmInv'
    BY DEF UninterruptedInv
  <2>1. crashes = 0 /\ ~Crash
    BY StepKeepsCrashes DEF IInv, WorkInv, Crash, TypeOK
  <2>2. CalmInv
    BY <2>1 DEF UninterruptedInv
  <2> QED
    BY <2>1, <2>2, PlanningKeepsCalmInv, DevelopingKeepsCalmInv, AssuringKeepsCalmInv,
       RecoveringKeepsCalmInv, OthersKeepCalmInv, UnchangedKeepsCalmInv DEF Next, Step
<1> QED
  BY <1>1, <1>2, RunInvariant, ReleaseInvariant, PTL DEF Spec

\* What rollback would restore is intact.
THEOREM PreservedCandidateIsIntact == Spec => []PreservationIsIntact
<1>1. UninterruptedInv => PreservationIsIntact
  BY DEF UninterruptedInv, CalmInv, RefsInv, Kept, PreservationIsIntact
<1> QED
  BY <1>1, CalmInvariant, PTL

\* Only the approved candidate, and every claim of it verified, is deployed,
\* out of a worktree that holds it.
THEOREM ApprovedCandidateIsDeployed == Spec => []DeploysWhatWasApproved
<1>1. TypeOK /\ ReleaseInv /\ UninterruptedInv => DeploysWhatWasApproved
  <2> SUFFICES ASSUME TypeOK, ReleaseInv, UninterruptedInv, crashes = 0,
                      rec.state = "deploying"
               PROVE  /\ rec.decision = "approved" /\ rec.claims = Claims
                      /\ rec.manifest = rec.candidate.tree
                      /\ worktree = rec.candidate.tree
    BY DEF DeploysWhatWasApproved
  <2>1. rec.decision = "approved" /\ rec.claims = Claims /\ rec.manifest = rec.candidate.tree
    BY DEF ReleaseInv, DecisionInv, Decision
  <2>2. pc = "idle"
    BY <2>1 DEF ReleaseInv, DecisionInv, Live
  <2> QED
    BY <2>1, <2>2 DEF UninterruptedInv, CalmInv, WorktreeInv, Releasing
<1> QED
  BY <1>1, RunIsTyped, ReleaseInvariant, CalmInvariant, PTL

\* A process that gets to the snapshot at once has called the Developer.
LEMMA SnapshotIsDevelopers ==
  ASSUME Next, pc = "idle", pc' = "snapshot"
  PROVE  rec.state = "planned"
<1> USE DEF Write, WriteTransition, Fail, Throws, Reject, Goto, Begins, CallRole
<1>1. CASE Planning
  BY <1>1 DEF Planning, CallPlanner, Plan, RoleFails, Stop, SaveNext, Continuation
<1>2. CASE Developing
  BY <1>2 DEF Developing, CallDeveloper, RoleFails, Snapshot, SnapshotConflicts,
              Open, OpenFails, ChecksFail, SurfaceDiverges, ChecksPass,
              AcceptDeveloped, CloseEpisode
<1>3. CASE Assuring
  BY <1>3 DEF Assuring, ReopenCandidate, CallQa, RoleFails, TreeModified, QaReports,
              SaveGate, ReviewIsKnown, ConsumeAttempt, ReviewerApproves,
              ReviewerObjects, ReviewIsBlocked, RepairRelease, Decide,
              DecideRegression, CompleteQa, SaveQa
<1>4. CASE Recovering
  BY <1>4 DEF Recovering, Retain, Unstage, RecordBlockerFailure, RecoveryThrows,
              Rollback, RollbackFails, CompleteIsolated, CompleteRejected, Exhaust, Replan
<1>5. CASE Ending \/ OperatorRestores \/ RecordApproval \/ Crash
  BY <1>5 DEF Ending, ResolveIsolation, Deploy, DeployRefused, OperatorRestores,
              RecordApproval, Crash
<1> QED
  BY <1>1, <1>2, <1>3, <1>4, <1>5 DEF Next, Step

\* What a Developer is called on.
THEOREM DeveloperFindsPreserved == Spec => DeveloperStartsFromPreserved
<1>1. TypeOK /\ UninterruptedInv /\ [Next]_vars =>
        [crashes = 0 /\ pc = "idle" /\ pc' = "snapshot" =>
           \/ worktree = RollbackTarget.tree
           \/ UnderReleaseRepair
           \/ Conflicts /\ NeverSnapshot]_vars
  <2> SUFFICES ASSUME UninterruptedInv, Next, crashes = 0, pc = "idle", pc' = "snapshot"
               PROVE  \/ worktree = RollbackTarget.tree
                      \/ UnderReleaseRepair
                      \/ Conflicts /\ NeverSnapshot
    BY DEF vars
  <2>1. rec.state = "planned"
    BY SnapshotIsDevelopers
  <2>2. Good(rec)
    BY <2>1 DEF UninterruptedInv, CalmInv, StartInv
  <2> QED
    BY <2>2 DEF Good, Target, RollbackTarget, UnderReleaseRepair
<1> QED
  BY <1>1, RunIsTyped, CalmInvariant, PTL DEF Spec, DeveloperStartsFromPreserved
=============================================================================
