------------------------------- MODULE HohRun -------------------------------
(***************************************************************************)
(* A run driven by HohOrchestrator.resume(), packages/analysis/src/hoh.ts, *)
(* with the git operations of GitCandidateStore and the services that      *)
(* packages/cli/src/main.ts wires to it.                                   *)
(*                                                                         *)
(* One process at a time calls resume(), which advances the run by one     *)
(* state.  On the way it writes the run record several times, moves git    *)
(* refs and restores the user's worktree; each durable write is a step,    *)
(* and the process may die before any of them.  Two copies of the record   *)
(* live in memory: "run", read when resume() starts, and "next", returned  *)
(* by transition() and saved, with more fields changed, in a later step.   *)
(*                                                                         *)
(* Left out: amendments of the collision inventory and the check of the    *)
(* protected set (see Amendment), the requirements and design boundaries,  *)
(* the isolation baseline, the clock, the retries of a role inside one     *)
(* call (see AttemptLedger), the lease and the operator's stop (see        *)
(* RunLease) and the deployment transaction itself (see Deployment).       *)
(***************************************************************************)
EXTENDS RunStore

CONSTANTS Reviewer,       \* whether a Reviewer role is configured
          RolesFail,      \* whether a role may exhaust its output retries
          Conflicts,      \* whether restoring or isolating the worktree fails
          MaxCrashes

ASSUME RunAssumption ==
  /\ {Reviewer, RolesFail, Conflicts} \subseteq BOOLEAN
  /\ MaxCrashes \in Nat

VARIABLES rec,        \* state.json
          refs,       \* the git refs a candidate can be stored under
          rejected,   \* the refs rejected/<ordinal>
          worktree,   \* what the user's tracked files hold
          pc,         \* next step of the process; "idle": none is running
          run,        \* the record as read when resume() began
          next,       \* the record transition() returned
          cand,       \* the candidate at hand
          attempt,    \* its ordinal and the commit it was bound to
          verdict,    \* why it is rejected, or what QA verified of it
          edits,      \* edits made by Developers (history)
          crashes

disk == <<rec, refs, rejected, worktree>>
memory == <<run, next, cand, attempt, verdict>>
vars == <<disk, pc, memory, edits, crashes>>

NoVerdict == [kind |-> "none", verified |-> {}]

Init ==
  /\ rec = Created /\ run = Created /\ next = Created
  /\ refs = [r \in -1..MaxIterations |-> IF r = -1 THEN 0 ELSE Absent]
  /\ rejected = [o \in {} |-> Absent]
  /\ worktree = 0
  /\ pc = "idle"
  /\ cand = NoCandidate /\ attempt = [ordinal |-> 0, commit |-> 0]
  /\ verdict = NoVerdict
  /\ edits = 0
  /\ crashes = 0

-----------------------------------------------------------------------------
(* Steps that several branches of resume() share *)

Goto(from, to) == pc = from /\ pc' = to

\* A step that does nothing but write the record.
Write(from, record, to) ==
  /\ Goto(from, to)
  /\ rec' = record
  /\ UNCHANGED <<refs, rejected, worktree, memory, edits, crashes>>

\* A transition, keeping what is to be saved next in memory.
WriteTransition(from, state, changed, to) ==
  /\ Goto(from, to)
  /\ rec' = Transition(rec, state)
  /\ next' = Transition(changed, state)
  /\ UNCHANGED <<refs, rejected, worktree, run, cand, attempt, verdict, edits, crashes>>

\* Mutant: the exception is reported and the run left as it is.
FailMutant(from, reason) == Write(from, rec, "idle")

\* The exceptions that resume() turns into a failed run.
Fail(from, reason) == Write(from, End(rec, "failed", reason), "idle")

\* An exception in a promise that resume() returns without awaiting it: the
\* caller sees it, the run stays as it is.
Throws(from) == Write(from, rec, "idle")

\* The branches of resume() past determineStopReason; the record is read.
Begins(state) ==
  /\ pc = "idle" /\ rec.state = state
  /\ StopReason(rec) = "none"

\* ... for those that call a role first.  A role that cannot reserve its
\* credits, or exhausts its retries, fails the run.
CallRole(state, to) ==
  /\ Begins(state)
  /\ pc' = to
  /\ rec' = Charge(rec)
  /\ run' = rec
  /\ UNCHANGED <<refs, rejected, next, attempt, verdict, crashes>>

RoleFails(at) == RolesFail /\ Fail(at, "unrecoverable-failure")

Stop ==
  /\ rec.state \notin Terminal \cup {"candidate-isolation-required"}
  /\ StopReason(rec) # "none"
  /\ Write("idle", End(rec, "stopped", StopReason(rec)), "idle")

\* save(next), wherever the record after a transition is completed.
Continuation == [saveAccepted |-> "closeEpisode", savePlan |-> "idle",
                 saveReplan |-> "idle", saveRepair |-> "idle",
                 saveResolved |-> "idle", saveIsolation |-> "completeIsolated"]

SaveNext ==
  /\ pc \in DOMAIN Continuation
  /\ Write(pc, next, Continuation[pc])

-----------------------------------------------------------------------------
(* "created" and "qa": the Planner starts the next iteration *)

CallPlanner ==
  /\ \E state \in {"created", "qa"} : CallRole(state, "plan")
  /\ UNCHANGED <<worktree, cand, edits>>

Plan == WriteTransition("plan", "planned", [rec EXCEPT !.iteration = @ + 1], "savePlan")

-----------------------------------------------------------------------------
(* "planned": the Developer edits the worktree, the candidate is snapshot *)

CallDeveloper ==
  /\ CallRole("planned", "snapshot")
  /\ edits' = edits + 1
  /\ worktree' = edits'
  /\ UNCHANGED cand

\* snapshotStage(): a commit of the worktree under stages/developer-<i>.
Snapshot ==
  /\ Goto("snapshot", "open")
  /\ refs' = [refs EXCEPT ![run.iteration] = worktree]
  /\ cand' = [ref |-> run.iteration, tree |-> worktree]
  /\ UNCHANGED <<rec, rejected, worktree, run, next, attempt, verdict, edits, crashes>>

\* assertCandidateIsolation(): an initially dirty path has changed.
SnapshotConflicts ==
  /\ Conflicts
  /\ WriteTransition("snapshot", "candidate-isolation-required",
                     [rec EXCEPT !.restoreTarget = NoCandidate], "saveIsolation")

\* openCandidateAttempt(): resolve the ref, then bind an ordinal to it.
Resolves(c) == c.ref \in DOMAIN refs /\ refs[c.ref] # Absent

Open ==
  /\ Goto("open", IF run.state = "planned" THEN "check" ELSE "assure")
  /\ Resolves(cand)
  /\ rec' = OpenAttempt(rec, run.iteration, refs[cand.ref])
  /\ attempt' = [ordinal |-> Len(rec'.opened), commit |-> refs[cand.ref]]
  /\ UNCHANGED <<refs, rejected, worktree, run, next, cand, verdict, edits, crashes>>

OpenFails == ~Resolves(cand) /\ Fail("open", "unrecoverable-failure")

\* The candidate is turned down; what follows is recoverRejectedCandidate().
Reject(from, kind) ==
  /\ Goto(from, "retain")
  /\ verdict' = [kind |-> kind, verified |-> {}]
  /\ UNCHANGED <<disk, run, next, cand, attempt, edits, crashes>>

\* candidateChecks() of the CLI executes every configured command in turn and
\* stops at the first that fails; what commands do is outside this module.
ChecksFail == Reject("check", "candidate-checks-failed")

SurfaceDiverges ==
  \E at \in {"check", "assure"} : Reject(at, "declared-surface-divergence")

ChecksPass == Write("check", CompleteAttempt(rec, attempt.ordinal), "accept")

\* Mutant: the record as read before the attempt was opened is saved.
AcceptDevelopedStaleMutant ==
  WriteTransition("accept", "candidate", [run EXCEPT !.candidate = cand], "saveAccepted")

\* Mutant: the candidate is preserved before QA has accepted it.
AcceptDevelopedEarlyMutant ==
  WriteTransition("accept", "candidate",
    [rec EXCEPT !.candidate = cand, !.preservation = cand], "saveAccepted")

AcceptDeveloped ==
  WriteTransition("accept", "candidate", [rec EXCEPT !.candidate = cand], "saveAccepted")

CloseEpisode == Write("closeEpisode", CloseRepairEpisode(rec), "idle")

-----------------------------------------------------------------------------
(* "candidate": QA verifies claims, the Reviewer may approve the release *)

ReopenCandidate ==
  /\ Begins("candidate")
  /\ pc' = "open"
  /\ run' = rec /\ cand' = rec.candidate
  /\ UNCHANGED <<disk, next, attempt, verdict, edits, crashes>>

\* Begins() has found a credit left.
CallQa == Write("assure", Charge(rec), "qa")

\* The disposable worktree is not the tree the candidate was recorded with,
\* or the QA role changed it.
TreeModified == Reject("qa", "qa-tree-modified")

QaReports ==
  /\ Resolves(cand) /\ refs[cand.ref] = cand.tree
  /\ \E verified \in SUBSET Claims :
       /\ verdict' = [kind |-> "none", verified |-> verified]
       /\ Goto("qa", IF verified = Claims /\ Reviewer THEN "gate" ELSE "decide")
  /\ UNCHANGED <<disk, run, next, cand, attempt, edits, crashes>>

\* The gate evidence is added to the record as read at the start.  Before it
\* a manifest whose digest was rejected already is turned down: never, here,
\* as the Developer changes the tree on each call.
SaveGate == Reviewer /\ Write("gate", run, "review")

\* Mutant: the approval of any candidate will do.
AlreadyReviewedMutant == rec.reviewed # Absent

\* evaluateAutomaticManifest(): an approval of the same manifest is used
\* again; otherwise an attempt of the boundary is consumed first.  SaveGate
\* has put the credits back to what Begins() saw, so the call can be paid.
AlreadyReviewed == rec.reviewed = cand.tree
AttemptsLeft == rec.reviews < BoundaryLimit

ReviewIsKnown == AlreadyReviewed /\ Write("review", rec, "decide")

ConsumeAttempt ==
  /\ ~AlreadyReviewed /\ AttemptsLeft
  /\ Write("review", [Charge(rec) EXCEPT !.reviews = @ + 1], "answer")

ReviewerApproves == Write("answer", [rec EXCEPT !.reviewed = cand.tree], "decide")

\* Findings send the run back to the Planner, an inadmissible answer lets
\* the next resume() ask again; the last attempt blocks the run.
ReviewerObjects ==
  IF rec.reviews = BoundaryLimit THEN Fail("answer", "approval-blocked")
  ELSE \E to \in {"repair", "idle"} : Write("answer", rec, to)

ReviewIsBlocked ==
  /\ ~AlreadyReviewed /\ ~AttemptsLeft
  /\ Fail("review", "approval-blocked")

RepairRelease ==
  WriteTransition("repair", "qa",
    [rec EXCEPT !.assessed = FALSE, !.claims = {}, !.stagnant = 0], "saveRepair")

Ready == verdict.verified = Claims
Decided == Assess(rec, cand, verdict.verified)

\* Mutant: the manifest names the candidate preserved before.
AcceptedMutant ==
  IF Ready
  THEN [Decided EXCEPT !.decision = IF Reviewer THEN "approved" ELSE "pending",
                       !.manifest = rec.preservation.tree]
  ELSE Decided

\* What is saved when the candidate is accepted; without readiness the
\* stagnation limit may stop the run in the same save.
Accepted ==
  IF Ready
  THEN [Decided EXCEPT !.decision = IF Reviewer THEN "approved" ELSE "pending",
                       !.manifest = cand.tree]
  ELSE Decided

AcceptedState ==
  CASE Ready /\ Reviewer -> "ready"
    [] Ready /\ ~Reviewer -> "approval-paused"
    [] OTHER -> "qa"

Stagnates == ~Ready /\ Decided.stagnant >= StagnantLimit

Decide ==
  /\ ~Regresses(run, verdict.verified)
  /\ Goto("decide", "completeQa")
  /\ rec' = Transition(rec, AcceptedState)
  /\ next' = IF Stagnates THEN End(Accepted, "stopped", "stagnation-limit")
             ELSE Transition(Accepted, AcceptedState)
  /\ UNCHANGED <<refs, rejected, worktree, run, cand, attempt, verdict, edits, crashes>>

\* The transition is already made when the regression is acted upon.
DecideRegression ==
  /\ Regresses(run, verdict.verified)
  /\ Goto("decide", "retain")
  /\ rec' = Transition(rec, AcceptedState)
  /\ verdict' = [verdict EXCEPT !.kind = "claim-regression"]
  /\ UNCHANGED <<refs, rejected, worktree, run, next, cand, attempt, edits, crashes>>

CompleteQa == Write("completeQa", CompleteAttempt(rec, attempt.ordinal), "saveQa")

SaveQa == Write("saveQa", next, "idle")

-----------------------------------------------------------------------------
(* recoverRejectedCandidate(), not awaited by resume() *)

Retained(ordinal) == ordinal \in DOMAIN rejected

CanRetain ==
  /\ Resolves(cand) /\ refs[cand.ref] = attempt.commit
  /\ Retained(attempt.ordinal) => rejected[attempt.ordinal] = attempt.commit

\* Mutant: the rejected ref is named by the iteration.
RetainMutant ==
  /\ CanRetain
  /\ Goto("retain", "unstage")
  /\ rejected' = [o \in DOMAIN rejected \cup {run.iteration} |->
                    IF o = run.iteration THEN attempt.commit ELSE rejected[o]]
  /\ UNCHANGED <<rec, refs, worktree, memory, edits, crashes>>

\* retainRejectedCandidate(): rejected/<ordinal> is created ...
Retain ==
  /\ CanRetain
  /\ Goto("retain", "unstage")
  /\ rejected' = [o \in DOMAIN rejected \cup {attempt.ordinal} |->
                    IF o = attempt.ordinal THEN attempt.commit ELSE rejected[o]]
  /\ UNCHANGED <<rec, refs, worktree, memory, edits, crashes>>

\* ... and the stage ref deleted.
Unstage ==
  /\ Goto("unstage", "record")
  /\ refs' = IF cand.ref \in 0..MaxIterations
             THEN [refs EXCEPT ![cand.ref] = Absent] ELSE refs
  /\ UNCHANGED <<rec, rejected, worktree, memory, edits, crashes>>

ThisFailure == [ordinal |-> attempt.ordinal, iteration |-> run.iteration,
                commit |-> attempt.commit, kind |-> verdict.kind]

RecordBlockerFailure ==
  /\ ~Contradicts(rec, ThisFailure)
  /\ Write("record", RecordFailure(rec, ThisFailure), "rollback")

\* The ref moved since it was bound, rejected/<ordinal> holds another commit,
\* or the ordinal was rejected before for another kind of failure.
RecoveryThrows ==
  /\ pc \in {"retain", "record"}
  /\ IF pc = "retain" THEN ~CanRetain ELSE Contradicts(rec, ThisFailure)
  /\ Throws(pc)

RollbackTarget ==
  IF rec.preservation = NoCandidate THEN BaseCandidate ELSE rec.preservation

\* Mutant: the target is checked but not checked out.
RollbackMutant ==
  /\ Resolves(RollbackTarget)
  /\ Goto("rollback", "completeRejected")
  /\ UNCHANGED <<rec, refs, rejected, worktree, memory, edits, crashes>>

\* rollback(): restore the worktree to what the target's ref holds.
Rollback ==
  /\ Resolves(RollbackTarget)
  /\ Goto("rollback", "completeRejected")
  /\ worktree' = refs[RollbackTarget.ref]
  /\ UNCHANGED <<rec, refs, rejected, memory, edits, crashes>>

RollbackFails ==
  /\ Conflicts \/ ~Resolves(RollbackTarget)
  /\ WriteTransition("rollback", "candidate-isolation-required",
                     [rec EXCEPT !.restoreTarget = RollbackTarget], "saveIsolation")

\* Nothing is left to complete after a conflict of the snapshot itself.
CompleteIsolated ==
  Write("completeIsolated",
        IF rec.restoreTarget = NoCandidate THEN rec
        ELSE CompleteAttempt(rec, attempt.ordinal), "idle")

Exhausted == rec.repairs > RepairLimit

CompleteRejected ==
  Write("completeRejected", CompleteAttempt(rec, attempt.ordinal),
        IF Exhausted THEN "exhaust" ELSE "replan")

\* blocker-rollback: the episode is closed, the target becomes the candidate.
Exhaust ==
  /\ Goto("exhaust", "replan")
  /\ rec' = CloseRepairEpisode(rec)
  /\ cand' = RollbackTarget
  /\ verdict' = NoVerdict
  /\ UNCHANGED <<refs, rejected, worktree, run, next, attempt, edits, crashes>>

Replan ==
  WriteTransition("replan", "planned",
    IF verdict.kind = "none" THEN [rec EXCEPT !.candidate = cand] ELSE rec,
    "saveReplan")

-----------------------------------------------------------------------------
(* "candidate-isolation-required", "approval-paused" and "ready" *)

\* The operator restores the files that verifyIsolation will look at.
OperatorRestores ==
  /\ pc = "idle" /\ rec.state = "candidate-isolation-required"
  /\ Resolves(rec.restoreTarget) /\ worktree # refs[rec.restoreTarget.ref]
  /\ worktree' = refs[rec.restoreTarget.ref]
  /\ UNCHANGED <<rec, refs, rejected, pc, memory, edits, crashes>>

IsolationVerified ==
  \/ rec.restoreTarget = NoCandidate
  \/ Resolves(rec.restoreTarget) /\ worktree = refs[rec.restoreTarget.ref]

ResolveIsolation ==
  /\ rec.state = "candidate-isolation-required" /\ IsolationVerified
  /\ WriteTransition("idle", "planned", [rec EXCEPT !.restoreTarget = NoCandidate],
                     "saveResolved")

\* recordRunApproval() of a release under manual authority.
RecordApproval ==
  /\ rec.state = "approval-paused" /\ rec.decision = "pending" /\ ~Reviewer
  /\ \/ Write("idle", [rec EXCEPT !.decision = "approved", !.state = "ready"], "idle")
     \/ Write("idle", [End(rec, "stopped", "release-rejected")
                         EXCEPT !.decision = "rejected"], "idle")

Deployable ==
  /\ rec.decision = "approved" /\ rec.candidate # NoCandidate
  /\ rec.assessed /\ rec.claims = Claims

Deploy ==
  /\ Begins("ready") /\ Deployable
  /\ rec' = Transition(rec, "deploying")
  /\ UNCHANGED <<refs, rejected, worktree, pc, memory, edits, crashes>>

DeployRefused ==
  /\ Begins("ready") /\ ~Deployable
  /\ Fail("idle", "deployment-configuration-invalid")

Crash ==
  /\ pc # "idle" /\ crashes < MaxCrashes
  /\ pc' = "idle" /\ crashes' = crashes + 1
  /\ UNCHANGED <<disk, memory, edits>>

-----------------------------------------------------------------------------
Planning == CallPlanner \/ Plan \/ RoleFails("plan") \/ Stop \/ SaveNext

Developing ==
  \/ CallDeveloper \/ RoleFails("snapshot") \/ Snapshot \/ SnapshotConflicts
  \/ Open \/ OpenFails \/ ChecksFail \/ SurfaceDiverges \/ ChecksPass
  \/ AcceptDeveloped \/ CloseEpisode

Assuring ==
  \/ ReopenCandidate \/ CallQa \/ RoleFails("qa") \/ TreeModified \/ QaReports
  \/ SaveGate \/ ReviewIsKnown \/ ConsumeAttempt \/ ReviewerApproves
  \/ ReviewerObjects \/ RoleFails("answer") \/ ReviewIsBlocked \/ RepairRelease
  \/ Decide \/ DecideRegression \/ CompleteQa \/ SaveQa

Recovering ==
  \/ Retain \/ Unstage \/ RecordBlockerFailure \/ RecoveryThrows
  \/ Rollback \/ RollbackFails \/ CompleteIsolated
  \/ CompleteRejected \/ Exhaust \/ Replan

Ending == ResolveIsolation \/ Deploy \/ DeployRefused

Step == Planning \/ Developing \/ Assuring \/ Recovering \/ Ending

Next == Step \/ OperatorRestores \/ RecordApproval \/ Crash

Spec == Init /\ [][Next]_vars

\* resume() is called again and again, and a live process goes on.  Nobody
\* is obliged to restore files or to approve.
FairSpec == Spec /\ WF_vars(Step)

-----------------------------------------------------------------------------
(* Properties *)

Live == pc # "idle"

TypeOK ==
  /\ rec \in RunRecord /\ run \in RunRecord /\ next \in RunRecord
  /\ refs \in [-1..MaxIterations -> Content \cup {Absent}]
  /\ DOMAIN rejected \subseteq Ordinal
  /\ \A o \in DOMAIN rejected : rejected[o] \in Content
  /\ worktree \in Content
  /\ cand \in CandidateSnapshot
  /\ attempt \in [ordinal : Nat, commit : Content]
  /\ verdict \in [kind : Kind \cup {"none"}, verified : SUBSET Claims]
  /\ edits \in Nat
  /\ crashes \in 0..MaxCrashes

\* Where a snapshot attempt, and where a verdict against it, is at hand.
AttemptAtHand ==
  {"check", "accept", "assure", "qa", "gate", "review", "answer", "decide",
   "completeQa", "retain", "unstage", "record", "rollback", "completeRejected"}
BeingRejected == {"retain", "unstage", "record"}

\* What a process has at hand at each step; inductive.  A live process has a
\* record that has not ended, and saves none that has but after QA.
WorkInv ==
  /\ TypeOK
  /\ pc = "plan" => rec.iteration < MaxIterations
  /\ pc \in AttemptAtHand => attempt.ordinal \in Ordinal
  /\ pc \in BeingRejected => verdict.kind \in Kind
  /\ pc = "saveIsolation" /\ next.restoreTarget # NoCandidate =>
       attempt.ordinal \in Ordinal
  /\ pc = "completeIsolated" /\ rec.restoreTarget # NoCandidate =>
       attempt.ordinal \in Ordinal
  /\ Live => rec.state \notin Terminal
  /\ run.state \notin Terminal
  /\ pc \in DOMAIN Continuation => next.state \notin Terminal

\* REQ-018: every rejection that was counted has its candidate retained under
\* the ref of its ordinal, the ordinal was bound to that very commit, and no
\* ordinal is rejected twice.
RejectionsAreRetained ==
  \A f \in rec.failures :
    /\ Retained(f.ordinal) /\ rejected[f.ordinal] = f.commit
    /\ f.ordinal <= Len(rec.opened)
    /\ rec.opened[f.ordinal] = [iteration |-> f.iteration, commit |-> f.commit]
    /\ \A g \in rec.failures : f.ordinal = g.ordinal => f = g

\* The ordinal at hand is bound to the commit at hand.
Bound ==
  /\ attempt.ordinal <= Len(rec.opened)
  /\ rec.opened[attempt.ordinal] =
       [iteration |-> run.iteration, commit |-> attempt.commit]

\* The record read at the start lacks nothing but attempts opened since.
RunIsPrefix ==
  /\ run.failures = rec.failures
  /\ Len(run.opened) <= Len(rec.opened)
  /\ \A o \in 1..Len(run.opened) : run.opened[o] = rec.opened[o]

\* How journal, refs and memory go together around a rejection; inductive.
\* Saving the gate evidence may unbind the ordinal, but only of a candidate
\* that verifies every claim and so cannot regress.
RejectionInv ==
  /\ RejectionsAreRetained
  /\ \A f \in run.failures : f.ordinal <= Len(run.opened)
  /\ pc \in {"snapshot", "open", "assure", "qa", "gate"} => RunIsPrefix
  /\ pc \in {"check", "assure", "qa", "retain", "unstage", "record"} => Bound
  /\ pc \in {"gate", "review", "answer"} => verdict.verified = Claims
  /\ pc = "decide" /\ verdict.verified # Claims => Bound
  /\ pc \in {"unstage", "record"} =>
       Retained(attempt.ordinal) /\ rejected[attempt.ordinal] = attempt.commit
  /\ pc \in DOMAIN Continuation \cup {"completeQa", "saveQa"} =>
       next.opened = rec.opened /\ next.failures = rec.failures

\* REQ-018: a rejected ref is never moved or removed, later retries included.
RejectedRefsAreImmutable ==
  [][\A o \in DOMAIN rejected :
       o \in DOMAIN rejected' /\ rejected'[o] = rejected[o]]_vars

\* REQ-012: another candidate receives a higher ordinal than the one before.
\* The save of the gate evidence breaks this; see "Known divergences".
OrdinalsNeverReused ==
  [][attempt'.commit # attempt.commit => attempt'.ordinal > attempt.ordinal]_vars

\* REQ-012 and REQ-018: a binding is only ever forgotten of the ordinal bound
\* last, when QA has just verified every claim of its candidate and no
\* rejected ref has its name.  All others stay bound to their commits, so that
\* an ordinal given again never meets the ref of an earlier rejection.
OnlyVerifiedIsUnbound ==
  [][\A o \in 1..Len(rec.opened) :
       \/ o <= Len(rec'.opened) /\ rec'.opened[o] = rec.opened[o]
       \/ /\ o = Len(rec.opened) /\ ~Retained(o)
          /\ pc = "gate" /\ verdict.verified = Claims]_vars

\* REQ-012: a recovery that is taken up again after an interruption counts the
\* failure it answers no second time.
RepairsCountFailures ==
  [][rec'.repairs > rec.repairs =>
       /\ rec'.repairs = rec.repairs + 1
       /\ \E f \in rec'.failures \ rec.failures :
            \A g \in rec.failures : g.ordinal # f.ordinal]_vars

\* REQ-018: the candidate that rollback would restore is still what its ref
\* holds, unless the process that preserved it was interrupted.
PreservationIsIntact ==
  crashes = 0 /\ rec.preservation # NoCandidate =>
    refs[rec.preservation.ref] = rec.preservation.tree

\* REQ-018 and REQ-011: the Developer works on what the last preserved
\* candidate, or the run base, holds, or repairs the one the Reviewer objected
\* to; never on rejected edits, nor on partial ones but those of an
\* interruption, or edits whose snapshot an isolation conflict prevented.
UnderReleaseRepair ==
  ~rec.assessed /\ rec.reviews > 0 /\ worktree = rec.candidate.tree

NeverSnapshot ==
  /\ \A r \in DOMAIN refs : refs[r] # worktree
  /\ \A o \in DOMAIN rejected : rejected[o] # worktree

DeveloperStartsFromPreserved ==
  [][crashes = 0 /\ pc = "idle" /\ pc' = "snapshot" =>
       \/ worktree = RollbackTarget.tree
       \/ UnderReleaseRepair
       \/ Conflicts /\ NeverSnapshot]_vars

\* REQ-012: no candidate is accepted that gives up a verified claim, and what
\* was verified is forgotten only when a Reviewer has sent the release back
\* (that it is forgotten then is a divergence the README describes).
AcceptedClaimsNeverRegress ==
  [][rec.assessed =>
       IF rec'.assessed THEN rec.claims \subseteq rec'.claims
       ELSE Reviewer /\ rec.reviews > 0]_vars

\* REQ-016: what is deployed is the candidate that was approved, it verifies
\* every claim, and the worktree the commands run in holds it.  An interrupted
\* run can break this; see the README, "Known divergences".
DeploysWhatWasApproved ==
  crashes = 0 /\ rec.state = "deploying" =>
    /\ rec.decision = "approved" /\ rec.claims = Claims
    /\ rec.manifest = rec.candidate.tree
    /\ worktree = rec.candidate.tree

\* REQ-016: no release is approved automatically but on a review of the very
\* candidate it names.
ReleaseIsReviewed ==
  Reviewer /\ rec.decision = "approved" => rec.reviewed = rec.manifest

\* REQ-004: what an invocation was charged stays charged.  The save of the
\* gate evidence breaks this when Reviewer; see the README, "Known divergences".
ChargesAreKept == [][rec.charged <= rec'.charged]_vars

\* An ended run stays as it ended.
EndedStaysEnded == [][rec.state \in Terminal => rec' = rec]_vars

\* Whoever keeps calling resume() sees the run end, deploy, or wait for the
\* operator: no loop of rejections, repairs or refused resumes goes on for
\* ever.  Two interruptions within the recovery of one candidate may leave its
\* ordinal contradicted on every resume, until a clock that is not modelled.
Settled == rec.state \in
  Terminal \cup {"deploying", "approval-paused", "candidate-isolation-required"}
RunSettles == <>(crashes > 1) \/ <>[]Settled
=============================================================================
