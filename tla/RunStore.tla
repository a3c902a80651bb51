------------------------------ MODULE RunStore ------------------------------
(***************************************************************************)
(* The run record of state.json and what the operations of FileRunStore    *)
(* do to it, packages/analysis/src/hoh.ts.  Every operation reads the      *)
(* record afresh, changes it and renames the new one into place, so each   *)
(* is an operator from the record on disk to the next one.                 *)
(*                                                                         *)
(* A commit is named by the content it captures, a natural number: 0 is    *)
(* the run base, n the n-th edit a Developer made.  A candidate is the     *)
(* pair of the ref it was stored under and the tree it had then; ref i is  *)
(* stages/developer-i, and -1 is the base ref.  Of the journal only the    *)
(* entries that a later operation reads are kept: the candidate snapshot   *)
(* attempts and the blocker failures.                                      *)
(***************************************************************************)
EXTENDS Integers, Sequences, FiniteSets

CONSTANTS Claims,          \* the claims of the claim matrix
          MaxIterations,   \* config.limits.maxIterations
          StagnantLimit,   \* config.limits.stagnantIterations
          RepairLimit,     \* config.limits.blockerRepairRetryLimit
          BoundaryLimit,   \* config.approval.boundaryAttemptLimit
          Budget           \* credits, counted in role invocations

ASSUME StoreAssumption ==
  /\ IsFiniteSet(Claims) /\ Claims # {}
  /\ MaxIterations \in Nat /\ StagnantLimit \in Nat \ {0}
  /\ RepairLimit \in Nat /\ BoundaryLimit \in Nat \ {0} /\ Budget \in Nat

Kind == {"candidate-checks-failed", "qa-tree-modified",
         "declared-surface-divergence", "claim-regression"}

Terminal == {"deployed", "recovered", "rollback-failed", "stopped", "failed"}
RunState == Terminal \cup
  {"created", "planned", "candidate", "qa", "approval-paused", "ready",
   "deploying", "candidate-isolation-required"}

Content == Nat
Absent == -1
NoCandidate == [ref |-> -2, tree |-> 0]
BaseCandidate == [ref |-> -1, tree |-> 0]
CandidateSnapshot ==
  [ref : 0..MaxIterations, tree : Content] \cup {NoCandidate, BaseCandidate}

Ordinal == Nat \ {0}
SnapshotAttempt == [iteration : 0..MaxIterations, commit : Content]
Failure == [ordinal : Ordinal, iteration : 0..MaxIterations,
            commit : Content, kind : Kind]

RunRecord ==
  [state : RunState,
   reason : {"none", "iteration-limit", "stagnation-limit", "budget-exhausted",
             "release-rejected", "approval-blocked",
             "deployment-configuration-invalid", "unrecoverable-failure"},
   iteration : 0..MaxIterations,
   candidate : CandidateSnapshot,      \* run.candidate
   preservation : CandidateSnapshot,   \* run.preservationCandidate
   restoreTarget : CandidateSnapshot,  \* candidateIsolationRestoreTarget
   assessed : BOOLEAN,                 \* run.evidenceClaims is present
   claims : SUBSET Claims,             \* ... and these are verified
   stagnant : Nat,
   opened : Seq(SnapshotAttempt),      \* candidate-snapshot-attempt-opened
   completed : SUBSET Ordinal,         \* candidate-snapshot-attempt-completed
   failures : SUBSET Failure,          \* blockerFailureIdentities
   repairs : Nat,                      \* run.blockerRepairAttempts
   decision : {"none", "pending", "approved", "rejected"},
   manifest : Content \cup {Absent},   \* the candidate run.approval names
   reviewed : Content \cup {Absent},   \* automaticApprovals of the boundary
   reviews : Nat,                      \* approvalAttempts of the boundary
   charged : Nat]                      \* usage, consumed and reserved

Created ==
  [state |-> "created", reason |-> "none", iteration |-> 0,
   candidate |-> NoCandidate, preservation |-> NoCandidate,
   restoreTarget |-> NoCandidate, assessed |-> FALSE, claims |-> {},
   stagnant |-> 0, opened |-> <<>>, completed |-> {}, failures |-> {},
   repairs |-> 0, decision |-> "none", manifest |-> Absent,
   reviewed |-> Absent, reviews |-> 0, charged |-> 0]

-----------------------------------------------------------------------------
\* transition(): only the state and the journal change.
Transition(r, state) == [r EXCEPT !.state = state]

\* transition() to an ended state, then the save of its terminalReason.
End(r, state, reason) == [r EXCEPT !.state = state, !.reason = reason]

\* reserveAttemptBudget() and what ends the invocation.
Affordable(r) == r.charged < Budget
Charge(r) == [r EXCEPT !.charged = @ + 1]

\* Mutant: an open attempt of the iteration is resumed for any commit.
ResumesAttemptMutant(r, iteration, commit) ==
  /\ r.opened # <<>>
  /\ Len(r.opened) \notin r.completed
  /\ r.opened[Len(r.opened)].iteration = iteration

\* openCandidateSnapshotAttempt(): the open attempt is resumed when it is for
\* the same iteration and commit, otherwise a new ordinal is journalled.
ResumesAttempt(r, iteration, commit) ==
  /\ r.opened # <<>>
  /\ Len(r.opened) \notin r.completed
  /\ r.opened[Len(r.opened)] = [iteration |-> iteration, commit |-> commit]

OpenAttempt(r, iteration, commit) ==
  IF ResumesAttempt(r, iteration, commit) THEN r
  ELSE [r EXCEPT !.opened =
          Append(@, [iteration |-> iteration, commit |-> commit])]

CompleteAttempt(r, ordinal) == [r EXCEPT !.completed = @ \cup {ordinal}]

\* recordBlockerFailure(): once per identity, and one kind per ordinal.
RecordsTwice(r, failure) == failure \in r.failures
Contradicts(r, failure) ==
  /\ ~RecordsTwice(r, failure)
  /\ \E f \in r.failures : f.ordinal = failure.ordinal

\* Mutant: a failure that is recorded again is counted again.
RecordFailureMutant(r, failure) ==
  [r EXCEPT !.failures = @ \cup {failure}, !.repairs = @ + 1]

RecordFailure(r, failure) ==
  IF RecordsTwice(r, failure) THEN r
  ELSE [r EXCEPT !.failures = @ \cup {failure}, !.repairs = @ + 1]

CloseRepairEpisode(r) == [r EXCEPT !.repairs = 0]

\* determineStopReason(), but for the clock.
StopReason(r) ==
  CASE r.iteration >= MaxIterations -> "iteration-limit"
    [] r.iteration < MaxIterations /\ r.charged >= Budget -> "budget-exhausted"
    [] r.iteration < MaxIterations /\ r.charged < Budget
         /\ r.stagnant >= StagnantLimit -> "stagnation-limit"
    [] OTHER -> "none"

\* Mutant: verified claims are counted, not compared.
RegressesMutant(r, verified) ==
  r.assessed /\ Cardinality(verified) < Cardinality(r.claims)

\* assessCandidate(): what a QA report means next to the last accepted one.
Regresses(r, verified) == r.assessed /\ ~(r.claims \subseteq verified)
Improves(r, verified) ==
  ~r.assessed \/ Cardinality(verified) > Cardinality(r.claims)

Assess(r, candidate, verified) ==
  [r EXCEPT
     !.assessed = TRUE, !.claims = verified,
     !.stagnant = IF Improves(r, verified) THEN 0 ELSE @ + 1,
     !.preservation = IF Regresses(r, verified) THEN @ ELSE candidate]
=============================================================================
