--------------------------- MODULE AmendmentProofs ---------------------------
(***************************************************************************)
(* What holds of an amendment for any files, limits, edits and any number  *)
(* of crashes: the candidate is moved to approved inventories only.        *)
(***************************************************************************)
EXTENDS Amendment, TLAPS

IInv == TypeOK /\ CommandInv /\ GrantInv

LEMMA NoApprovalIsNone ==
  /\ NoApproval.decision = "none" /\ NoApproval.bytes = None /\ NoApproval.path = None
  /\ NoApproval \notin Approval
<1>1. NoApproval.path = None /\ NoApproval.decision = "none" /\ NoApproval.bytes = None
  BY DEF NoApproval
<1>2. \A approval \in Approval : approval.path \in Paths
  BY DEF Approval
<1> QED
  BY <1>1, <1>2, AmendmentAssumption DEF AmendmentAssumption

LEMMA InitEstablishesIInv == Init => IInv
<1> SUFFICES ASSUME Init PROVE IInv
  OBVIOUS
<1> USE AmendmentAssumption DEF AmendmentAssumption, Init
<1>1. /\ BaseTree \in Tree /\ NoTree \in Tree \cup {NoTree}
      /\ BaseCandidate \in Snapshot /\ NoCandidate \in Snapshot
  BY DEF BaseTree, Tree, Ref, BaseCandidate, NoCandidate, Snapshot
<1>2. [k \in Boundary |-> 0] \in [Boundary -> 0..BoundaryLimit]
  OBVIOUS
<1>3. rec \in RunRecord
  BY <1>1, <1>2 DEF RunRecord, State
<1>4. TypeOK
  BY <1>1, <1>3 DEF TypeOK
<1>5. CommandInv /\ GrantInv
  BY NoApprovalIsNone DEF CommandInv, GrantInv, Approved
<1> QED
  BY <1>4, <1>5 DEF IInv

-----------------------------------------------------------------------------
(* The two ways in which a step writes the record *)

LEMMA WriteKeepsType ==
  ASSUME TypeOK, NEW from, NEW to, NEW record \in RunRecord, Write(from, record, to)
  PROVE  TypeOK'
<1> USE DEF TypeOK, Write, memory, bounds
<1>1. CASE to = "idle"
  BY <1>1 DEF Forgets
<1>2. CASE to # "idle"
  BY <1>2 DEF Forgets
<1> QED
  BY <1>1, <1>2

LEMMA TransitionKeepsType ==
  ASSUME TypeOK, NEW from, NEW to, NEW changed \in RunRecord,
         WriteTransition(from, changed, to)
  PROVE  TypeOK'
<1>1. rec' \in RunRecord /\ next' \in RunRecord
  BY DEF WriteTransition, RunRecord, TypeOK
<1> QED
  BY <1>1 DEF WriteTransition, TypeOK, bounds

\* A command that ends leaves nothing for a later step to rely on.
LEMMA WriteAndReturn ==
  ASSUME IInv, NEW from, NEW record \in RunRecord, Write(from, record, "idle"),
         record.approval = rec.approval, record.reviewed = rec.reviewed
  PROVE  IInv'
<1>1. TypeOK'
  BY WriteKeepsType DEF IInv
<1>2. pc' = "idle" /\ rec' = record /\ next' = record /\ granted' = granted
  BY DEF Write, Goto, Forgets
<1>3. CommandInv'
  BY <1>2 DEF CommandInv
<1>4. GrantInv'
  BY <1>2 DEF IInv, GrantInv
<1> QED
  BY <1>1, <1>3, <1>4 DEF IInv

-----------------------------------------------------------------------------
(* One lemma per group of steps *)

LEMMA SaveNextKeepsIInv == ASSUME IInv, SaveNext PROVE IInv'
<1> USE DEF IInv
<1>1. TypeOK'
  BY WriteKeepsType DEF SaveNext, TypeOK
<1>2. rec' = next /\ granted' = granted /\ pc' = Continuation[pc]
  BY DEF SaveNext, Write, Goto
<1>3. next' \in {next, rec'} /\ UNCHANGED <<refs, provisional, auto>>
  BY DEF SaveNext, Write, Forgets, memory
<1>4. pc' # "idle" => path' = path /\ bytes' = bytes
  BY <1>2 DEF SaveNext, Write, Forgets, memory
<1>5. CommandInv'
  BY <1>2, <1>3, <1>4 DEF SaveNext, Continuation, CommandInv, Approved
<1>6. GrantInv'
  BY <1>2, <1>3 DEF GrantInv
<1> QED
  BY <1>1, <1>5, <1>6

LEMMA ResumeKeepsIInv == ASSUME IInv, Resume PROVE IInv'
<1> USE AmendmentAssumption DEF AmendmentAssumption
<1>1. rec \in RunRecord /\ next \in RunRecord
  BY DEF IInv, TypeOK
<1>2. CASE ProtectedSetMismatch
  <2>1. [rec EXCEPT !.state = "failed"] \in RunRecord
    BY <1>1 DEF RunRecord, State
  <2> QED
    BY <1>1, <1>2, <2>1, WriteAndReturn DEF ProtectedSetMismatch, RunRecord
<1>3. CASE Stop
  <2>1. [rec EXCEPT !.state = "stopped"] \in RunRecord
    BY <1>1 DEF RunRecord, State
  <2> QED
    BY <1>1, <1>3, <2>1, WriteAndReturn DEF Stop, RunRecord
<1>4. CASE QaAccepts
  <2>1. PICK state \in {"planned", "ready"} :
          Write("idle",
            [rec EXCEPT !.preservation = rec.candidate, !.state = state,
               !.iteration = IF state = "planned" THEN @ + 1 ELSE @], "idle")
    BY <1>4 DEF QaAccepts
  <2>2. rec.iteration \in 1..MaxIterations /\ rec.iteration < MaxIterations
    BY <1>1, <1>4 DEF QaAccepts, Begins, RunRecord
  <2> DEFINE iteration == IF state = "planned" THEN rec.iteration + 1 ELSE rec.iteration
  <2>3. iteration \in 1..MaxIterations
    BY <2>2
  <2> DEFINE record == [rec EXCEPT !.preservation = rec.candidate, !.state = state,
                                   !.iteration = iteration]
  <2>4. record \in RunRecord
    BY <1>1, <2>3 DEF RunRecord, State
  <2>5. Write("idle", record, "idle")
    BY <1>1, <2>1 DEF RunRecord
  <2>6. record.approval = rec.approval /\ record.reviewed = rec.reviewed
    BY <1>1 DEF RunRecord
  <2> HIDE DEF record
  <2> QED
    BY <2>4, <2>5, <2>6, WriteAndReturn
<1>5. CASE Enter
  <2> DEFINE state == IF rec.episodes + 1 > MaxEpisodes THEN "failed"
                      ELSE "amendment-required"
             changed == [next EXCEPT !.episodes = rec.episodes + 1, !.failures = 0,
                           !.state = state]
  <2>0. state \in State /\ rec.episodes + 1 \in Nat
    BY <1>1 DEF State, RunRecord
  <2>1. changed \in RunRecord
    <3> HIDE DEF state
    <3> QED BY <1>1, <2>0 DEF RunRecord
  <2>2. WriteTransition("enter", changed, "saveEntered")
    BY <1>5 DEF Enter
  <2>3. TypeOK'
    BY <2>1, <2>2, TransitionKeepsType DEF IInv
  <2>4. /\ changed.approval = next.approval /\ changed.reviewed = next.reviewed
        /\ rec'.approval = rec.approval /\ rec'.reviewed = rec.reviewed
        /\ next' = changed /\ granted' = granted /\ pc' = "saveEntered"
    BY <1>1, <2>2 DEF WriteTransition, RunRecord, Goto
  <2> QED
    BY <2>3, <2>4 DEF IInv, CommandInv, GrantInv
<1>6. CASE Develop
  <2>0. TypeOK' /\ (\E developed :
          \/ rec' = [rec EXCEPT !.state = "candidate", !.candidate = developed]
             /\ next' = rec'
          \/ rec' = rec /\ next' = [rec EXCEPT !.candidate = developed])
    <3>1. PICK surface \in Surfaces :
       LET tree == [worktree EXCEPT !.surface = surface]
           developed == [ref |-> rec.iteration, tree |-> tree]
       IN /\ worktree' = tree
          /\ refs' = [refs EXCEPT ![rec.iteration] = tree]
          /\ IF Fits(surface, tree.inventory)
             THEN /\ pc' = "idle"
                  /\ rec' = [rec EXCEPT !.state = "candidate",
                                        !.candidate = developed]
                  /\ next' = rec'
             ELSE /\ pc' = "enter"
                  /\ next' = [rec EXCEPT !.candidate = developed]
                  /\ UNCHANGED rec
      BY <1>6 DEF Develop
    <3> DEFINE tree == [worktree EXCEPT !.surface = surface]
               developed == [ref |-> rec.iteration, tree |-> tree]
    <3>2. tree \in Tree
      BY DEF IInv, TypeOK, Tree
    <3>3. developed \in Snapshot
      BY <1>1, <3>2 DEF Snapshot, RunRecord, Ref
    <3>4. /\ [rec EXCEPT !.state = "candidate", !.candidate = developed] \in RunRecord
          /\ [rec EXCEPT !.candidate = developed] \in RunRecord
      BY <1>1, <3>3 DEF RunRecord, State
    <3>5. rec' \in RunRecord /\ next' \in RunRecord
      BY <1>1, <3>1, <3>4
    <3>6. refs' \in [Ref -> Tree \cup {NoTree}] /\ worktree' \in Tree
      BY <3>1, <3>2 DEF IInv, TypeOK
    <3>7. TypeOK'
      BY <1>6, <3>5, <3>6 DEF Develop, IInv, TypeOK, bounds
    <3> QED
      BY <3>1, <3>7
  <2>2. pc' \in {"idle", "enter"} /\ granted' = granted
    BY <1>6 DEF Develop
  <2>3. /\ rec'.approval = rec.approval /\ rec'.reviewed = rec.reviewed
        /\ next'.approval = rec.approval /\ next'.reviewed = rec.reviewed
    BY <1>1, <2>0 DEF RunRecord
  <2> QED
    BY <2>0, <2>2, <2>3 DEF IInv, CommandInv, GrantInv
<1>7. CASE QaRejects
  <2>0. rec.candidate \in Snapshot /\ rec.preservation \in Snapshot
    BY <1>1 DEF RunRecord
  <2>1. PICK state \in State, candidate \in Snapshot :
          rec' = [rec EXCEPT !.state = state, !.candidate = candidate]
    <3>1. CASE rec' = [rec EXCEPT !.state = "candidate-isolation-required"]
      <4>1. rec' = [rec EXCEPT !.state = "candidate-isolation-required",
                               !.candidate = rec.candidate]
        BY <1>1, <3>1 DEF RunRecord
      <4> QED
        BY <2>0, <4>1 DEF State
    <3>2. CASE \E candidate \in {rec.candidate, rec.preservation} :
                 rec' = [rec EXCEPT !.state = "planned", !.candidate = candidate]
      BY <2>0, <3>2 DEF State
    <3> QED
      BY <1>7, <3>1, <3>2 DEF QaRejects
  <2>2. rec' \in RunRecord /\ next' = rec' /\ pc' = "idle" /\ granted' = granted
    BY <1>1, <1>7, <2>1 DEF QaRejects, Forgets, Begins, Resumes, RunRecord
  <2>3. refs' \in [Ref -> Tree \cup {NoTree}] /\ rec.preservation.ref \in Ref
    BY <1>1, <1>7 DEF QaRejects, IInv, TypeOK, RunRecord, Snapshot
  <2>4. worktree' \in Tree
    BY <1>7, <2>3 DEF QaRejects, IInv, TypeOK
  <2>5. TypeOK'
    BY <1>7, <2>2, <2>3, <2>4 DEF QaRejects, Forgets, IInv, TypeOK, bounds
  <2>6. rec'.approval = rec.approval /\ rec'.reviewed = rec.reviewed
    BY <1>1, <2>1 DEF RunRecord
  <2> QED
    BY <2>2, <2>5, <2>6 DEF IInv, CommandInv, GrantInv
<1> QED
  BY <1>2, <1>3, <1>4, <1>5, <1>6, <1>7 DEF Resume

\* The steps up to the approval.
Reviewing ==
  \/ AmendReviews \/ ReadManifest \/ ReviewIsKnown \/ ConsumeAttempt
  \/ BoundaryIsBlocked \/ ReviewerApproves \/ ReviewerObjects \/ ReviewerFails
  \/ Decide \/ DecideTooLate \/ Grant

LEMMA ProceedsKeepsType ==
  ASSUME TypeOK, NEW from, NEW to, Proceeds(from, to)
  PROVE  TypeOK' /\ rec' = rec /\ pc' = to /\ pc = from /\ granted' = granted
         /\ next' \in {next, rec} /\ UNCHANGED <<refs, provisional>>
         /\ (to # "idle" => UNCHANGED <<path, bytes>>)
<1>1. TypeOK'
  BY WriteKeepsType DEF Proceeds, TypeOK
<1> QED
  BY <1>1 DEF Proceeds, Write, Goto, Forgets, memory

LEMMA ReviewingKeepsIInv == ASSUME IInv, Reviewing PROVE IInv'
<1> USE AmendmentAssumption DEF AmendmentAssumption
<1>1. TypeOK /\ rec \in RunRecord /\ next \in RunRecord
  BY DEF IInv, TypeOK
<1>2. CASE AmendReviews
  <2>1. rec.approval \in Approval
    BY <1>1, <1>2 DEF AmendReviews, RunRecord
  <2>2. TypeOK'
    BY <1>1, <1>2, <2>1 DEF AmendReviews, TypeOK, disk, bounds, Approval
  <2> QED
    BY <1>2, <2>2 DEF AmendReviews, Goto, disk, IInv, CommandInv, GrantInv
<1>3. CASE ReadManifest
  <2>1. pc = "approve" /\ rec.approval # NoApproval /\ path = rec.approval.path
    BY <1>3 DEF ReadManifest, Goto, IInv, CommandInv
  <2>2. path \in Paths
    BY <1>1, <2>1 DEF RunRecord, Approval
  <2>3. TypeOK'
    BY <1>1, <1>3, <2>2 DEF ReadManifest, TypeOK, disk, bounds
  <2> QED
    BY <1>3, <2>1, <2>3 DEF ReadManifest, Goto, disk, IInv, CommandInv, GrantInv
<1>4. CASE ReviewIsKnown
  <2>1. bytes \in granted
    BY <1>4 DEF ReviewIsKnown, AlreadyReviewed, Manifest, IInv, GrantInv
  <2> QED
    BY <1>1, <1>4, <2>1, ProceedsKeepsType
    DEF ReviewIsKnown, IInv, CommandInv, GrantInv
<1>5. CASE ConsumeAttempt
  <2> DEFINE record == [rec EXCEPT !.attempts[Key] = @ + 1]
  <2>1. record \in RunRecord
    <3> DEFINE attempts == [rec.attempts EXCEPT ![Key] = @ + 1]
    <3>1. rec.attempts \in [Boundary -> 0..BoundaryLimit] /\ rec.attempts[Key] < BoundaryLimit
      BY <1>1, <1>5 DEF ConsumeAttempt, RunRecord
    <3>2. attempts \in [Boundary -> 0..BoundaryLimit]
      <4>1. ASSUME NEW boundary \in Boundary
            PROVE  (IF boundary = Key THEN rec.attempts[boundary] + 1
                    ELSE rec.attempts[boundary]) \in 0..BoundaryLimit
        BY <3>1
      <4>2. attempts = [boundary \in Boundary |->
                          IF boundary = Key THEN rec.attempts[boundary] + 1
                          ELSE rec.attempts[boundary]]
        BY <3>1
      <4> QED
        BY <4>1, <4>2
    <3>3. record = [rec EXCEPT !.attempts = attempts]
      BY <1>1 DEF RunRecord
    <3> HIDE DEF attempts, record
    <3> QED
      BY <1>1, <3>2, <3>3 DEF RunRecord
  <2>2. Write("consider", record, "answer")
    BY <1>5 DEF ConsumeAttempt
  <2>3. record.approval = rec.approval /\ record.reviewed = rec.reviewed
    BY <1>1 DEF RunRecord
  <2> HIDE DEF record
  <2>4. TypeOK'
    BY <1>1, <2>1, <2>2, WriteKeepsType
  <2>5. /\ pc = "consider" /\ pc' = "answer" /\ rec' = record
        /\ UNCHANGED <<path, bytes, next, granted>>
    BY <2>2 DEF Write, Goto, Forgets, memory
  <2> QED
    BY <2>3, <2>4, <2>5 DEF IInv, CommandInv, GrantInv
<1>6. CASE BoundaryIsBlocked \/ ReviewerApproves \/ ReviewerObjects \/ DecideTooLate
  <2>1. PICK from \in {"consider", "answer", "decide"}, to \in {"fail", "decide", "idle"} :
          Proceeds(from, to) /\ (to = "decide" => from = "answer")
    BY <1>6 DEF BoundaryIsBlocked, ReviewerApproves, ReviewerObjects, DecideTooLate
  <2> QED
    BY <1>1, <2>1, ProceedsKeepsType DEF IInv, CommandInv, GrantInv
<1>7. CASE Decide
  <2> DEFINE reviewed == {review \in rec.reviewed : review.boundary # Key} \cup {Manifest}
  <2>1. /\ pc = "decide" /\ pc' = "grant" /\ rec' = [rec EXCEPT !.reviewed = reviewed]
        /\ granted' = granted \cup {bytes}
        /\ UNCHANGED <<path, bytes, next>>
    BY <1>1, <1>7 DEF Decide, Goto, memory, RunRecord
  <2>2. path \in Paths /\ bytes \in Inventories
    BY <1>1, <2>1 DEF IInv, CommandInv, RunRecord, Approval
  <2>3. Manifest \in Review /\ Manifest.bytes = bytes
    BY <1>1, <2>2 DEF Key, RunRecord, Manifest, Review
  <2>4. rec' \in RunRecord
    <3>1. reviewed \in SUBSET Review
      BY <1>1, <2>3 DEF RunRecord
    <3> HIDE DEF reviewed
    <3> QED
      BY <1>1, <2>1, <3>1 DEF RunRecord
  <2>5. TypeOK'
    BY <1>1, <1>7, <2>2, <2>4 DEF Decide, TypeOK, memory, bounds
  <2>6. rec'.approval = rec.approval /\ rec'.reviewed = reviewed
    BY <1>1, <2>1 DEF RunRecord
  <2>7. CommandInv'
    BY <2>1, <2>6 DEF IInv, CommandInv
  <2>8. GrantInv'
    BY <2>1, <2>3, <2>6 DEF IInv, GrantInv
  <2> QED
    BY <2>5, <2>7, <2>8 DEF IInv
<1>8. CASE ReviewerFails
  <2>1. Write("answer", rec, "idle")
    BY <1>8 DEF ReviewerFails, Throws
  <2> QED
    BY <1>1, <2>1, WriteAndReturn
<1>9. CASE Grant
  <2> DEFINE approval == [rec.approval EXCEPT !.decision = "approved"]
             changed == [rec EXCEPT !.state = "amendment-required", !.approval = approval]
  <2>1. /\ pc = "grant" /\ rec.approval \in Approval /\ path = rec.approval.path
        /\ bytes = rec.approval.bytes /\ bytes \in granted
    BY <1>1, <1>9 DEF Grant, WriteTransition, Goto, IInv, CommandInv, RunRecord
  <2>2. /\ approval \in Approval /\ approval.decision = "approved"
        /\ approval.path = rec.approval.path /\ approval.bytes = rec.approval.bytes
    BY <2>1 DEF Approval
  <2> HIDE DEF approval
  <2>3. changed \in RunRecord
    BY <1>1, <2>2 DEF RunRecord, State
  <2>4. WriteTransition("grant", changed, "saveGranted")
    BY <1>1, <1>9 DEF Grant, RunRecord, approval
  <2>5. TypeOK'
    BY <1>1, <2>3, <2>4, TransitionKeepsType
  <2>6. /\ pc' = "saveGranted" /\ next' = changed /\ UNCHANGED <<path, granted>>
        /\ rec'.approval = rec.approval /\ rec'.reviewed = rec.reviewed
        /\ changed.approval = approval /\ changed.reviewed = rec.reviewed
    BY <1>1, <2>4 DEF WriteTransition, Goto, RunRecord
  <2> HIDE DEF changed
  <2>7. CommandInv'
    BY <2>1, <2>2, <2>6, NoApprovalIsNone DEF CommandInv
  <2>8. GrantInv'
    BY <2>1, <2>2, <2>6 DEF IInv, GrantInv
  <2> QED
    BY <2>5, <2>7, <2>8 DEF IInv
<1> QED
  BY <1>2, <1>3, <1>4, <1>5, <1>6, <1>7, <1>8, <1>9 DEF Reviewing

\* The steps before and after the review, and those of the application.
Applying ==
  \/ AmendApplies \/ (\E file \in Paths : AmendPrepares(file)) \/ Pause \/ Fail
  \/ ApplyRefused \/ Apply \/ Commit \/ CommitThrows \/ Validate \/ PromoteInventory
  \/ MoveCandidate \/ Complete \/ Repin \/ Discard

LEMMA ApplyingKeepsIInv == ASSUME IInv, Applying PROVE IInv'
<1> USE AmendmentAssumption DEF AmendmentAssumption
<1>1. TypeOK /\ rec \in RunRecord /\ next \in RunRecord
  BY DEF IInv, TypeOK
<1>2. CASE AmendApplies
  <2>1. rec.approval \in Approval
    BY <1>1, <1>2, NoApprovalIsNone DEF AmendApplies, Approved, RunRecord
  <2>2. TypeOK'
    BY <1>1, <1>2, <2>1 DEF AmendApplies, TypeOK, disk, bounds, Approval
  <2> QED
    BY <1>2, <2>2 DEF AmendApplies, Goto, disk, Approved, IInv, CommandInv, GrantInv
<1>3. ASSUME NEW file \in Paths, AmendPrepares(file) PROVE IInv'
  <2>1. files[file] \in Inventories
    BY <1>1 DEF TypeOK
  <2>2. TypeOK'
    BY <1>1, <1>3, <2>1 DEF AmendPrepares, TypeOK, disk, bounds
  <2> QED
    BY <1>3, <2>1, <2>2 DEF AmendPrepares, Goto, disk, IInv, CommandInv, GrantInv
<1>4. CASE Pause
  <2> DEFINE approval == [path |-> path, bytes |-> bytes, decision |-> "none"]
             changed == [rec EXCEPT !.state = "approval-paused", !.approval = approval]
  <2>1. WriteTransition("pause", changed, "savePaused")
    BY <1>4 DEF Pause
  <2>2. approval \in Approval /\ approval.decision = "none" /\ approval.path = path
    BY <2>1 DEF WriteTransition, Goto, IInv, CommandInv, Approval
  <2> HIDE DEF approval
  <2>3. changed \in RunRecord
    BY <1>1, <2>2 DEF RunRecord, State
  <2>4. TypeOK'
    BY <1>1, <2>1, <2>3, TransitionKeepsType
  <2>5. /\ pc' = "savePaused" /\ next' = changed /\ UNCHANGED <<path, granted>>
        /\ rec'.approval = rec.approval /\ rec'.reviewed = rec.reviewed
        /\ changed.approval = approval /\ changed.reviewed = rec.reviewed
    BY <1>1, <2>1 DEF WriteTransition, Goto, RunRecord
  <2> HIDE DEF changed
  <2> QED
    BY <2>2, <2>4, <2>5, NoApprovalIsNone DEF IInv, CommandInv, GrantInv
<1>5. CASE Fail
  <2> DEFINE state == IF rec.failures + 1 > RetryLimit THEN "failed"
                      ELSE "amendment-required"
             changed == [rec EXCEPT !.failures = rec.failures + 1,
                                    !.approval = NoApproval, !.state = state]
  <2>1. WriteTransition("fail", changed, "saveFailed")
    BY <1>5 DEF Fail
  <2>2. state \in State /\ rec.failures + 1 \in Nat
    BY <1>1 DEF State, RunRecord
  <2> HIDE DEF state
  <2>3. changed \in RunRecord
    BY <1>1, <2>2 DEF RunRecord
  <2>4. TypeOK'
    BY <1>1, <2>1, <2>3, TransitionKeepsType
  <2>5. /\ pc' = "saveFailed" /\ next' = changed /\ granted' = granted
        /\ rec'.approval = rec.approval /\ rec'.reviewed = rec.reviewed
        /\ changed.approval = NoApproval /\ changed.reviewed = rec.reviewed
    BY <1>1, <2>1 DEF WriteTransition, Goto, RunRecord
  <2> HIDE DEF changed
  <2> QED
    BY <2>4, <2>5, NoApprovalIsNone DEF IInv, CommandInv, GrantInv
<1>6. CASE Apply
  <2>1. pc = "apply" /\ Approved /\ path = rec.approval.path /\ path \in Paths
    BY <1>1, <1>6, NoApprovalIsNone
    DEF Apply, Goto, IInv, CommandInv, Approved, RunRecord, Approval
  <2>2. TypeOK'
    BY <1>1, <1>6, <2>1 DEF Apply, TypeOK, disk, bounds
  <2> QED
    BY <1>6, <2>1, <2>2 DEF Apply, Goto, disk, Approved, IInv, CommandInv, GrantInv
<1>7. CASE Commit
  <2>1. /\ pc = "commit" /\ pc' = "validate" /\ provisional' = Amended
        /\ bytes \in Inventories
    BY <1>1, <1>7, NoApprovalIsNone
    DEF Commit, Goto, IInv, CommandInv, Approved, RunRecord, Approval
  <2>2. refs[rec.candidate.ref] \in Tree
    BY <1>1, <1>7 DEF Commit, Commits, TypeOK, RunRecord, Snapshot
  <2>3. Amended \in Tree /\ Amended.inventory = bytes
    BY <2>1, <2>2 DEF Amended, Tree
  <2>4. TypeOK'
    BY <1>1, <1>7, <2>1, <2>3 DEF Commit, TypeOK, memory, bounds
  <2> QED
    BY <1>7, <2>1, <2>3, <2>4
    DEF Commit, memory, Approved, IInv, CommandInv, GrantInv, Tree
<1>8. CASE CommitThrows \/ ApplyRefused
  <2>1. PICK from \in {"commit", "apply"} : Write(from, rec, "idle")
    BY <1>8 DEF CommitThrows, ApplyRefused, Throws
  <2> QED
    BY <1>1, <2>1, WriteAndReturn
<1>9. CASE Validate
  <2>1. PICK to \in {"promote", "discard"} : Proceeds("validate", to)
    BY <1>9 DEF Validate
  <2> QED
    BY <1>1, <2>1, ProceedsKeepsType DEF Approved, IInv, CommandInv, GrantInv, Tree
<1>10. CASE PromoteInventory
  <2>1. bytes \in Inventories
    BY <1>1, <1>10, NoApprovalIsNone
    DEF PromoteInventory, Goto, IInv, CommandInv, Approved, RunRecord, Approval
  <2>2. TypeOK'
    BY <1>1, <1>10, <2>1 DEF PromoteInventory, TypeOK, memory, bounds
  <2> QED
    BY <1>10, <2>2
    DEF PromoteInventory, Goto, memory, Approved, IInv, CommandInv, GrantInv, Tree
<1>11. CASE MoveCandidate
  <2>1. /\ pc = "move" /\ pc' = "complete" /\ provisional \in Tree
        /\ path \in Paths /\ bytes \in Inventories
    BY <1>1, <1>11, NoApprovalIsNone
    DEF MoveCandidate, Goto, IInv, CommandInv, Approved, RunRecord, Approval
  <2>2. 0 \in Ref
    BY DEF Ref
  <2>3. TypeOK' /\ refs'[0] = provisional
    BY <1>1, <1>11, <2>1, <2>2 DEF MoveCandidate, TypeOK, memory, bounds
  <2> QED
    BY <1>11, <2>1, <2>3 DEF MoveCandidate, memory, IInv, CommandInv, GrantInv, Tree
<1>12. CASE Complete
  <2> DEFINE candidate == [ref |-> 0, tree |-> refs[0]]
             changed == [rec EXCEPT !.state = "candidate", !.failures = 0,
                                    !.candidate = candidate]
  <2>1. WriteTransition("complete", changed, "saveCompleted")
    BY <1>12 DEF Complete
  <2>2. /\ candidate \in Snapshot
        /\ path \in Paths /\ bytes \in Inventories
    BY <2>1 DEF WriteTransition, Goto, IInv, CommandInv, Snapshot, Ref
  <2> HIDE DEF candidate
  <2>3. changed \in RunRecord
    BY <1>1, <2>2 DEF RunRecord, State
  <2>4. TypeOK'
    BY <1>1, <2>1, <2>3, TransitionKeepsType
  <2>5. /\ pc' = "saveCompleted" /\ next' = changed /\ UNCHANGED <<path, bytes, granted>>
        /\ rec'.approval = rec.approval /\ rec'.reviewed = rec.reviewed
        /\ changed.approval = rec.approval /\ changed.reviewed = rec.reviewed
    BY <1>1, <2>1 DEF WriteTransition, Goto, RunRecord
  <2> HIDE DEF changed
  <2> QED
    BY <2>2, <2>4, <2>5 DEF IInv, CommandInv, GrantInv
<1>13. CASE Repin
  <2> DEFINE record == [rec EXCEPT !.pin = bytes, !.override = TRUE]
  <2>1. Write("repin", record, "idle")
    BY <1>13 DEF Repin
  <2>2. bytes \in Inventories
    BY <2>1 DEF Write, Goto, IInv, CommandInv
  <2>3. /\ record \in RunRecord
        /\ record.approval = rec.approval /\ record.reviewed = rec.reviewed
    BY <1>1, <2>2 DEF RunRecord
  <2> HIDE DEF record
  <2> QED
    BY <2>1, <2>3, WriteAndReturn
<1>14. CASE Discard
  <2>1. TypeOK'
    BY <1>1, <1>14 DEF Discard, TypeOK, memory, bounds
  <2> QED
    BY <1>14, <2>1 DEF Discard, Goto, memory, IInv, CommandInv, GrantInv
<1> QED
  BY <1>2, <1>3, <1>4, <1>5, <1>6, <1>7, <1>8, <1>9, <1>10, <1>11, <1>12, <1>13,
     <1>14 DEF Applying

LEMMA OthersKeepIInv == ASSUME IInv, RecordApproval \/ OperatorEdits \/ Crash PROVE IInv'
<1> USE AmendmentAssumption DEF AmendmentAssumption
<1>1. TypeOK /\ rec \in RunRecord
  BY DEF IInv, TypeOK
<1>2. CASE RecordApproval
  <2>1. rec.approval \in Approval
    BY <1>1, <1>2 DEF RecordApproval, RunRecord
  <2>2. PICK decision \in {"approved", "rejected"}, failures \in Nat :
          /\ rec' = [rec EXCEPT !.state = "amendment-required",
                        !.approval = [rec.approval EXCEPT !.decision = decision],
                        !.failures = failures]
          /\ granted \subseteq granted' /\ granted' \subseteq granted \cup {rec.approval.bytes}
          /\ decision = "approved" => rec.approval.bytes \in granted'
    <3>1. CASE granted' = granted \cup {rec.approval.bytes}
               /\ rec' = [rec EXCEPT !.state = "amendment-required",
                                     !.approval.decision = "approved"]
      BY <1>1, <3>1, ZenonT(40) DEF RunRecord
    <3>2. CASE granted' = granted
               /\ rec' = [rec EXCEPT !.state = "amendment-required",
                              !.approval.decision = "rejected", !.failures = @ + 1]
      <4>1. rec.failures + 1 \in Nat
        BY <1>1 DEF RunRecord
      <4>2. rec' = [rec EXCEPT !.state = "amendment-required",
                       !.approval = [rec.approval EXCEPT !.decision = "rejected"],
                       !.failures = rec.failures + 1]
        BY <1>1, <3>2 DEF RunRecord
      <4> QED
        BY <3>2, <4>1, <4>2
    <3> QED
      BY <1>2, <3>1, <3>2 DEF RecordApproval
  <2> DEFINE approval == [rec.approval EXCEPT !.decision = decision]
  <2>3. approval \in Approval /\ approval.decision = decision
        /\ approval.bytes = rec.approval.bytes
    BY <2>1 DEF Approval
  <2> HIDE DEF approval
  <2>4. /\ rec' \in RunRecord /\ rec'.approval = approval
        /\ rec'.reviewed = rec.reviewed
    BY <1>1, <2>2, <2>3 DEF RunRecord, State, approval
  <2>5. pc' = "idle" /\ next' = rec' /\ path' = None /\ bytes' = None
    BY <1>2 DEF RecordApproval, Forgets
  <2>6. granted' \subseteq Inventories
    BY <1>1, <2>1, <2>2 DEF TypeOK, Approval
  <2>7. rejections' \in 0..MaxRejections
    BY <1>1, <1>2 DEF RecordApproval, TypeOK
  <2>8. TypeOK'
    BY <1>1, <1>2, <2>4, <2>5, <2>6, <2>7 DEF RecordApproval, TypeOK
  <2>9. CommandInv' /\ GrantInv'
    BY <2>2, <2>3, <2>4, <2>5 DEF IInv, CommandInv, GrantInv
  <2> QED
    BY <2>8, <2>9 DEF IInv
<1>3. CASE OperatorEdits
  <2>1. TypeOK'
    BY <1>1, <1>3 DEF OperatorEdits, TypeOK, disk, memory
  <2> QED
    BY <1>3, <2>1 DEF OperatorEdits, disk, memory, Approved, IInv, CommandInv, GrantInv, Tree
<1>4. CASE Crash
  <2>1. TypeOK'
    BY <1>1, <1>4 DEF Crash, Forgets, TypeOK, disk
  <2> QED
    BY <1>4, <2>1 DEF Crash, Forgets, disk, IInv, CommandInv, GrantInv
<1> QED
  BY <1>2, <1>3, <1>4

-----------------------------------------------------------------------------
LEMMA NextKeepsIInv == IInv /\ [Next]_vars => IInv'
<1> SUFFICES ASSUME IInv, [Next]_vars PROVE IInv'
  OBVIOUS
<1>1. CASE Resume
  BY <1>1, ResumeKeepsIInv
<1>2. CASE Amend
  BY <1>2, ReviewingKeepsIInv, ApplyingKeepsIInv DEF Amend, Reviewing, Applying
<1>3. CASE SaveNext
  BY <1>3, SaveNextKeepsIInv
<1>4. CASE RecordApproval \/ OperatorEdits \/ Crash
  BY <1>4, OthersKeepIInv
<1>5. CASE UNCHANGED vars
  <2>1. TypeOK'
    BY <1>5 DEF vars, disk, memory, bounds, IInv, TypeOK
  <2> QED
    BY <1>5, <2>1
    DEF vars, disk, memory, Approved, IInv, CommandInv, GrantInv, Tree
<1> QED
  BY <1>1, <1>2, <1>3, <1>4, <1>5 DEF Next, Step

\* The types, what the steps of a command rely on, and that whatever counts
\* as approved was granted: in every state, for any number of files, edits,
\* refusals, episodes and crashes.
THEOREM AmendmentInvariant == Spec => []IInv
BY InitEstablishesIInv, NextKeepsIInv, PTL DEF Spec

\* The candidate is only ever moved to an inventory that was approved, and
\* that the approval in the record names.
THEOREM PromotionIsApproved == Spec => PromotesApprovedBytes
<1> DEFINE Moves ==
      refs'[0] # refs[0] =>
        /\ refs'[0].inventory \in granted
        /\ Approved /\ refs'[0].inventory = rec.approval.bytes
<1>1. IInv /\ [Next]_vars => [Moves]_vars
  <2> SUFFICES ASSUME IInv, [Next]_vars, refs'[0] # refs[0]
               PROVE  /\ refs'[0].inventory \in granted
                      /\ Approved /\ refs'[0].inventory = rec.approval.bytes
    OBVIOUS
  <2>0. refs' # refs
    OBVIOUS
  <2>1. rec \in RunRecord /\ 0 \in Ref /\ refs \in [Ref -> Tree \cup {NoTree}]
    BY AmendmentAssumption DEF AmendmentAssumption, IInv, TypeOK, Ref
  <2>2. CASE MoveCandidate
    <3>1. /\ refs'[0] = provisional /\ Approved /\ bytes = rec.approval.bytes
          /\ provisional.inventory = bytes
      BY <2>1, <2>2 DEF MoveCandidate, Goto, IInv, CommandInv
    <3> QED
      BY <3>1 DEF Approved, IInv, GrantInv
  <2>3. CASE Develop
    BY <2>1, <2>3 DEF Develop, RunRecord
  <2>4. CASE QaRejects
    BY <2>1, <2>4 DEF QaRejects, RunRecord, Snapshot
  <2>5. MoveCandidate \/ Develop \/ QaRejects
    <3> USE <2>0 DEF Write, WriteTransition, Throws, Proceeds, disk
    <3>1. ~ProtectedSetMismatch /\ ~Stop /\ ~Enter /\ ~QaAccepts /\ ~SaveNext
      BY DEF ProtectedSetMismatch, Stop, Enter, QaAccepts, SaveNext
    <3>2. ~Reviewing
      BY DEF Reviewing, AmendReviews, ReadManifest, ReviewIsKnown, ConsumeAttempt,
             BoundaryIsBlocked, ReviewerApproves, ReviewerObjects, ReviewerFails,
             Decide, DecideTooLate, Grant
    <3>3. Applying => MoveCandidate
      BY DEF Applying, AmendApplies, AmendPrepares, Pause, Fail, ApplyRefused, Apply, Commit,
             CommitThrows, Validate, PromoteInventory, Complete, Repin, Discard
    <3>4. ~RecordApproval /\ ~OperatorEdits /\ ~Crash
      BY DEF RecordApproval, OperatorEdits, Crash
    <3> QED
      BY <3>1, <3>2, <3>3, <3>4 DEF Next, Step, Resume, Amend, Reviewing, Applying, vars
  <2> QED
    BY <2>2, <2>3, <2>4, <2>5
<1> QED
  BY <1>1, AmendmentInvariant, PTL DEF Spec, PromotesApprovedBytes

-----------------------------------------------------------------------------
(* Between commands that were not interrupted the run is whole.             *)

Promoting == {"move", "complete", "saveCompleted", "repin"}
Entering == {"enter", "saveEntered"}
Saving == {"savePaused", "saveFailed", "saveGranted"}
Amending == {"amendment-required", "approval-paused"}

\* What two records agree on unless candidates are made, judged or amended.
Same(record, other) ==
  /\ record.candidate = other.candidate /\ record.preservation = other.preservation
  /\ record.pin = other.pin /\ record.override = other.override

\* A candidate that waits for its amendment is a commit of the worktree.
Frozen(record, trees, tree) ==
  /\ record.candidate.ref # 0
  /\ trees[record.candidate.ref] \in Tree
  /\ trees[record.candidate.ref].surface = tree.surface

\* Before the first amendment every commit has the inventory of the run base,
\* after it the inventory is the one kept with the run.
PinInv ==
  /\ ~rec.override =>
       /\ worktree.inventory = rec.pin
       /\ \A r \in Ref \ {0} : refs[r] \in Tree => refs[r].inventory = rec.pin
       /\ rec.preservation.ref # 0
       /\ rec.candidate.ref = 0 => pc = "repin"
  /\ rec.override /\ pc \notin Promoting => isolated = rec.pin
  /\ pc \in Promoting => isolated = bytes

\* What is saved after a transition changes nothing but what it should.
NextInv ==
  /\ pc \in Entering \cup Saving \cup {"saveCompleted"} =>
       /\ next.pin = rec.pin /\ next.override = rec.override
       /\ next.preservation = rec.preservation
  /\ pc \in Entering => Frozen(next, refs, worktree)
  /\ pc \in Saving => next.candidate = rec.candidate /\ next.state = rec.state
  /\ pc = "saveEntered" => next.state \in Amending \cup {"failed"}
  /\ pc = "saveCompleted" =>
       next.state = "candidate" /\ next.candidate = [ref |-> 0, tree |-> refs[0]]

FrozenInv ==
  /\ pc \notin Entering \cup Promoting \cup {"idle", "saveFailed"} => rec.state \in Amending
  /\ pc = "saveFailed" => rec.state \in Amending \cup {"failed"}
  /\ rec.state \in Amending /\ pc \notin Entering \cup Promoting =>
       Frozen(rec, refs, worktree)

\* What is promoted has the surface it was validated for.
PromotedInv ==
  /\ pc \in {"validate", "promote", "move"} => provisional.surface = worktree.surface
  /\ pc \in {"promote", "move"} => Fits(worktree.surface, bytes)
  /\ pc \in {"complete", "saveCompleted", "repin"} =>
       Fits(refs[0].surface, refs[0].inventory)
  /\ pc = "repin" =>
       rec.state = "candidate" /\ rec.candidate = [ref |-> 0, tree |-> refs[0]]
  /\ pc = "idle" /\ rec.state = "candidate" =>
       /\ refs[rec.candidate.ref] = rec.candidate.tree
       /\ Fits(rec.candidate.tree.surface, rec.candidate.tree.inventory)

WholeParts == PinInv /\ NextInv /\ FrozenInv /\ PromotedInv
WholeInv == crashes = 0 => WholeParts

LEMMA InitIsWhole == Init => WholeInv
<1> SUFFICES ASSUME Init PROVE WholeParts
  BY DEF WholeInv
<1>1. None \notin Inventories
  BY AmendmentAssumption DEF AmendmentAssumption
<1>2. NoTree \notin Tree
  BY <1>1 DEF NoTree, Tree
<1> QED
  BY <1>2 DEF Init, WholeParts, PinInv, NextInv, FrozenInv, PromotedInv, Promoting, Entering,
     Saving, Amending, BaseCandidate, NoCandidate, BaseTree

\* A step of a command that reads, asks or gives up.
Calm == {"pause", "approve", "consider", "answer", "decide", "grant", "apply", "commit",
         "validate", "promote", "discard", "fail"}

LEMMA CalmStep ==
  ASSUME WholeParts, UNCHANGED <<refs, worktree, isolated>>,
         Same(rec', rec), rec'.state = rec.state,
         pc \in Calm \/ (pc = "idle" /\ rec.state \in Amending),
         pc' \in {"pause", "approve", "consider", "answer", "decide", "grant", "apply",
                  "commit", "discard", "fail", "idle"}
  PROVE  WholeParts'
<1> USE DEF WholeParts, Same, Promoting, Entering, Saving, Amending, Calm
<1>1. rec.state \in Amending /\ Frozen(rec, refs, worktree)
  BY DEF FrozenInv
<1>2. PinInv'
  BY DEF PinInv
<1>3. NextInv'
  BY DEF NextInv
<1>4. FrozenInv'
  BY <1>1 DEF FrozenInv, Frozen
<1>5. PromotedInv'
  BY <1>1 DEF PromotedInv
<1> QED
  BY <1>2, <1>3, <1>4, <1>5

\* A transition of a command to another state of the amendment.
LEMMA CalmTransition ==
  ASSUME WholeParts, rec \in RunRecord, NEW from \in Calm, NEW to \in Saving,
         NEW changed, WriteTransition(from, changed, to), Same(changed, rec),
         changed.state \in Amending \/ (changed.state = "failed" /\ to = "saveFailed")
  PROVE  WholeParts'
<1> USE DEF WholeParts, Same, Promoting, Entering, Saving, Amending, Calm
<1>1. /\ UNCHANGED <<refs, worktree, isolated>> /\ pc = from /\ pc' = to /\ next' = changed
      /\ rec'.state = changed.state /\ Same(rec', rec)
  BY DEF WriteTransition, Goto, RunRecord
<1>2. Frozen(rec, refs, worktree)
  BY <1>1 DEF FrozenInv
<1>3. PinInv'
  BY <1>1 DEF PinInv
<1>4. NextInv'
  BY <1>1 DEF NextInv
<1>5. FrozenInv'
  BY <1>1, <1>2 DEF FrozenInv, Frozen
<1>6. PromotedInv'
  BY <1>1 DEF PromotedInv
<1> QED
  BY <1>3, <1>4, <1>5, <1>6

LEMMA ReviewingKeepsWhole ==
  ASSUME IInv, WholeParts, Reviewing
  PROVE  WholeParts'
<1>1. rec \in RunRecord
  BY DEF IInv, TypeOK
<1>2. CASE AmendReviews
  BY <1>2, CalmStep DEF AmendReviews, Goto, disk, Same, Amending
<1>3. CASE ReadManifest
  BY <1>3, CalmStep DEF ReadManifest, Goto, disk, Same, Calm
<1>4. CASE \/ ReviewIsKnown \/ BoundaryIsBlocked \/ ReviewerApproves \/ ReviewerObjects
           \/ DecideTooLate \/ ReviewerFails
  <2>1. PICK from \in {"consider", "answer", "decide"}, to \in {"grant", "fail", "decide", "idle"} :
          Write(from, rec, to)
    BY <1>4 DEF ReviewIsKnown, BoundaryIsBlocked, ReviewerApproves, ReviewerObjects,
       DecideTooLate, ReviewerFails, Proceeds, Throws
  <2> QED
    BY <2>1, CalmStep DEF Write, Goto, Same, Calm
<1>5. CASE ConsumeAttempt
  <2>1. /\ pc = "consider" /\ pc' = "answer" /\ UNCHANGED <<refs, worktree, isolated>>
        /\ rec'.state = rec.state /\ Same(rec', rec)
    BY <1>1, <1>5 DEF ConsumeAttempt, Write, Goto, RunRecord, Same
  <2> QED
    BY <2>1, CalmStep DEF Calm
<1>6. CASE Decide
  <2>1. /\ pc = "decide" /\ pc' = "grant" /\ UNCHANGED <<refs, worktree, isolated>>
        /\ rec'.state = rec.state /\ Same(rec', rec)
    BY <1>1, <1>6 DEF Decide, Goto, RunRecord, Same
  <2> QED
    BY <2>1, CalmStep DEF Calm
<1>7. CASE Grant
  <2> DEFINE changed == [rec EXCEPT !.state = "amendment-required",
                                    !.approval.decision = "approved"]
  <2>1. changed.state = "amendment-required" /\ Same(changed, rec)
    BY <1>1 DEF RunRecord, Same
  <2>2. WriteTransition("grant", changed, "saveGranted")
    BY <1>7 DEF Grant
  <2> HIDE DEF changed
  <2> QED
    BY <1>1, <2>1, <2>2, CalmTransition DEF Calm, Saving, Amending
<1> QED
  BY <1>2, <1>3, <1>4, <1>5, <1>6, <1>7 DEF Reviewing

LEMMA ApplyingKeepsWhole ==
  ASSUME IInv, WholeParts, Applying
  PROVE  WholeParts'
<1> USE DEF WholeParts
<1>1. rec \in RunRecord /\ 0 \in Ref /\ refs \in [Ref -> Tree \cup {NoTree}]
  BY AmendmentAssumption DEF AmendmentAssumption, IInv, TypeOK, Ref
<1>2. CASE AmendApplies \/ (\E file \in Paths : AmendPrepares(file))
  BY <1>2, CalmStep DEF AmendApplies, AmendPrepares, Goto, disk, Same, Amending
<1>3. CASE Apply
  BY <1>3, CalmStep DEF Apply, Goto, disk, Same, Calm
<1>4. CASE ApplyRefused \/ CommitThrows
  <2>1. PICK from \in {"apply", "commit"} : Write(from, rec, "idle")
    BY <1>4 DEF ApplyRefused, CommitThrows, Throws
  <2> QED
    BY <2>1, CalmStep DEF Write, Goto, Same, Calm
<1>5. CASE Discard
  BY <1>5, CalmStep DEF Discard, Goto, Same, Calm
<1>6. CASE Pause
  <2> DEFINE changed == [rec EXCEPT !.state = "approval-paused",
                           !.approval = [path |-> path, bytes |-> bytes, decision |-> "none"]]
  <2>1. changed.state = "approval-paused" /\ Same(changed, rec)
    BY <1>1 DEF RunRecord, Same
  <2>2. WriteTransition("pause", changed, "savePaused")
    BY <1>6 DEF Pause
  <2> HIDE DEF changed
  <2> QED
    BY <1>1, <2>1, <2>2, CalmTransition DEF Calm, Saving, Amending
<1>7. CASE Fail
  <2> DEFINE state == IF rec.failures + 1 > RetryLimit THEN "failed" ELSE "amendment-required"
             changed == [rec EXCEPT !.failures = rec.failures + 1, !.approval = NoApproval,
                                    !.state = state]
  <2>1. changed.state = state /\ Same(changed, rec)
    BY <1>1 DEF RunRecord, Same
  <2>2. WriteTransition("fail", changed, "saveFailed")
    BY <1>7 DEF Fail
  <2>3. state \in {"failed", "amendment-required"}
    OBVIOUS
  <2> HIDE DEF changed, state
  <2> QED
    BY <1>1, <2>1, <2>2, <2>3, CalmTransition DEF Calm, Saving, Amending
<1> USE DEF Promoting, Entering, Saving, Amending
<1>8. CASE Commit
  <2>1. /\ pc = "commit" /\ pc' = "validate" /\ provisional' = Amended
        /\ UNCHANGED <<rec, refs, worktree, isolated, next>>
    BY <1>8 DEF Commit, Goto, memory
  <2>2. Frozen(rec, refs, worktree)
    BY <2>1 DEF FrozenInv
  <2>3. provisional'.surface = worktree.surface
    BY <2>1, <2>2 DEF Amended, Frozen, Tree
  <2>4. PinInv' /\ NextInv' /\ FrozenInv'
    BY <2>1, <2>2 DEF PinInv, NextInv, FrozenInv
  <2> QED
    BY <2>1, <2>3, <2>4 DEF PromotedInv
<1>9. CASE Validate
  <2>1. /\ pc = "validate" /\ pc' = (IF Fits(worktree.surface, bytes) THEN "promote" ELSE "discard")
        /\ UNCHANGED <<rec, refs, worktree, isolated, next, bytes, provisional>>
    BY <1>9 DEF Validate, Proceeds, Write, Goto, Forgets, memory
  <2>2. PinInv' /\ NextInv' /\ FrozenInv'
    BY <2>1 DEF PinInv, NextInv, FrozenInv
  <2> QED
    BY <2>1, <2>2 DEF PromotedInv
<1>10. CASE PromoteInventory
  <2>1. /\ pc = "promote" /\ pc' = "move" /\ isolated' = bytes
        /\ UNCHANGED <<rec, refs, worktree, next, bytes, provisional>>
    BY <1>10 DEF PromoteInventory, Goto, memory
  <2>2. PinInv' /\ NextInv' /\ FrozenInv'
    BY <2>1 DEF PinInv, NextInv, FrozenInv
  <2> QED
    BY <2>1, <2>2 DEF PromotedInv
<1>11. CASE MoveCandidate
  <2>1. /\ pc = "move" /\ pc' = "complete" /\ refs' = [refs EXCEPT ![0] = provisional]
        /\ UNCHANGED <<rec, worktree, isolated, next, bytes>>
    BY <1>11 DEF MoveCandidate, Goto, memory
  <2>2. refs'[0] = provisional /\ \A r \in Ref \ {0} : refs'[r] = refs[r]
    BY <1>1, <2>1
  <2>3. Fits(refs'[0].surface, refs'[0].inventory)
    BY <2>1, <2>2 DEF PromotedInv, IInv, CommandInv
  <2>4. PinInv' /\ NextInv' /\ FrozenInv'
    BY <2>1, <2>2 DEF PinInv, NextInv, FrozenInv
  <2> QED
    BY <2>1, <2>3, <2>4 DEF PromotedInv
<1>12. CASE Complete
  <2> DEFINE changed == [rec EXCEPT !.state = "candidate", !.failures = 0,
                           !.candidate = [ref |-> 0, tree |-> refs[0]]]
  <2>1. /\ changed.state = "candidate" /\ changed.candidate = [ref |-> 0, tree |-> refs[0]]
        /\ changed.pin = rec.pin /\ changed.override = rec.override
        /\ changed.preservation = rec.preservation
    BY <1>1 DEF RunRecord
  <2>2. /\ pc = "complete" /\ pc' = "saveCompleted" /\ next' = changed /\ Same(rec', rec)
        /\ UNCHANGED <<refs, worktree, isolated, bytes>>
    BY <1>1, <1>12 DEF Complete, WriteTransition, Goto, RunRecord, Same
  <2> HIDE DEF changed
  <2>3. PinInv' /\ NextInv' /\ FrozenInv'
    BY <2>1, <2>2 DEF PinInv, NextInv, FrozenInv, Same
  <2> QED
    BY <2>2, <2>3 DEF PromotedInv
<1>13. CASE Repin
  <2>1. /\ pc = "repin" /\ pc' = "idle" /\ rec'.pin = bytes /\ rec'.override = TRUE
        /\ rec'.candidate = rec.candidate /\ rec'.state = rec.state
        /\ UNCHANGED <<refs, worktree, isolated>>
    BY <1>1, <1>13 DEF Repin, Write, Goto, RunRecord
  <2>2. PinInv' /\ NextInv'
    BY <2>1 DEF PinInv, NextInv
  <2> QED
    BY <2>1, <2>2 DEF PromotedInv, FrozenInv
<1> QED
  BY <1>2, <1>3, <1>4, <1>5, <1>6, <1>7, <1>8, <1>9, <1>10, <1>11, <1>12, <1>13 DEF Applying

LEMMA SaveNextKeepsWhole ==
  ASSUME IInv, WholeParts, SaveNext
  PROVE  WholeParts'
<1> USE DEF WholeParts, Promoting, Entering, Saving, Amending
<1>1. /\ pc \in Saving \cup {"saveEntered", "saveCompleted"}
      /\ pc' = Continuation[pc] /\ rec' = next
      /\ UNCHANGED <<refs, worktree, isolated, provisional>>
      /\ pc' # "idle" => bytes' = bytes
  BY DEF SaveNext, Write, Goto, Forgets, memory, Continuation
<1>2. CASE pc = "saveCompleted"
  <2>1. pc' = "repin" /\ bytes' = bytes
    BY <1>1, <1>2 DEF Continuation
  <2> QED
    BY <1>1, <1>2, <2>1 DEF PinInv, NextInv, FrozenInv, PromotedInv
<1>3. CASE pc = "saveEntered"
  <2>1. pc' = "idle"
    BY <1>1, <1>3 DEF Continuation
  <2>2. Frozen(rec', refs', worktree')
    BY <1>1, <1>3 DEF NextInv
  <2>3. rec'.candidate.ref # 0
    BY <2>2 DEF Frozen
  <2>4. PinInv'
    BY <1>1, <1>3, <2>1, <2>3 DEF PinInv, NextInv
  <2> QED
    BY <1>1, <1>3, <2>1, <2>2, <2>4 DEF NextInv, FrozenInv, PromotedInv
<1>4. CASE pc \in Saving
  <2>1. pc' \in {"idle", "apply", "approve"} /\ (pc = "saveFailed" => pc' = "idle")
    BY <1>1, <1>4 DEF Continuation
  <2>2. /\ rec'.candidate = rec.candidate /\ rec'.state = rec.state /\ rec'.pin = rec.pin
        /\ rec'.override = rec.override /\ rec'.preservation = rec.preservation
    BY <1>1, <1>4 DEF NextInv
  <2>3. rec.state \in Amending \cup {"failed"} /\ (pc # "saveFailed" => rec.state \in Amending)
    BY <1>4 DEF FrozenInv
  <2>4. PinInv'
    BY <1>1, <1>4, <2>1, <2>2 DEF PinInv
  <2>5. FrozenInv'
    BY <1>1, <1>4, <2>1, <2>2, <2>3 DEF FrozenInv, Frozen
  <2> QED
    BY <2>1, <2>2, <2>3, <2>4, <2>5 DEF NextInv, PromotedInv
<1> QED
  BY <1>1, <1>2, <1>3, <1>4

LEMMA ResumeKeepsWhole ==
  ASSUME IInv, WholeParts, Resume
  PROVE  WholeParts'
<1> USE DEF WholeParts, Promoting, Entering, Saving, Amending
<1>1. /\ rec \in RunRecord /\ next \in RunRecord /\ worktree \in Tree
      /\ refs \in [Ref -> Tree \cup {NoTree}]
  BY DEF IInv, TypeOK
<1>2. rec.candidate \in Snapshot /\ rec.preservation \in Snapshot
  BY <1>1 DEF RunRecord
<1>3. CASE ProtectedSetMismatch \/ Stop
  <2>1. PICK state \in {"failed", "stopped"} : rec' = [rec EXCEPT !.state = state]
    BY <1>3 DEF ProtectedSetMismatch, Stop, Write
  <2>2. /\ pc = "idle" /\ pc' = "idle" /\ rec'.state \in {"failed", "stopped"} /\ Same(rec', rec)
        /\ UNCHANGED <<refs, worktree, isolated>>
    BY <1>1, <1>3, <2>1 DEF ProtectedSetMismatch, Stop, Write, Goto, RunRecord, Same
  <2> QED
    BY <2>2 DEF PinInv, NextInv, FrozenInv, PromotedInv, Same
<1>4. CASE QaAccepts
  <2>1. PICK state \in {"planned", "ready"}, iteration \in {rec.iteration, rec.iteration + 1} :
          rec' = [rec EXCEPT !.preservation = rec.candidate, !.state = state,
                             !.iteration = iteration]
    BY <1>1, <1>4 DEF QaAccepts, Write, RunRecord
  <2>2. /\ pc = "idle" /\ pc' = "idle" /\ rec'.state = state
        /\ rec'.preservation = rec.candidate /\ rec'.candidate = rec.candidate
        /\ rec'.pin = rec.pin /\ rec'.override = rec.override
        /\ UNCHANGED <<refs, worktree, isolated>>
    BY <1>1, <1>4, <2>1 DEF QaAccepts, Write, Goto, RunRecord
  <2> QED
    BY <2>2 DEF PinInv, NextInv, FrozenInv, PromotedInv
<1>5. CASE Enter
  <2> DEFINE state == IF rec.episodes + 1 > MaxEpisodes THEN "failed" ELSE "amendment-required"
             changed == [next EXCEPT !.episodes = rec.episodes + 1, !.failures = 0,
                           !.state = state]
  <2>0. state \in Amending \cup {"failed"}
    OBVIOUS
  <2>1. Same(changed, next) /\ changed.state = state
    BY <1>1 DEF RunRecord, Same
  <2>2. /\ pc = "enter" /\ pc' = "saveEntered" /\ next' = changed /\ Same(rec', rec)
        /\ UNCHANGED <<refs, worktree, isolated>>
    BY <1>1, <1>5 DEF Enter, WriteTransition, Goto, RunRecord, Same
  <2> HIDE DEF changed, state
  <2>3. Frozen(next', refs', worktree')
    BY <2>1, <2>2 DEF NextInv, Frozen, Same
  <2>4. PinInv'
    BY <2>2 DEF PinInv, Same
  <2>5. NextInv'
    BY <2>0, <2>1, <2>2, <2>3 DEF NextInv, Same
  <2> QED
    BY <2>2, <2>4, <2>5 DEF FrozenInv, PromotedInv
<1>6. CASE Develop
  <2>1. PICK surface \in Surfaces :
          LET tree == [worktree EXCEPT !.surface = surface]
              developed == [ref |-> rec.iteration, tree |-> tree]
          IN /\ worktree' = tree
             /\ refs' = [refs EXCEPT ![rec.iteration] = tree]
             /\ IF Fits(surface, tree.inventory)
                THEN /\ pc' = "idle"
                     /\ rec' = [rec EXCEPT !.state = "candidate", !.candidate = developed]
                     /\ next' = rec'
                ELSE /\ pc' = "enter"
                     /\ next' = [rec EXCEPT !.candidate = developed]
                     /\ UNCHANGED rec
    BY <1>6 DEF Develop
  <2> DEFINE tree == [worktree EXCEPT !.surface = surface]
             developed == [ref |-> rec.iteration, tree |-> tree]
  <2>2. tree \in Tree /\ tree.inventory = worktree.inventory /\ tree.surface = surface
    BY <1>1 DEF Tree
  <2>3. rec.iteration \in Ref \ {0}
    BY <1>1 DEF RunRecord, Ref
  <2>4. /\ pc = "idle" /\ isolated' = isolated /\ worktree' = tree /\ rec.state = "planned"
        /\ refs'[rec.iteration] = tree /\ \A r \in Ref \ {rec.iteration} : refs'[r] = refs[r]
    BY <1>1, <1>6, <2>1, <2>3 DEF Develop, Begins, Resumes
  <2>5. developed.ref = rec.iteration /\ developed.tree = tree
    OBVIOUS
  <2>6. \/ /\ pc' = "idle" /\ Fits(tree.surface, tree.inventory) /\ rec'.candidate = developed
           /\ rec'.pin = rec.pin /\ rec'.override = rec.override
           /\ rec'.preservation = rec.preservation /\ rec'.state = "candidate"
        \/ /\ pc' = "enter" /\ rec' = rec /\ next'.candidate = developed
           /\ next'.pin = rec.pin /\ next'.override = rec.override
           /\ next'.preservation = rec.preservation
    BY <1>1, <2>1, <2>2 DEF RunRecord
  <2> HIDE DEF tree, developed
  <2>7. PinInv'
    BY <2>2, <2>3, <2>4, <2>5, <2>6 DEF PinInv
  <2>8. NextInv'
    BY <2>2, <2>3, <2>4, <2>5, <2>6 DEF NextInv, Frozen
  <2>9. FrozenInv' /\ PromotedInv'
    BY <2>4, <2>5, <2>6 DEF FrozenInv, PromotedInv
  <2> QED
    BY <2>7, <2>8, <2>9
<1>7. CASE QaRejects
  <2>1. /\ pc = "idle" /\ pc' = "idle" /\ isolated' = isolated
        /\ worktree' = IF refs'[rec.preservation.ref] = NoTree THEN worktree
                       ELSE refs'[rec.preservation.ref]
    BY <1>7 DEF QaRejects, Begins, Resumes
  <2>2. \A r \in Ref : refs'[r] \in {refs[r], NoTree}
    BY <1>1, <1>2, <1>7 DEF QaRejects, Snapshot
  <2>3. \E state \in State \ (Amending \cup {"candidate"}), candidate \in {rec.candidate, rec.preservation} :
          rec' = [rec EXCEPT !.state = state, !.candidate = candidate]
    <3>1. CASE rec' = [rec EXCEPT !.state = "candidate-isolation-required"]
      <4>1. rec' = [rec EXCEPT !.state = "candidate-isolation-required",
                               !.candidate = rec.candidate]
        BY <1>1, <3>1 DEF RunRecord
      <4> QED
        BY <4>1 DEF State
    <3>2. CASE \E candidate \in {rec.candidate, rec.preservation} :
                 rec' = [rec EXCEPT !.state = "planned", !.candidate = candidate]
      BY <3>2 DEF State
    <3> QED
      BY <1>7, <3>1, <3>2 DEF QaRejects
  <2>4. /\ rec'.candidate \in {rec.candidate, rec.preservation}
        /\ rec'.preservation = rec.preservation /\ rec'.pin = rec.pin
        /\ rec'.override = rec.override /\ rec'.state \notin Amending \cup {"candidate"}
    BY <1>1, <2>3 DEF RunRecord
  <2>5. NoTree \notin Tree
    BY AmendmentAssumption DEF AmendmentAssumption, NoTree, Tree
  <2>6. ~rec.override => worktree'.inventory = rec.pin
    <3>1. rec.preservation.ref \in Ref
      BY <1>2 DEF Snapshot
    <3> QED
      BY <1>1, <2>1, <2>2, <3>1 DEF PinInv
  <2>7. PinInv'
    BY <2>1, <2>2, <2>4, <2>5, <2>6 DEF PinInv
  <2> QED
    BY <2>1, <2>4, <2>7 DEF NextInv, FrozenInv, PromotedInv
<1> QED
  BY <1>3, <1>4, <1>5, <1>6, <1>7 DEF Resume

LEMMA OthersKeepWhole ==
  ASSUME IInv, WholeParts, RecordApproval \/ OperatorEdits
  PROVE  WholeParts'
<1> USE DEF WholeParts, Promoting, Entering, Saving, Amending
<1>1. CASE RecordApproval
  <2>1. rec \in RunRecord
    BY DEF IInv, TypeOK
  <2>2. /\ pc = "idle" /\ pc' = "idle" /\ rec.state = "approval-paused"
        /\ rec'.state = "amendment-required" /\ Same(rec', rec)
        /\ UNCHANGED <<refs, worktree, isolated>>
    BY <1>1, <2>1 DEF RecordApproval, RunRecord, Same
  <2>3. PinInv'
    BY <2>2 DEF PinInv, Same
  <2>4. FrozenInv'
    BY <2>2 DEF FrozenInv, Frozen, Same
  <2> QED
    BY <2>2, <2>3, <2>4 DEF NextInv, PromotedInv
<1>2. CASE OperatorEdits
  BY <1>2 DEF OperatorEdits, disk, memory, PinInv, NextInv, FrozenInv, Frozen, PromotedInv
<1> QED
  BY <1>1, <1>2

LEMMA NextKeepsWhole == ASSUME IInv, WholeInv, [Next]_vars PROVE WholeInv'
<1>1. CASE Crash
  BY <1>1 DEF Crash, WholeInv, IInv, TypeOK
<1>2. CASE ~Crash
  <2>1. crashes' = crashes
    <3> USE DEF Write, WriteTransition, Throws, Proceeds, bounds
    <3>1. Resume \/ SaveNext => crashes' = crashes
      BY DEF Resume, ProtectedSetMismatch, Stop, Develop, Enter, QaAccepts, QaRejects, SaveNext
    <3>2. Reviewing => crashes' = crashes
      BY DEF Reviewing, AmendReviews, ReadManifest, ReviewIsKnown, ConsumeAttempt,
             BoundaryIsBlocked, ReviewerApproves, ReviewerObjects, ReviewerFails,
             Decide, DecideTooLate, Grant
    <3>3. Applying => crashes' = crashes
      BY DEF Applying, AmendApplies, AmendPrepares, Pause, Fail, ApplyRefused, Apply, Commit,
             CommitThrows, Validate, PromoteInventory, MoveCandidate, Complete, Repin, Discard
    <3>4. RecordApproval \/ OperatorEdits => crashes' = crashes
      BY DEF RecordApproval, OperatorEdits
    <3> QED
      BY <1>2, <3>1, <3>2, <3>3, <3>4 DEF Next, Step, Amend, Reviewing, Applying, vars
  <2> SUFFICES ASSUME WholeParts PROVE WholeParts'
    BY <2>1 DEF WholeInv
  <2>2. CASE UNCHANGED vars
    BY <2>2 DEF vars, disk, memory, bounds, WholeParts, PinInv, NextInv, FrozenInv, Frozen,
       PromotedInv
  <2> QED
    BY <1>2, <2>2, ResumeKeepsWhole, ReviewingKeepsWhole, ApplyingKeepsWhole, SaveNextKeepsWhole,
       OthersKeepWhole DEF Next, Step, Amend, Reviewing, Applying
<1> QED
  BY <1>1, <1>2

\* Between commands that were not interrupted record, refs, inventory and pin
\* agree: QA is given the tree that the record names, with an inventory that
\* fits it, for any sequence of episodes, approvals, refusals and repairs.
THEOREM AmendedRunIsWhole == Spec => []AmendmentIsWhole
<1>1. WholeInv => AmendmentIsWhole
  BY DEF WholeInv, WholeParts, PinInv, PromotedInv, AmendmentIsWhole, Observed, Promoting
<1>2. Spec => []WholeInv
  BY InitIsWhole, NextKeepsWhole, AmendmentInvariant, PTL DEF Spec
<1> QED
  BY <1>1, <1>2, PTL
=============================================================================
