------------------------------ MODULE Amendment ------------------------------
(***************************************************************************)
(* How a run is amended when its Developer changed the commands of the     *)
(* program and the collision inventory no longer lists them:               *)
(* packages/analysis/src/hoh.ts and "protected-set amend" of               *)
(* packages/cli/src/main.ts.                                               *)
(*                                                                         *)
(* The inventory is protected, so the run waits in "amendment-required"    *)
(* until the operator names a file with a replacement, the Reviewer (or,   *)
(* without .musubix/hoh.json, a person) approves its bytes, and a commit   *)
(* that replaces nothing else is promoted to the candidate.  The file may  *)
(* be edited at any moment, and each durable write is a step after which   *)
(* the process may die.  Commands are taken to run one after the other.    *)
(*                                                                         *)
(* What the other states of a run do is reduced to its effect on the       *)
(* candidate, the preserved candidate and the worktree; see HohRun.        *)
(***************************************************************************)
EXTENDS Integers

CONSTANTS Surfaces,      \* the sets of commands a Developer may declare
          Inventories,   \* ... and those an inventory may list
          Upstream,      \* the commands of the frozen upstream program
          Original,      \* what the inventory of the run base lists
          BaseSurface,   \* the commands the run base declares
          Paths,         \* the files the operator names
          None,
          RetryLimit,    \* config.limits.amendmentRetryLimit
          MaxEpisodes,   \* config.limits.maxAmendmentEpisodes
          BoundaryLimit, \* config.approval.boundaryAttemptLimit
          MaxIterations, \* config.limits.maxIterations
          MaxRejections, \* bound on the refusals of a person
          MaxEdits, MaxCrashes

ASSUME AmendmentAssumption ==
  /\ Original \in Inventories /\ BaseSurface \in Surfaces
  /\ None \notin Inventories \cup Paths
  /\ RetryLimit \in Nat /\ MaxEpisodes \in Nat
  /\ BoundaryLimit \in Nat \ {0} /\ MaxIterations \in Nat \ {0}
  /\ {MaxRejections, MaxEdits, MaxCrashes} \subseteq Nat

Tree == [surface : Surfaces, inventory : Inventories]
NoTree == [surface |-> BaseSurface, inventory |-> None]
BaseTree == [surface |-> BaseSurface, inventory |-> Original]

\* Ref 0 is "candidate", which promotion moves; i is stages/developer-i; -1
\* is the run base; -2 stands for none.
Ref == -2..MaxIterations
BaseCandidate == [ref |-> -1, tree |-> BaseTree]
NoCandidate == [ref |-> -2, tree |-> BaseTree]
Snapshot == [ref : Ref, tree : Tree]

\* The key of an approval boundary: episode and attempt ordinal.
Boundary == (0..MaxEpisodes + 1) \X (1..RetryLimit + MaxRejections + 1)

NoApproval == [path |-> None, bytes |-> None, decision |-> "none"]
Approval ==
  [path : Paths, bytes : Inventories, decision : {"none", "approved", "rejected"}]

\* What a Reviewer approved: the manifest of one file at one boundary.
Review == [boundary : Nat \X Nat, path : Paths, bytes : Inventories]

State == {"planned", "candidate", "amendment-required", "approval-paused",
          "ready", "stopped", "failed", "candidate-isolation-required"}

RunRecord ==
  [state : State,
   iteration : 1..MaxIterations,
   candidate : Snapshot,
   preservation : Snapshot,            \* the run base until QA accepts one
   approval : Approval \cup {NoApproval},  \* with amendmentManifest
   episodes : Nat,                     \* amendmentEpisodeCount
   failures : Nat,                     \* amendmentFailureCount
   attempts : [Boundary -> 0..BoundaryLimit],      \* approvalAttempts
   reviewed : SUBSET Review,           \* automaticApprovals
   pin : Inventories,       \* the inventory in protectedSetDigest
   override : BOOLEAN]      \* collisionInventoryOverridePath is set

VARIABLES rec,         \* state.json
          auto,        \* whether .musubix/hoh.json exists
          files,       \* what the files the operator may name list
          worktree,    \* the tracked files of the user
          refs,        \* the git refs
          provisional, \* amendments/provisional
          isolated,    \* the inventory under the run's workspace/
          pc,          \* next step of the command; "idle": none is running
          path, bytes, \* the file it was given and what it read there
          next,        \* the record transition() returned
          granted,     \* inventories approved so far (history)
          edits, rejections, crashes

disk == <<rec, worktree, refs, provisional, isolated>>
memory == <<path, bytes, next>>
bounds == <<edits, rejections, crashes>>
vars == <<disk, auto, files, pc, memory, granted, bounds>>

Init ==
  /\ rec = [state |-> "planned", iteration |-> 1, candidate |-> NoCandidate,
            preservation |-> BaseCandidate, approval |-> NoApproval,
            episodes |-> 0, failures |-> 0, attempts |-> [k \in Boundary |-> 0],
            reviewed |-> {}, pin |-> Original, override |-> FALSE]
  /\ auto \in BOOLEAN
  /\ files \in [Paths -> Inventories]
  /\ worktree = BaseTree
  /\ refs = [r \in Ref |-> IF r = -1 THEN BaseTree ELSE NoTree]
  /\ provisional = NoTree /\ isolated = None
  /\ pc = "idle" /\ path = None /\ bytes = None /\ next = rec
  /\ granted = {}
  /\ edits = 0 /\ rejections = 0 /\ crashes = 0

-----------------------------------------------------------------------------
\* validateStaticCommandInventory(): every declared command is listed, and
\* what else is listed belongs to the upstream program.
Fits(surface, inventory) ==
  surface \subseteq inventory /\ inventory \subseteq surface \cup Upstream

Goto(from, to) == pc = from /\ pc' = to

\* What a command read is gone when it ends.
Forgets(to) ==
  IF to = "idle" THEN path' = None /\ bytes' = None /\ next' = rec'
                 ELSE UNCHANGED memory

\* A step that does nothing but write the record.
Write(from, record, to) ==
  /\ Goto(from, to)
  /\ rec' = record
  /\ Forgets(to)
  /\ UNCHANGED <<auto, files, worktree, refs, provisional, isolated, granted, bounds>>

\* transition() writes the state; what else changed is saved by SaveNext.
WriteTransition(from, changed, to) ==
  /\ Goto(from, to)
  /\ rec' = [rec EXCEPT !.state = changed.state]
  /\ next' = changed
  /\ UNCHANGED <<auto, files, worktree, refs, provisional, isolated, path, bytes,
                 granted, bounds>>

\* The command ends with an exception and the record stays as it is.
Throws(from) == Write(from, rec, "idle")

Proceeds(from, to) == Write(from, rec, to)

\* Where a command goes on after the record was completed.
Continuation ==
  [saveEntered |-> "idle", saveFailed |-> "idle", saveGranted |-> "apply",
   savePaused |-> IF auto THEN "approve" ELSE "idle", saveCompleted |-> "repin"]

SaveNext == pc \in DOMAIN Continuation /\ Write(pc, next, Continuation[pc])

-----------------------------------------------------------------------------
(* resume(): the other states of the run *)

\* computeProtectedSet(): once it was amended, the inventory is the one kept
\* with the run.
Observed == IF rec.override THEN isolated ELSE worktree.inventory

Terminal == {"ready", "stopped", "failed", "candidate-isolation-required"}

Resumes == pc = "idle" /\ rec.state \notin Terminal

ProtectedSetMismatch ==
  /\ Resumes /\ Observed # rec.pin
  /\ Write("idle", [rec EXCEPT !.state = "failed"], "idle")

Begins(state) ==
  /\ Resumes /\ Observed = rec.pin
  /\ rec.state = state /\ rec.iteration < MaxIterations

Stop ==
  /\ Resumes /\ Observed = rec.pin /\ rec.iteration >= MaxIterations
  /\ Write("idle", [rec EXCEPT !.state = "stopped"], "idle")

\* The Developer leaves the inventory alone, and the candidate is a commit of
\* the worktree.  An inventory that does not fit is not counted as a failure
\* of the candidate.
Develop ==
  /\ Begins("planned")
  /\ \E surface \in Surfaces :
       LET tree == [worktree EXCEPT !.surface = surface]
           developed == [ref |-> rec.iteration, tree |-> tree]
       IN /\ worktree' = tree
          /\ refs' = [refs EXCEPT ![rec.iteration] = tree]
          /\ IF Fits(surface, tree.inventory)
             THEN /\ pc' = "idle"
                  /\ rec' = [rec EXCEPT !.state = "candidate",
                                        !.candidate = developed]
                  /\ next' = rec'
             ELSE /\ pc' = "enter"
                  /\ next' = [rec EXCEPT !.candidate = developed]
                  /\ UNCHANGED rec
  /\ UNCHANGED <<auto, files, provisional, isolated, path, bytes, granted, bounds>>

\* enterAmendmentRequired()
Enter ==
  LET episodes == rec.episodes + 1
  IN WriteTransition("enter",
       [next EXCEPT !.episodes = episodes, !.failures = 0,
          !.state = IF episodes > MaxEpisodes THEN "failed"
                    ELSE "amendment-required"], "saveEntered")

QaAccepts ==
  /\ Begins("candidate")
  /\ refs[rec.candidate.ref] = rec.candidate.tree
  /\ \E state \in {"planned", "ready"} :
       Write("idle",
         [rec EXCEPT !.preservation = rec.candidate, !.state = state,
            !.iteration = IF state = "planned" THEN @ + 1 ELSE @], "idle")

\* recoverRejectedCandidate(): the worktree is restored from the ref of the
\* preserved candidate; verifyProtectedSetAfterRecovery() looks at it again.
\* A repair that was the last one makes that candidate the current one.
QaRejects ==
  /\ Begins("candidate")
  /\ refs' = IF rec.candidate.ref > 0
             THEN [refs EXCEPT ![rec.candidate.ref] = NoTree] ELSE refs
  /\ LET restored == refs'[rec.preservation.ref]
         observed == IF rec.override THEN isolated ELSE restored.inventory
     IN /\ worktree' = IF restored = NoTree THEN worktree ELSE restored
        /\ IF restored # NoTree /\ observed = rec.pin
           THEN \E candidate \in {rec.candidate, rec.preservation} :
                  rec' = [rec EXCEPT !.state = "planned", !.candidate = candidate]
           ELSE rec' = [rec EXCEPT !.state = "candidate-isolation-required"]
  /\ UNCHANGED <<auto, files, provisional, isolated, pc, granted, bounds>>
  /\ Forgets("idle")

-----------------------------------------------------------------------------
(* protected-set amend *)

Approved == rec.approval # NoApproval /\ rec.approval.decision = "approved"

\* A boundary that is still open for the same file is evaluated again.
AmendReviews ==
  /\ rec.state = "approval-paused" /\ rec.approval # NoApproval /\ auto
  /\ Goto("idle", "approve")
  /\ path' = rec.approval.path
  /\ UNCHANGED <<disk, auto, files, bytes, next, granted, bounds>>

\* An approval for the same file is applied.
AmendApplies ==
  /\ rec.state = "amendment-required" /\ Approved
  /\ Goto("idle", "apply")
  /\ path' = rec.approval.path
  /\ UNCHANGED <<disk, auto, files, bytes, next, granted, bounds>>

\* Otherwise prepareCollisionInventoryAmendment() reads the file.
AmendPrepares(file) ==
  /\ rec.state = "amendment-required"
  /\ ~(Approved /\ rec.approval.path = file)
  /\ Goto("idle", "pause")
  /\ path' = file /\ bytes' = files[file]
  /\ UNCHANGED <<disk, auto, files, next, granted, bounds>>

Pause ==
  WriteTransition("pause",
    [rec EXCEPT !.state = "approval-paused",
       !.approval = [path |-> path, bytes |-> bytes, decision |-> "none"]],
    "savePaused")

\* Mutant: the failure is recorded but not counted.
FailMutant ==
  WriteTransition("fail",
    [rec EXCEPT !.approval = NoApproval, !.state = "amendment-required"], "saveFailed")

\* recordAmendmentFailure(): the approval is consumed.
Fail ==
  LET failures == rec.failures + 1
  IN WriteTransition("fail",
       [rec EXCEPT !.failures = failures, !.approval = NoApproval,
          !.state = IF failures > RetryLimit THEN "failed"
                    ELSE "amendment-required"], "saveFailed")

-----------------------------------------------------------------------------
(* autoApproveRunBoundary() and evaluateAutomaticManifest() *)

Key == <<rec.episodes, rec.failures + 1>>

\* The bytes are those of the manifest before the Reviewer is asked.
ReadManifest ==
  /\ Goto("approve", IF files[path] = rec.approval.bytes THEN "consider" ELSE "fail")
  /\ bytes' = files[path]
  /\ UNCHANGED <<disk, auto, files, path, next, granted, bounds>>

Manifest == [boundary |-> Key, path |-> path, bytes |-> bytes]

AlreadyReviewed == Manifest \in rec.reviewed

ReviewIsKnown == Proceeds("consider", "grant") /\ AlreadyReviewed

\* consumeBoundaryAttempt()
ConsumeAttempt ==
  /\ pc = "consider" /\ ~AlreadyReviewed /\ rec.attempts[Key] < BoundaryLimit
  /\ Write("consider", [rec EXCEPT !.attempts[Key] = @ + 1], "answer")

BoundaryIsBlocked ==
  /\ Proceeds("consider", "fail")
  /\ ~AlreadyReviewed /\ rec.attempts[Key] = BoundaryLimit

ReviewerApproves == Proceeds("answer", "decide")

\* The boundary stays open while attempts are left.
ReviewerObjects ==
  Proceeds("answer", IF rec.attempts[Key] = BoundaryLimit THEN "fail" ELSE "idle")

\* The role fails: what it consumed stays consumed.
ReviewerFails == Throws("answer")

\* The file is read again when the decision is recorded.
Decide ==
  /\ Goto("decide", "grant")
  /\ files[path] = bytes
  /\ rec' = [rec EXCEPT !.reviewed =
                {review \in @ : review.boundary # Key} \cup {Manifest}]
  /\ granted' = granted \cup {bytes}
  /\ UNCHANGED <<auto, files, worktree, refs, provisional, isolated, memory, bounds>>

DecideTooLate == Proceeds("decide", "fail") /\ files[path] # bytes

Grant ==
  WriteTransition("grant",
    [rec EXCEPT !.state = "amendment-required", !.approval.decision = "approved"],
    "saveGranted")

\* recordRunApproval(): a person decides, under manual authority only.  A
\* refusal counts without a look at the limit.
RecordApproval ==
  /\ pc = "idle" /\ rec.state = "approval-paused" /\ ~auto
  /\ rec.approval # NoApproval /\ rec.approval.decision = "none"
  /\ \/ /\ rec' = [rec EXCEPT !.state = "amendment-required",
                              !.approval.decision = "approved"]
        /\ granted' = granted \cup {rec.approval.bytes}
        /\ UNCHANGED rejections
     \/ /\ rejections < MaxRejections
        /\ rec' = [rec EXCEPT !.state = "amendment-required",
                              !.approval.decision = "rejected",
                              !.failures = @ + 1]
        /\ rejections' = rejections + 1
        /\ UNCHANGED granted
  /\ UNCHANGED <<auto, files, worktree, refs, provisional, isolated, pc, edits, crashes>>
  /\ Forgets("idle")

-----------------------------------------------------------------------------
(* applyApprovedCollisionInventoryAmendment() *)

ApplyRefused == rec.candidate = NoCandidate /\ Throws("apply")

\* What is applied are the bytes read here, if they are the approved ones.
Apply ==
  /\ rec.candidate # NoCandidate
  /\ Goto("apply", IF files[path] = rec.approval.bytes THEN "commit" ELSE "fail")
  /\ bytes' = files[path]
  /\ UNCHANGED <<disk, auto, files, path, next, granted, bounds>>

\* createInventoryAmendmentCommit(): the inventory, and nothing else, must
\* differ from the candidate.  What it throws is not caught.
Amended == [refs[rec.candidate.ref] EXCEPT !.inventory = bytes]
Commits == refs[rec.candidate.ref] \notin {NoTree, Amended}

\* Mutant: the file is read once more when it is committed.
CommitMutant ==
  /\ Commits
  /\ Goto("commit", "validate")
  /\ provisional' = [refs[rec.candidate.ref] EXCEPT !.inventory = files[path]]
  /\ UNCHANGED <<rec, auto, files, worktree, refs, isolated, memory, granted, bounds>>

Commit ==
  /\ Commits
  /\ Goto("commit", "validate")
  /\ provisional' = Amended
  /\ UNCHANGED <<rec, auto, files, worktree, refs, isolated, memory, granted, bounds>>

CommitThrows == ~Commits /\ Throws("commit")

\* The surface is that of the worktree.
Validate ==
  Proceeds("validate", IF Fits(worktree.surface, bytes) THEN "promote" ELSE "discard")

\* promoteCandidate(): the inventory of the run first, then the ref.
PromoteInventory ==
  /\ Goto("promote", "move")
  /\ isolated' = bytes
  /\ UNCHANGED <<rec, auto, files, worktree, refs, provisional, memory, granted, bounds>>

MoveCandidate ==
  /\ Goto("move", "complete")
  /\ refs' = [refs EXCEPT ![0] = provisional]
  /\ UNCHANGED <<rec, auto, files, worktree, provisional, isolated, memory, granted, bounds>>

\* completeAmendment()
Complete ==
  WriteTransition("complete",
    [rec EXCEPT !.state = "candidate", !.failures = 0,
       !.candidate = [ref |-> 0, tree |-> refs[0]]], "saveCompleted")

\* Mutant: the digest of the protected set is left as it was.
RepinMutant == Write("repin", [rec EXCEPT !.override = TRUE], "idle")

\* The protected set is pinned anew with the amended inventory.
Repin == Write("repin", [rec EXCEPT !.pin = bytes, !.override = TRUE], "idle")

\* discardProvisionalCandidate()
Discard ==
  /\ Goto("discard", "fail")
  /\ provisional' = NoTree
  /\ UNCHANGED <<rec, auto, files, worktree, refs, isolated, memory, granted, bounds>>

-----------------------------------------------------------------------------
OperatorEdits ==
  /\ edits < MaxEdits /\ edits' = edits + 1
  /\ \E file \in Paths, listed \in Inventories :
       listed # files[file] /\ files' = [files EXCEPT ![file] = listed]
  /\ UNCHANGED <<disk, auto, pc, memory, granted, rejections, crashes>>

Crash ==
  /\ pc # "idle" /\ crashes < MaxCrashes
  /\ pc' = "idle" /\ crashes' = crashes + 1
  /\ UNCHANGED <<disk, auto, files, granted, edits, rejections>>
  /\ Forgets("idle")

Resume ==
  ProtectedSetMismatch \/ Stop \/ Develop \/ Enter \/ QaAccepts \/ QaRejects

Amend ==
  \/ AmendReviews \/ AmendApplies \/ (\E file \in Paths : AmendPrepares(file))
  \/ Pause \/ Fail
  \/ ReadManifest \/ ReviewIsKnown \/ ConsumeAttempt \/ BoundaryIsBlocked
  \/ ReviewerApproves \/ ReviewerObjects \/ ReviewerFails
  \/ Decide \/ DecideTooLate \/ Grant
  \/ ApplyRefused \/ Apply \/ Commit \/ CommitThrows \/ Validate \/ PromoteInventory
  \/ MoveCandidate \/ Complete \/ Repin \/ Discard

Step == Resume \/ Amend \/ SaveNext

Next == Step \/ RecordApproval \/ OperatorEdits \/ Crash

Spec == Init /\ [][Next]_vars

\* The operator calls resume and amend again and again, and a live process
\* goes on.  A person is not obliged to approve, nor anyone to edit a file.
FairSpec == Spec /\ WF_vars(Step)

-----------------------------------------------------------------------------
(* Properties *)

\* Every variable keeps its type.
TypeOK ==
  /\ rec \in RunRecord /\ next \in RunRecord
  /\ auto \in BOOLEAN /\ files \in [Paths -> Inventories]
  /\ worktree \in Tree
  /\ refs \in [Ref -> Tree \cup {NoTree}]
  /\ provisional \in Tree \cup {NoTree}
  /\ {isolated, bytes} \subseteq Inventories \cup {None}
  /\ path \in Paths \cup {None}
  /\ granted \subseteq Inventories
  /\ edits \in 0..MaxEdits /\ crashes \in 0..MaxCrashes
  /\ rejections \in 0..MaxRejections

\* What the steps of a command rely on: the approval they were started for
\* is the one in the record, and what they read is what it names.
CommandInv ==
  /\ pc \in {"approve", "consider", "answer", "decide", "grant"} =>
       rec.approval # NoApproval /\ path = rec.approval.path
  /\ pc \in {"consider", "answer", "decide", "grant"} => bytes = rec.approval.bytes
  /\ pc = "grant" => bytes \in granted
  /\ pc \in {"apply", "commit", "validate", "promote", "move"} =>
       Approved /\ path = rec.approval.path
  /\ pc \in {"commit", "validate", "promote", "move"} => bytes = rec.approval.bytes
  /\ pc \in {"validate", "promote", "move"} =>
       provisional \in Tree /\ provisional.inventory = bytes
  /\ pc = "complete" => refs[0] \in Tree
  /\ pc \in {"pause", "complete", "saveCompleted", "repin"} =>
       path \in Paths /\ bytes \in Inventories
  /\ pc \in {"savePaused", "saveGranted"} =>
       next.approval # NoApproval /\ path = next.approval.path
  /\ pc = "saveGranted" => next.approval.decision = "approved"

\* What is recorded as approved or reviewed was granted.
GrantInv ==
  /\ \A record \in {rec, next} :
       record.approval.decision = "approved" => record.approval.bytes \in granted
  /\ \A review \in rec.reviewed \cup next.reviewed : review.bytes \in granted

\* REQ-013, REQ-016: whatever is edited and wherever a command is interrupted
\* and repeated, the candidate is only ever moved to an inventory that was
\* approved, and to the one that the current approval names.
PromotesApprovedBytes ==
  [][refs'[0] # refs[0] =>
       /\ refs'[0].inventory \in granted
       /\ Approved /\ refs'[0].inventory = rec.approval.bytes]_vars

\* REQ-011, REQ-013: between commands that were not interrupted record, refs,
\* inventory and pin of the run agree: QA is given the tree that the record
\* names, with an inventory that fits it, and the run's own amendment never
\* looks like a change of the protected set.
AmendmentIsWhole ==
  crashes = 0 /\ pc = "idle" =>
    /\ Observed = rec.pin
    /\ rec.state = "candidate" =>
         /\ refs[rec.candidate.ref] = rec.candidate.tree
         /\ Fits(rec.candidate.tree.surface, rec.candidate.tree.inventory)

\* What the code leaves without a way on: an interrupted preparation, and an
\* approved replacement that changes nothing or has no candidate to change,
\* which is refused uncounted.
Unprepared == pc = "idle" /\ rec.state = "approval-paused" /\ rec.approval = NoApproval
NothingToAmend ==
  LET tree == refs[rec.candidate.ref]
  IN Approved /\ tree \in {NoTree, [tree EXCEPT !.inventory = rec.approval.bytes]}

\* REQ-012: with automatic approval an operator who insists gets the run
\* amended or ended, interruptions and edits notwithstanding.
Awaiting == auto /\ rec.state \in {"amendment-required", "approval-paused"}

AmendmentSettles == Awaiting ~> (~Awaiting \/ Unprepared \/ NothingToAmend)
=============================================================================
