# Verification of musubix

TLA+ models of the code under `src/`, model-checked with TLC, and theorems about
them checked with TLAPS. Line numbers below are those of
`src/packages/analysis/src/hoh.ts` unless another file is named; requirement
numbers are those of `src/.musubix/features/autonomous-development/requirements.md`.
`PROJECT.json` maps every definition to the lines it translates.

## 1. The system

musubix is a TypeScript tool that keeps requirements, designs, tests and code of a
repository in step. It has two halves. The *evidence commands* record what was done
(approvals, test-first cycles, phases of a change, declarations of an agent) in JSON
files under `.musubix/evidence`, validate those files, and join the verdicts in a
quality gate. The *autonomous run* ("harness of harness") is an orchestrator that
lets AI roles develop a candidate, checks it, and deploys it; it has long-lived state,
processes that share it, and crashes.

| part | state | operations | hard behaviour | what makes it correct |
|---|---|---|---|---|
| Orchestrator (`HohOrchestrator`) | two in-memory copies of the run record | `start`, `resume`, recovery of rejected candidates | each `resume` makes several durable writes; a crash between any two; some promises not awaited | only approved, complete candidates are deployed; every rejection is retained and counted once; a run settles |
| Run store (`FileRunStore`) | `state.json`: state, iteration, candidate, preservation, journal, attempts, usage, approvals | `save`, `transition`, snapshot attempts, blocker failures, amendments, `stop` | stale copies saved over newer ones | monotonic ordinals, failures counted once |
| Writer lease | `writer.lock` | `acquire`, `release`, stale reclaim | file operations of several processes interleave; owners die | one holder; a dead owner's lock is reclaimed; no holder overwrites what another saved |
| Credit ledger | `usageNanoAiu`, `attempts` | `reserve`, `settle`, `abandon`, `recoverInterruptedRun` | failed and interrupted invocations, overruns | bookings match reservations and honour the budget |
| Role invocation (`invokeCopilotRole`) | loop variables | probe, spawn, parse, retry | timeouts, unusable answers | bounded retries |
| Deployment | `deployment.json` | `deployCandidate`, `recoverDeployment` | commands fail, time out, cannot be spawned; crash in mid-command | rollback at most once; a truthful journal |
| Candidate git store | refs `stages/*`, `rejected/*`, `candidate`, the user's worktree | `snapshotStage`, `retainRejectedCandidate`, `rollback`, promotion, isolation baseline | refs moved and worktrees changed by others | rejected refs immutable, preserved ref intact |
| Approval boundaries of a run | `approval`, `automaticApprovals`, `approvalAttempts` | consume attempt, evaluate manifest, record approval | an approval found again for another manifest | release only on a review of that candidate |
| Amendment of the protected inventory | amendment record, episodes, failures | prepare, approve, apply, complete, repin | the operator's file is edited at any moment; crashes between ref, record and inventory | the candidate moves to approved bytes only; insisting ends or amends the run |
| TDD evidence | `tdd.json` | `red`, `green`, `refactor`, void, migrate, validate | no lock; tests and sources edited between and during runs; crash between log and record | no green without its red, no stale evidence accepted |
| Change evidence and waivers | `changes.json`, `change-waivers.json` | phases, batches, quality refresh, waive, validate | many orders of many commands, partial batches, stale waivers | a valid change was made test first |
| Workflow evidence and waivers | `workflow.json`, `workflow-waivers.json` | record, verify, sanitize, waive, validate | sessions go on while they are read | what is declared and accepted really happened |
| Evidence order log | `order.json` | append, validate | concurrent appends by load and rename | sequence and keys always validate |
| Stage approvals | approval records over digests | prepare, record, validate | files edited between reads and checks | an approval is only given on current earlier ones |
| Quality gate, status | `quality.json` | read, check, compare, report; `projectStatus` | inputs read one by one while edited | ready and released mean: passes as it stands |
| Graph, trace | derived reports, caches | build and query | cycles, large inputs | verdicts follow from the sources |
| File workers | a shared cursor | `mapConcurrent` | one of many workers fails | each input processed once |
| Parsers, adapters, scaffolds, attestation, CLI | none | text and I/O | | |

How they interact. The CLI (`packages/cli/src/main.ts`) wires the orchestrator to its
services. `resume()` acquires the lease, reads the record, calls one role (which
reserves and settles credits through the store), captures and checks the candidate
in git, writes the record, and releases the lease. `run stop` and
`protected-set amend` write the record from other processes without the lease. A run in
`ready` starts the deployment transaction. The evidence commands share the order log:
each phase of a TDD cycle, of a change and each void appends one record there and
writes its own file after that. A change's phases are matched against TDD cycles by their
order. The gate reads all of it; approvals of a release run a gate first.

`PROJECT.json` lists the components with their status and, under `hazards`, every
place where the above is hard to test.

## 2. Modules

| module | models | EXTENDS |
|---|---|---|
| `DeploymentContract` | what a deployment promises: an outcome decided once, a rollback begun at most once | |
| `Deployment` | `deployCandidate`, `recoverDeployment`, the branch of `resume` around them | instantiates the contract |
| `AttemptLedger` | reservations, role retry loop, crashes, `recoverInterruptedRun` | |
| `RunLease` | the lock file and record updates, one step per file operation | |
| `RunStore` | the run record and what each store operation does to it, as operators from record to record | |
| `HohRun` | `resume()` with crashes between its durable writes, git refs and the worktree | `RunStore` |
| `Amendment` | amendment of the collision inventory: entry, preparation, approval, commit, promotion, failure | |
| `EvidenceOrder` | the order log and how processes append to it | |
| `TddCycle` | the TDD commands over tests and sources that are edited, and their validation | `EvidenceOrder` |
| `ChangeLifecycle` | the phases of a change, batches, waivers, and their validation | `EvidenceOrder` |
| `WorkflowEvidence` | declarations, transcripts of sessions, verification, sanitization, waivers | |
| `ReleaseGate` | gate, stage approvals, readiness, file by file | |
| `MCLedger`, `MCTdd`, `MCChange`, `MCWorkflow`, `MCRelease` | instances: functions, relations and symmetries a cfg cannot write | |
| `DeploymentProofs`, `AttemptLedgerProofs`, `RunLeaseProofs`, `HohRunProofs`, `AmendmentProofs`, `TddCycleProofs`, `ChangeLifecycleProofs`, `GateProofs` | theorems (section 5) | |

The lease, the ledger, the deployment and the amendment are separate from `HohRun` since
each is independent of the details of the others: `HohRun` has one orchestrator (what
the lease promises), charges one credit per role call (what the ledger books), ends
in `deploying` (where `Deployment` starts), and an amendment sees of the other states
of a run only what they do to the candidate, the preserved candidate and the worktree.

### Deployment
`pc` is the statement the process is at, `journal` is `deployment.json`, `runState`
the state of the run record, `target` what the environment holds, `rollbacks` how often
the command was really spawned. A command is one step that may do nothing, part or all of
its work; a crash in mid-command, too. `SpawnMayFail` is `runBoundedProcess` rejecting.
`StartRefused` stands for the preconditions that throw before the journal exists.
`Recover...` is `recoverDeployment`, which no production code calls (only tests do), hence
the constant `RecoveryRuns` and no fairness: it may be called after a crash, or never.

### AttemptLedger
`status` holds the attempts of `run.attempts`, `consumed` and `reserved` the usage
totals, `retry` and `local` the variables of the loop, `run` the record as `resume()` read it when it
began. `SaveGateEvidence` saves that record over what QA was charged since (7240-7244): attempts and
charges are gone, and the Reviewer is called on the credits this leaves. The other returns of a role are followed by
`transition()`, which reads the record anew and takes nothing back; `Return` writes
the state the caller transitions to, whatever settling had recorded: that is what the code does.
`spent`, `lost` and `excess` are history: what invocations really used, the charges taken back, and
the most one invocation exceeded its ceiling by. `BudgetHonoured` bounds real spending by the budget and `lost`: the
program does not keep it within the budget alone (section 4), and nothing but that save breaks it.

### RunLease
`lock` is the file and whether it has content yet. `record` is the set of updates in `state.json`, each
with who made it and whether under the lease; `copies` are those each process has read or saved since it
acquired the lease. `SaveRecord` builds on any of them, the first included, as `resume()` does when it saves the
record it read before QA (7243) or carries one over a completed attempt (7303 to 7384). `tail` is what a process still does
after `resume()` returned a promise without awaiting it and its `finally` released the lease; that, `stop()` and the
journal entry of a reclaim save without the lease. `raced` is history: such a save went over a record that had changed since
it was read. `OthersUpdatesAreKept` says what the lease is for and all it gives: no holder overwrites what another saved under it.

### RunStore and HohRun
A commit is named by its content: 0 is the run base, n the n-th edit of a Developer, so each
Developer call yields new content (one that changes nothing would only merge states).
`rec` is on disk; `run` is the record read when `resume()` began and `next` the one
`transition()` returned: saving either over a newer `rec` loses what was written in
between, which is modelled as such. Each step makes one durable write (record, refs or
worktree) at most. `Crash` leaves the disk and loses the memory. `RolesFail` allows roles to
exhaust their retries, `Conflicts` allows worktrees that cannot be isolated or restored,
`Reviewer` chooses automatic authority for the release, which is how the CLI wires it (main.ts:179-184, 211); the gate
evidence is only saved then (`SaveGate`), and with it an ordinal is forgotten and given again, which `ordinals` shows.
`OnlyVerifiedIsUnbound` is what remains true. Left out: the requirements and
design boundaries, the isolation baseline, the clock, what configured commands do.

### Amendment
A tree is what the models need of a commit: the set of commands its sources declare
(`surface`) and the set its inventory lists. The run enters `amendment-required` when
they differ under `Upstream`; `Prepare` records which file the operator named and its
bytes; `Decide` is the Reviewer or the person on those bytes; `Apply` reads the file
again, compares, makes the commit and promotes it to the ref `candidate`. `granted` is
history: the bytes at each boundary that were in fact approved. `files` change by `Edit` at any
moment. Commands are taken to run one after the other (divergence 8 of section 4).
What the rest of a run does is one action per effect (a Developer commit, QA's acceptance, a
rejection with rollback); release acceptance is `ready`, and a stop for isolation ends the run.

### EvidenceOrder, TddCycle
`order` is `order.json`, `seen` the log a process loaded last; `WriteOrder` writes that log
and one record over whatever is there. The hash chain links by construction and is left
out. A TDD command is in the steps read, run, assess, order, save; `cmd` holds what it read.
`runs` is the history of all test runs, each with the version of its test that it really saw: evidence is
*genuine* when it agrees with `runs`, not when it agrees with itself. A fingerprint is the
versions it digests: of the test alone, or, in legacy evidence, of its siblings too. An edit leaves any version, an earlier one too.
A migration reads the test twice, for the fingerprint to be superseded (`ApproveMigrate`, tdd.ts:375) and for
the new one (`Fingerprint`, tdd.ts:383); `torn` are the tests edited in between. Commands of the same test share its
report file (tdd.ts:758, 777): `Reports` is what a command may find in it.

### ChangeLifecycle
`tree` has a version for the requirements, the design, each test and each unit; a fingerprint is a
copy of it. Recording a phase is two steps, the append and the save, with a crash between.
`cycles` are TDD cycles with the tree at their red and green; here a cycle phase is one
step, and a Green asks only that the test be Red's: any other file may have changed, which the units of the model need not show. `effectiveBatches`, `batchFor` and `batchForKey` are the functions of that name.
`Reported` is the set of diagnostics that waivers can name, `Scopes` all of them.

### WorkflowEvidence
`transcript` is each session's file, line by line, as the agent continues it; `events` and
`verification` are `workflow.json`; `sanitizing` is a copy being made with its two reads of
the source. A line is named by the place its transcript is read at and its number (`<<place, number>>`), so that
several transcripts read as one keep their lines' names; invocations are named by the line that started them.
`bound` is the loop over declarations, each bound by what those before it left. Time advances up to `MaxTime`, so that several lines and declarations fall in one
millisecond. `shown` is history: the declaration and transcript an approver was looking at.

### ReleaseGate
`content` gives each file's version, 0 where there is none, `newest` the last one made. A command (`cmd`) reads one
file per step while `Edit` makes new versions; between commands `Restore` also deletes files and brings earlier versions back. A gate is `runGate`, `Read`*, `Check`, `Compare`, `Read`*, `Report`; an
approval first runs what the code runs and then reads its manifest file by file.
What a document check needs of the files is a predicate on the versions read.

## 3. Runs

| run | question | bounds |
|---|---|---|
| `deployment` | one rollback, truthful journal, a run that is not interrupted ends, refines the contract | 3 crashes: before, in and after the rollback |
| `ledger` | the bookings never exceed the budget by more than an overrun, and with the charges taken back bound what was spent | 4 symmetric reservations, 6 credits of which 2 are reserved each time and 0 to 4 used, 2 crashes |
| `lease` | one holder, whom the file names; nobody overwrites what another saved under the lease; the survivor gets the lock | 2 processes of which one may die, 2 updates each, stale copies, unawaited work and the operator's stop |
| `run` | preservation, regression, the Developer's starting point, releases only on their review, what becomes of ordinals | Reviewer; 4 iterations, 2 claims, 2 stagnant, 1 repair, 2 attempts per boundary, 7 credits, failing roles, conflicts, 1 crash |
| `run_crash` | journal and refs of rejected candidates, deployment of what was approved, termination | manual; 3 iterations, 5 credits, failing roles, conflicts, 2 crashes |
| `ordinals` | an ordinal is given to two candidates: expected to be violated (section 4) | Reviewer; 3 iterations, 1 claim, no failures, no crash |
| `amendment` | promotion of approved bytes only, record and refs agree, insisting ends | 2 episodes, 1 retry, 2 attempts per boundary, 3 iterations, 1 refusal, 1 edit, 2 crashes; three inventories, of which the original lacks a command of the larger surface |
| `tdd` | the log validates, accepted evidence is genuine, bookkeeping intact, voids keep a fallback | 2 symmetric processes, 1 test, 1 requirement, 3 test runs, 2 edits between 2 versions of test and of sources, 1 human approval, 1 crash |
| `change` | a valid change was made test first, waivers cover what is reported | 1 requirement, its unit and one that imports it, 1 TDD cycle, 1 waiver, 1 crash, 10 records |
| `change_batches` | what recording let through validates, quality can be refreshed | 2 interchangeable requirements (symmetry) sharing a unit, in batches or whole, 1 crash, 11 records |
| `workflow` | what is accepted without waiver happened, waivers cover what was shown, copies are faithful | 2 sessions, 2 Skills (both symmetric), 7 lines, declarations and waivers together, 2 waivers, 2 instants |
| `release_gate` | ready and released pass as they stand, approvals are given on current earlier ones | 2 features of one domain, of which one is added later, the Skills, 5 versions of files together, 1 deletion or return of an earlier version |

Why the bounds suffice to be of interest. Two claims are the least number for which a
candidate can verify as many claims as before, but others; a repair limit of one has a
retry and an exhaustion, three iterations have a rejection after an acceptance and an
acceptance after that. Two crashes put one in a normal step and another in the recovery from it.
The credits bound how often roles are called. Two episodes give an amendment of an amended
candidate, with an old approval and an old ref around; one edit at any moment separates
each two of the four reads of the replacement. Three test runs are a red, a green and one of another
command or phase; two edits make what was recorded before stale and, where the second undoes the first, current again. Ten records
are the seven phases of a change, the two of its TDD cycle and a waiver; eleven are a change made
whole with its quality, a batch whose Green comes after it, and a refresh. Seven records of a
workflow hold two calls with their completions, their sessions' ends and a declaration, or
one call and several declarations and waivers. Of five versions three are there at
the start; two add a feature, or edit during a read. One return of an earlier version is enough to make an old
approval or report current again.

The runs fire every action of their modules. `CHECK_DEADLOCK FALSE` is set where a run
really stops (it has ended, waits for a person, or has used up a bound). Symmetry is only
used in runs without temporal properties.

Each property has a mutant in `PROJECT.json`: a plausible mistake in one operation of
the code, with which TLC finds the property violated under the same configuration
(but `OrdinalsNeverReused`, which the code itself violates). The
mutated forms stand before the definitions they replace and are marked as such.

Fairness. `Deployment`, `RunLease`, `HohRun` and `Amendment` assume weak fairness of the steps
of a live process, which is what executing a program means, and of an operator who calls
`resume` or `protected-set amend` again. Nothing is assumed of `recoverDeployment`, which no command calls: `Settles`
therefore says that a ready run that is resumed ends, with the journal's result or as failed, unless the process dies. Nothing is
assumed of crashes, answers, approvals or edits. `RunSettles` of `HohRun` excepts runs
interrupted twice: then an ordinal may be bound to a failure that contradicts the one being
recorded (4811-4821), every `resume()` throws, and only the limit on active time, which is not
modelled, ends the run. `AmendmentSettles` is about automatic authority, since a person
need not answer, and names the two states the code leaves without a way on (`Unprepared`,
`NothingToAmend`). The evidence commands have no liveness: nothing obliges anyone to
call them; that they can be called where they must be is `QualityIsRefreshable`.

What the properties except. `PreservationIsIntact`, `DeveloperStartsFromPreserved` and
`DeploysWhatWasApproved` of `HohRun` and `AmendmentIsWhole` of `Amendment` hold as long as no
process crashed, and section 4 says what a crash does to each; `AcceptedClaimsNeverRegress`,
which is about a step (the acceptance of a candidate), excepts the step after a release repair
that lost the claims; it and the rest hold under crashes. `OnlyVerifiedIsUnbound` excepts what saving the gate evidence forgets, the
last ordinal, of a candidate that has just passed QA; `BudgetHonoured` the charges forgotten with it;
`OthersUpdatesAreKept` what a process loses of its own and what is saved, or overwritten, without the lease.
`RecordedEvidenceIsIntact` and `VoidKeepsFallback` of `TddCycle` hold while commands do not overlap;
`AcceptedEvidenceIsGenuine` holds though they do, except for a test edited between its
fingerprint and its run (`Unraced`), for a test edited between the two readings of its migration (`MigratedUnseen`) and
for a test whose latest cycle overlapping commands voided onto nothing (`VoidedOntoNothing`).
`ApprovalsRestOnCurrent` is about the write of an approval, since a later approval of the earlier stage may take its ground away.

## 4. Known divergences: where the code and its requirements differ, and what it leaves open

Each was met while modelling. The reused ordinal is a run of its own (`ordinals`); the others can be seen by removing the named
exception or guard from a property.

Run, lease, deployment:

- `resume()` has no branch for a run interrupted in `deploying` (7427) and nothing but a test calls
  `recoverDeployment`: the journal of a deployment whose process died stays unsettled.
- Two processes that reclaim the same stale lock can both hold it: the second removes the new lock of the
  first (4871). `lease` therefore has one survivor, and the proofs are about two writers or about any number that do not die.
- `run stop` writes without the lease (main.ts:1201); an orchestrator's older copy overwrites it, and its own older copy an
  orchestrator's update.
- Under the lease a process overwrites its own updates by copies read before them: the next two entries.
- After a crash between `transition("candidate")` and the save of the new candidate (6976-6984), the old
  candidate is assured and approved while the worktree, in which deployment runs, holds the new edits.
- Saving the gate evidence in the record read before QA (7240-7244) takes back what QA was charged, so that real
  spending can pass the budget though no invocation exceeded its ceiling (REQ-004), and forgets the candidate snapshot attempt opened
  since (7261). When the Reviewer then sends the release back, the next candidate is given the same ordinal, although "each
  candidate snapshot receives a monotonic per-run `candidateSnapshotOrdinal`" (requirements.md:92) and "a different OID or a
  completed attempt receives a fresh ordinal" (:102-103): `OrdinalsNeverReused`, violated in `ordinals`. No rejected
  ref is named by an ordinal so forgotten (`OnlyVerifiedIsUnbound`).
- The completion of the QA attempt (7303) is lost in the same way by the save that follows (7384).
- A command that cannot be spawned leaves `deployCandidate` by an exception, without the rollback
  of REQ-017 (6102, 7489).
- An answer rejected after its usage was parsed is charged the ceiling, also when more was
  reported (2734; REQ-004).
- The `failed` state settling records on exhaustion is overwritten by the caller's next transition (5157, 6853).
- A lock created but never filled cannot be parsed and refuses everybody for ever (4861-4870).
- Promises returned without `await` in `resume()` (6912, 6946) outlive the lease.
- A crash within a rejection, after the stage ref was deleted (4464), ends the run as failed at the next resume.
- A Developer interrupted by a crash is called again on top of its partial edits (6884; REQ-011).
- A crash between `transition("planned")` and the save of the iteration counter (7415) makes the next
  Developer move the ref of the preserved candidate.
- A release repair deletes `evidenceClaims` (7466), which REQ-012 calls the retained baseline; the statuses are
  to be retained by `.musubix/features/autonomous-development/requirements.md:134` and `design.md:59`.
- After an isolation conflict of a candidate's snapshot the Developer is called again over the edits of the
  candidate that was not recorded, not over the preserved one.
- `candidateChecks` of the CLI executes all of `config.commands`, `deploy` among them (main.ts:226; REQ-017).
- The iteration limit stops a run when the last iteration begins (5227; REQ-012 says completed).

Amendment:

1. `completeAmendment` and `enterAmendmentRequired` keep the approval, and applying it never compares
   its episode (main.ts:1126-1131, 5268-5288): an approval of the first episode is applied again in a later
   one without a review, although REQ-016 (line 134) binds an approval to its manifest. What is applied are
   still bytes that were approved once, which is what `PromotesApprovedBytes` says.
2. Promotion moves the one ref `candidate`, which an earlier amended and preserved candidate still
   names: a later rollback, which goes by ref (4473), restores the rejected tree (REQ-018, line 149).
   `QaRejects` restores what the ref holds.
3. A crash between transition and save in `prepareCollisionInventoryAmendment` leaves
   `approval-paused` without an approval; only `stop` leads out (`Unprepared`).
4. `createInventoryAmendmentCommit` is called outside the `try` that counts failures, so a replacement
   equal to the candidate's inventory, or a missing candidate, throws for ever uncounted
   (`NothingToAmend`); `.musubix/features/autonomous-development/design.md:35` counts commit failures.
5. A person's refusal increments `amendmentFailureCount` without a look at `amendmentRetryLimit` (5546).
6. A crash between the transition and the save of `completeAmendment` gives QA the candidate before the amendment.
7. In a second episode, a crash after promotion wrote the inventory of the run makes the next `resume`
   fail with `protected-set-mismatch`.
8. Preparing and applying run without the lease (5030): overlapping an automatic approval, they can promote bytes
   nobody reviewed. The model takes commands one after the other.
9. The promoted snapshot has no `lockfile` (4251), so QA of an amended candidate always throws when
   dependencies are provisioned.
10. An entry interrupted between transition and save keeps the old episode count; boundary key and
    approval of the earlier episode are then found again.

TDD evidence:

- A crash between the append to the order log and the write of `tdd.json` leaves a key in the log, and that
  phase of that cycle can never be recorded again (a new cycle can).
- A green whose run failed is recorded as invalid and can never be retried on the same cycle.
- A green can be recorded on a voided cycle.
- The test's fingerprint is taken before the run and the sources' after it; an edit during the run is
  recorded as if it had been there (`Unraced`).
- A migration reads the test for the fingerprint to be superseded (tdd.ts:375) and again for the new one (tdd.ts:383): an edit in
  between makes the new fingerprint that of a test that never ran, and validation accepts it (`MigratedUnseen`).
- Overlapping commands of one test share its report: one may find none, or the other's, and record a valid run as invalid.
- Of two commands that overlap, one update of `tdd.json` is lost; validation reports it, or what is left is genuine.
- A void and a green of another cycle that overlap, with a crash before, can overwrite each other's
  records in the order log so that the void stands before the green it falls back on. The latest cycle is then
  voided and nothing stands for it: validation accepts this, and the test is not compared any more.

Change evidence:

- `recordChangeWaiver` looks for a duplicate among all linked waivers, not the authoritative one.
- A waiver of `CHANGE_RECORD_MISSING` is malformed for ever once the change is recorded, and blocks further waivers;
  a stale waiver of a diagnostic that is resolved stays an error. Both are documented, and
  `RecordedChangeIsIntact` excepts the first.
- A crash between the append and the write of `changes.json` makes that phase, except quality, unrecordable.
- A full-set Red recorded late stands before all batches and hides completed ones.
- A cycle that awaits its Green is reported `CHANGE_ORDER_MIGRATION_REQUIRED`, with the advice to regenerate it.

Workflow evidence and gate:

- Commands are documented as sequential (`.musubix/features/safe-workflow-speed/requirements.md:14`):
  a declaration recorded during verification is lost when verification writes what it loaded
  (workflow.ts 352, 601). The model runs them one after the other.
- A declaration of the same millisecond makes a waiver given without an index malformed, and blocks further
  waivers; `WaiversCoverWhatWasShown` excepts it.
- The gate's files are read one by one and compared before and after; an edit that is undone in between goes
  unnoticed, and so does a file that goes and comes back. The model leaves this out: while a command runs, edits make new versions only.
- An approval is compared with the documents, not with the approvals it was given on. Approve requirements and design, edit the
  requirements and approve them again (approval-record.ts:66 overwrites), then bring the old ones back: the design is approved, its
  requirements are not, and without domains the release asks for the design only (approval-record.ts:47).
  `ApprovalsRestOnCurrent` is about the moment of approval for this reason.
- `.github/skills` is read by the trace checks, but only the manifest of a release covers it (gate.ts:1157).
- `projectStatus` compares fingerprints and approvals; it does not evaluate workflow, TDD and change evidence
  again, so `ready` can outlive them.

## 5. Proofs

All proofs hold for every value of the constants that satisfies the ASSUMEs of the module, which
give them their types (and, in `Amendment`, make limits positive that the configuration requires to be).

- `DeploymentProofs`. `Inv` says for each value of `pc` what journal and target must be: that a
  journal never claims more than was done is not inductive without knowing which statement is
  next. From it: `AtMostOneRollback`, `JournalTellsTheTarget`, `RunTellsTheJournal`, for any number of
  crashes, and that every step is a step of `DeploymentContract` or a stutter.
- `AttemptLedgerProofs`. `Inv` adds to the bookings that the invocation in flight owns a reserved
  attempt whose ceiling is unspent, that the ledger and what was taken out of it cover all spending
  (`LedgerCoversSpending`), and that the record a `resume()` holds booked no more than the one on disk (`RunIsOlder`), so that saving
  it keeps the ledger within the budget. The sum of reservations is a cardinality, so two lemmas on
  adding and removing one attempt carry the proof. From it: `NeverOverbooked` and `BudgetHonoured`.
- `RunLeaseProofs`. `LiveInv`: without deaths the lock belongs, from its creation to its
  removal, to one process. From it `MutualExclusion` and `HolderOwnsLock`, for any number of processes. With a death and two
  survivors exclusion is false (section 4).
  With two writers of whom any may die, `PairInv` says that who reclaims a lock is the last one alive: the lock it takes
  away belongs to a dead process and nobody can come between: `HolderOwnsLock` again.
  `CopiesInv` rests on either: as long as no save without the lease has gone over what it had not read, each copy the holder has agrees with
  the record on what others saved under the lease, and who acquires it has none. From it `OthersUpdatesAreKept` in both settings, with stale
  copies, unawaited work and the operator's stop included.
- `HohRunProofs`, for any limits, claims, roles, conflicts and number of crashes, with and
  without a Reviewer. Its first part says of each operation of `RunStore` that its result is of type `RunRecord`
  and what it leaves alone; the rest cites these lemmas and not the operations' definitions.
  Three invariants, each on top of the one before:
  - `WorkInv /\ RejectionInv`: what a process has at hand at each step (an ordinal, a verdict, a record that has
    not ended), and that the ordinal is bound to the commit at hand wherever a rejection may still follow.
    Saving the gate evidence can unbind it, but only of a candidate that verifies every claim, which cannot be a
    regression. From it `TypeOK`, `RejectedRefsAreImmutable`, `RejectionsAreRetained`, `EndedStaysEnded`.
  - `ReleaseInv`: the record read when `resume()` began, though older than the one on disk, agrees with it in
    the fields that are still decided on. From it `ReleaseIsReviewed`, `AcceptedClaimsNeverRegress`,
    `RepairsCountFailures`; with `NamesInv`, that the copy in which gate evidence is saved lacks at most the ordinal bound last
    and none that names a rejected ref, `OnlyVerifiedIsUnbound`. All with and without a Reviewer, whatever crashes.
  - `CalmInv`, of runs that were not interrupted: only the stage ref of the current iteration moves, and
    the preserved candidate belongs to an earlier one; an ordinal that was completed is not opened again, so that no
    rejection is ever refused; from its snapshot on the worktree holds the candidate. From it `PreservationIsIntact`,
    `DeploysWhatWasApproved`, `DeveloperStartsFromPreserved`.
- `AmendmentProofs`, for any files, inventories, limits, edits, refusals and crashes. `PromotesApprovedBytes`
  is about one step, the move of the ref, and needs to know how the process got there: `CommandInv` says of each step
  which file, bytes and approval the command was started for and that the record still names them; `GrantInv`
  that everything recorded as approved or reviewed was granted, an old review included, for
  `ReviewIsKnown` grants without asking again. `IInv` is the two and `TypeOK`. Most steps are a write or a
  transition of the record: the lemmas `WriteKeepsType`, `TransitionKeepsType` and `WriteAndReturn` say once what those leave alone.
  `WholeInv`, of commands that were not interrupted, says step by step how far record, refs, inventory and pin have come
  towards the next whole state; from it `AmendmentIsWhole`.
- `TddCycleProofs`, for any number of commands, tests, runs, edits and crashes.
  - `LogInv`: the log on disk and every loaded copy have consecutive sequences and distinct keys. A write
    replaces the log by a valid copy and one record whose key was looked for in that copy, so that lost updates cannot break
    it, only lose records: `OrderLogStaysValid`.
  - `HonestInv`: each phase recorded, read by a command or about to be written names a run of its test with
    the status the phase expects and, but for the first, a later run than Red's and Red's fingerprint; a cycle has the present
    fingerprint and no migration, or the superseded one and nothing after Green but a migration. Files overwrite each other as a
    whole, so this survives any overlap. What validation adds to it (sources changed, orders ascending,
    fingerprint of the working tree) gives `AcceptedEvidenceIsGenuine`. A migration's two readings agree unless the test is `torn`.
  - `IntactInv`, while no two commands overlap: who works has read what the files still say, the order at hand is the
    last of the log and no recorded phase's, every phase is named by the log at its order and once by the chain, and
    a void has an earlier complete cycle below it. Such a cycle is never voided itself, since only a
    cycle without a passed Green is. From it `RecordedEvidenceIsIntact` and `VoidKeepsFallback`.
- `ChangeLifecycleProofs`, for any requirements, units, imports, versions and number of commands. `ChangeInv` has three parts.
  - `RecordInv`: order log and files agree (`OrderMatches`), each phase comes after the one it builds on and shows its
    work (`SingularInv`, `BatchInv`), quality checkpoints ascend. A command that has appended its record and not saved
    yet still finds everything its guard looked at (`PendingPhase`), which is what makes the save keep the rest; a crash
    leaves a record in the log that no file names. From it `RecordedChangeIsIntact` and, since a record of
    the log is of one phase and so no Green is as old as a checkpoint, `QualityIsRefreshable`.
  - `CyclesInv`: versions of units only grow, so a failing run recorded before a red phase saw no later code than that phase, and a
    passing run recorded after an implementation phase no earlier. The two phases differ in a unit of the requirement,
    hence so do the two runs: `AcceptedChangeIsTestFirst`. What lies outside `Proofs` and is waived is the theorem's other branch.
  - `WaiversInv`: a waiver's snapshot alone says why its diagnostic was reported (`Warranted`). Diagnostics are functions
    of what a snapshot holds, so a waiver that still fits the evidence of now covers a diagnostic of now:
    `ActiveWaiverIsReported`. One part of the reason is not in the snapshot of
    `CHANGE_ORDER_MIGRATION_REQUIRED`, that the requirement has a red phase; it is kept since phases are never removed.
- `GateProofs`, of `ReleaseGate` for any features, domains, edits, deletions and returns of earlier versions. Between commands anything may come
  back, so no argument may rest on versions that grow. While a command runs no file goes away, and a version that was not there when it began is newer
  than all made before: a version the command has read, or knows from a report or manifest made before it, and finds again later was
  therefore there throughout (`Known`, `Present`). The lemmas turn equal
  manifests into one moment at which everything read was true. The invariant carries what a command has checked, and at
  which versions, to the write of its report or approval. From it `ApprovalsRestOnCurrent`, `ReleasePassesNow` and
  `ReadyPassesNow`.
- `GateProofs`, of `WorkflowEvidence` for any sessions, Skills, times and numbers of lines, declarations and waivers. `WorkflowInv`:
  - `TranscriptInv`: a session starts each call under a name of its own and completes it once. `SourceInv`: what was verified is
    of lines that are still in the transcripts, each session read in one place, and of the declarations as they are. So the call a declaration
    is bound to is one of a session, what is bound later is started later, and `AcceptedDeclarationsHappened` follows.
  - `BoundIsEarliest`: no binding of all declarations in their order binds one earlier than `bound` does, by the least
    counterexample; hence `BindingIsComplete`. `BoundIs` says that the recursion of `bound` has a solution at all.
  - `SanitizeInv`: a copy is the sanitized form of a part of its transcript that verifies strictly. `SanitizedIsWhole`, a lemma on
    any transcript, says that leaving out other calls keeps it so: `SanitizedIsFaithful`.
  - `WaiverInv`: a waiver's snapshot has the declarations it was recorded for, of which those of now are a continuation, and a scope
    once attached to a declaration stays so or becomes ambiguous: `WaiversCoverWhatWasShown`.

The maximum that CHOOSE takes of a set of indices or orders exists by `NatMax` (of `TddCycleProofs`,
`ChangeLifecycleProofs` and `GateProofs`), which gets it from the library's minimum principle for well-founded relations; no induction theorem with an operator
parameter is needed.

Model-checked only: liveness and ENABLED, out of TLAPS' reach (`Settles`, `RunSettles`, `AmendmentSettles`, `WrittenStaleLockIsReclaimed`).
Every other property of a passing run is a theorem. No module uses RECURSIVE
operators, nor do proofs need induction over data: `relevant` of `ChangeLifecycle`, a work list in the code, is the least
closed set that holds a requirement's units.

## 6. What is not modelled

- Internals of the candidate git store (2960-4010, 4254-4430): baseline bytes, index isolation, staging of
  snapshots, QA and Developer workspaces. Their effect on refs and worktree is in `HohRun` and `Amendment`; what remains
  is git and file system I/O. An interrupted baseline (3870) is therefore only a hazard listed.
- `start()` and the requirements and design boundaries of a run: they use the same boundary code as release and amendment.
- The clock: limits on active time, timeouts of roles and of commands other than the outcome "timed out".
- Code graph and traceability, configuration policies, parsing of the Copilot protocol, redaction, mutation, performance and
  formal evidence, release attestation, adapters, scaffolding, document parsers: pure functions over text, or runs
  of external tools; other modules take their results as constants (`Verifies`, `Implements`, `Imports`) or as any outcome.
- Change evidence: warnings about `recordedAt` (change.ts 357-412), completeness of artefacts other than TDD evidence
  (change.ts 695-780). Concurrent commands of a change.
- Workflow: session ids, clock skew, size and age limits. A call id that occurs in two transcripts. Completions that do not
  state their success: compatible mode counts them as completed (workflow.ts 479), strict mode rejects the transcript.
- Change evidence: files other than the documents, tests and units that have versions, so that a Green after a change of, say, a
  configuration file is one after no change that the model sees; `TddGreen` allows it. Versions never return in this module.
- TDD evidence: the second reading of the order log within a migration or void (order.ts:167) is one step with the last
  reading of the test. One void or migration is approved in the run; more of them are covered by the theorems.
- `HohRun`: `SaveGate` leaves out the digests of rejected release manifests (7221-7232), which cannot recur as each Developer call
  yields new content.
- Approvals: the paths `stagePaths` leaves out of a release, `trace.json`, archives and logs (approval.ts 80-83): they are no inputs of the checks
  modelled. Files that go and come back during a command (section 4).
- Gate: changed and feature mode (which write no report), metrics, external tools. Digests of attested files.
- The pool of `files.ts` beyond its reads in any order; safety of paths.
- Orphans of the order log (quality), which validation reports as warnings.

Three hazards of `PROJECT.json` have no property, with the reason there. Others met on the way are not worth one: single
statements at fault, which a property could only restate (5157, 5227, 7303, main.ts:226: section 4), I/O of the
parts above (3870; files.ts:182, a pool one worker of which fails while others go on), and reads
and writes of the record that only commands outside the lease could separate (5585, 6520).

## 7. Worth doing next

1. The boundaries of requirements and design of a run, joined with `Amendment`'s boundary, as one module.
2. `GraphAnalysis`: components and impact closure against reference definitions on all graphs of up to 4 nodes.
