------------------------------ MODULE TddCycle ------------------------------
(* TDD cycle evidence (packages/analysis/src/tdd.ts): the red, green and     *)
(* refactor phases of a cycle, the migration of a test fingerprint and the   *)
(* voiding of a dangling cycle, recorded in .musubix/evidence/tdd.json and   *)
(* in the order log, and validateTddEvidence, which accepts or refuses the   *)
(* whole. A command reads tdd.json, runs the test, appends to the order log  *)
(* and writes tdd.json from what it read; other commands, editors of the     *)
(* tests and sources, and crashes come in between.                           *)
EXTENDS EvidenceOrder, TLC

CONSTANTS Tests, Requirements,
          Verifies,     \* pairs <<test, requirement>> of the trace
          MaxRuns,      \* bound: test runs
          MaxVersion,   \* bound: versions of a test
          MaxSource,    \* bound: versions of the sources
          MaxEdits,     \* bound: edits of tests and sources
          MaxVoids,     \* bound: approvals by a human (voids and migrations)
          MaxCrashes    \* bound: crashes of a command

ASSUME TddAssumption ==
  /\ Verifies \subseteq Tests \X Requirements
  /\ {MaxRuns, MaxVersion, MaxSource, MaxEdits, MaxVoids, MaxCrashes} \subseteq Nat

VARIABLES cycles, chain,    \* tdd.json
          version, source,  \* what is in the working tree
          pc, cmd,          \* each command: where it is, what it has read
          runs,             \* every test run there was (executionId)
          edits, approvals, crashes,
          overlapped,       \* whether two commands ever ran at a time
          torn              \* tests edited between a migration's two readings

diskVars == <<cycles, chain>>
treeVars == <<version, source, edits>>
histVars == <<overlapped, torn>>
vars == <<order, seen, cycles, chain, version, source, edits, pc, cmd, runs, approvals,
          crashes, overlapped, torn>>

Phases == {"red", "green", "refactor", "migrate", "void"}
RunPhases == {"red", "green", "refactor"}

(* testFingerprint digests the test's own statement; the superseded          *)
(* algorithm digested the top-level statement with all sibling tests.        *)
testFingerprint(t) == [u \in {t} |-> version[u]]
legacyTestFingerprint(t) == <<"statement", [u \in Tests |-> version[u]]>>
Node(fp) == <<"node", fp>>

Has(c, phase) == phase \in DOMAIN c.ev
Passed(c, phase) == Has(c, phase) /\ c.ev[phase].valid
Complete(c) == Passed(c, "red") /\ Passed(c, "green")

(* The last of some cycles, 0 when there are none.                           *)
LastOf(found) ==
  IF found = {} THEN 0 ELSE CHOOSE i \in found : \A j \in found : j <= i

LatestCycle(cs, t) == LastOf({i \in DOMAIN cs : cs[i].test = t})
PendingCycle(cs, t, r) ==
  LastOf({i \in DOMAIN cs : cs[i].test = t /\ cs[i].requirement = r})

ChainRecord(c, phase) ==
  [cycle |-> c.id, test |-> c.test, requirement |-> c.requirement, phase |-> phase,
   evidence |-> c.ev[phase]]

(* A phase's evidence is genuine when the order log and the chain, each      *)
(* exactly once, say so.                                                     *)
phaseLinkageValid(log, ch, c, phase) ==
  /\ validateEvidenceOrderLog(log)
  /\ c.ev[phase].order = evidenceOrderRecord(log, "tdd", c.id, phase)
  /\ \E k \in DOMAIN ch :
       /\ ch[k].evidence = c.ev[phase]
       /\ {j \in DOMAIN ch : ch[j].cycle = c.id /\ ch[j].phase = phase} = {k}

voidLinkage(log, ch, c) == Has(c, "void") /\ phaseLinkageValid(log, ch, c, "void")

(* The cycle that stands for a test whose latest cycle v is voided: the one  *)
(* with the last verified Green before the void, 0 when there is none.       *)
effectiveLatestCycle(cs, log, ch, v) ==
  LET voidedAt == evidenceOrderRecord(log, "tdd", cs[v].id, "void")
      greenAt(i) == evidenceOrderRecord(log, "tdd", cs[i].id, "green")
      candidates == {i \in DOMAIN cs \ {v} :
                       /\ cs[i].test = cs[v].test
                       /\ Complete(cs[i])
                       /\ ~voidLinkage(log, ch, cs[i])
                       /\ phaseLinkageValid(log, ch, cs[i], "green")
                       /\ greenAt(i) < voidedAt}
  IN IF voidedAt = 0 \/ candidates = {} THEN 0
     ELSE CHOOSE i \in candidates : \A j \in candidates : greenAt(j) <= greenAt(i)
-----------------------------------------------------------------------------
(* Evidence from before the fingerprint changed: one cycle of a test, passed *)
(* and still as it was under the superseded algorithm.                       *)
LegacyRuns(t) ==
  <<[test |-> t, version |-> 0, status |-> "failed"],
    [test |-> t, version |-> 0, status |-> "passed"]>>
LegacyEvidence(n, src) ==
  [valid |-> TRUE, order |-> n, fp |-> <<"statement", [u \in Tests |-> 0]>>, source |-> src, run |-> n]
LegacyCycle(t, r) ==
  [id |-> 1, test |-> t, requirement |-> r,
   ev |-> [phase \in {"red", "green"} |->
             IF phase = "red" THEN LegacyEvidence(1, 0) ELSE LegacyEvidence(2, 1)]]

NoCommand == [phase |-> "none"]

Init ==
  /\ \/ order = <<>> /\ cycles = <<>> /\ chain = <<>> /\ source = 0 /\ runs = <<>>
     \/ \E pair \in Verifies :
          LET c == LegacyCycle(pair[1], pair[2]) IN
          /\ cycles = <<c>>
          /\ chain = <<ChainRecord(c, "red"), ChainRecord(c, "green")>>
          /\ order = <<Record("tdd", 1, "red", 1), Record("tdd", 1, "green", 2)>>
          /\ source = 1
          /\ runs = LegacyRuns(pair[1])
  /\ version = [t \in Tests |-> 0]
  /\ seen = [p \in Procs |-> <<>>]
  /\ pc = [p \in Procs |-> "idle"] /\ cmd = [p \in Procs |-> NoCommand]
  /\ edits = 0 /\ approvals = 0 /\ crashes = 0 /\ overlapped = FALSE /\ torn = {}

Goto(p, l) == pc' = [pc EXCEPT ![p] = l]
Starts(p, l) ==
  /\ pc[p] = "idle" /\ Goto(p, l)
  /\ overlapped' = (overlapped \/ \E q \in Procs \ {p} : pc[q] # "idle")
Return(p) == Goto(p, "idle") /\ cmd' = [cmd EXCEPT ![p] = NoCommand]

(* Mutant: the test is not compared with the one that failed.                *)
ContinuesMutant(phase, t, r, fp) ==
  LET i == PendingCycle(cycles, t, r) IN
  /\ i # 0
  /\ cycles[i].ev["red"].valid
  /\ phase = "refactor" => Passed(cycles[i], "green")

(* A green phase belongs to a valid red of the same test and requirement,    *)
(* and the test must be the one that failed.                                 *)
Continues(phase, t, r, fp) ==
  LET i == PendingCycle(cycles, t, r) IN
  /\ i # 0
  /\ cycles[i].ev["red"].valid
  /\ cycles[i].ev["red"].fp = fp
  /\ phase = "refactor" => Passed(cycles[i], "green")

StartPhase(p, phase, t, r) ==
  /\ Starts(p, "run")
  /\ Len(runs) + Cardinality({q \in Procs : pc[q] = "run"}) < MaxRuns
  /\ <<t, r>> \in Verifies
  /\ phase # "red" => Continues(phase, t, r, Node(testFingerprint(t)))
  /\ cmd' = [cmd EXCEPT ![p] =
       [phase |-> phase, test |-> t, requirement |-> r,
        at |-> IF phase = "red" THEN Len(cycles) + 1 ELSE PendingCycle(cycles, t, r),
        cycles |-> cycles, chain |-> chain, fp |-> Node(testFingerprint(t))]]
  /\ UNCHANGED <<order, seen, diskVars, treeVars, runs, approvals, crashes, torn>>

(* The runner reports the one test. A timeout, a missing, unscoped or        *)
(* malformed report and any other status make the phase invalid, exactly as  *)
(* the status that the phase does not expect.                                *)
Execute(p) ==
  /\ pc[p] = "run"
  /\ \E status \in {"failed", "passed"} :
       runs' = Append(runs, [test |-> cmd[p].test, version |-> version[cmd[p].test],
                             status |-> status])
  /\ cmd' = [cmd EXCEPT ![p] = WithField(@, "run", Len(runs) + 1)]
  /\ Goto(p, "assess")
  /\ UNCHANGED <<order, seen, diskVars, treeVars, approvals, crashes, histVars>>

Expected(phase) == IF phase = "red" THEN "failed" ELSE "passed"

(* Green needs a change outside the test since Red.                          *)
Changed(p) == cmd[p].phase = "green" =>
                cmd[p].cycles[cmd[p].at].ev["red"].source # source

(* Commands of one test share its report: what is read is the last run's, or *)
(* nothing when a command that is about to run has removed it.               *)
Reports(p) ==
  LET last == LastOf({n \in DOMAIN runs : runs[n].test = cmd[p].test}) IN
  {runs[last].status} \union
  {"missing" : q \in {q \in Procs \ {p} : pc[q] = "run" /\ cmd[q].test = cmd[p].test}}

(* The exit status is of the command's own run.                              *)
ValidPhase(p, report) ==
  /\ runs[cmd[p].run].status = Expected(cmd[p].phase) /\ report = Expected(cmd[p].phase)
  /\ Changed(p)

(* The sources are fingerprinted after the run, then the log is loaded.      *)
Assess(p) ==
  /\ pc[p] = "assess"
  /\ \E report \in Reports(p) :
       cmd' = [cmd EXCEPT ![p] = WithField(@, "evidence",
         [valid |-> ValidPhase(p, report), fp |-> cmd[p].fp, source |-> source,
          run |-> cmd[p].run])]
  /\ LoadOrder(p)
  /\ Goto(p, "order")
  /\ UNCHANGED <<order, diskVars, treeVars, runs, approvals, crashes, histVars>>

(* voidTddCycle: only a dangling latest cycle with an earlier complete,      *)
(* not voided cycle of the test to fall back on.                             *)
StartVoid(p, t) ==
  LET i == LatestCycle(cycles, t) IN
  /\ Starts(p, "approve")
  /\ approvals < MaxVoids
  /\ i # 0
  /\ ~Passed(cycles[i], "green")
  /\ ~Has(cycles[i], "void")
  /\ cmd' = [cmd EXCEPT ![p] = [phase |-> "void", test |-> t, at |-> i,
                                cycles |-> cycles, chain |-> chain]]
  /\ UNCHANGED <<order, seen, diskVars, treeVars, runs, approvals, crashes, torn>>

(* Mutant: an earlier cycle need not be complete, nor unvoided.              *)
FallbackMutant(p, log) ==
  \E j \in 1..(cmd[p].at - 1) : cmd[p].cycles[j].test = cmd[p].test

Fallback(p, log) ==
  \E j \in 1..(cmd[p].at - 1) :
    LET c == cmd[p].cycles[j] IN
    c.test = cmd[p].test /\ Complete(c) /\ ~voidLinkage(log, cmd[p].chain, c)

(* migrateTddFingerprint: the cycle that stands for the test, if it still    *)
(* matches the working tree under the superseded algorithm.                  *)
StartMigrate(p, t) ==
  /\ Starts(p, "approve")
  /\ approvals < MaxVoids
  /\ LatestCycle(cycles, t) # 0
  /\ cmd' = [cmd EXCEPT ![p] = [phase |-> "migrate", test |-> t, at |-> LatestCycle(cycles, t),
                                cycles |-> cycles, chain |-> chain]]
  /\ UNCHANGED <<order, seen, diskVars, treeVars, runs, approvals, crashes, torn>>

Standing(cs, log, ch, i) ==
  LET e == effectiveLatestCycle(cs, log, ch, i)
  IN IF voidLinkage(log, ch, cs[i]) /\ e # 0 THEN e ELSE i

LatestPass(c) == IF Passed(c, "refactor") THEN c.ev["refactor"] ELSE c.ev["green"]

Migratable(c) ==
  /\ Passed(c, "green")
  /\ ~Has(c, "migrate")
  /\ LatestPass(c).fp = legacyTestFingerprint(c.test)

(* Both read the order log for their conditions. A void appends to it at     *)
(* once; a migration whose superseded fingerprint matched reads the test     *)
(* again first. The second reading of the log, by appendEvidenceOrder, is    *)
(* merged with the last reading of the test.                                 *)
Approval(p) == [valid |-> TRUE, fp |-> Node(testFingerprint(cmd[p].test)), source |-> 0, run |-> 0]

ApproveVoid(p) ==
  /\ pc[p] = "approve" /\ cmd[p].phase = "void"
  /\ IF Fallback(p, order)
     THEN /\ cmd' = [cmd EXCEPT ![p] = WithField(@, "evidence", Approval(p))]
          /\ LoadOrder(p) /\ Goto(p, "order") /\ approvals' = approvals + 1
     ELSE Return(p) /\ UNCHANGED <<seen, approvals>>
  /\ UNCHANGED <<order, diskVars, treeVars, runs, crashes, histVars>>

ApproveMigrate(p) ==
  LET target == Standing(cmd[p].cycles, order, cmd[p].chain, cmd[p].at) IN
  /\ pc[p] = "approve" /\ cmd[p].phase = "migrate"
  /\ IF Migratable(cmd[p].cycles[target])
     THEN cmd' = [cmd EXCEPT ![p].at = target] /\ Goto(p, "fingerprint")
     ELSE Return(p)
  /\ UNCHANGED <<order, seen, diskVars, treeVars, runs, approvals, crashes, histVars>>

(* The fingerprint the cycle is moved to is that of the test as it is now.   *)
Fingerprint(p) ==
  /\ pc[p] = "fingerprint"
  /\ cmd' = [cmd EXCEPT ![p] = WithField(@, "evidence", Approval(p))]
  /\ LoadOrder(p) /\ Goto(p, "order") /\ approvals' = approvals + 1
  /\ UNCHANGED <<order, diskVars, treeVars, runs, crashes, histVars>>

(* A uuid names a new cycle; the number of its red run is as unique.         *)
TargetId(p) ==
  IF cmd[p].phase = "red" THEN cmd[p].run ELSE cmd[p].cycles[cmd[p].at].id

AppendPhase(p) ==
  /\ pc[p] = "order"
  /\ IF Refused(p, "tdd", TargetId(p), cmd[p].phase)
     THEN Return(p) /\ Forget(p) /\ UNCHANGED order
     ELSE /\ WriteOrder(p, "tdd", TargetId(p), cmd[p].phase)
          /\ Goto(p, "save")
          /\ cmd' = [cmd EXCEPT ![p].evidence = WithField(@, "order", Len(seen[p]) + 1)]
  /\ UNCHANGED <<diskVars, treeVars, runs, approvals, crashes, histVars>>

(* tdd.json is written from what was loaded before the test ran.             *)
SavedCycle(p) ==
  IF cmd[p].phase = "red"
  THEN [id |-> TargetId(p), test |-> cmd[p].test, requirement |-> cmd[p].requirement,
        ev |-> [phase \in {"red"} |-> cmd[p].evidence]]
  ELSE LET c == cmd[p].cycles[cmd[p].at]
       IN [c EXCEPT !.ev = WithField(@, cmd[p].phase, cmd[p].evidence)]

(* Mutant: the chain record is forgotten.                                    *)
SaveEvidenceMutant(p) ==
  /\ pc[p] = "save"
  /\ cycles' = [i \in DOMAIN cmd[p].cycles \union {cmd[p].at} |->
                  IF i = cmd[p].at THEN SavedCycle(p) ELSE cmd[p].cycles[i]]
  /\ Return(p)
  /\ UNCHANGED <<order, seen, chain, treeVars, runs, approvals, crashes, histVars>>

SaveEvidence(p) ==
  /\ pc[p] = "save"
  /\ cycles' = [i \in DOMAIN cmd[p].cycles \union {cmd[p].at} |->
                  IF i = cmd[p].at THEN SavedCycle(p) ELSE cmd[p].cycles[i]]
  /\ chain' = Append(cmd[p].chain, ChainRecord(SavedCycle(p), cmd[p].phase))
  /\ Return(p)
  /\ UNCHANGED <<order, seen, treeVars, runs, approvals, crashes, histVars>>

(* An editor leaves any version, an earlier one among them.                  *)
EditTest(t) ==
  /\ edits < MaxEdits /\ edits' = edits + 1
  /\ \E v \in 0..MaxVersion \ {version[t]} : version' = [version EXCEPT ![t] = v]
  /\ torn' = IF \E p \in Procs : pc[p] = "fingerprint" /\ cmd[p].test = t
             THEN torn \union {t} ELSE torn
  /\ UNCHANGED <<order, seen, diskVars, source, pc, cmd, runs, approvals, crashes, overlapped>>

EditSource ==
  /\ edits < MaxEdits /\ edits' = edits + 1
  /\ \E v \in 0..MaxSource \ {source} : source' = v
  /\ UNCHANGED <<order, seen, diskVars, version, pc, cmd, runs, approvals, crashes, histVars>>

(* Before the first write a crash leaves nothing but a run without record.   *)
Crash(p) ==
  /\ pc[p] \in {"save"} /\ crashes < MaxCrashes
  /\ crashes' = crashes + 1
  /\ Return(p) /\ Forget(p)
  /\ UNCHANGED <<order, diskVars, treeVars, runs, approvals, histVars>>

Command(p) ==
  \/ \E phase \in RunPhases, t \in Tests, r \in Requirements : StartPhase(p, phase, t, r)
  \/ \E t \in Tests : StartVoid(p, t) \/ StartMigrate(p, t)
  \/ Execute(p) \/ Assess(p)
  \/ ApproveVoid(p) \/ ApproveMigrate(p) \/ Fingerprint(p)
  \/ AppendPhase(p) \/ SaveEvidence(p)
  \/ Crash(p)

Next == (\E p \in Procs : Command(p)) \/ (\E t \in Tests : EditTest(t)) \/ EditSource

Spec == Init /\ [][Next]_vars
-----------------------------------------------------------------------------
(* validateTddEvidence. Its diagnostics, grouped.                            *)
ChainMatches ==
  /\ \A j, k \in DOMAIN chain :
       j # k => <<chain[j].cycle, chain[j].phase>> # <<chain[k].cycle, chain[k].phase>>
  /\ {chain[k] : k \in DOMAIN chain} =
       UNION {{ChainRecord(cycles[i], phase) : phase \in DOMAIN cycles[i].ev} : i \in DOMAIN cycles}

OrderMatches(c) ==
  /\ \A phase \in DOMAIN c.ev \ {"void"} :
       c.ev[phase].order = evidenceOrderRecord(order, "tdd", c.id, phase)
  /\ Has(c, "green") => c.ev["green"].order > c.ev["red"].order
  /\ Has(c, "refactor") => c.ev["refactor"].order > c.ev["green"].order
  /\ Has(c, "migrate") => c.ev["migrate"].order > LatestPass(c).order

Voided(i) == voidLinkage(order, chain, cycles[i])

Superseded(i) ==
  \E j \in DOMAIN cycles : j > i /\ cycles[j].test = cycles[i].test /\ Complete(cycles[j])

(* The cycle whose passing test must be the test of the working tree.        *)
IsStaleTarget(i) ==
  LET latest == LatestCycle(cycles, cycles[i].test) IN
  \/ latest = i
  \/ Voided(latest) /\ effectiveLatestCycle(cycles, order, chain, latest) = i

PassingPhases(c) ==
  {"green"} \union {phase \in {"refactor"} : Passed(c, phase)} \union
  {phase \in {"migrate"} : Has(c, phase)}

LastPassing(c) ==
  c.ev[CHOOSE phase \in PassingPhases(c) :
         \A other \in PassingPhases(c) : c.ev[other].order <= c.ev[phase].order]

NotStale(i) ==
  Passed(cycles[i], "green") /\ IsStaleTarget(i)
    => LastPassing(cycles[i]).fp = Node(testFingerprint(cycles[i].test))

CycleAccepted(i) ==
  LET c == cycles[i] IN
  /\ OrderMatches(c)
  /\ Has(c, "void") => Voided(i)
  /\ Superseded(i) \/ Voided(i) \/ Complete(c)
  /\ NotStale(i)
  /\ Passed(c, "green") => c.ev["red"].source # c.ev["green"].source

Covered(r) ==
  \E i \in DOMAIN cycles :
    cycles[i].requirement = r /\ <<cycles[i].test, r>> \in Verifies /\ Complete(cycles[i])

Accepts ==
  /\ cycles # <<>>
  /\ \A r \in Requirements : Covered(r)
  /\ validateEvidenceOrderLog(order)
  /\ ChainMatches
  /\ \A i \in DOMAIN cycles : CycleAccepted(i)
-----------------------------------------------------------------------------
TypeOK ==
  /\ version \in [Tests -> 0..MaxVersion] /\ source \in 0..MaxSource
  /\ pc \in [Procs -> {"idle", "run", "assess", "approve", "fingerprint", "order", "save"}]
  /\ torn \subseteq Tests /\ edits \in 0..MaxEdits /\ approvals \in Nat /\ crashes \in 0..MaxCrashes
  /\ \A i \in DOMAIN runs : runs[i].test \in Tests /\ runs[i].status \in {"failed", "passed"}
  /\ \A i \in DOMAIN cycles :
       /\ <<cycles[i].test, cycles[i].requirement>> \in Verifies
       /\ "red" \in DOMAIN cycles[i].ev /\ DOMAIN cycles[i].ev \subseteq Phases

RunOf(c, phase) == runs[c.ev[phase].run]

(* The fingerprint was taken of the test that was then run. Between the two  *)
(* an editor may come, and the code does not look again.                     *)
Unraced(c, phase) ==
  \/ c.ev[phase].fp = <<"node", [u \in {c.test} |-> RunOf(c, phase).version]>>
  \/ c.ev[phase].fp[1] = "statement"

(* What accepted evidence claims: every mandatory requirement has a test     *)
(* that was seen to fail and, later and with other sources, to pass.         *)
TestFirst(c) ==
  /\ Complete(c)
  /\ RunOf(c, "red").status = "failed" /\ RunOf(c, "green").status = "passed"
  /\ c.ev["red"].run < c.ev["green"].run
  /\ RunOf(c, "red").test = c.test /\ RunOf(c, "green").test = c.test
  /\ Unraced(c, "red") /\ Unraced(c, "green") => RunOf(c, "red").version = RunOf(c, "green").version
  /\ c.ev["red"].source # c.ev["green"].source

(* The latest cycle of a test was voided, and no other stands for it.        *)
VoidedOntoNothing(t) ==
  LET latest == LatestCycle(cycles, t) IN
  Voided(latest) /\ effectiveLatestCycle(cycles, order, chain, latest) = 0

(* A migration of the test was approved while the test was edited: its old   *)
(* fingerprint matched, and the new one is that of a test that never ran.    *)
MigratedUnseen(t) ==
  t \in torn /\ \E i \in DOMAIN cycles : cycles[i].test = t /\ Has(cycles[i], "migrate")

(* Evidence that validates is genuine, whatever commands ran side by side,   *)
(* overwrote each other or crashed: each requirement stands on a test seen   *)
(* to fail first and to pass later, and every test with evidence is what it  *)
(* was in one of its passing runs, unless an edit raced with a run, an edit  *)
(* came between the two readings of a migration, or the test's latest cycle  *)
(* was voided onto nothing.                                                  *)
AcceptedEvidenceIsGenuine ==
  Accepts =>
    /\ \A r \in Requirements : \E i \in DOMAIN cycles :
         cycles[i].requirement = r /\ TestFirst(cycles[i])
    /\ \A i \in DOMAIN cycles :
         \/ VoidedOntoNothing(cycles[i].test) \/ MigratedUnseen(cycles[i].test)
         \/ \E j \in DOMAIN cycles :
              /\ cycles[j].test = cycles[i].test
              /\ \E phase \in {"green", "refactor"} :
                   /\ Passed(cycles[j], phase)
                   /\ RunOf(cycles[j], phase).status = "passed"
                   /\ Unraced(cycles[j], phase) =>
                        RunOf(cycles[j], phase).version = version[cycles[j].test]

(* As long as one command runs at a time, however often it crashes, it       *)
(* leaves the order log, the chain and the cycles in agreement: what         *)
(* validate reports is about the work, never about the bookkeeping.          *)
RecordedEvidenceIsIntact == ~overlapped =>
  /\ ChainMatches
  /\ \A i \in DOMAIN cycles :
       /\ OrderMatches(cycles[i])
       /\ Has(cycles[i], "void") => Voided(i)

(* With one command at a time the latest cycle can be voided only onto one   *)
(* that stands for it, so that staleness of the test is always watched.      *)
VoidKeepsFallback == ~overlapped =>
  \A i \in DOMAIN cycles : ~VoidedOntoNothing(cycles[i].test)
=============================================================================
