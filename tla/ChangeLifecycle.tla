--------------------------- MODULE ChangeLifecycle ---------------------------
(* The chronology of one change (packages/analysis/src/change.ts): impact,   *)
(* requirements, design, the red-implementation-green batches and quality,   *)
(* each bound to fingerprints of the working tree and to the order log, the  *)
(* TDD cycles it is matched with, and the waivers of single diagnostics      *)
(* (change-waiver.ts). One command runs at a time, next to an editor; it may *)
(* crash between its append to the order log and its save.                   *)
EXTENDS EvidenceOrder, FiniteSetsExt, TLC

CONSTANTS Requirements, Units,
          Implements,   \* Requirements -> SUBSET Units: annotated code
          Imports,      \* pairs of units
          MaxVersion,   \* bound: versions of a document, a test or a unit
          MaxCycles, MaxWaivers, MaxCrashes, \* bounds on what they name
          MaxCommands   \* bound: records in the order log

ASSUME ChangeAssumption ==
  /\ Implements \in [Requirements -> SUBSET Units] /\ Imports \subseteq Units \X Units
  /\ {MaxVersion, MaxCycles, MaxWaivers, MaxCrashes, MaxCommands} \subseteq Nat

VARIABLES tree,     \* the working tree, by versions
          change,   \* its entry of changes.json
          cycles,   \* tdd.json, the valid phases
          waivers,  \* change-waivers.json
          cmd, crashes

vars == <<order, seen, tree, change, cycles, waivers, cmd, crashes>>

Singular == {"impact", "requirements", "design", "quality"}
Batched == {"red", "implementation", "green"}

Closed(units) == \A e \in Imports : e[1] \in units => e[2] \in units

(* The units of a requirement and whatever they import: the least closed set.*)
relevant(r) ==
  {u \in Units : \A units \in SUBSET Units : Implements[r] \subseteq units /\ Closed(units) => u \in units}

requirementImplementation(fp, r) == [u \in relevant(r) |-> fp.code[u]]

Recorded == "impact" \in DOMAIN change.phases
Has(entry, phase) == phase \in DOMAIN entry
NoBatch == [ids |-> {}, ev |-> <<>>]

(* Full-set phases form a batch of their own, before all others.             *)
FullBatch ==
  [ids |-> Requirements,
   ev |-> [phase \in DOMAIN change.phases \intersect Batched |-> change.phases[phase]]]
effectiveBatches ==
  IF DOMAIN FullBatch.ev = {} THEN change.batches ELSE <<FullBatch>> \o change.batches

FirstOf(found) == IF found = {} THEN NoBatch ELSE effectiveBatches[Min(found)]
batchFor(r) == FirstOf({i \in DOMAIN effectiveBatches : r \in effectiveBatches[i].ids})
batchForKey(ids) == FirstOf({i \in DOMAIN effectiveBatches : effectiveBatches[i].ids = ids})
Batches == Range(effectiveBatches)
CoveredBy(phase) == UNION {b.ids : b \in {c \in Batches : Has(c.ev, phase)}}

(* Mutant: the passing run may precede the implementation phase.             *)
hasValidTddCycleMutant(r) ==
  LET b == batchFor(r) IN
  /\ Has(change.phases, "requirements") /\ Batched \subseteq DOMAIN b.ev
  /\ \E i \in DOMAIN cycles :
       /\ cycles[i].requirement = r
       /\ cycles[i].red \in (change.phases["requirements"].order + 1)..b.ev["red"].order
       /\ cycles[i].green \in 1..b.ev["green"].order

(* A failing run between the requirements and the red phase, a passing run   *)
(* between the implementation and the green phase.                           *)
hasValidTddCycle(r) ==
  LET b == batchFor(r) IN
  /\ Has(change.phases, "requirements") /\ Batched \subseteq DOMAIN b.ev
  /\ \E i \in DOMAIN cycles :
       /\ cycles[i].requirement = r
       /\ cycles[i].red \in (change.phases["requirements"].order + 1)..b.ev["red"].order
       /\ cycles[i].green \in (b.ev["implementation"].order + 1)..b.ev["green"].order
-----------------------------------------------------------------------------
(* What the order log must hold for a phase, a quality checkpoint, a waiver. *)
Entity(phase, ids, detail) == IF phase = "quality" THEN <<"quality", detail>> ELSE <<"phase", ids>>
InOrder(entity, phase, n) == n \in DOMAIN order /\ order[n] = Record("change", entity, phase, n)

testChangedAfterRed(b) ==
  {"red", "green"} \subseteq DOMAIN b.ev /\ b.ev["red"].fp.tests # b.ev["green"].fp.tests

phaseMissing(phase) ==
  IF phase \in Batched THEN Requirements \ CoveredBy(phase) # {} ELSE ~Has(change.phases, phase)

Greens == {<<cycles[i].requirement, cycles[i].green>> : i \in DOMAIN cycles}

(* The waivable diagnostics that are reported now, as <<code, subject>>. A   *)
(* change that has no record has no other diagnostic; a cycle that awaits    *)
(* its Green is taken for one without order.                                 *)
Reported ==
  IF ~Recorded THEN {<<"CHANGE_RECORD_MISSING", {}>>}
  ELSE {<<"CHANGE_PHASE_MISSING", phase>> : phase \in {ph \in Singular \union Batched : phaseMissing(ph)}}
       \union {<<"CHANGE_RED_UNPROVEN", r>> :
                 r \in {q \in Requirements : Has(batchFor(q).ev, "red") /\ ~hasValidTddCycle(q)}}
       \union {<<"CHANGE_GREEN_UNPROVEN", r>> :
                 r \in {q \in Requirements : Has(batchFor(q).ev, "green") /\ ~hasValidTddCycle(q)}}
       \union {<<"CHANGE_COMPLETENESS_TDD", r>> : r \in {q \in Requirements : ~hasValidTddCycle(q)}}
       \union {<<"CHANGE_ORDER_MIGRATION_REQUIRED", r>> :
                 r \in {q \in Requirements : Has(batchFor(q).ev, "red") /\ <<q, 0>> \in Greens}}
       \union {<<"CHANGE_TEST_CHANGED_AFTER_RED", b.ids>> : b \in {c \in Batches : testChangedAfterRed(c)}}

Proofs == {"CHANGE_RED_UNPROVEN", "CHANGE_GREEN_UNPROVEN", "CHANGE_COMPLETENESS_TDD"}

OrderOf(phase) == IF Has(change.phases, phase) THEN change.phases[phase].order ELSE 0
RunsOf(r) == {[red |-> cycles[i].red, green |-> cycles[i].green] :
                i \in {j \in DOMAIN cycles : cycles[j].requirement = r}}
TestsOf(b, phase) == IF Has(b.ev, phase) THEN <<b.ev[phase].fp.tests>> ELSE <<>>

(* The evidence a waiver was given for; it is stale once that has changed.   *)
(* Mutant: the proof of a requirement is bound by its red phase only.        *)
snapshotPayloadMutant(scope) ==
  LET code == scope[1]  subject == scope[2] IN
  CASE code = "CHANGE_RECORD_MISSING" ->
         <<tree.doc, \E n \in DOMAIN order : order[n].kind = "change" /\ order[n].phase # "waiver", Recorded>>
    [] code \in Proofs -> <<OrderOf("requirements")>>
    [] code = "CHANGE_ORDER_MIGRATION_REQUIRED" -> <<RunsOf(subject)>>
    [] code = "CHANGE_PHASE_MISSING" /\ subject \in Batched -> <<Requirements \ CoveredBy(subject)>>
    [] code = "CHANGE_PHASE_MISSING" /\ subject \in Singular -> <<OrderOf(subject)>>
    [] OTHER -> <<TestsOf(batchForKey(subject), "red"), TestsOf(batchForKey(subject), "green")>>

snapshotPayload(scope) ==
  LET code == scope[1]  subject == scope[2] IN
  CASE code = "CHANGE_RECORD_MISSING" ->
         <<tree.doc, \E n \in DOMAIN order : order[n].kind = "change" /\ order[n].phase # "waiver", Recorded>>
    [] code \in Proofs -> <<OrderOf("requirements"), batchFor(subject).ev, RunsOf(subject)>>
    [] code = "CHANGE_ORDER_MIGRATION_REQUIRED" -> <<RunsOf(subject)>>
    [] code = "CHANGE_PHASE_MISSING" /\ subject \in Batched -> <<Requirements \ CoveredBy(subject)>>
    [] code = "CHANGE_PHASE_MISSING" /\ subject \in Singular -> <<OrderOf(subject)>>
    [] OTHER -> <<TestsOf(batchForKey(subject), "red"), TestsOf(batchForKey(subject), "green")>>

Scopes == {waivers[i].scope : i \in DOMAIN waivers}

(* A waiver for a missing record is void as soon as there is a record.       *)
waiverLinkage(i) ==
  /\ (waivers[i].scope[1] = "CHANGE_RECORD_MISSING") = ~Recorded
  /\ InOrder(<<"waiver", waivers[i].scope>>, "waiver", waivers[i].order)

nonStale(i) == waivers[i].snapshot = snapshotPayload(waivers[i].scope)

Linked(scope) == {i \in DOMAIN waivers : waivers[i].scope = scope /\ waiverLinkage(i)}
authoritativeIndex(scope) ==
  CHOOSE i \in Linked(scope) : \A j \in Linked(scope) : waivers[j].order <= waivers[i].order

Active(scope) == Linked(scope) # {} /\ nonStale(authoritativeIndex(scope))
Stale(scope) == Linked(scope) # {} /\ ~nonStale(authoritativeIndex(scope))
-----------------------------------------------------------------------------
NoCommand == [op |-> "none"]
NoChange == [phases |-> <<>>, batches |-> <<>>, history |-> <<>>]

Init ==
  /\ order = <<>> /\ seen = [p \in Procs |-> <<>>]
  /\ tree = [doc |-> 0, req |-> 0, design |-> 0,
             tests |-> [r \in Requirements |-> 0], code |-> [u \in Units |-> 0]]
  /\ change = NoChange /\ cycles = <<>> /\ waivers = <<>>
  /\ cmd = NoCommand /\ crashes = 0

qualityHistoryIssue ==
  LET h == change.history IN
  \/ h # <<>> /\ ~Has(change.phases, "quality")
  \/ Has(change.phases, "quality") /\ change.phases["quality"].detail # Len(h)
  \/ \E i \in DOMAIN h :
       \/ h[i].detail # i - 1
       \/ i > 1 /\ h[i].order <= h[i - 1].order
       \/ Has(change.phases, "quality") /\ h[i].order >= change.phases["quality"].order

Checkpoints == {change.history[i] : i \in DOMAIN change.history}
               \union {change.phases[phase] : phase \in DOMAIN change.phases \intersect {"quality"}}

CheckpointsInOrder == \A c \in Checkpoints : InOrder(<<"quality", c.detail>>, "quality", c.order)

(* Mutant: only the full-set Green, or the first batch, is looked at.        *)
GreenAfterQualityMutant ==
  LET b == effectiveBatches[1]
  IN Has(b.ev, "green") /\ b.ev["green"].order > change.phases["quality"].order

GreenAfterQuality ==
  \E b \in Batches : Has(b.ev, "green") /\ b.ev["green"].order > change.phases["quality"].order

MayRecordQuality ==
  /\ ~qualityHistoryIssue
  /\ Requirements \subseteq CoveredBy("green")
  /\ Has(change.phases, "quality") => GreenAfterQuality /\ CheckpointsInOrder

Before(phase) ==
  CASE phase = "requirements" -> "impact" [] phase = "design" -> "requirements"
    [] phase = "red" -> "design" [] phase = "implementation" -> "red" [] phase = "green" -> "implementation"

(* Mutant: any change of the code will do.                                   *)
unchangedRejectionMutant(phase, ids, base) ==
  \/ phase = "requirements" /\ tree.req = base.fp.req
  \/ phase = "design" /\ tree.design = base.fp.design
  \/ phase = "red" /\ tree.tests = base.fp.tests
  \/ phase = "implementation" /\ tree.code = base.fp.code

(* A phase must show the work of that phase since the one before.            *)
unchangedRejection(phase, ids, base) ==
  \/ phase = "requirements" /\ tree.req = base.fp.req
  \/ phase = "design" /\ tree.design = base.fp.design
  \/ phase = "red" /\ tree.tests = base.fp.tests
  \/ phase = "implementation" /\ \E r \in ids :
       requirementImplementation(tree, r) = requirementImplementation(base.fp, r)

(* Once for a change, or once for a batch of its requirements; quality again *)
(* after a later Green.                                                      *)
MayRecordFullSet(phase, allowed) ==
  \/ phase = "impact" /\ ~Recorded
  \/ phase = "quality" /\ Recorded /\ MayRecordQuality
  \/ /\ phase \notin {"impact", "quality"} /\ ~Has(change.phases, phase)
     /\ Has(change.phases, Before(phase))
     /\ allowed \/ ~unchangedRejection(phase, Requirements, change.phases[Before(phase)])

(* Mutant: Green asks for Red, not for the implementation.                   *)
MayRecordBatchMutant(phase, ids) ==
  LET b == batchForKey(ids) IN
  /\ phase \in Batched /\ ~Has(b.ev, phase)
  /\ phase = "red" => Has(change.phases, "design")
                      /\ ~unchangedRejection(phase, ids, change.phases["design"])
  /\ phase # "red" => Has(b.ev, "red") /\ ~unchangedRejection(phase, ids, b.ev["red"])

MayRecordBatch(phase, ids) ==
  LET b == batchForKey(ids) IN
  /\ phase \in Batched /\ ~Has(b.ev, phase)
  /\ phase = "red" => Has(change.phases, "design")
                      /\ ~unchangedRejection(phase, ids, change.phases["design"])
  /\ phase # "red" => Has(b.ev, Before(phase)) /\ ~unchangedRejection(phase, ids, b.ev[Before(phase)])

(* What a later phase, or validation, compares of a phase's fingerprints.    *)
currentFingerprints(phase) ==
  LET kinds == CASE phase = "impact" -> {"req"} [] phase = "requirements" -> {"req", "design"}
                 [] phase = "design" -> {"design", "tests"} [] phase = "red" -> {"tests", "code"}
                 [] phase = "implementation" -> {"code"} [] phase = "green" -> {"tests"}
                 [] phase = "quality" -> {}
  IN [kind \in kinds |-> tree[kind]]

Begins == cmd.op = "none" /\ Len(order) < MaxCommands

(* The tree is fingerprinted and the record appended; a key that is in the   *)
(* log already, left by a crash, is refused.                                 *)
recordChangePhase(phase, ids, allowed) ==
  LET again == phase = "quality" /\ Has(change.phases, "quality")
      detail == Len(change.history) + (IF again THEN 1 ELSE 0)
  IN /\ Begins
     /\ allowed => phase = "requirements"
     /\ IF ids = Requirements THEN MayRecordFullSet(phase, allowed) ELSE MayRecordBatch(phase, ids)
     /\ appendEvidenceOrder("change", Entity(phase, ids, detail), phase)
     /\ cmd' = [op |-> "phase", phase |-> phase, ids |-> ids,
                item |-> [fp |-> currentFingerprints(phase), allowed |-> allowed, detail |-> detail, order |-> Len(order) + 1]]
     /\ UNCHANGED <<tree, change, cycles, waivers, crashes>>

(* Every recorded waiver must be linked, the diagnostic must be reported and *)
(* no waiver for it, however old, may fit the evidence of now.               *)
recordChangeWaiver(scope) ==
  /\ Begins
  /\ \A i \in DOMAIN waivers : waiverLinkage(i)
  /\ scope \in Reported
  /\ ~\E i \in Linked(scope) : nonStale(i)
  /\ appendEvidenceOrder("change", <<"waiver", scope>>, "waiver")
  /\ cmd' = [op |-> "waiver",
             waiver |-> [scope |-> scope, snapshot |-> snapshotPayload(scope), order |-> Len(order) + 1]]
  /\ UNCHANGED <<tree, change, cycles, waivers, crashes>>

(* The batch of a first red phase is appended, later ones are completed.     *)
SavedBatches ==
  LET at == {i \in DOMAIN change.batches : change.batches[i].ids = cmd.ids} IN
  IF at = {} THEN Append(change.batches, [ids |-> cmd.ids, ev |-> WithField(<<>>, cmd.phase, cmd.item)])
  ELSE [i \in DOMAIN change.batches |->
          IF i \in at THEN [change.batches[i] EXCEPT !.ev = WithField(@, cmd.phase, cmd.item)] ELSE change.batches[i]]

SavePhase ==
  LET kept == IF cmd.phase = "quality" /\ Has(change.phases, "quality")
              THEN Append(change.history, change.phases["quality"]) ELSE change.history
  IN /\ cmd.op = "phase"
     /\ change' = IF cmd.ids = Requirements
                  THEN [change EXCEPT !.phases = WithField(@, cmd.phase, cmd.item), !.history = kept]
                  ELSE [change EXCEPT !.batches = SavedBatches]
     /\ cmd' = NoCommand
     /\ UNCHANGED <<order, seen, tree, cycles, waivers, crashes>>

SaveWaiver ==
  /\ cmd.op = "waiver"
  /\ waivers' = Append(waivers, cmd.waiver)
  /\ cmd' = NoCommand
  /\ UNCHANGED <<order, seen, tree, change, cycles, crashes>>

Crash ==
  /\ cmd.op # "none" /\ crashes < MaxCrashes
  /\ crashes' = crashes + 1 /\ cmd' = NoCommand
  /\ UNCHANGED <<order, seen, tree, change, cycles, waivers>>

(* Commands of TddCycle, here in one step: a test fails, and the same test   *)
(* passes later. Any file but the test must differ then: code or another, so *)
(* that the code need not.                                                   *)
tested == [tests |-> tree.tests, code |-> tree.code]

TddRed(r) ==
  /\ cmd.op = "none" /\ Len(order) < MaxCommands /\ Len(cycles) < MaxCycles
  /\ order' = Append(order, Record("tdd", Len(cycles) + 1, "red", Len(order) + 1))
  /\ cycles' = Append(cycles, [requirement |-> r, red |-> Len(order) + 1, green |-> 0,
                               redTree |-> tested, greenTree |-> tested])
  /\ UNCHANGED <<seen, tree, change, waivers, cmd, crashes>>

TddGreen(i) ==
  /\ cmd.op = "none" /\ Len(order) < MaxCommands
  /\ i \in DOMAIN cycles /\ cycles[i].green = 0
  /\ \A j \in DOMAIN cycles : cycles[j].requirement = cycles[i].requirement => j <= i
  /\ tree.tests[cycles[i].requirement] = cycles[i].redTree.tests[cycles[i].requirement]
  /\ order' = Append(order, Record("tdd", i, "green", Len(order) + 1))
  /\ cycles' = [cycles EXCEPT ![i].green = Len(order) + 1, ![i].greenTree = tested]
  /\ UNCHANGED <<seen, tree, change, waivers, cmd, crashes>>

(* The editor, on whatever the phases to come compare: an edit of a document *)
(* before what it is compared with, or after it is settled, and one of       *)
(* tests and code before the design, changes no outcome and is left out, as  *)
(* is one between a command's append and its save, which do not read.        *)
Compared(d) ==
  CASE d = "doc" -> ~Recorded /\ waivers # <<>>
    [] d = "req" -> Recorded /\ ~Has(change.phases, "requirements")
    [] d = "design" -> Has(change.phases, "requirements") /\ ~Has(change.phases, "design")

EditDocument(d) ==
  /\ cmd.op = "none" /\ Compared(d) /\ tree[d] < MaxVersion
  /\ tree' = [tree EXCEPT ![d] = @ + 1]
  /\ UNCHANGED <<order, seen, change, cycles, waivers, cmd, crashes>>

EditTest(r) ==
  /\ cmd.op = "none" /\ Has(change.phases, "design") /\ tree.tests[r] < MaxVersion
  /\ tree' = [tree EXCEPT !.tests[r] = @ + 1]
  /\ UNCHANGED <<order, seen, change, cycles, waivers, cmd, crashes>>

EditCode(u) ==
  /\ cmd.op = "none" /\ Has(change.phases, "design") /\ tree.code[u] < MaxVersion
  /\ tree' = [tree EXCEPT !.code[u] = @ + 1]
  /\ UNCHANGED <<order, seen, change, cycles, waivers, cmd, crashes>>

MayWaive == Cardinality({n \in DOMAIN order : order[n].phase = "waiver"}) < MaxWaivers

Next ==
  \/ \E phase \in Singular, allowed \in BOOLEAN : recordChangePhase(phase, Requirements, allowed)
  \/ \E phase \in Batched, ids \in (SUBSET Requirements) \ {{}} : recordChangePhase(phase, ids, FALSE)
  \/ MayWaive /\ \E scope \in Reported : recordChangeWaiver(scope)
  \/ SavePhase \/ SaveWaiver \/ Crash
  \/ \E r \in Requirements : TddRed(r)
  \/ \E i \in 1..MaxCycles : TddGreen(i)
  \/ \E d \in {"doc", "req", "design"} : EditDocument(d)
  \/ \E r \in Requirements : EditTest(r)
  \/ \E u \in Units : EditCode(u)

Spec == Init /\ [][Next]_vars
-----------------------------------------------------------------------------
(* validateChangeEvidence and validateChangeCompleteness.                    *)
OrderIn(b, phase) == IF Has(b.ev, phase) THEN b.ev[phase].order ELSE 0

PhaseOrder ==
  /\ Has(change.phases, "requirements") => OrderOf("requirements") > OrderOf("impact")
  /\ Has(change.phases, "design") => OrderOf("design") > OrderOf("requirements")
  /\ \A b \in Batches :
       /\ Has(b.ev, "red") => OrderIn(b, "red") > OrderOf("design")
       /\ Has(b.ev, "implementation") => OrderIn(b, "implementation") > OrderIn(b, "red")
       /\ Has(b.ev, "green") => OrderIn(b, "green") > OrderIn(b, "implementation")

QualityIsLast ==
  Has(change.phases, "quality") => \A b \in Batches : Has(b.ev, "green") => b.ev["green"].order < OrderOf("quality")

OrderMatches ==
  /\ \A phase \in DOMAIN change.phases \ {"quality"} : InOrder(<<"phase", Requirements>>, phase, OrderOf(phase))
  /\ \A b \in Batches : \A phase \in DOMAIN b.ev : InOrder(<<"phase", b.ids>>, phase, b.ev[phase].order)
  /\ CheckpointsInOrder

(* What recording refuses must not be found later.                           *)
WorkShown ==
  /\ Has(change.phases, "requirements") /\ ~change.phases["requirements"].allowed =>
       change.phases["requirements"].fp.req # change.phases["impact"].fp.req
  /\ Has(change.phases, "design") =>
       change.phases["design"].fp.design # change.phases["requirements"].fp.design
  /\ \A b \in Batches :
       /\ Has(b.ev, "red") /\ Has(change.phases, "design") => b.ev["red"].fp.tests # change.phases["design"].fp.tests
       /\ Has(b.ev, "implementation") => \A r \in b.ids :
            requirementImplementation(b.ev["red"].fp, r)
              # requirementImplementation(b.ev["implementation"].fp, r)

Accepts ==
  /\ Recorded
  /\ \A scope \in Reported : Active(scope)
  /\ \A i \in DOMAIN waivers : waiverLinkage(i)
  /\ \A scope \in Scopes : ~Stale(scope)
  /\ OrderMatches /\ PhaseOrder /\ QualityIsLast /\ ~qualityHistoryIssue /\ WorkShown
  /\ validateEvidenceOrderLog(order)
-----------------------------------------------------------------------------
Waived(r) == \E scope \in Scopes :
  /\ Active(scope) /\ scope[1] # "CHANGE_ORDER_MIGRATION_REQUIRED"
  /\ scope[1] \in Proofs => scope[2] = r

(* A change that validates, but for what a human waived, was made test first:*)
(* for each requirement a run failed after the requirements were settled,    *)
(* then code of that requirement changed, then the same test passed.         *)
AcceptedChangeIsTestFirst ==
  Accepts => \A r \in Requirements : Waived(r) \/
    \E i \in DOMAIN cycles :
      LET c == cycles[i] IN
      /\ c.requirement = r /\ c.green > c.red /\ c.red > OrderOf("requirements")
      /\ requirementImplementation(c.redTree, r) # requirementImplementation(c.greenTree, r)
      /\ c.redTree.tests[r] = c.greenTree.tests[r]

(* Whatever is recorded in whatever order, by commands that crash, agrees    *)
(* with the order log, stands in the order of the phases and shows the work  *)
(* that recording asked for; no waiver comes loose but one for the record.   *)
RecordedChangeIsIntact ==
  Recorded =>
    /\ OrderMatches /\ PhaseOrder /\ WorkShown
    /\ \A i \in DOMAIN waivers : waivers[i].scope[1] = "CHANGE_RECORD_MISSING" \/ waiverLinkage(i)

(* A Green after the quality checkpoint makes the change invalid; the        *)
(* checkpoint can be refreshed then, after crashes too.                      *)
QualityIsRefreshable ==
  Has(change.phases, "quality") /\ ~QualityIsLast => MayRecordFullSet("quality", FALSE)

(* A waiver in force belongs to a diagnostic that is reported: the snapshot  *)
(* binds all that the diagnostic depends on, so that a waiver never outlives *)
(* its reason and comes to cover something else.                             *)
ActiveWaiverIsReported == \A scope \in Scopes : Active(scope) => scope \in Reported
=============================================================================
