----------------------------- MODULE ReleaseGate -----------------------------
(* The quality gate (packages/analysis/src/gate.ts), the approvals of stages *)
(* and domains (approval.ts, approval-record.ts, approval-domains.ts) and    *)
(* the readiness that projectStatus derives from both. One command runs at a *)
(* time; it reads the files one by one while an editor works on, and may be  *)
(* interrupted. Between commands an editor also deletes files and brings     *)
(* earlier versions of them back; while one runs, it makes new versions only.*)
EXTENDS Integers, FiniteSets, Functions, TLC

CONSTANTS Features, Initial,  \* those there at the start
          Domains,            \* approval.domains, {} if not configured
          Owner,              \* Features -> the domains whose globs match
          Required,           \* approval.mode is required
          MaxVersions,        \* bound: versions made of all files together
          MaxRestores         \* bound: deletions and returns of a version

ASSUME ReleaseAssumption ==
  /\ Initial \subseteq Features /\ Owner \in [Features -> SUBSET Domains]
  /\ Required \in BOOLEAN /\ MaxVersions \in Nat /\ MaxRestores \in Nat

VARIABLES content,    \* the version of each file, 0 if there is none
          newest,     \* the last version made of each file
          restores,   \* deletions and returns of a version so far
          reviewed,   \* the manifest a human was last shown, of which stage
          approvals,  \* .musubix/evidence/approvals
          quality,    \* .musubix/evidence/quality.json
          cmd

vars == <<content, newest, restores, reviewed, approvals, quality, cmd>>

req(f) == <<"requirements", f>>
design(f) == <<"design", f>>
skills == <<"skills", "all">>   \* .github/skills
Paths == {req(f) : f \in Features} \union {design(f) : f \in Features} \union {skills}

Scopes == IF Domains = {} THEN {"all"} ELSE Domains
release == <<"release", "all">>
Slots == {<<stage, d>> : stage \in {"requirements", "design"}, d \in Scopes} \union {release}

None == [features |-> {}, artifacts |-> <<>>]
NoQuality == [status |-> "skipped", fingerprints |-> <<>>]
NoCommand == [op |-> "none"]

files == {p \in Paths : content[p] > 0}
snapshot(paths) == [p \in paths |-> content[p]]

(* What was read of some files and now of p.                                 *)
WithVersion(read, p) ==
  [q \in DOMAIN read \union {p} |-> IF q = p THEN content[p] ELSE read[q]]

(* What fingerprints a gate report; the Skills are not among it.             *)
evidenceInputPaths == files \ {skills}
-----------------------------------------------------------------------------
(* Every feature must have one domain, every domain a feature.               *)
slugs == {f \in Features : req(f) \in files}
resolveDomains == [d \in Scopes |-> IF Domains = {} THEN slugs ELSE {f \in slugs : d \in Owner[f]}]
Resolvable ==
  Domains # {} => /\ \A f \in slugs : Cardinality(Owner[f]) = 1
                  /\ \A d \in Domains : resolveDomains[d] # {}

stagePaths(slot, features) ==
  CASE slot[1] = "requirements" -> files \intersect {req(f) : f \in features}
    [] slot[1] = "design" -> files \intersect UNION {{req(f), design(f)} : f \in features}
    [] slot[1] = "release" -> files

FeaturesOf(slot) == IF slot = release THEN {} ELSE resolveDomains[slot[2]]
approvalManifest(slot) ==
  [features |-> FeaturesOf(slot), artifacts |-> snapshot(stagePaths(slot, FeaturesOf(slot)))]

Approved(slot) == approvals[slot] # None /\ approvals[slot] = approvalManifest(slot)
validateApprovals == \A slot \in Slots : Approved(slot) \/ (~Required /\ approvals[slot] = None)

(* A design is valid for the requirements it was written for.                *)
validateStageArtifacts(slot) ==
  LET features == IF slot = release THEN slugs ELSE FeaturesOf(slot) IN
  /\ features # {}
  /\ slot[1] # "requirements" =>
       /\ \E f \in features : design(f) \in files
       /\ \A f \in features : design(f) \in files => content[design(f)] = content[req(f)]

(* Mutant: a design is approved whatever became of the requirements.         *)
RequiredApprovalsMutant(slot) ==
  slot = release => \A d \in Scopes : Approved(<<"design", d>>)

RequiredApprovals(slot) ==
  /\ slot[1] = "design" => Approved(<<"requirements", slot[2]>>)
  /\ slot = release => \A d \in Scopes :
       Approved(<<"design", d>>) /\ (Domains # {} => Approved(<<"requirements", d>>))

(* The checks of a gate, on the versions it read: a feature has requirements *)
(* and a design that agree, and the Skills trace to the latest requirements. *)
DocumentsPass(seen) ==
  \A f \in Features : /\ req(f) \in DOMAIN seen <=> design(f) \in DOMAIN seen
                     /\ req(f) \in DOMAIN seen => seen[design(f)] = seen[req(f)]
SkillsTrace(seen) ==
  /\ skills \in DOMAIN seen
  /\ \A f \in Features : req(f) \in DOMAIN seen => seen[skills] >= seen[req(f)]
  /\ \E f \in Features : req(f) \in DOMAIN seen /\ seen[skills] = seen[req(f)]
Passes(seen) == DocumentsPass(seen) /\ SkillsTrace(seen)
-----------------------------------------------------------------------------
Init ==
  /\ content = [p \in Paths |-> IF p[2] \in Initial \/ p = skills THEN 1 ELSE 0]
  /\ newest = content /\ restores = 0
  /\ reviewed = [slot |-> release, manifest |-> None] /\ approvals = [slot \in Slots |-> None]
  /\ quality = NoQuality /\ cmd = NoCommand

Idle == cmd = NoCommand

Edit(p) ==
  /\ FoldFunction(+, 0, newest) < MaxVersions
  /\ newest' = [newest EXCEPT ![p] = @ + 1]
  /\ content' = [content EXCEPT ![p] = newest[p] + 1]
  /\ UNCHANGED <<restores, reviewed, approvals, quality, cmd>>

(* A checkout or an undo brings an earlier version back, or the file goes.   *)
Restore(p) ==
  /\ Idle /\ restores < MaxRestores /\ restores' = restores + 1
  /\ \E version \in 0..newest[p] \ {content[p]} : content' = [content EXCEPT ![p] = version]
  /\ UNCHANGED <<newest, reviewed, approvals, quality, cmd>>

(* approval prepare shows the manifest. A manifest of versions that were     *)
(* never there together is refused until they are; its reads are one step.   *)
Prepare(slot) ==
  /\ Idle /\ Resolvable
  /\ reviewed' = [slot |-> slot, manifest |-> approvalManifest(slot)]
  /\ UNCHANGED <<content, newest, restores, approvals, quality, cmd>>

(* A command reads what is left, then takes its next step.                   *)
Gate(for) == [op |-> "gate", for |-> for, step |-> "before", left |-> evidenceInputPaths,
              inputs |-> <<>>, seen |-> <<>>, pass |-> FALSE, approved |-> FALSE, stable |-> FALSE]

(* The slot's paths are listed with the features known when the command      *)
(* began.                                                                    *)
Manifest(for) ==
  LET listed == stagePaths(for.slot, for.features)
      expected == for.expected
  IN IF for.features # expected.features \/ listed # DOMAIN expected.artifacts \/ listed = {} THEN NoCommand
     ELSE [op |-> "manifest", for |-> for, left |-> listed, read |-> <<>>]

runGate ==
  /\ Idle /\ cmd' = Gate(NoCommand)
  /\ UNCHANGED <<content, newest, restores, reviewed, approvals, quality>>

recordApproval(slot) ==
  LET for == [op |-> "record", slot |-> slot, expected |-> reviewed.manifest, features |-> FeaturesOf(slot)] IN
  /\ Idle /\ reviewed.slot = slot /\ reviewed.manifest # None
  /\ Resolvable /\ validateStageArtifacts(slot) /\ RequiredApprovals(slot)
  /\ cmd' = IF slot = release THEN Gate(for) ELSE for
  /\ UNCHANGED <<content, newest, restores, reviewed, approvals, quality>>

(* The inputs are read before the checks and after them, and compared.       *)
(* Mutant: a path that is still there counts as unchanged.                   *)
UnchangedInputMutant(p) == p \in DOMAIN cmd.inputs

UnchangedInput(p) == p \in DOMAIN cmd.inputs /\ cmd.inputs[p] = content[p]

Read(p) ==
  /\ cmd.op = "gate" /\ p \in cmd.left
  /\ cmd' =
       CASE cmd.step = "checks" -> [cmd EXCEPT !.left = @ \ {p}, !.seen = WithVersion(@, p)]
         [] cmd.step = "before" -> [cmd EXCEPT !.left = @ \ {p}, !.inputs = WithVersion(@, p)]
         [] cmd.step = "after" -> [cmd EXCEPT !.left = @ \ {p}, !.inputs = WithVersion(@, p),
                                              !.stable = @ /\ UnchangedInput(p)]
  /\ UNCHANGED <<content, newest, restores, reviewed, approvals, quality>>

(* All files are listed anew for the checks; approvals are checked last, and *)
(* what the check of approvals reads is read in one step.                    *)
Check ==
  /\ cmd.op = "gate" /\ cmd.step = "before" /\ cmd.left = {}
  /\ cmd' = [cmd EXCEPT !.step = "checks", !.left = files]
  /\ UNCHANGED <<content, newest, restores, reviewed, approvals, quality>>

Compare ==
  /\ cmd.op = "gate" /\ cmd.step = "checks" /\ cmd.left = {} /\ Resolvable
  /\ cmd' = [cmd EXCEPT !.step = "after", !.left = evidenceInputPaths, !.seen = <<>>,
                        !.pass = Passes(cmd.seen), !.approved = validateApprovals, !.stable = TRUE]
  /\ UNCHANGED <<content, newest, restores, reviewed, approvals, quality>>

(* The report is written, whatever the gate was run for; a release is        *)
(* approved only after checks that pass, but for the one of approvals.       *)
Report ==
  /\ cmd.op = "gate" /\ cmd.step = "after" /\ cmd.left = {}
  /\ LET sound == cmd.pass /\ cmd.stable IN
     /\ quality' = IF sound /\ cmd.approved THEN [status |-> "pass", fingerprints |-> cmd.inputs]
                   ELSE [status |-> "fail", fingerprints |-> <<>>]
     /\ cmd' = IF sound THEN cmd.for ELSE NoCommand
  /\ UNCHANGED <<content, newest, restores, reviewed, approvals>>

ListManifest ==
  /\ cmd.op = "record" /\ cmd' = Manifest(cmd)
  /\ UNCHANGED <<content, newest, restores, reviewed, approvals, quality>>

(* The manifest is compared with the one the human was shown.                *)
(* Mutant: the approval is given for what is there now.                      *)
ExpectedMutant(p) == TRUE

Expected(p) == content[p] = cmd.for.expected.artifacts[p]

ReadManifest(p) ==
  /\ cmd.op = "manifest" /\ p \in cmd.left
  /\ cmd' = IF Expected(p) THEN [cmd EXCEPT !.left = @ \ {p}, !.read = WithVersion(@, p)] ELSE NoCommand
  /\ UNCHANGED <<content, newest, restores, reviewed, approvals, quality>>

WriteApproval ==
  /\ cmd.op = "manifest" /\ cmd.left = {}
  /\ approvals' = [approvals EXCEPT ![cmd.for.slot] = [cmd.for.expected EXCEPT !.artifacts = cmd.read]]
  /\ cmd' = NoCommand
  /\ UNCHANGED <<content, newest, restores, reviewed, quality>>

(* An error or an interruption; what was written before stays.               *)
Interrupt ==
  /\ ~Idle /\ cmd' = NoCommand
  /\ UNCHANGED <<content, newest, restores, reviewed, approvals, quality>>

Next ==
  \/ \E p \in Paths : Edit(p) \/ Restore(p) \/ Read(p) \/ ReadManifest(p)
  \/ \E slot \in Slots : Prepare(slot) \/ recordApproval(slot)
  \/ runGate \/ Check \/ Compare \/ Report \/ ListManifest \/ WriteApproval \/ Interrupt

Spec == Init /\ [][Next]_vars
-----------------------------------------------------------------------------
(* projectStatus.                                                            *)
Ready ==
  /\ Resolvable /\ validateApprovals
  /\ quality.status = "pass" /\ quality.fingerprints = snapshot(evidenceInputPaths)

(* The documents of a project shown as ready pass the checks as they stand,  *)
(* though they were edited while the gate read them file by file; so do its  *)
(* Skills when the release is approved, which no fingerprint covers.         *)
ReadyPassesNow ==
  Ready => /\ DocumentsPass(snapshot(files))
           /\ Approved(release) => SkillsTrace(snapshot(files))

(* What is approved for release passes the checks as it stands.              *)
ReleasePassesNow == Approved(release) => Passes(snapshot(files))

(* The stages an approval of the slot rests on.                              *)
Earlier(slot) ==
  {e \in Slots :
     \/ slot[1] = "design" /\ e = <<"requirements", slot[2]>>
     \/ slot = release /\ (e[1] = "design" \/ (e[1] = "requirements" /\ Domains # {}))}

(* An approval that is current when it is written rests on current approvals *)
(* of the stages before it, in every domain, though files were edited and    *)
(* features added between the checks of recording and its write. It need not *)
(* stay so: the earlier stage may be approved again, and its documents       *)
(* brought back to what the later approval was given for.                    *)
ApprovalsRestOnCurrent ==
  [][\A slot \in Slots :
       approvals'[slot] # approvals[slot] /\ Approved(slot)' =>
         \A e \in Earlier(slot) : Approved(e)']_vars
=============================================================================
